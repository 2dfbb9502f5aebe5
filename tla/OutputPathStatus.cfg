CONSTANTS
  Kinds = {"agent"}
  Fields = {"fatal", "high", "skip", "required"}
SPECIFICATION Spec
INVARIANTS StatusAsDocumented
