CONSTANTS
  MaxTurns = 3
  MaxCalls = 2
SPECIFICATION Spec
INVARIANTS ConversationPaired GatedNeedsApproval ToolCallsCounted CallsBounded
