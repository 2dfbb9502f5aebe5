CONSTANTS
  a = a
  b = b
  c = c
  ghost = ghost
  key = key
  keyring = keyring
  Steps <- ThreeSteps
  Ghosts <- OneGhost
  File <- ListedFile
  Lists <- ListedNames
  Kinds = {"agent", "item", "workflow"}
  Fields = {"fatal", "odd", "high", "skip", "note", "skipped", "required"}
  Texts <- SomeTexts
  Inputs <- SomeInputs
  Others <- Inner
  MaxOps = 4
  Merge <- DeepMerge
  AgentNames <- TwoNames
  StartsWith <- NameStarts
  Agents <- SomeAgents
  Servers <- SomeServers
  Prompts <- SomePrompts
SPECIFICATION SampleSpec
INVARIANTS CycleDetected LayersRespectDepends LeftOutForAReason FatalNeverPasses NoReservedDownstream OpsAgree DispatchResolved
PROPERTY ImplementsCreateRun
CHECK_DEADLOCK FALSE
