CONSTANTS
  r1 = r1
  r2 = r2
  Dispatch = dispatch
  Timer = timer
  Deciders <- OneReviewer
  Policies <- AllPolicies
  Store = "mem"
  Recorded = TRUE
  Events <- AllEvents
SPECIFICATION FairSpec
INVARIANTS ToolNeedsApproval NoStepPastPendingApproval CompleteNeedsAnswer
PROPERTIES RunStatusFinal DeadlineEndsRun
CHECK_DEADLOCK FALSE
