CONSTANTS
  r1 = r1
  r2 = r2
  Dispatch = dispatch
  Timer = timer
  Deciders <- OneReviewer
  Policies <- RejectFails
  Store = "mem"
  Recorded = FALSE
  Events <- NoEvents
SPECIFICATION Spec
INVARIANTS ApprovedRunExecuted
CHECK_DEADLOCK FALSE
