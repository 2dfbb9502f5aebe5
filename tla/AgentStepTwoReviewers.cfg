CONSTANTS
  r1 = r1
  r2 = r2
  Dispatch = dispatch
  Timer = timer
  Deciders <- TwoReviewers
  Policies <- RejectFails
  Store = "mem"
  Recorded = TRUE
  Events <- NoEvents
SPECIFICATION Spec
INVARIANTS DecidedOnce
CHECK_DEADLOCK FALSE
