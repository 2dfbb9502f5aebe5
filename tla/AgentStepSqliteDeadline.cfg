CONSTANTS
  r1 = r1
  r2 = r2
  Dispatch = dispatch
  Timer = timer
  Deciders <- OneReviewer
  Policies <- RejectFails
  Store = "sqlite"
  Recorded = TRUE
  Events <- OnlyDeadline
SPECIFICATION FairSpec
PROPERTIES DeadlineFailsRun
CHECK_DEADLOCK FALSE
