CONSTANTS
  r1 = r1
  r2 = r2
  Dispatch = dispatch
  Timer = timer
  Deciders <- OneReviewer
  Policies <- AllPolicies
  Store = "mem"
  Recorded = TRUE
  Events <- Delivered
SPECIFICATION FairSpec
INVARIANTS AnswerFindsWaiter UsageAccounted ApprovedRunExecuted
PROPERTIES StepNeverReopens ImplementsGatedCall RunEnds SendersDrain
CHECK_DEADLOCK FALSE
