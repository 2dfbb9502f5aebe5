CONSTANTS
  a = a
  b = b
  c = c
  ghost = ghost
  x = x
  y = y
  z = z
  Steps <- ThreeSteps
  Ghosts <- OneGhost
  Workflows <- AllFiles
  Stores <- BothStores
  MayExpire = TRUE
  SubSteps <- SubIDs
  Subs <- AllSubs
  Compositions <- AllCompositions
  Answered = TRUE
SPECIFICATION SubSpec
INVARIANTS StartsAfterDepends FailureIsExplicit CompleteDidEveryStep ReturnMatchesRun CallsAgree UsageRollsUp WebhooksOptIn
PROPERTIES EnvelopeEntriesFinal ExecuteReturns
