CONSTANTS
  a = a
  b = b
  c = c
  ghost = ghost
  x = x
  y = y
  z = z
  Steps <- ThreeSteps
  Ghosts <- OneGhost
  Workflows <- AllFiles
  Stores <- OnlyMem
  MayExpire = FALSE
  SubSteps <- SubIDs
  Subs <- AllSubs
  Compositions <- OneCall
  Answered = FALSE
SPECIFICATION SubSpec
PROPERTIES SubRunEnds
