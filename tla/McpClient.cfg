CONSTANTS
  c1 = c1
  c2 = c2
  None = None
  Calls <- TwoCalls
  Faulty <- SomeFaulty
SPECIFICATION Spec
INVARIANTS OwnAnswer HealthyServerAnswers LossNeedsRival
PROPERTIES CallsReturn
CHECK_DEADLOCK FALSE
