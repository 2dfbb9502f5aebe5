CONSTANTS
  MaxLength = 4
  MaxItems <- SomeMaxItems
  Concurrency <- SomeConcurrency
  MaxFailures <- SomeMaxFailures
SPECIFICATION Spec
INVARIANTS ConcurrencyBounded UsageAdditive
PROPERTIES Returns
