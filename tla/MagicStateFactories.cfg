SPECIFICATION Spec
CONSTANTS
  NumOps = 3
  Factories <- MCFactories
  MaxFailures = 1
INVARIANTS
  CountersSound
  DemandHasWork
PROPERTIES
  EveryRequestServed
CHECK_DEADLOCK FALSE
