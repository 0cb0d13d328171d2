SPECIFICATION Spec
CONSTANTS
  Modes <- ChainModes
  Body <- ChainBody
  Blocking <- ChainBlocking
  F = 2
  B = 2
  Limit = 5
  MaxIdle = 3
  MaxDrops = 0
INVARIANT CountedHaveArrived
CHECK_DEADLOCK FALSE
