SPECIFICATION Spec
CONSTANTS
  Programs <- LatePrograms
  Cycle = 3
  MaxWait = 5
  MaxTick = 60
INVARIANTS
  NoProtocolError
CHECK_DEADLOCK FALSE
