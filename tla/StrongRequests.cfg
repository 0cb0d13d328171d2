SPECIFICATION Spec
CONSTANTS
  a = a
  b = b
  c = c
  Windows = {a, b, c}
  None = None
  Modes = {"serial", "parallel", "deferred"}
  Bulk = FALSE
  SlotCount = 2
  MaxBatches = 0
INVARIANTS TypeOK LedgerMatchesPool ResultHasConsumer OneCarrier
PROPERTIES EscalatedIsAnswered Settles
CHECK_DEADLOCK FALSE
