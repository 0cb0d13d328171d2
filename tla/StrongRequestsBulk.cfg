SPECIFICATION Spec
CONSTANTS
  a = a
  b = b
  c = c
  d = d
  Windows = {a, b, c, d}
  None = None
  Modes = {"serial"}
  Bulk = TRUE
  SlotCount = 2
  MaxBatches = 3
INVARIANTS NamesItsRequests
CHECK_DEADLOCK FALSE
SYMMETRY Symmetry
