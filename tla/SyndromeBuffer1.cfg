SPECIFICATION Spec
CONSTANTS
  a = a
  b = b
  a1 = a1
  a2 = a2
  b1 = b1
  Ops <- TwoOps
  Length <- MCLength
  Windows <- MCWindows
  OpOf <- MCOpOf
  Reads <- MCReads
  Context <- MCContext
  Deps <- MCDeps
  Capacity = 5
  Unbounded = Unbounded
  Lag = TRUE
INVARIANTS RoomSound GateIsSound RetiredIsFinal
PROPERTIES OrderlyRetires
CHECK_DEADLOCK FALSE
