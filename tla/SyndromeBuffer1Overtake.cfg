SPECIFICATION Spec
CONSTANTS
  a = a
  b = b
  a1 = a1
  a2 = a2
  b1 = b1
  Ops <- TwoOps
  Length <- MCLength
  Windows <- MCWindows
  OpOf <- MCOpOf
  Reads <- MCReads
  Context <- MCContext
  Deps <- MCDeps
  Capacity = Unbounded
  Unbounded = Unbounded
  Lag = FALSE
PROPERTIES EveryOperationRetires
CHECK_DEADLOCK FALSE
