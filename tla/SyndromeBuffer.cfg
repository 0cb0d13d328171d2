SPECIFICATION Spec
CONSTANTS
  a = a
  b = b
  a1 = a1
  a2 = a2
  b1 = b1
  h1 = h1
  h2 = h2
  g = g
  Unbounded = Unbounded
  NoSlot = NoSlot
  Ops <- MCOps
  Rounds <- MCRounds
  OpOf <- MCOpOf
  Holders <- MCHolders
  GuardOps <- MCGuardOps
  Capacity = 2
  MaxFaults = 1
INVARIANTS StoreSound
PROPERTIES ReleasedForever ImplementsRetention
SYMMETRY Symm
CHECK_DEADLOCK FALSE
