SPECIFICATION Spec
CONSTANTS
  w1 = w1
  w2 = w2
  w3 = w3
  w4 = w4
  s1 = s1
  s2 = s2
  x = x
  wk = wk
  sp = sp
  Unbounded = Unbounded
  None = None
  Windows <- ThreeWindows
  Strongs = {s1}
  Externals = {}
  Deps <- PatchDeps
  StrongOf <- FirstStrong
  Modes = {"double"}
  Chain <- PatchChain
  Pools <- MCPools
  PoolOf <- MCPoolOf
  UnitCount <- OneUnit
  Demand <- MCDemand
  Capacity <- NoCapacity
  Instant = {}
  Depth <- NoPipeline
INVARIANTS HoldsEnd
CHECK_DEADLOCK FALSE
