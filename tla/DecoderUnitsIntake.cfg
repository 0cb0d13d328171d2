SPECIFICATION Spec
CONSTANTS
  w1 = w1
  w2 = w2
  w3 = w3
  w4 = w4
  s1 = s1
  s2 = s2
  x = x
  wk = wk
  sp = sp
  Unbounded = Unbounded
  None = None
  Windows <- ThreeWindows
  Strongs = {}
  Externals = {x}
  Deps <- PatchDeps
  StrongOf <- NoStrong
  Modes = {"weak"}
  Chain <- EmptyChain
  Pools <- MCPools
  PoolOf <- MCPoolOf
  UnitCount <- OneUnit
  Demand <- MCDemand
  Capacity <- NoCapacity
  Instant = {x}
  Depth <- WeakPipeline
PROPERTIES IntakeExclusive
CHECK_DEADLOCK FALSE
