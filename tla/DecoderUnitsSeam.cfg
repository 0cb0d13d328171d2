SPECIFICATION Spec
CONSTANTS
  w1 = w1
  w2 = w2
  w3 = w3
  w4 = w4
  s1 = s1
  s2 = s2
  x = x
  wk = wk
  sp = sp
  Unbounded = Unbounded
  None = None
  Windows <- AllWindows
  Strongs = {}
  Externals = {x}
  Deps <- SeamDeps
  StrongOf <- NoStrong
  Chain <- EmptyChain
  Pools <- MCPools
  PoolOf <- MCPoolOf
  UnitCount <- OneUnit
  Demand <- MixedDemand
  Capacity <- ThreeEach
  Instant = {x}
  Depth <- WeakPipeline
  Modes = {"weak"}
INVARIANTS NothingForgotten
PROPERTIES WindowsDecode
CHECK_DEADLOCK FALSE
