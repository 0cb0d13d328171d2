SPECIFICATION Spec
CONSTANTS
  w1 = w1
  w2 = w2
  w3 = w3
  w4 = w4
  s1 = s1
  s2 = s2
  x = x
  wk = wk
  sp = sp
  Unbounded = Unbounded
  None = None
  Windows <- AllWindows
  Strongs = {s1, s2}
  Externals = {}
  Deps <- LongPatchDeps
  StrongOf <- OuterStrong
  Chain <- LongChain
  Pools <- MCPools
  PoolOf <- MCPoolOf
  UnitCount <- OneUnit
  Demand <- LongDemand
  Capacity <- ThreeAndOne
  Instant = {s2}
  Depth <- ShallowPipeline
  Modes = {"serial", "parallel", "double"}
INVARIANTS TablesAgree GateRespected HoldsExact
PROPERTIES IntakeExclusive OthersEnd ImplementsService
CHECK_DEADLOCK FALSE
