SPECIFICATION SwitchSpec
CONSTANTS
  None = None
  Windows = {w1, w2, w3}
  Modes = {"serial", "parallel", "deferred"}
  Bulk = FALSE
  SlotCount = 1
  MaxBatches = 0
  Configs <- SharedSetupConfigs
  FixedThreshold = 2
  NewThreshold = 4
  InitialThreshold = 2
  InitialTarget = 2
  MinTarget = 1
  MaxTarget = 4
  AdjustFactor = 2
  RateScale = 8
  RelaxQuota = 2
INVARIANT SendsInOrder
CHECK_DEADLOCK FALSE
