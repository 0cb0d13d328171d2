SPECIFICATION SwitchSpec
CONSTANTS
  None = None
  Windows = {w1, w2}
  Modes = {"serial", "parallel", "deferred"}
  Bulk = FALSE
  SlotCount = 1
  MaxBatches = 0
  Configs <- ConfigsDef
  FixedThreshold = 2
  NewThreshold = 4
  InitialThreshold = 2
  InitialTarget = 2
  MinTarget = 1
  MaxTarget = 4
  AdjustFactor = 2
  RateScale = 8
  RelaxQuota = 2
INVARIANTS RequestsSound CorrectionsOnce AuditsAnswered LinksInOrder
PROPERTY EveryWindowFinal
CHECK_DEADLOCK FALSE
