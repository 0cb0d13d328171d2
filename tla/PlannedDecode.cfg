SPECIFICATION FairSpec
CONSTANTS
  None = None
  Configs <- AllConfigs
INVARIANTS PlanSound LedgerSound SyndromeCancelled NoInternalError
PROPERTY OperationsFinish
CHECK_DEADLOCK FALSE
