SPECIFICATION Spec
CONSTANTS
  Programs <- MCPrograms
  Cycle = 3
  MaxWait = 5
  MaxTick = 60
INVARIANTS
  ProtocolHolds
  StartsOnceAlone
  OneRoundPerCycle
  RequiredRoundsShown
PROPERTIES
  ProgramEnds
CHECK_DEADLOCK FALSE
