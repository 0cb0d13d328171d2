SPECIFICATION Spec
CONSTANTS
  Modes <- MCModes
  Body <- MCBody
  Blocking <- MCBlocking
  F = 2
  B = 2
  Limit = 6
  MaxIdle = 3
  MaxDrops = 1
INVARIANTS
  WindowsSound
  BoundaryOnce
  ReleasedIsFinal
PROPERTY StreamSettles
CHECK_DEADLOCK FALSE
