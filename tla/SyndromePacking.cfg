SPECIFICATION Spec
CONSTANTS
  s = s
  u = u
  m = m
  Streams <- MCStreams
  Memories <- MCMemories
  Length <- MCLength
  Slots <- MCSlots
  Contexts = 3
  BufferSlots = 2
  Unbounded = Unbounded
  DropRound = TRUE
  Priced = TRUE
  PackTime = TRUE
  LetGoCrossing = FALSE
  MaxRefusals = 2
INVARIANTS RetentionSound HandoverInOrder
PROPERTIES EveryRoundSettles
CHECK_DEADLOCK FALSE
