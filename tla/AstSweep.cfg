SPECIFICATION Spec
CONSTANTS
  Bits = 2
  Blocks = 4
  PoolSize = 1
  MoreSegments = 1
  SmallArray = 1
  MarkSlots = 2
  Nil = Nil
  NoNode = NoNode
  Positions = {0}
  Details = {}
  Labels = {Nil}
  MemoSlots = 1
  MaxLinks = 1
  MaxNodes = 3
  MaxSegments = 2
INVARIANTS BitmapsExact NoAssertFails ArraysExact
PROPERTIES ImplementsTrees ImplementsMarkSweep BuildEnds
CHECK_DEADLOCK FALSE
VIEW View
