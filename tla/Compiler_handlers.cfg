SPECIFICATION Spec
CONSTANTS
  Grammars <- LoopGrammars
  Bytes = {1, 2}
  InputBound = 3
  StackBound = 40
  Fuel = 100
INVARIANT NoAssertFails
CHECK_DEADLOCK FALSE
