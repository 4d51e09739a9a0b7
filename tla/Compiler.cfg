SPECIFICATION Spec
CONSTANTS
  Grammars <- MCGrammars
  Bytes = {1, 2}
  InputBound = 3
  StackBound = 40
  Fuel = 100
INVARIANTS EdgesExact NoAssertFails SimplifiedAlike AgreesWithPEG
PROPERTY Terminates
CHECK_DEADLOCK FALSE
