SPECIFICATION Spec
CONSTANTS
  Grammars <- MCGrammars
  Bytes = {1, 2}
  InputBound = 3
INVARIANTS CountsExact NoAssertFails SameMeaning NothingLeftToDo
PROPERTY Terminates
CHECK_DEADLOCK FALSE
