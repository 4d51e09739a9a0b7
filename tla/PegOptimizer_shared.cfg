SPECIFICATION Spec
CONSTANTS
  Grammars <- SharedGrammars
  Bytes = {1, 2}
  InputBound = 4
INVARIANT SameMeaning
CHECK_DEADLOCK FALSE
