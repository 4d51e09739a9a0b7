SPECIFICATION Spec
CONSTANTS
  Grammars <- LabelGrammars
  Bytes = {1, 2}
  InputBound = 3
  StackBound = 40
  Fuel = 100
INVARIANT LabelsReach
CHECK_DEADLOCK FALSE
