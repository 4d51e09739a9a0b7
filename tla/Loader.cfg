SPECIFICATION Spec
CONSTANTS
  None = None
  TableSize = 8
  IntBit = 4
  UseProd = FALSE
  Files <- MCFiles
INVARIANTS ConstantsExact LoadedFaithfully WalkMeetsOpcodes ProductionsTile NothingLeaks
CHECK_DEADLOCK FALSE
