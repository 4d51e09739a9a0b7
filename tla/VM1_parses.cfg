SPECIFICATION Spec
CONSTANTS
  NoSym = NoSym
  Nil = Nil
  NoNode = NoNode
  FailedResult = FailedResult
  WindowSize = 4
  MemoPoints = 2
  SourceAddr = 5
  StackSize = 60
  InputBound = 4
  Sources <- ParseSources
  Programs <- MCPrograms
  Inputs <- MCInputs
  LeftOver <- NullLeftOver
INVARIANTS TypeOK FrameChain SavepointsNest BacktrackExact EndsClean NoCrash AgreesWithPEG MemoSound TMemoLinks
PROPERTIES FailRestores Terminates
