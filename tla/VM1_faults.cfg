SPECIFICATION Spec
CONSTANTS
  NoSym = NoSym
  Nil = Nil
  NoNode = NoNode
  FailedResult = FailedResult
  WindowSize = 4
  MemoPoints = 2
  SourceAddr = 5
  StackSize = 30
  InputBound = 4
  Sources <- FaultSources
  Programs <- MCPrograms
  Inputs <- MCInputs
  LeftOver <- AnyLeftOver
INVARIANT BacktrackExact
PROPERTY Terminates
