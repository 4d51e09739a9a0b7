SPECIFICATION Spec
CONSTANTS
  WindowSize = 4
  MemoPoints = 2
  SourceAddr = 5
  NoNode = NoNode
  FailedResult = FailedResult
  Positions = {0, 1, 2}
  Nodes = {n1, n2}
  Consumed = {1}
  States = {0}
INVARIANTS RefsExact HitTellsLastOutcome
