SPECIFICATION Spec
CONSTANTS
  Nil = Nil
  NoNode = NoNode
  PageSize = 1
  MaxPages = 3
  MaxLog = 3
  Positions = {0}
  Details <- OneTag
  Labels = {l, m}
  MemoSlots = 1
INVARIANTS RefsExact StoreExact NothingLeaks
PROPERTY ImplementsTrees
VIEW View
SYMMETRY LabelSymmetry
