SPECIFICATION FairSpec
CONSTANTS
  Cell = {c1, c2}
  StaticThunk = {}
  StaticClosure = {f}
  StaticLeaf = {b}
  Null = Null
  InitialHeap = 1
  Created = {"closure", "application", "data"}
  MaxHeap = 1
  MaxStack = 2
  MaxBindings = 0
  MaxFields = 1
INVARIANTS IInv
PROPERTIES CollectionEnds
