SPECIFICATION Spec
CONSTANTS
  Cell = {c1, c2}
  StaticThunk = {t}
  StaticClosure = {}
  StaticLeaf = {b}
  Null = Null
  InitialHeap = 1
  Created = {"leaf", "thunk"}
  MaxHeap = 1
  MaxStack = 2
  MaxBindings = 0
  MaxFields = 1
SYMMETRY CellSymmetry
INVARIANTS TypeOK NoDangling
