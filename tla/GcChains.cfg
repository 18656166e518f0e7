SPECIFICATION Spec
CONSTANTS
  Cell = {c1, c2, c3}
  StaticThunk = {}
  StaticClosure = {}
  StaticLeaf = {b}
  Null = Null
  InitialHeap = 1
  Created = {"data", "thunk"}
  MaxHeap = 1
  MaxStack = 1
  MaxBindings = 1
  MaxFields = 0
SYMMETRY CellSymmetry
INVARIANTS ListExact
PROPERTIES ExactCollection ImplementsPromise
