\* Stacks of a few words: the continuation of an over-applied call.
CONSTANTS
  Programs <- MCPrograms
  Layouts <- NoLayouts
  StackSizes = {8}
  MaxHeap = 120
SPECIFICATION Spec
INVARIANTS StackFits
