\* A condition of a case branch that is an application.
CONSTANTS
  Programs <- MCGuardPrograms
  Layouts <- NoLayouts
  StackSizes = {64}
  MaxHeap = 120
SPECIFICATION Spec
INVARIANTS NotABoolean
