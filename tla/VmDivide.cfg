\* The order of the operands that bytecode.h documents for OP_DIVIDE.
CONSTANTS
  Programs <- MCPrograms
  Layouts <- NoLayouts
  StackSizes = {64}
  MaxHeap = 120
SPECIFICATION FairSpec
PROPERTIES DivideAsDocumented
