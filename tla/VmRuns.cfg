\* Every program of MCPrograms, compiled and executed to its end.
CONSTANTS
  Programs <- MCPrograms
  Layouts <- MCLayouts
  StackSizes = {64}
  MaxHeap = 120
SPECIFICATION FairSpec
INVARIANTS TypeOK Agrees NoFault Balanced Linked OneEvaluation LoadsWhatWasSaved CodeObeys EndsInMain
PROPERTIES Terminates OnlyReachable
