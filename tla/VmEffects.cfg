\* Every program of MCEffects, compiled and executed to its end.
CONSTANTS
  Programs <- MCPrograms
  Layouts <- MCLayouts
  StackSizes = {64}
  MaxHeap = 4000
SPECIFICATION Spec
INVARIANTS EffectsAsMeant CodeObeys
