SPECIFICATION Spec
CONSTANTS
  IntSize = 3
  ByteBase = 2
  Numbers <- MCNumbers
  Strings <- MCStrings
  Constants <- MCConstants
  Predicates <- MCPredicates
  MaxLen = 3
  MaxStack = 2
INVARIANTS
  TypeOK
  InArray
  WhileFunctions
  ListOfSlice
PROPERTIES
  ImplementsLists
CHECK_DEADLOCK FALSE
