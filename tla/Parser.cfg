SPECIFICATION MCSpec
CONSTANTS
  Letters <- MCLetters
  Digits <- MCDigits
  NumberModulus = 100
  MaxPhrase = 4
  MaxScrap = 4
  MaxItems = 3
INVARIANTS
  TypeOK
  RoundTrip
  NothingLost
  CrashAfterError
  InSource
  Lines
PROPERTIES
  Progress
CHECK_DEADLOCK FALSE
