SPECIFICATION RSpec
CONSTANTS
  PATH_RESOLUTION_RECURSION_LIMIT = 32
  FollowLimit = 5
  Names <- MCNames
  Nodes <- MCNodes
  Queries <- MCQueries
  Programs <- MCPrograms
INVARIANTS
  TypeOK
  Represented
  PathsAgree
  PrivacyKept
PROPERTIES
  ResolutionEnds
  FollowKeepsMeaning
  FollowsDeclarations
  ReferencesEnd
CHECK_DEADLOCK FALSE
