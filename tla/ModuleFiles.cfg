SPECIFICATION RSpec
CONSTANTS
  PATH_RESOLUTION_RECURSION_LIMIT = 32
  FollowLimit = 5
  Names <- MCNames
  Nodes <- MCNodes
  Queries <- MCQueries
  Programs <- MCDirectories
INVARIANT FilesBeside
CHECK_DEADLOCK FALSE
