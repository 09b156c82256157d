SPECIFICATION FairSpec
CONSTANTS
  Users <- MCUsers
  Warmer <- MCWarmer
  ChunkSz = 4
  NumChunks = 2
  PageSz = 2
  Passes = 2
  Wins <- MCWins
  Counts <- MCCounts
  Seeks <- MCSeeks
  MaxCalls = 2
INVARIANTS BufInv WindowIsWarm
PROPERTIES ImplementsFlat WarmingEnds
CHECK_DEADLOCK FALSE
