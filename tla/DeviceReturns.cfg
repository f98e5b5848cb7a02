SPECIFICATION MCSpec
CONSTANTS
  Base = 2
  Exact = 32
  SourceNames = {"plc", "ua"}
  LoadNames = {"m", "o"}
  Files <- MCFiles
  Racing <- MCRacing
  Results <- MCResults
  Neighbours <- MCNeighbours
PROPERTY RecoversOnFirstTick
CHECK_DEADLOCK FALSE
