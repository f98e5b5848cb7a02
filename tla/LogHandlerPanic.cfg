SPECIFICATION MCSpec
CONSTANTS
  Senders <- MCSenders
  Closers <- MCClosers
  Buffer = 1
  MaxRecords = 2
  LogRows = {"r1"}
  RunRows = {}
  Ticks = {"t1"}
  Callers = {}
  Configs <- MCConfigs
  DefaultBatch = 5
  LastDay = 1
CHECK_DEADLOCK FALSE
INVARIANT NoPanic
