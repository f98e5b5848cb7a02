SPECIFICATION MCSpec
CONSTANTS
  Senders <- MCSenders
  Closers <- MCClosers
  Buffer = 2
  MaxRecords = 2
  LogRows = {"r1", "r2"}
  RunRows = {"u1"}
  Ticks = {"t1"}
  Callers = {"c1"}
  Configs <- MCConfigs
  DefaultBatch = 5
  LastDay = 2
CHECK_DEADLOCK FALSE
INVARIANTS
  AcceptedInOrder
  DrainedIsComplete
  SingleSweep
PROPERTIES
  LoggingReturns
  AcceptedIsWritten
  OnlyExpiredGo
  SweptClean
  StopReturns
  ExpiredRowsGo
