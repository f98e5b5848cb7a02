SPECIFICATION MCSpec
CONSTANTS
  a = a
  b = b
  c = c
  Rows <- MCRows
  Wm <- MCWm
  BatchSize = 1
  MaxRuns = 3
  ReplaceRuns = 3
  MaxBatches = 2
  Absent = Absent
SYMMETRY Symmetry
INVARIANTS
  NoLoss
  DuplicatesOnlyFromFailures
  ReportedSuccessDurable
  SuccessPublished
  NothingInTheWay
PROPERTIES
  TerminalIsFinal
  OnlyLiveRunsWrite
  ImplementsAtomicReplace
