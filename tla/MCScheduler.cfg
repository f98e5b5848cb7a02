SPECIFICATION MCSpec
CONSTANTS
  l1 = l1
  l2 = l2
  j1 = j1
  j2 = j2
  Absent = Absent
  Loads <- MCLoads
  Jobs <- MCJobs
  Configs <- MCConfigs
  ValidCrons = {"c1", "c2"}
  Histories <- MCHistories
  Racing <- MCRacing
CHECK_DEADLOCK FALSE
INVARIANTS
  NoOverlap
  EntriesAccounted
  NoRunningRowAfterSweep
  ShownRunningTruthful
  FingerprintVouches
PROPERTIES
  DrainedMeansIdle
  OrderlyConvergence
