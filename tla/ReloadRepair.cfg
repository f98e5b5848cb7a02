SPECIFICATION FairSpec
CONSTANTS
  l1 = l1
  l2 = l2
  j1 = j1
  j2 = j2
  Absent = Absent
  Loads = {l1, l2}
  Jobs = {}
  Configs <- MCConfigs
  ValidCrons = {"c1", "c2"}
  Histories <- RepairHistories
  Racing = {}
CHECK_DEADLOCK FALSE
PROPERTY Convergence
