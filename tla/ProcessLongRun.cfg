SPECIFICATION LongRunsSpec
CONSTANTS
  l1 = l1
  j1 = j1
  Loads = {l1}
  Jobs = {j1}
  Configs <- MCConfigs
  Absent = Absent
  ValidCrons = {"c1"}
  Histories <- OneLoad
  Racing <- OneLoad
  Source = "s"
  Params = "p"
  NoParams = NoParams
  Conns = {"x"}
  NoConn = NoConn
  Probes = {"q"}
  Nobody = Nobody
  Active = {"poll"}
  Sessions = {"pool", "ephemeral"}
CHECK_DEADLOCK FALSE
PROPERTY SigtermStopsScheduler
