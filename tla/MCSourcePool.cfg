SPECIFICATION Spec
CONSTANTS
  c1 = c1
  c2 = c2
  c3 = c3
  r1 = r1
  r2 = r2
  s1 = s1
  s2 = s2
  p1 = p1
  p2 = p2
  Sources = {s1, s2}
  Runs = {r1, r2}
  Params = {p1, p2}
  NoParams = NoParams
  Conns = {c1, c2, c3}
  NoConn = NoConn
  Sweepers = {"reload"}
  Probes = {"readyz"}
  LeakySources = {s1, s2}
  Nobody = Nobody
SYMMETRY Symmetry
INVARIANTS
  LeaseIsGood
  NoLeak
  SweepReachesAll
  HoldersLetGo
PROPERTY ImplementsSession
