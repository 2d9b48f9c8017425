SPECIFICATION SupplySpec
CONSTANTS
  k1 = k1
  k2 = k2
  k3 = k3
  w1 = w1
  w2 = w2
  p1 = p1
  p2 = p2
  r1 = r1
  r2 = r2
  y1 = y1
  NoJob = NoJob
  NoWorker = NoWorker
  Jobs = {j1, j2}
  Kinds = {k1, k2}
  Workspaces = {w1}
  Years = {y1}
  Scopes = {y1}
  WsOf <- OneWorkspace
  ScopesOf <- YearOnFirst
  Workers = {p1}
  Runners = {r1}
  WorkerOf <- OneProcess
  Clients = {c1}
  MaxAttempts = 2
  GlobalMax = 2
  WsCap = 2
  Faults = {"crash"}
  Operations = {"pauseYear", "pause"}
  MaxCrashes = 1
  MaxClaims = 9
PROPERTIES
  RunningEnds
  WaitingRuns
  PauseDrains
CHECK_DEADLOCK FALSE
