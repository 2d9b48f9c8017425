SPECIFICATION FairSpec
CONSTANTS
  k1 = k1
  k2 = k2
  k3 = k3
  w1 = w1
  w2 = w2
  p1 = p1
  p2 = p2
  r1 = r1
  r2 = r2
  y1 = y1
  NoJob = NoJob
  NoWorker = NoWorker
  Jobs = {j1, j2}
  Kinds = {k1, k2}
  Workspaces = {w1, w2}
  Years = {}
  Scopes = {w1, w2}
  WsOf <- OwnWorkspaces
  ScopesOf <- WorkspaceScopes
  Workers = {p1}
  Runners = {r1}
  WorkerOf <- OneProcess
  Clients = {c1}
  MaxAttempts = 2
  GlobalMax = 2
  WsCap = 2
  Faults = {}
  Operations = {"pause"}
  MaxCrashes = 1
  MaxClaims = 9
PROPERTIES
  DueRetryRuns
CHECK_DEADLOCK FALSE
