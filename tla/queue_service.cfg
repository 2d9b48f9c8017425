SPECIFICATION Spec
CONSTRAINT ThreeRowsOnce
CONSTANTS
  k1 = k1
  k2 = k2
  k3 = k3
  w1 = w1
  w2 = w2
  p1 = p1
  p2 = p2
  r1 = r1
  r2 = r2
  y1 = y1
  NoJob = NoJob
  NoWorker = NoWorker
  Jobs = {j1, j2, j3}
  Kinds = {k1, k2}
  Workspaces = {w1}
  Years = {}
  Scopes = {}
  WsOf <- OneWorkspace
  ScopesOf <- NoScopes
  Workers = {p1, p2}
  Runners = {r1, r2}
  WorkerOf <- TwoProcesses
  Clients = {c1, c2}
  MaxAttempts = 2
  GlobalMax = 2
  WsCap = 1
  Faults = {"crash", "breaker"}
  Operations = {}
  MaxCrashes = 1
  MaxClaims = 9
INVARIANTS
  NoJobProcessedTwice
  RetryBudget
  WorkspaceLoadBounded
  DuplicatesBounded
PROPERTIES
  ImplementsLifecycle
SYMMETRY AllTwins
CHECK_DEADLOCK FALSE
