SPECIFICATION ServicesSpec
CONSTANTS
  Starts <- HalfHours
  SourceZones <- Sources
  DisplayZones <- Dubai
  Windows <- ExamWindows
  Minute = 4
  RateConfigs <- Buckets
  GlobalRpms = {2, 3}
  MinThrottle = 500
  ThrottleStep = 500
  RecoverAfter = 2
  Tuners = {a1, a2}
  FloorRpm = 150
  NormalTuning <- Normal
  FastTuning <- Fast
  OperatorRpms = {20}
  MaxOperatorActs = 2
  Workers = {w1, w2}
  StaleAge = 1
  OfflineAge = 2
  PurgeAge = 3
  Faults = {"circuit", "backlog"}
  Detectors = {d1, d2}
  MaxMishaps = 2
  MemoTiles = {"overview"}
  LiveTiles = {"queue"}
  Ticks = {k1, k2}
  Viewers = {v1, v2}
  MemoTtl = 2
  PrimingAge = 1
  MaxData = 1
  MaxUpsets = 3
  Ids = {1, 2, 3}
  Rows <- SampleRows
  Queries <- SampleQueries
  Students = {s1}
  ReadLimit = 1
  Conditions <- SampleConditions
  Refreshers = {f1, f2}
  Owners = {o1}
  PageTypes = {p1}
  Views = {x1, x2}
  Requests = {q1, q2}
  Files <- SampleFiles
  Routings <- SampleRoutings
  Importers = {i1, i2}
  MaxRegistrations = 3
  Records <- SampleRecords
  Servers = {"v1", "v2"}
  SubjectOf <- SubjectMap
  Unmapped = "none"
  Calls = {c1, c2}
  Processes = {tp}
  ProcessOf <- OneProcess
  NoCall = NoCall
  Orphan = Orphan
  TokenFaults = {"hang", "crash", "revoke"}
  Switchable = TRUE
INVARIANTS
  ConversionRoundTrips
  SittingRecovered
  MinuteBounded
  PatienceIsRewarded
  StraysBounded
  TilesAgree
  RefreshCatchesUp
  OneDefault
  OnePerKey
  NoVerdictWithoutData
  SingleFlight
  WaitersAreServed
PROPERTIES
  EasesToCeiling
  DeadIsForgotten
  LivingIsCounted
  AlertsFollow
  ViewersCatchUp
  StaffWorkIsKept
  KnownIsKept
  RecoversOnceUp
  FreezeDrains
  AbandonedLockIsFreed
CHECK_DEADLOCK FALSE
