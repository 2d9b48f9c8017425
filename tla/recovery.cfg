SPECIFICATION RecoverySpec
CONSTANTS
  Runners = {r1}
  Callers = {}
  Schedulers = {s1}
  Modes = {"ADAPTIVE"}
  OperatorActions = {}
  Failures = {"API_ERROR", "RATE_LIMITED"}
  MaxCalls = 0
  MaxCrashes = 1
  Reporters = {b1, b2}
  FailureThreshold = 3
  TimeoutThreshold = 2
  AuthThreshold = 2
  HalfOpenProbes = 2
INVARIANTS
  OpenHasProbeTime
PROPERTIES
  CompletionIsRecorded
  PollingStops
  ClosesOnceUp
  TripsWhileDown
CHECK_DEADLOCK FALSE
