SPECIFICATION Spec
CONSTANTS
  Runners = {r1, r2}
  Callers = {}
  Schedulers = {s1}
  Modes = {"ADAPTIVE"}
  OperatorActions = {"batch"}
  Failures = {"API_ERROR", "RATE_LIMITED"}
  MaxCalls = 1
  MaxCrashes = 0
INVARIANTS
  StoppedMeansCompleted
SYMMETRY AnyRunner
CHECK_DEADLOCK FALSE
