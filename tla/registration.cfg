SPECIFICATION Spec
CONSTRAINT OneDisturbance
CONSTANTS
  Runners = {r1, r2}
  Callers = {c1}
  Schedulers = {s1}
  Modes = {"ADAPTIVE", "SWEEP"}
  OperatorActions = {"batch", "cancel", "review"}
  Failures = {"API_ERROR"}
  MaxCalls = 1
  MaxCrashes = 1
INVARIANTS
  TerminalIsEarned
  CompletedMeansResults
SYMMETRY AnyRunner
CHECK_DEADLOCK FALSE
