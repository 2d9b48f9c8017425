SPECIFICATION WindowSpec
CONSTANTS
  Hours = {0, 5, 6, 22, 23}
INVARIANTS
  ClearedMeansAlways
CHECK_DEADLOCK FALSE
