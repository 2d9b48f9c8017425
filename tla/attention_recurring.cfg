SPECIFICATION AttentionSpec
CONSTANTS
  Students = {s1}
  ReadLimit = 1
  Conditions <- SampleConditions
  Refreshers = {f1, f2}
INVARIANTS
  RecurringIsReopened
