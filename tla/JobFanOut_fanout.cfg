SPECIFICATION Spec
CONSTANTS
  Jobs = {1, 2}
  Triggers = {"t1", "m1", "m2"}
  Manual = {"m1", "m2"}
  Edited = {1}
  Retired = {2}
  MaxRevision = 2
  MaxStarts <- TwiceBySns
INVARIANTS
  TypeOK
  ListedAreEnqueued
PROPERTIES
  ManualRunsAreKept
CHECK_DEADLOCK FALSE
