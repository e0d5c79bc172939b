SPECIFICATION FairSpec
CONSTANTS
  AccountIds <- RepeatedAccount
  MaxTries = 2
  MaxThreads = 2
  Detached <- OneDetached
INVARIANTS
  TypeOK
  NeverTwice
  GraphMatchesResult
  MissingOnlyAfterAllTries
PROPERTIES
  RefinesOutcomes
  ScanEnds
CHECK_DEADLOCK FALSE
