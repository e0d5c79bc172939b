SPECIFICATION Spec
CONSTANTS
  AccountIds <- TwoAccounts
  MaxTries = 2
  MaxThreads = 1
  Detached = {}
INVARIANT
  EveryAccountInManifest
CHECK_DEADLOCK FALSE
