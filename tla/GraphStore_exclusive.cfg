SPECIFICATION FairSpec
CONSTANTS
  Graphs = {g1, g2}
  Versions = {1}
  Chunks = {c1}
  Pruners = {p1}
  Queriers = {q1}
  PrunerMaxAge = 2
  QueryMaxAge = 1
  QueryTimeout = 1
  MaxTime = 3
  MaxFailures = 1
  Exclusive = TRUE
INVARIANTS
  TypeOK
  RegisteredFullyLoaded
  AnswersComplete
  DataClearedUnregistered
PROPERTIES
  OnlyExpiredUnregistered
  ReturnedHasPruned
  ReadsNeverRegress
  OrphansReclaimed
  ExpiredReclaimed
