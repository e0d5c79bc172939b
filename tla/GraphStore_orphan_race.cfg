SPECIFICATION Spec
CONSTANTS
  Graphs = {g1}
  Versions = {1}
  Chunks = {c1, c2}
  Pruners = {p1}
  Queriers = {q1}
  PrunerMaxAge = 1
  QueryMaxAge = 1
  QueryTimeout = 0
  MaxTime = 2
  MaxFailures = 0
  Exclusive = FALSE
INVARIANT
  RegisteredFullyLoaded
