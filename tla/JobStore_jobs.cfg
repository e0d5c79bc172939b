SPECIFICATION FairSpec
CONSTANTS
  c1 = c1
  c2 = c2
  q1 = q1
  q2 = q2
  s1 = s1
  Nobody = Nobody
  Clients = {c1, c2}
  MaxVersions = 2
  Queries = {q1, q2}
  Severities = {s1}
  Ages = {1}
  AgeDefault = 1
  AgeLimit = 1
  Operators = {c1, c2}
  Reactivate = FALSE
  OverlapCreate = FALSE
INVARIANTS TypeOK AtMostOneActive ActiveHasViews
PROPERTIES PublishesOneVersion RequestsAnswered
CHECK_DEADLOCK FALSE
