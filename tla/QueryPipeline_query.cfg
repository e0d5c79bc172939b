SPECIFICATION FairSpec
CONSTANTS
  Jobs = {1}
  Triggers = {"t1"}
  Sent <- SentFirst
  MaxRevision = 2
  Expiration <- Shorter
  NotifyIfResults <- OnlyFirst
  MaxReceives <- Twice
  MaxTime = 2
INVARIANTS
  TypeOK
  StoredHaveJobs
  AcknowledgedAreDelivered
PROPERTIES
  ExpiredAreDeleted
  EveryMessageEnds
CHECK_DEADLOCK FALSE
