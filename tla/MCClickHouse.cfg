SPECIFICATION FairSpec
CONSTANTS
  BatchSize = 2
  Interval = TRUE
  Timeout = TRUE
  MaxEvents = 5
  MaxFailures = 2
INVARIANTS TypeOK BufferIsSuffix StoredInOrder DuplicatesNeedFailures
PROPERTY EventuallyStored
CHECK_DEADLOCK FALSE
