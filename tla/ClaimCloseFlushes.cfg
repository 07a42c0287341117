SPECIFICATION Spec
CONSTANTS
  BatchSize = 2
  Interval = TRUE
  Timeout = FALSE
  MaxEvents = 3
  MaxFailures = 0
PROPERTY CloseFlushes
CHECK_DEADLOCK FALSE
