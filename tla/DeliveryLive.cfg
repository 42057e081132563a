SPECIFICATION FairSpec
CONSTANTS
  p = p  q = q  f = f  g = g  command = command
  NoOne = NoOne
  Proc <- OneProc
  Flusher <- Flushers
  Owner <- OwnerOne
  Kind <- OneKind
  MaxSize = 2
  MaxBatch = 1
  MaxRetries = 1
  MaxEvents = 3
  MaxStarts = 2
  MaxFailures = 2
  MaxFaults = 0
CHECK_DEADLOCK FALSE
INVARIANTS OnePlace
PROPERTIES FlushReturns EventuallyRecorded
