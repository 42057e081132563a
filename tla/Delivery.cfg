SPECIFICATION Spec
CONSTANTS
  p = p  q = q  f = f  g = g  command = command
  NoOne = NoOne
  Proc <- TwoProcs
  Flusher <- Flushers
  Owner <- OwnerTwo
  Kind <- OneKind
  MaxSize = 2
  MaxBatch = 2
  MaxRetries = 1
  MaxEvents = 3
  MaxStarts = 2
  MaxFailures = 2
  MaxFaults = 1
CHECK_DEADLOCK FALSE
INVARIANTS TypeOK NothingVanishes OnePlace ConfirmedOnce CountsTrue
