SPECIFICATION Spec
CONSTANTS
  a = a  b = b  c = c
  Nobody = Nobody
  Goroutine <- Goroutines
  Calls <- TrackOnly
  CallsFrom <- TooManyFields
  MaxDepth = 2
INVARIANTS TypeOK MutexScope HolderAtWork
PROPERTY TrackReturns
