SPECIFICATION Spec
CONSTANTS
  a = a  b = b  c = c
  Nobody = Nobody
  Goroutine <- Goroutines
  Calls <- TrackOnly
  CallsFrom <- AnyDrop
  MaxDepth = 2
CHECK_DEADLOCK FALSE
PROPERTY TrackReturns
