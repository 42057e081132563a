--------------------------- MODULE MCLoggerMutex ---------------------------
(* LoggerMutex with three goroutines, and a callback that calls Track when  *)
(* an event has too many fields, or whenever an event is dropped.           *)
EXTENDS LoggerMutex

CONSTANTS a, b, c

Goroutines == {a, b, c}
TrackOnly == {"Track"}
TooManyFields == {"onDrop"}
AnyDrop == {"onDrop", "onDropLocked"}
=============================================================================
