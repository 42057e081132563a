--------------------------- MODULE MCEventBuffer ---------------------------
(* EventBuffer on small instances: goroutines and events are model values.  *)
EXTENDS EventBuffer

CONSTANTS c1, c2, e1, e2, e3, e4

TwoClients == {c1, c2}
ThreeEvents == {e1, e2, e3}
FourEvents == {e1, e2, e3, e4}
OneLong == {e2}
None == {}
=============================================================================
