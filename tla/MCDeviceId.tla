----------------------------- MODULE MCDeviceId -----------------------------
(* DeviceId with four calls, of one process after the other or of several.  *)
EXTENDS DeviceId

CONSTANTS c1, c2, c3, c4
Callers == {c1, c2, c3, c4}
=============================================================================
