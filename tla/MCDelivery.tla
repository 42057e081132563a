----------------------------- MODULE MCDelivery -----------------------------
(* Delivery on small instances: two processes, and one with two flushers.   *)
EXTENDS Delivery, TLC

CONSTANTS p, q, f, g, command

OneProc == {p}
TwoProcs == {p, q}
Flushers == {f, g}
OwnerOne == (f :> p) @@ (g :> p)
OwnerTwo == (f :> p) @@ (g :> q)
OneKind == {command}
=============================================================================
