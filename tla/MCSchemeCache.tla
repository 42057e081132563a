--------------------------- MODULE MCSchemeCache ---------------------------
(* SchemeCache with two calls at a time.                                     *)
EXTENDS SchemeCache

CONSTANTS c1, c2
Callers == {c1, c2}
=============================================================================
