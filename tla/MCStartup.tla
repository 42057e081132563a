----------------------------- MODULE MCStartup -----------------------------
(* Startup with one Logger that loads its FUSConfig, one that is passed one, *)
(* and a third that does either.                                             *)
EXTENDS Startup, TLC

CONSTANTS a, b, c, k, s1, s2

Loggers == {a, b, c}
Configs == {k}
Salts == {s1, s2}
OneLoads == {(a :> Nothing) @@ (b :> x) @@ (c :> k) : x \in {Nothing, k}}
SameSalt == (a :> NoSalt) @@ (b :> s1) @@ (c :> s1)
=============================================================================
