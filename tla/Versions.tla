------------------------------ MODULE Versions ------------------------------
(***************************************************************************)
(* How a version of the product chooses a part of what is published for    *)
(* it: fetchConfig takes the first configuration whose borders hold the    *)
(* version (findMatchingVersion, config.go), and the Validator keeps the   *)
(* events of a group whose build ranges hold it (acceptsIn, validator.go). *)
(* The two files parse and compare versions each in its own way.  The      *)
(* product is upgraded and the remote publishes new lists at any time.     *)
(***************************************************************************)
EXTENDS VersionOrder

CONSTANTS Version,   \* the version strings, as sequences of their parts
          Published  \* the lists that the remote may publish

PartOfString == Nat \cup {NotANumber} \cup DOMAIN Padded
ASSUME VersionsAssumption == /\ Version \subseteq Seq(PartOfString)
                             /\ NotANumber \notin Nat /\ DOMAIN Padded \cap Nat = {}
                             /\ \A p \in DOMAIN Padded : Padded[p] \in Nat
                             /\ Published \subseteq Seq([from : Version, to : Version] \cup {NoBorders})
                             /\ Nothing \notin Nat

VARIABLES versions, \* remoteConfigResponse.Versions
          product,  \* RecorderConfig.BuildVersion
          chosen    \* the last fetch of this list: the version it was for and the entry it chose

vars == <<versions, product, chosen>>

-----------------------------------------------------------------------------
Init == versions \in Published /\ product \in Version /\ chosen = Nothing

\* fetchConfig; no list is an error.
Choice == findMatchingVersion(versions, product)
Fetch == /\ chosen' = IF Choice = Nothing THEN Nothing ELSE [for |-> product, entry |-> Choice]
         /\ UNCHANGED <<versions, product>>

\* The product is replaced by another version of it.
Install == /\ product' \in Version \ {product}
           /\ UNCHANGED <<versions, chosen>>

\* The remote publishes another list.
Publish == /\ versions' \in Published \ {versions}
           /\ chosen' = Nothing
           /\ UNCHANGED product

Next == Fetch \/ Install \/ Publish
Spec == Init /\ [][Next]_vars

-----------------------------------------------------------------------------
TypeOK == /\ versions \in Published /\ product \in Version
          /\ chosen \in [for : Version, entry : DOMAIN versions] \cup {Nothing}

\* A reference for the order of versions: the first part that differs decides,
\* missing parts are zero, and white space around a version is no part of it.
PartOf(s, i) == Part(Numbers(Trimmed(s)), i)
Same(s, t) == \A i \in DOMAIN s \cup DOMAIN t : PartOf(s, i) = PartOf(t, i)
Earlier(s, t) == \E i \in DOMAIN s \cup DOMAIN t :
                   /\ PartOf(s, i) < PartOf(t, i)
                   /\ \A j \in 1..i - 1 : PartOf(s, j) = PartOf(t, j)
Proper(s) == isValidMajorVersion(parseMajorVersion(s))

\* The entries follow each other without a gap, from the first to the last version.
Tiles(vs) == /\ vs # <<>> /\ NoBorders \notin Range(vs)
             /\ vs[1].from = <<>> /\ vs[Len(vs)].to = <<>>
             /\ \A i \in 1..(Len(vs) - 1) :
                  /\ Proper(vs[i].to) /\ Same(vs[i].to, vs[i + 1].from)
                  /\ Earlier(vs[i].from, vs[i].to)

\* When the published entries cover all versions, one entry accepts a version
\* and no other does: none belongs to two entries or falls between them to the
\* fallback, also at a border and when borders are written differently
\* (findMatchingVersion, config.go:169-192).
OneAccepts == Tiles(versions) /\ Len(versions) > 1 /\ Proper(product) =>
                Accepting(versions, product) = {Choice}

\* Then an upgrade of the product never takes it back to an earlier entry.
NeverGoesBack ==
  [][/\ chosen # Nothing /\ Fetch /\ Tiles(versions)
     /\ Proper(chosen.for) /\ ~Earlier(product, chosen.for)
     => chosen.entry <= chosen'.entry]_vars

\* The configuration and the validator mean the same by the same borders:
\* acceptsIn (validator.go:382-393) and acceptVersion (config.go:195-216)
\* accept the same versions when the borders that are there are versions, and
\* neither they nor the product have white space around them: only config.go
\* trims it (line 219), so "2024.1.5\n" is after 2024.1.3 for the one, and is
\* 2024.1.0 for the other.
GatesAgree ==
  \A i \in DOMAIN versions :
    LET b == versions[i]
    IN  /\ b # NoBorders /\ Proper(product) /\ Trimmed(product) = product
        /\ {b.from, b.to} # {<<>>}
        /\ \A s \in {b.from, b.to} : Trimmed(s) = s /\ (s = <<>> \/ Proper(s))
        => (acceptVersion(b, product) <=> acceptsIn({b}, product))
=============================================================================
