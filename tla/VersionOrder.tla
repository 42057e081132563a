---------------------------- MODULE VersionOrder ----------------------------
(***************************************************************************)
(* Dotted versions, as two files parse and compare them, each in its own   *)
(* way: config.go to choose a configuration (acceptVersion), validator.go  *)
(* to keep the events of a build (acceptsIn).  A version string is the     *)
(* sequence of its parts; a border that is "" is the empty sequence.       *)
(* White space at an end of the string is part of the first or last part:  *)
(* config.go trims it, validator.go does not, and Atoi refuses it.         *)
(***************************************************************************)
EXTENDS Integers, FiniteSets, SequencesExt

CONSTANTS NotANumber, \* a part that Atoi refuses
          Padded,     \* parts with white space on the outer side, and what they are without it
          NoBorders,  \* majorBuildVersionBorders is missing
          Nothing     \* nothing fetched yet, or an error

\* strings.TrimSpace.  A string of nothing else is taken for one that is not a
\* number: both are no version.
Trimmed(s) == [i \in DOMAIN s |-> IF i \in {1, Len(s)} /\ s[i] \in DOMAIN Padded
                                     THEN Padded[s[i]] ELSE s[i]]
Numbers(s) == [i \in DOMAIN s |-> IF s[i] \in {NotANumber} \cup DOMAIN Padded THEN 0 ELSE s[i]]
Part(v, i) == IF i \in DOMAIN v THEN v[i] ELSE 0

\* Mutant: the longer version is the later one.
LongerIsLater(a, b) ==
  LET differ == {i \in DOMAIN a \cup DOMAIN b : Part(a, i) # Part(b, i)}
  IN  IF Len(a) # Len(b) THEN Len(a) - Len(b)
      ELSE IF differ = {} THEN 0 ELSE Part(a, Min(differ)) - Part(b, Min(differ))
compareMajorVersions(a, b) ==
  LET differ == {i \in DOMAIN a \cup DOMAIN b : Part(a, i) # Part(b, i)}
  IN  IF differ = {} THEN 0 ELSE Part(a, Min(differ)) - Part(b, Min(differ))

parseMajorVersion(s) ==
  LET v == Numbers(Trimmed(s)) IN IF Len(s) = 1 THEN Append(v, 0) ELSE v
isValidMajorVersion(v) == Len(v) > 0 /\ v[1] > 0

\* [from, to), either side open when it is not a version.  Mutant: to is included.
acceptVersionIncluding(borders, current) ==
  LET build == parseMajorVersion(current)
      from  == parseMajorVersion(borders.from)
      to    == parseMajorVersion(borders.to)
  IN  /\ isValidMajorVersion(build)
      /\ isValidMajorVersion(from) \/ isValidMajorVersion(to)
      /\ isValidMajorVersion(from) => compareMajorVersions(from, build) <= 0
      /\ isValidMajorVersion(to) => compareMajorVersions(to, build) >= 0
acceptVersion(borders, current) ==
  LET build == parseMajorVersion(current)
      from  == parseMajorVersion(borders.from)
      to    == parseMajorVersion(borders.to)
  IN  /\ isValidMajorVersion(build)
      /\ isValidMajorVersion(from) \/ isValidMajorVersion(to)
      /\ isValidMajorVersion(from) => compareMajorVersions(from, build) <= 0
      /\ isValidMajorVersion(to) => compareMajorVersions(to, build) > 0

Accepting(vs, current) == {i \in DOMAIN vs : vs[i] # NoBorders /\ acceptVersion(vs[i], current)}

\* Mutant: the length of the list is not looked at.
FirstOtherwise(vs, current) ==
  IF Accepting(vs, current) = {} THEN 1 ELSE Min(Accepting(vs, current))
findMatchingVersion(vs, current) ==
  IF vs = <<>> THEN Nothing
  ELSE IF Accepting(vs, current) = {} THEN 1 ELSE Min(Accepting(vs, current))

\* The validator's own comparison, which trims nothing, and its borders.  Mutant: to is included.
compareBuilds(a, b) ==
  LET x == Numbers(a)  y == Numbers(b)
      differ == {i \in DOMAIN x \cup DOMAIN y : Part(x, i) # Part(y, i)}
  IN  IF differ = {} THEN 0 ELSE Part(x, Min(differ)) - Part(y, Min(differ))
acceptsInIncluding(ranges, value) ==
  \E r \in ranges : /\ r.from # <<>> => compareBuilds(r.from, value) <= 0
                    /\ r.to # <<>> => compareBuilds(r.to, value) >= 0
acceptsIn(ranges, value) ==
  \E r \in ranges : /\ r.from # <<>> => compareBuilds(r.from, value) <= 0
                    /\ r.to # <<>> => compareBuilds(r.to, value) > 0
=============================================================================
