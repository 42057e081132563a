-------------------------- MODULE Versions_proofs --------------------------
(* What holds of the choice by version for every set of versions and every *)
(* list that can be published.                                             *)
EXTENDS Versions, SequenceTheorems, FiniteSetTheorems, TLAPS

-----------------------------------------------------------------------------
(* Numbers: a set of them has a least, as the strict subsets of a finite   *)
(* set do not descend for ever.                                            *)

LEMMA LeastIs ==
  ASSUME NEW S \in SUBSET Nat, S # {}
  PROVE  Min(S) \in S /\ \A y \in S : Min(S) <= y
<1>1. PICK top \in S : TRUE
  OBVIOUS
<1> DEFINE Below(x) == S \cap 0..x
           R == StrictSubsetOrdering(0..top)
<1>2. IsWellFoundedOn(R, SUBSET (0..top))
  <2>1. IsFiniteSet(0..top)
    BY FS_Interval
  <2>2. QED
    BY <2>1, FS_FiniteSubsetsOfFinite, FS_StrictSubsetOrderingWellFounded
<1>3. PICK x \in S : x <= top /\ \A y \in S : y <= top => ~(<<Below(y), Below(x)>> \in R)
  <2> DEFINE T == {Below(y) : y \in {z \in S : z <= top}}
  <2>1. T \subseteq SUBSET (0..top) /\ T # {}
    <3>1. top \in {z \in S : z <= top}
      OBVIOUS
    <3>2. \A y \in {z \in S : z <= top} : Below(y) \subseteq 0..top
      OBVIOUS
    <3>3. QED
      BY <3>1, <3>2
  <2> HIDE DEF R, T
  <2>2. PICK b \in T : \A a \in T : ~(<<a, b>> \in R)
    BY <1>2, <2>1, WFMin
  <2>3. QED
    BY <2>2 DEF T
<1>4. \A y \in S : x <= y
  <2> SUFFICES ASSUME NEW y \in S, y < x
               PROVE  FALSE
    OBVIOUS
  <2>1. Below(y) \subseteq Below(x) /\ Below(x) \subseteq 0..top /\ x \in Below(x) /\ x \notin Below(y)
    BY <1>3
  <2>2. <<Below(y), Below(x)>> \in R
    BY <2>1 DEF StrictSubsetOrdering
  <2>3. QED
    BY <1>3, <2>2
<1>5. QED
  BY <1>4 DEF Min

-----------------------------------------------------------------------------
(* The order of versions.                                                   *)

\* What is left of a string without the white space around it is a string of as
\* many parts.
LEMMA TrimmedIs ==
  ASSUME NEW s \in Seq(PartOfString)
  PROVE  /\ Trimmed(s) \in Seq(PartOfString) /\ DOMAIN Trimmed(s) = DOMAIN s
         /\ Len(Trimmed(s)) = Len(s)
<1>1. Len(s) \in Nat /\ DOMAIN s = 1..Len(s) /\ \A i \in 1..Len(s) : s[i] \in PartOfString
  BY LenProperties, ElementOfSeq
<1> DEFINE t(i) == IF i \in {1, Len(s)} /\ s[i] \in DOMAIN Padded THEN Padded[s[i]] ELSE s[i]
<1>2. \A i \in 1..Len(s) : t(i) \in PartOfString
  BY <1>1, VersionsAssumption DEF PartOfString
<1>3. Trimmed(s) = [i \in 1..Len(s) |-> t(i)]
  BY <1>1 DEF Trimmed
<1> HIDE DEF t
<1>4. Trimmed(s) \in Seq(PartOfString) /\ Len(Trimmed(s)) = Len(s)
  BY <1>1, <1>2, <1>3
<1>5. QED
  BY <1>1, <1>3, <1>4

LEMMA NumbersAre ==
  ASSUME NEW s \in Seq(PartOfString)
  PROVE  /\ Numbers(s) \in Seq(Nat) /\ DOMAIN Numbers(s) = DOMAIN s
         /\ Len(Numbers(s)) = Len(s) /\ Len(s) \in Nat /\ DOMAIN s = 1..Len(s)
<1>1. Len(s) \in Nat /\ DOMAIN s = 1..Len(s) /\ \A i \in 1..Len(s) : s[i] \in PartOfString
  BY LenProperties, ElementOfSeq
<1> DEFINE n(i) == IF s[i] \in {NotANumber} \cup DOMAIN Padded THEN 0 ELSE s[i]
<1>2. \A i \in 1..Len(s) : n(i) \in Nat
  BY <1>1 DEF PartOfString
<1>3. Numbers(s) = [i \in 1..Len(s) |-> n(i)]
  BY <1>1 DEF Numbers
<1> HIDE DEF n
<1>4. Numbers(s) \in Seq(Nat) /\ Len(Numbers(s)) = Len(s)
  BY <1>1, <1>2, <1>3
<1>5. QED
  BY <1>1, <1>3, <1>4

\* The numbers of a version, once it is trimmed.
LEMMA ValuesAre ==
  ASSUME NEW s \in Version
  PROVE  /\ Numbers(Trimmed(s)) \in Seq(Nat) /\ DOMAIN Numbers(Trimmed(s)) = DOMAIN s
         /\ Len(Numbers(Trimmed(s))) = Len(s) /\ Len(s) \in Nat /\ DOMAIN s = 1..Len(s)
<1>1. s \in Seq(PartOfString)
  BY VersionsAssumption
<1>2. PICK t \in Seq(PartOfString) : t = Trimmed(s) /\ DOMAIN t = DOMAIN s /\ Len(t) = Len(s)
  BY <1>1, TrimmedIs
<1>3. QED
  BY <1>2, NumbersAre

\* Two digit sequences differ where their parts do.
LEMMA PartsAre ==
  ASSUME NEW a \in Seq(Nat), NEW b \in Seq(Nat)
  PROVE  /\ \A i : Part(a, i) \in Nat
         /\ {i \in DOMAIN a \cup DOMAIN b : Part(a, i) # Part(b, i)}
              = {i \in Nat \ {0} : Part(a, i) # Part(b, i)}
<1>1. DOMAIN a \subseteq Nat \ {0} /\ DOMAIN b \subseteq Nat \ {0} /\ \A i \in DOMAIN a : a[i] \in Nat
  BY LenProperties, ElementOfSeq
<1>2. QED
  BY <1>1 DEF Part

\* parseMajorVersion changes no part.
LEMMA ParsedIs ==
  ASSUME NEW s \in Version
  PROVE  /\ parseMajorVersion(s) \in Seq(Nat)
         /\ \A i \in Nat \ {0} : Part(parseMajorVersion(s), i) = PartOf(s, i)
         /\ Proper(s) <=> PartOf(s, 1) > 0
<1> DEFINE v == Numbers(Trimmed(s))
<1>1. /\ v \in Seq(Nat) /\ Len(v) \in Nat /\ Len(v) = Len(s)
      /\ DOMAIN v = 1..Len(s)
  BY ValuesAre
<1>p. PartOf(s, 1) = Part(v, 1) /\ \A i : PartOf(s, i) = Part(v, i)
  BY DEF PartOf
<1>q. parseMajorVersion(s) = IF Len(s) = 1 THEN Append(v, 0) ELSE v
  BY DEF parseMajorVersion
<1> HIDE DEF v
<1>2. CASE Len(s) # 1
  <2>1. parseMajorVersion(s) = v
    BY <1>2, <1>q
  <2>2. QED
    BY <1>1, <1>p, <2>1 DEF Part, Proper, isValidMajorVersion
<1>3. CASE Len(s) = 1
  <2>1. parseMajorVersion(s) = Append(v, 0)
    BY <1>3, <1>q
  <2>2. /\ Append(v, 0) \in Seq(Nat) /\ Len(Append(v, 0)) = 2
        /\ Append(v, 0)[1] = v[1] /\ Append(v, 0)[2] = 0
    <3>1. PICK q \in Seq(Nat) : q = v /\ Len(q) = 1
      BY <1>1, <1>3
    <3>2. 0 \in Nat
      OBVIOUS
    <3>3. /\ Append(q, 0) \in Seq(Nat) /\ Len(Append(q, 0)) = Len(q) + 1
          /\ \A i \in 1..Len(q) : Append(q, 0)[i] = q[i]
          /\ Append(q, 0)[Len(q) + 1] = 0
      BY <3>2, AppendProperties
    <3>4. QED
      BY <3>1, <3>3
  <2>3. DOMAIN Append(v, 0) = 1..2
    BY <2>2, LenProperties
  <2>4. \A i \in Nat \ {0} : Part(Append(v, 0), i) = PartOf(s, i)
    BY <1>1, <1>3, <1>p, <2>2, <2>3 DEF Part
  <2>5. Proper(s) <=> PartOf(s, 1) > 0
    BY <1>1, <1>3, <1>p, <2>1, <2>2 DEF Part, Proper, isValidMajorVersion
  <2>6. QED
    BY <2>1, <2>2, <2>4, <2>5
<1>4. QED
  BY <1>2, <1>3

LEMMA OrderIs ==
  ASSUME NEW s \in Version, NEW t \in Version
  PROVE  /\ \A i : PartOf(s, i) \in Nat
         /\ Earlier(s, t) <=> \E i \in Nat \ {0} : /\ PartOf(s, i) < PartOf(t, i)
                                                   /\ \A j \in 1..i - 1 : PartOf(s, j) = PartOf(t, j)
         /\ Same(s, t) <=> \A i \in Nat \ {0} : PartOf(s, i) = PartOf(t, i)
<1>1. /\ \A i : PartOf(s, i) \in Nat /\ PartOf(t, i) \in Nat
      /\ {i \in DOMAIN s \cup DOMAIN t : PartOf(s, i) # PartOf(t, i)}
           = {i \in Nat \ {0} : PartOf(s, i) # PartOf(t, i)}
  BY ValuesAre, PartsAre DEF PartOf
<1>2. DOMAIN s \cup DOMAIN t \subseteq Nat \ {0}
  BY ValuesAre
<1>3. Earlier(s, t) <=> \E i \in Nat \ {0} : /\ PartOf(s, i) < PartOf(t, i)
                                             /\ \A j \in 1..i - 1 : PartOf(s, j) = PartOf(t, j)
  <2>1. \A i \in Nat \ {0} : PartOf(s, i) < PartOf(t, i) => i \in DOMAIN s \cup DOMAIN t
    BY <1>1
  <2>2. QED
    BY <1>2, <2>1 DEF Earlier
<1>4. Same(s, t) <=> \A i \in Nat \ {0} : PartOf(s, i) = PartOf(t, i)
  BY <1>1, <1>2 DEF Same
<1>5. QED
  BY <1>1, <1>3, <1>4

\* The comparison of config.go decides this order, and that of validator.go is
\* the same when there is nothing to trim.
LEMMA ComparisonsAgree ==
  ASSUME NEW s \in Version, NEW t \in Version
  PROVE  LET c == compareMajorVersions(parseMajorVersion(s), parseMajorVersion(t))
         IN  /\ c \in Int
             /\ c > 0 <=> Earlier(t, s)
             /\ Trimmed(s) = s /\ Trimmed(t) = t => compareBuilds(s, t) = c
<1> DEFINE D == {i \in Nat \ {0} : PartOf(s, i) # PartOf(t, i)}
           c == IF D = {} THEN 0 ELSE PartOf(s, Min(D)) - PartOf(t, Min(D))
<1>1. D \subseteq Nat \ {0} /\ \A i : PartOf(s, i) \in Nat /\ PartOf(t, i) \in Nat
  BY OrderIs
<1>2. D # {} => Min(D) \in D /\ \A i \in D : Min(D) <= i
  BY <1>1, LeastIs
<1>3. Trimmed(s) = s /\ Trimmed(t) = t => compareBuilds(s, t) = c
  <2> SUFFICES ASSUME Trimmed(s) = s, Trimmed(t) = t PROVE compareBuilds(s, t) = c
    OBVIOUS
  <2>1. PICK x \in Seq(Nat) : x = Numbers(s) /\ x = Numbers(Trimmed(s))
    BY ValuesAre
  <2>2. PICK y \in Seq(Nat) : y = Numbers(t) /\ y = Numbers(Trimmed(t))
    BY ValuesAre
  <2>3. \A i : Part(x, i) = PartOf(s, i) /\ Part(y, i) = PartOf(t, i)
    BY <2>1, <2>2 DEF PartOf
  <2>4. {i \in DOMAIN x \cup DOMAIN y : Part(x, i) # Part(y, i)} = D
    BY <2>3, PartsAre
  <2>5. QED
    BY <2>1, <2>2, <2>3, <2>4 DEF compareBuilds
<1>4. compareMajorVersions(parseMajorVersion(s), parseMajorVersion(t)) = c
  <2>1. PICK a : a = parseMajorVersion(s)
    OBVIOUS
  <2>2. PICK b : b = parseMajorVersion(t)
    OBVIOUS
  <2>3. /\ a \in Seq(Nat) /\ b \in Seq(Nat)
        /\ \A i \in Nat \ {0} : Part(a, i) = PartOf(s, i) /\ Part(b, i) = PartOf(t, i)
    BY <2>1, <2>2, ParsedIs
  <2>4. {i \in DOMAIN a \cup DOMAIN b : Part(a, i) # Part(b, i)} = D
    BY <2>3, PartsAre
  <2>5. D # {} => Part(a, Min(D)) = PartOf(s, Min(D)) /\ Part(b, Min(D)) = PartOf(t, Min(D))
    BY <1>1, <1>2, <2>3
  <2>6. compareMajorVersions(a, b) = c
    BY <2>4, <2>5 DEF compareMajorVersions
  <2>7. QED
    BY <2>1, <2>2, <2>6
<1>5. c \in Int
  BY <1>1
<1>6. c > 0 <=> Earlier(t, s)
  <2>1. ASSUME c > 0 PROVE Earlier(t, s)
    <3>1. D # {} /\ PartOf(t, Min(D)) < PartOf(s, Min(D))
      BY <1>1, <2>1
    <3>2. \A j \in 1..Min(D) - 1 : PartOf(t, j) = PartOf(s, j)
      BY <1>1, <1>2, <3>1
    <3>3. QED
      BY <1>1, <1>2, <3>1, <3>2, OrderIs
  <2>2. ASSUME Earlier(t, s) PROVE c > 0
    <3>1. PICK i \in Nat \ {0} : /\ PartOf(t, i) < PartOf(s, i)
                                 /\ \A j \in 1..i - 1 : PartOf(t, j) = PartOf(s, j)
      BY <2>2, OrderIs
    <3>2. i \in D
      BY <1>1, <3>1
    <3>3. Min(D) = i
      BY <1>1, <1>2, <3>1, <3>2
    <3>4. QED
      BY <1>1, <3>1, <3>2, <3>3
  <2>3. QED
    BY <2>1, <2>2
<1>7. QED
  BY <1>3, <1>4, <1>5, <1>6

\* Earlier is a strict weak order, and versions that are the same are not ordered.
LEMMA OneWay ==
  ASSUME NEW s \in Version, NEW t \in Version
  PROVE  /\ Earlier(s, t) => ~Earlier(t, s)
         /\ Same(s, t) => ~Earlier(s, t) /\ ~Earlier(t, s)
<1>1. ASSUME Earlier(s, t), Earlier(t, s)
      PROVE  FALSE
  <2>1. PICK i \in Nat \ {0} : /\ PartOf(s, i) < PartOf(t, i)
                               /\ \A j \in 1..i - 1 : PartOf(s, j) = PartOf(t, j)
    BY <1>1, OrderIs
  <2>2. PICK k \in Nat \ {0} : /\ PartOf(t, k) < PartOf(s, k)
                               /\ \A j \in 1..k - 1 : PartOf(t, j) = PartOf(s, j)
    BY <1>1, OrderIs
  <2>3. \A j : PartOf(s, j) \in Nat /\ PartOf(t, j) \in Nat
    BY OrderIs
  <2>4. CASE i <= k
    <3>1. i = k \/ i \in 1..k - 1
      BY <2>4
    <3>2. QED
      BY <2>1, <2>2, <2>3, <3>1
  <2>5. CASE k < i
    <3>1. k \in 1..i - 1
      BY <2>5
    <3>2. QED
      BY <2>1, <2>2, <2>3, <3>1
  <2>6. QED
    BY <2>4, <2>5
<1>2. Same(s, t) => ~Earlier(s, t) /\ ~Earlier(t, s)
  <2>1. \A j : PartOf(s, j) \in Nat /\ PartOf(t, j) \in Nat
    BY OrderIs
  <2>2. QED
    BY <2>1, OrderIs
<1>3. QED
  BY <1>1, <1>2

LEMMA Between ==
  ASSUME NEW s \in Version, NEW t \in Version, NEW u \in Version, Earlier(s, u)
  PROVE  Earlier(s, t) \/ Earlier(t, u)
<1>1. PICK i \in Nat \ {0} : /\ PartOf(s, i) < PartOf(u, i)
                             /\ \A j \in 1..i - 1 : PartOf(s, j) = PartOf(u, j)
  BY OrderIs
<1>2. \A j : PartOf(s, j) \in Nat /\ PartOf(t, j) \in Nat /\ PartOf(u, j) \in Nat
  BY OrderIs
<1> DEFINE D == {j \in 1..i : PartOf(s, j) # PartOf(t, j)}
<1>3. CASE D = {}
  <2>1. PartOf(t, i) < PartOf(u, i) /\ \A j \in 1..i - 1 : PartOf(t, j) = PartOf(u, j)
    BY <1>1, <1>3
  <2>2. QED
    BY <2>1, OrderIs
<1>4. CASE D # {}
  <2>1. D \subseteq Nat
    OBVIOUS
  <2>2. PICK k \in D : \A j \in D : k <= j
    <3> HIDE DEF D
    <3>1. D \in SUBSET Nat
      BY <2>1
    <3>2. Min(D) \in D /\ \A j \in D : Min(D) <= j
      BY <1>4, <3>1, LeastIs
    <3>3. QED
      BY <3>2
  <2>3. k \in Nat \ {0} /\ k <= i /\ \A j \in 1..k - 1 : PartOf(s, j) = PartOf(t, j)
    BY <2>2
  <2>4. \A j \in 1..k - 1 : PartOf(t, j) = PartOf(u, j)
    BY <1>1, <2>3
  <2>5. PartOf(s, k) < PartOf(t, k) \/ PartOf(t, k) < PartOf(s, k)
    BY <1>2, <2>2
  <2>6. PartOf(s, k) <= PartOf(u, k)
    BY <1>1, <1>2, <2>3
  <2>7. CASE PartOf(s, k) < PartOf(t, k)
    BY <2>3, <2>7, OrderIs
  <2>8. CASE PartOf(t, k) < PartOf(s, k)
    <3>1. PartOf(t, k) < PartOf(u, k)
      BY <1>2, <2>6, <2>8
    <3>2. QED
      BY <2>3, <2>4, <3>1, OrderIs
  <2>9. QED
    BY <2>5, <2>7, <2>8
<1>5. QED
  BY <1>3, <1>4

\* A version with a positive major part has only such versions after it.
LEMMA ProperUp ==
  ASSUME NEW s \in Version, NEW t \in Version, Proper(s), ~Earlier(t, s)
  PROVE  Proper(t)
<1>1. PartOf(s, 1) > 0 /\ PartOf(s, 1) \in Nat /\ PartOf(t, 1) \in Nat
  BY ParsedIs, OrderIs
<1>2. ~(PartOf(t, 1) < PartOf(s, 1))
  <2>1. \A j \in 1..1 - 1 : PartOf(t, j) = PartOf(s, j)
    OBVIOUS
  <2>2. QED
    BY <2>1, OrderIs
<1>3. QED
  BY <1>1, <1>2, ParsedIs


-----------------------------------------------------------------------------
(* Entries that cover all versions.                                         *)

LEMMA EntriesAre ==
  ASSUME NEW vs \in Published
  PROVE  /\ Len(vs) \in Nat /\ DOMAIN vs = 1..Len(vs) /\ (vs # <<>> => Len(vs) > 0)
         /\ \A i \in DOMAIN vs : vs[i] # NoBorders => vs[i].from \in Version /\ vs[i].to \in Version
<1> DEFINE Border == [from : Version, to : Version]
<1>1. vs \in Seq(Border \cup {NoBorders})
  BY VersionsAssumption
<1>2. Len(vs) \in Nat /\ DOMAIN vs = 1..Len(vs) /\ \A i \in DOMAIN vs : vs[i] \in Border \cup {NoBorders}
  BY <1>1, LenProperties, ElementOfSeq
<1>3. vs # <<>> => Len(vs) > 0
  BY <1>1, <1>2, EmptySeq
<1>4. QED
  BY <1>2, <1>3

\* Such a list, entry by entry.
LEMMA TilesAre ==
  ASSUME NEW vs \in Published, Tiles(vs)
  PROVE  /\ Len(vs) \in Nat \ {0} /\ DOMAIN vs = 1..Len(vs) /\ vs # <<>>
         /\ \A i \in 1..Len(vs) : vs[i] # NoBorders /\ vs[i].from \in Version /\ vs[i].to \in Version
         /\ vs[1].from = <<>> /\ vs[Len(vs)].to = <<>>
         /\ \A i \in 1..Len(vs) - 1 : /\ i \in 1..Len(vs) /\ i + 1 \in 1..Len(vs)
                                      /\ Proper(vs[i].to) /\ Proper(vs[i + 1].from)
                                      /\ Same(vs[i].to, vs[i + 1].from)
                                      /\ Earlier(vs[i].from, vs[i].to)
<1>1. Len(vs) \in Nat \ {0} /\ DOMAIN vs = 1..Len(vs) /\ vs # <<>>
  BY EntriesAre DEF Tiles
<1>2. \A i \in 1..Len(vs) : vs[i] # NoBorders /\ vs[i].from \in Version /\ vs[i].to \in Version
  BY <1>1, EntriesAre DEF Tiles, Range
<1>3. ASSUME NEW i \in 1..Len(vs) - 1
      PROVE  /\ i \in 1..Len(vs) /\ i + 1 \in 1..Len(vs)
             /\ Proper(vs[i].to) /\ Proper(vs[i + 1].from)
             /\ Same(vs[i].to, vs[i + 1].from) /\ Earlier(vs[i].from, vs[i].to)
  <2>1. i \in 1..Len(vs) /\ i + 1 \in 1..Len(vs)
    BY <1>1
  <2>2. Proper(vs[i].to) /\ Same(vs[i].to, vs[i + 1].from) /\ Earlier(vs[i].from, vs[i].to)
    BY DEF Tiles
  <2>3. Proper(vs[i + 1].from)
    BY <1>2, <2>1, <2>2, OneWay, ProperUp
  <2>4. QED
    BY <2>1, <2>2, <2>3
<1>4. QED
  BY <1>1, <1>2, <1>3 DEF Tiles

\* The empty border is open: it is no version, and no version is earlier.
LEMMA OpenIs ==
  ASSUME <<>> \in Version
  PROVE  ~Proper(<<>>) /\ \A v \in Version : ~Earlier(v, <<>>)
<1>1. DOMAIN <<>> = {} /\ Len(<<>>) = 0
  BY EmptySeq
<1>2. \A i : PartOf(<<>>, i) = 0
  BY <1>1 DEF PartOf, Part, Numbers, Trimmed
<1>3. QED
  BY <1>2, ParsedIs, OrderIs

\* acceptVersion, for borders that are versions or open.
LEMMA AcceptsWhen ==
  ASSUME NEW from \in Version, NEW to \in Version, NEW v \in Version, Proper(v)
  PROVE  acceptVersion([from |-> from, to |-> to], v)
           <=> /\ Proper(from) \/ Proper(to)
               /\ Proper(from) => ~Earlier(v, from)
               /\ Proper(to) => Earlier(v, to)
<1>1. /\ compareMajorVersions(parseMajorVersion(from), parseMajorVersion(v)) <= 0 <=> ~Earlier(v, from)
      /\ compareMajorVersions(parseMajorVersion(to), parseMajorVersion(v)) > 0 <=> Earlier(v, to)
  BY ComparisonsAgree
<1>2. QED
  BY <1>1 DEF acceptVersion, Proper

\* Such an entry accepts what is not earlier than from and earlier than to.
LEMMA Accepts ==
  ASSUME NEW vs \in Published, Tiles(vs), Len(vs) > 1, NEW i \in 1..Len(vs),
         NEW v \in Version, Proper(v)
  PROVE  i \in Accepting(vs, v) <=> ~Earlier(v, vs[i].from) /\ (i # Len(vs) => Earlier(v, vs[i].to))
<1>1. /\ Len(vs) \in Nat /\ vs[i] # NoBorders /\ vs[i].from \in Version /\ vs[i].to \in Version
      /\ DOMAIN vs = 1..Len(vs)
  BY TilesAre
<1>2. i \in Accepting(vs, v) <=> acceptVersion(vs[i], v)
  BY <1>1 DEF Accepting
<1>3. acceptVersion(vs[i], v) <=> /\ Proper(vs[i].from) \/ Proper(vs[i].to)
                                  /\ Proper(vs[i].from) => ~Earlier(v, vs[i].from)
                                  /\ Proper(vs[i].to) => Earlier(v, vs[i].to)
  BY <1>1, AcceptsWhen DEF acceptVersion
<1>4. IF i = 1 THEN ~Proper(vs[i].from) /\ ~Earlier(v, vs[i].from) ELSE Proper(vs[i].from)
  <2>1. CASE i = 1
    BY <1>1, <2>1, TilesAre, OpenIs
  <2>2. CASE i # 1
    <3>1. i - 1 \in 1..Len(vs) - 1 /\ (i - 1) + 1 = i
      BY <1>1, <2>2
    <3>2. Proper(vs[(i - 1) + 1].from)
      BY <3>1, TilesAre
    <3>3. QED
      BY <2>2, <3>1, <3>2
  <2>3. QED
    BY <2>1, <2>2
<1>5. IF i = Len(vs) THEN ~Proper(vs[i].to) ELSE Proper(vs[i].to)
  <2>1. CASE i = Len(vs)
    BY <1>1, <2>1, TilesAre, OpenIs
  <2>2. CASE i # Len(vs)
    <3>1. PICK n \in Nat : n = Len(vs)
      BY <1>1
    <3>2. i \in 1..n - 1
      BY <2>2, <3>1
    <3>3. QED
      BY <2>2, <3>1, <3>2, TilesAre
  <2>3. QED
    BY <2>1, <2>2
<1>6. i = 1 => i # Len(vs)
  BY <1>1
<1>7. QED
  BY <1>2, <1>3, <1>4, <1>5, <1>6

\* An entry ends before a later one begins.
LEMMA InOrder ==
  ASSUME NEW vs \in Published, Tiles(vs),
         NEW i \in 1..Len(vs), NEW j \in 1..Len(vs), i < j
  PROVE  ~Earlier(vs[j].from, vs[i].to)
<1> DEFINE Wrong == {k \in 1..Len(vs) : i < k /\ Earlier(vs[k].from, vs[i].to)}
<1>1. Len(vs) \in Nat /\ Wrong \subseteq Nat
  BY TilesAre
<1>2. SUFFICES ASSUME Wrong # {} PROVE FALSE
  OBVIOUS
<1>3. PICK k \in Wrong : \A m \in Wrong : k <= m
  BY <1>1, <1>2, LeastIs
<1>4. PICK h : h = k - 1
  OBVIOUS
<1>5. h \in 1..Len(vs) - 1 /\ h + 1 = k /\ h \in 1..Len(vs) /\ h \notin Wrong /\ i <= h
  BY <1>1, <1>3, <1>4
<1>6. /\ Same(vs[h].to, vs[k].from) /\ Earlier(vs[h].from, vs[h].to)
      /\ vs[h].to \in Version /\ vs[h].from \in Version
      /\ vs[k].from \in Version /\ vs[i].to \in Version
  BY <1>3, <1>5, TilesAre
<1>7. ~Earlier(vs[h].to, vs[k].from) /\ ~Earlier(vs[k].from, vs[h].to)
  BY <1>6, OneWay
<1>8. Earlier(vs[k].from, vs[i].to)
  BY <1>3
<1>9. CASE h = i
  BY <1>7, <1>8, <1>9
<1>10. CASE h # i
  <2>1. ~Earlier(vs[h].from, vs[i].to)
    BY <1>5, <1>10
  <2>2. Earlier(vs[k].from, vs[h].from)
    BY <1>6, <1>8, <2>1, Between
  <2>3. Earlier(vs[h].from, vs[k].from)
    BY <1>6, <1>7, Between
  <2>4. QED
    BY <1>6, <2>2, <2>3, OneWay
<1>11. QED
  BY <1>9, <1>10

LEMMA OneEntry ==
  ASSUME NEW vs \in Published, Tiles(vs), Len(vs) > 1, NEW v \in Version, Proper(v)
  PROVE  /\ findMatchingVersion(vs, v) \in 1..Len(vs)
         /\ Accepting(vs, v) = {findMatchingVersion(vs, v)}
<1>1. /\ Len(vs) \in Nat \ {0} /\ vs # <<>> /\ Accepting(vs, v) \subseteq 1..Len(vs)
      /\ \A i \in 1..Len(vs) : vs[i].from \in Version /\ vs[i].to \in Version
  BY TilesAre DEF Accepting
<1>2. ASSUME NEW i \in Accepting(vs, v), NEW j \in Accepting(vs, v), i < j
      PROVE  FALSE
  <2>1. i \in 1..Len(vs) /\ j \in 1..Len(vs) /\ i # Len(vs)
    BY <1>1, <1>2
  <2>2. Earlier(v, vs[i].to) /\ ~Earlier(v, vs[j].from)
    BY <2>1, Accepts
  <2>3. ~Earlier(vs[j].from, vs[i].to)
    BY <1>2, <2>1, InOrder
  <2>4. QED
    BY <1>1, <2>1, <2>2, <2>3, Between
<1> DEFINE Open == {k \in 1..Len(vs) : k # Len(vs) => Earlier(v, vs[k].to)}
<1>3. PICK i \in Open : \A k \in Open : i <= k
  <2>1. Open \subseteq Nat /\ Len(vs) \in Open
    BY <1>1
  <2>2. QED
    BY <2>1, LeastIs
<1>4. ~Earlier(v, vs[i].from)
  <2>1. CASE i = 1
    BY <1>1, <2>1, TilesAre, OpenIs
  <2>2. CASE i # 1
    <3>1. PICK h : h = i - 1
      OBVIOUS
    <3>2. h \in 1..Len(vs) - 1 /\ h + 1 = i /\ h \in 1..Len(vs) /\ ~Earlier(v, vs[h].to)
      BY <1>1, <1>3, <2>2, <3>1
    <3>3. Same(vs[h].to, vs[i].from)
      BY <3>2, TilesAre
    <3>4. ~Earlier(vs[h].to, vs[i].from)
      BY <1>1, <3>2, <3>3, OneWay
    <3>5. QED
      BY <1>1, <3>2, <3>4, Between
  <2>3. QED
    BY <2>1, <2>2
<1>5. i \in Accepting(vs, v)
  BY <1>3, <1>4, Accepts
<1>6. Accepting(vs, v) = {i}
  <2>1. \A k \in Accepting(vs, v) : k < i \/ i < k \/ k = i
    BY <1>1
  <2>2. QED
    BY <1>2, <1>5, <2>1
<1>7. Min({i}) = i
  <2>1. {i} \subseteq Nat
    OBVIOUS
  <2>2. QED
    BY <2>1, LeastIs
<1>8. QED
  BY <1>1, <1>6, <1>7 DEF findMatchingVersion

LEMMA MatchIs ==
  ASSUME NEW vs \in Published, NEW v \in Version
  PROVE  vs # <<>> => /\ findMatchingVersion(vs, v) \in DOMAIN vs
                      /\ findMatchingVersion(vs, v) \in Nat
                      /\ findMatchingVersion(vs, v) # Nothing
<1> SUFFICES ASSUME vs # <<>>
             PROVE  findMatchingVersion(vs, v) \in DOMAIN vs /\ DOMAIN vs \subseteq Nat
  BY VersionsAssumption
<1>1. DOMAIN vs \subseteq Nat /\ 1 \in DOMAIN vs
  BY EntriesAre
<1>2. Accepting(vs, v) # {} => Min(Accepting(vs, v)) \in DOMAIN vs
  <2>1. Accepting(vs, v) \subseteq DOMAIN vs
    BY DEF Accepting
  <2>2. QED
    BY <1>1, <2>1, LeastIs
<1>3. QED
  BY <1>1, <1>2 DEF findMatchingVersion

\* A later version is not accepted by an earlier entry.
LEMMA Monotone ==
  ASSUME NEW vs \in Published, Tiles(vs), NEW v \in Version, NEW w \in Version,
         Proper(v), ~Earlier(w, v)
  PROVE  findMatchingVersion(vs, v) <= findMatchingVersion(vs, w)
<1>a. PICK i : i = findMatchingVersion(vs, v)
  OBVIOUS
<1>b. PICK j : j = findMatchingVersion(vs, w)
  OBVIOUS
<1>1. Len(vs) \in Nat \ {0} /\ i \in 1..Len(vs) /\ j \in 1..Len(vs)
  BY <1>a, <1>b, TilesAre, MatchIs
<1>2. CASE Len(vs) = 1
  BY <1>a, <1>b, <1>1, <1>2
<1>3. CASE Len(vs) > 1
  <2>1. i \in Accepting(vs, v) /\ j \in Accepting(vs, w) /\ Proper(w)
    BY <1>a, <1>b, <1>3, ProperUp, OneEntry
  <2>2. ASSUME j < i PROVE FALSE
    <3>1. vs[i].from \in Version /\ vs[j].to \in Version /\ j # Len(vs)
      BY <1>1, <2>2, TilesAre
    <3>2. ~Earlier(v, vs[i].from) /\ Earlier(w, vs[j].to)
      BY <1>1, <1>3, <2>1, <3>1, Accepts
    <3>3. ~Earlier(vs[i].from, vs[j].to)
      BY <1>1, <2>2, InOrder
    <3>4. Earlier(w, vs[i].from)
      BY <3>1, <3>2, <3>3, Between
    <3>5. QED
      BY <3>1, <3>2, <3>4, Between
  <2>3. QED
    BY <1>a, <1>b, <1>1, <2>2
<1>4. Len(vs) = 1 \/ Len(vs) > 1
  <2>1. PICK n \in Nat \ {0} : n = Len(vs)
    BY <1>1
  <2>2. n = 1 \/ n > 1
    OBVIOUS
  <2>3. QED
    BY <2>1, <2>2
<1>5. QED
  BY <1>2, <1>3, <1>4

-----------------------------------------------------------------------------
(* What was chosen last is what the list chooses for the version it was     *)
(* chosen for: with the type, an inductive invariant.                       *)

Kept == chosen # Nothing => chosen.entry = findMatchingVersion(versions, chosen.for)
IInv == TypeOK /\ Kept

LEMMA InitHolds == Init => IInv
BY DEF Init, IInv, TypeOK, Kept

LEMMA StepHolds == IInv /\ [Next]_vars => IInv'
<1> SUFFICES ASSUME IInv, [Next]_vars PROVE IInv'
  OBVIOUS
<1> USE DEF IInv
<1>1. CASE Fetch
  <2>1. UNCHANGED <<versions, product>> /\ versions \in Published /\ product \in Version
    BY <1>1 DEF Fetch, TypeOK
  <2>2. CASE Choice = Nothing
    BY <1>1, <2>1, <2>2 DEF Fetch, TypeOK, Kept
  <2>3. CASE Choice # Nothing
    <3>1. chosen' = [for |-> product, entry |-> Choice]
      BY <1>1, <2>3 DEF Fetch
    <3>2. Choice \in DOMAIN versions
      BY <2>1, <2>3, MatchIs DEF Choice, findMatchingVersion
    <3>3. QED
      BY <2>1, <3>1, <3>2 DEF TypeOK, Kept, Choice
  <2>4. QED
    BY <2>2, <2>3
<1>2. CASE Install
  BY <1>2 DEF Install, TypeOK, Kept
<1>3. CASE Publish
  BY <1>3 DEF Publish, TypeOK, Kept
<1>4. CASE UNCHANGED vars
  BY <1>4 DEF vars, TypeOK, Kept
<1>5. QED
  BY <1>1, <1>2, <1>3, <1>4 DEF Next

LEMMA Invariant == Spec => []IInv
<1>1. QED
  BY InitHolds, StepHolds, PTL DEF Spec

\* Every variable has the type the code gives it.
THEOREM TypeCorrect == Spec => []TypeOK
<1>1. IInv => TypeOK
  BY DEF IInv
<1>2. QED
  BY <1>1, Invariant, PTL

\* findMatchingVersion (config.go): of a list, however long, whose entries
\* cover all versions, one accepts a version and it is the one chosen.
THEOREM OneAlwaysAccepts == Spec => []OneAccepts
<1>1. TypeOK => OneAccepts
  BY OneEntry DEF TypeOK, OneAccepts, Choice
<1>2. QED
  BY <1>1, TypeCorrect, PTL

\* An upgrade of the product, by however much, never takes findMatchingVersion
\* (config.go) back to an earlier entry of a list that covers all versions.
THEOREM UpgradesNeverGoBack == Spec => NeverGoesBack
<1> DEFINE Ahead == /\ chosen # Nothing /\ Fetch /\ Tiles(versions)
                    /\ Proper(chosen.for) /\ ~Earlier(product, chosen.for)
                    => chosen.entry <= chosen'.entry
<1>1. IInv /\ [Next]_vars => [Ahead]_vars
  <2> SUFFICES ASSUME IInv, chosen # Nothing, Fetch, Tiles(versions),
                      Proper(chosen.for), ~Earlier(product, chosen.for)
               PROVE  chosen.entry <= chosen'.entry
    OBVIOUS
  <2>1. /\ versions \in Published /\ product \in Version /\ chosen.for \in Version
        /\ chosen.entry = findMatchingVersion(versions, chosen.for)
    BY DEF IInv, TypeOK, Kept
  <2>2. Choice # Nothing
    BY <2>1, TilesAre, MatchIs DEF Choice
  <2>3. chosen'.entry = findMatchingVersion(versions, product)
    BY <2>2 DEF Fetch, Choice
  <2>4. QED
    BY <2>1, <2>3, Monotone
<1>2. QED
  BY <1>1, Invariant, PTL DEF Spec, NeverGoesBack

\* The two files accept the same versions by the same borders, for versions of
\* any length and value without white space around them: acceptVersion (config.go) and acceptsIn (validator.go).
THEOREM GatesAlwaysAgree == Spec => []GatesAgree
<1>1. TypeOK => GatesAgree
  <2> SUFFICES ASSUME TypeOK, NEW i \in DOMAIN versions, versions[i] # NoBorders,
                      Proper(product), Trimmed(product) = product,
                      {versions[i].from, versions[i].to} # {<<>>},
                      \A s \in {versions[i].from, versions[i].to} :
                        Trimmed(s) = s /\ (s = <<>> \/ Proper(s))
               PROVE  acceptVersion(versions[i], product) <=> acceptsIn({versions[i]}, product)
    BY DEF GatesAgree
  <2>1. PICK from, to : from = versions[i].from /\ to = versions[i].to
    OBVIOUS
  <2>2. product \in Version /\ from \in Version /\ to \in Version
    BY <2>1, EntriesAre DEF TypeOK
  <2>3. \A s \in {from, to} : Proper(s) <=> s # <<>>
    BY <2>1, <2>2, OpenIs
  <2>4. acceptVersion(versions[i], product)
          <=> /\ Proper(from) \/ Proper(to)
              /\ Proper(from) => ~Earlier(product, from)
              /\ Proper(to) => Earlier(product, to)
    BY <2>1, <2>2, AcceptsWhen DEF acceptVersion
  <2>5. acceptsIn({versions[i]}, product)
          <=> /\ from # <<>> => ~Earlier(product, from)
              /\ to # <<>> => Earlier(product, to)
    <3>1. /\ compareBuilds(from, product) <= 0 <=> ~Earlier(product, from)
          /\ compareBuilds(to, product) > 0 <=> Earlier(product, to)
      <4>1. Trimmed(from) = from /\ Trimmed(to) = to
        BY <2>1
      <4>2. /\ compareMajorVersions(parseMajorVersion(from), parseMajorVersion(product)) \in Int
            /\ compareMajorVersions(parseMajorVersion(to), parseMajorVersion(product)) \in Int
        BY <2>2, ComparisonsAgree
      <4>3. QED
        BY <2>2, <4>1, <4>2, ComparisonsAgree
    <3>2. QED
      BY <2>1, <3>1 DEF acceptsIn
  <2>6. QED
    BY <2>1, <2>3, <2>4, <2>5
<1>2. QED
  BY <1>1, TypeCorrect, PTL
=============================================================================
