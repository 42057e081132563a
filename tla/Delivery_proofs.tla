--------------------------- MODULE Delivery_proofs ---------------------------
(* What holds of the way from Track to the server for any number of         *)
(* processes, flushers, events, retries, failures and faults.               *)
EXTENDS Delivery, SequenceTheorems, FiniteSetTheorems, TLAPS

-----------------------------------------------------------------------------
(* Sequences of records: the events they stand for, and in how many places. *)

LEMMA IdsOf ==
  ASSUME NEW q \in Seq(Record)
  PROVE  /\ \A x : x \in Ids(Range(q)) <=> \E j \in 1..Len(q) : x \in q[j].ids
         /\ Range(q) \subseteq Record /\ Ids(Range(q)) \subseteq Id
         /\ \A j \in 1..Len(q) : q[j] \in Range(q)
<1>1. DOMAIN q = 1..Len(q) /\ \A j \in 1..Len(q) : q[j] \in Record
  BY LenProperties, ElementOfSeq
<1>2. Range(q) \subseteq Record /\ \A r \in Record : r.ids \subseteq Id
  BY <1>1 DEF Range, Record
<1>3. QED
  BY <1>1, <1>2 DEF Ids, Range

LEMMA NoIds == <<>> \in Seq(Record) /\ Range(<<>>) = {} /\ Ids(Range(<<>>)) = {} /\ Distinct(<<>>)
BY EmptySeq DEF Ids, Range, Distinct

\* What a part of a sequence stands for, in terms of the whole.
LEMMA SliceIds ==
  ASSUME NEW q \in Seq(Record), NEW m \in Int, NEW n \in Int, m >= 1, n <= Len(q)
  PROVE  LET s == SubSeq(q, m, n)
         IN  /\ s \in Seq(Record)
             /\ Len(s) = IF m <= n THEN n - m + 1 ELSE 0
             /\ \A i \in 1..Len(s) : s[i] = q[m + i - 1]
             /\ Range(s) \subseteq Range(q) /\ \A j \in m..n : q[j] \in Range(s)
             /\ \A x : x \in Ids(Range(s)) <=> \E j \in m..n : x \in q[j].ids
             /\ Distinct(s) <=> \A i, j \in m..n : i # j => q[i].ids \cap q[j].ids = {}
<1> DEFINE s == SubSeq(q, m, n)
<1>1. Len(q) \in Nat /\ DOMAIN q = 1..Len(q)
  BY LenProperties
<1>2. \A i \in m..n : q[i] \in Record
  BY <1>1, ElementOfSeq
<1>3. /\ s \in Seq(Record)
      /\ Len(s) = IF m <= n THEN n - m + 1 ELSE 0
      /\ \A i \in 1..n - m + 1 : s[i] = q[m + i - 1]
  BY <1>2, SubSeqProperties
<1> HIDE DEF s
<1>4. DOMAIN s = 1..Len(s) /\ Len(s) \in Nat
  BY <1>3, LenProperties
<1>5. \A i \in 1..Len(s) : i \in 1..n - m + 1 /\ m + i - 1 \in m..n /\ s[i] = q[m + i - 1]
  BY <1>3
<1>6. \A j \in m..n : j - m + 1 \in 1..Len(s) /\ s[j - m + 1] = q[j]
  <2> TAKE j \in m..n
  <2>1. j - m + 1 \in 1..n - m + 1 /\ m + (j - m + 1) - 1 = j /\ m <= n
    OBVIOUS
  <2>2. QED
    BY <1>3, <2>1
<1>7. Range(s) \subseteq Range(q) /\ \A j \in m..n : q[j] \in Range(s)
  <2>1. m..n \subseteq DOMAIN q
    BY <1>1
  <2>2. QED
    BY <1>4, <1>5, <1>6, <2>1 DEF Range
<1>8. \A x : x \in Ids(Range(s)) <=> \E j \in m..n : x \in q[j].ids
  <2>1. \A x : x \in Ids(Range(s)) <=> \E i \in 1..Len(s) : x \in s[i].ids
    BY <1>3, IdsOf
  <2>2. ASSUME NEW x, NEW i \in 1..Len(s), x \in s[i].ids
        PROVE  \E j \in m..n : x \in q[j].ids
    BY <1>5, <2>2
  <2>3. ASSUME NEW x, NEW j \in m..n, x \in q[j].ids
        PROVE  \E i \in 1..Len(s) : x \in s[i].ids
    BY <1>6, <2>3
  <2>4. QED
    BY <2>1, <2>2, <2>3
<1>9. Distinct(s) <=> \A i, j \in m..n : i # j => q[i].ids \cap q[j].ids = {}
  <2>1. ASSUME Distinct(s), NEW i \in m..n, NEW j \in m..n, i # j
        PROVE  q[i].ids \cap q[j].ids = {}
    <3>1. i - m + 1 # j - m + 1
      BY <2>1
    <3>2. QED
      BY <1>6, <2>1, <3>1 DEF Distinct
  <2>2. ASSUME \A i, j \in m..n : i # j => q[i].ids \cap q[j].ids = {}
        PROVE  Distinct(s)
    <3> SUFFICES ASSUME NEW i \in 1..Len(s), NEW j \in 1..Len(s), i # j
                 PROVE  s[i].ids \cap s[j].ids = {}
      BY DEF Distinct
    <3>1. m + i - 1 # m + j - 1
      BY <1>4
    <3>2. QED
      BY <1>5, <2>2, <3>1
  <2>3. QED
    BY <2>1, <2>2
<1>10. QED
  BY <1>3, <1>5, <1>7, <1>8, <1>9 DEF s

LEMMA AppendIds ==
  ASSUME NEW q \in Seq(Record), NEW r \in Record
  PROVE  /\ Append(q, r) \in Seq(Record) /\ Append(q, r) # <<>>
         /\ Range(Append(q, r)) = Range(q) \cup {r}
         /\ Ids(Range(Append(q, r))) = Ids(Range(q)) \cup r.ids
         /\ Distinct(q) /\ Ids(Range(q)) \cap r.ids = {} => Distinct(Append(q, r))
<1>1. Len(q) \in Nat /\ DOMAIN q = 1..Len(q)
  BY LenProperties
<1>2. /\ Append(q, r) \in Seq(Record) /\ Append(q, r) # <<>>
      /\ Len(Append(q, r)) = Len(q) + 1
      /\ \A i \in 1..Len(q) : Append(q, r)[i] = q[i]
      /\ Append(q, r)[Len(q) + 1] = r
  BY AppendProperties
<1>3. DOMAIN Append(q, r) = 1..Len(q) + 1
  BY <1>2, LenProperties
<1>4. Range(Append(q, r)) = Range(q) \cup {r}
  BY <1>1, <1>2, <1>3 DEF Range
<1>5. Ids(Range(Append(q, r))) = Ids(Range(q)) \cup r.ids
  BY <1>4 DEF Ids
<1>6. ASSUME Distinct(q), Ids(Range(q)) \cap r.ids = {}
      PROVE  Distinct(Append(q, r))
  <2>1. \A i \in 1..Len(q) : q[i].ids \cap r.ids = {}
    BY <1>6, IdsOf
  <2>2. \A i \in 1..Len(q) + 1 : i \in 1..Len(q) \/ i = Len(q) + 1
    BY <1>1
  <2>3. QED
    BY <1>2, <1>6, <2>1, <2>2 DEF Distinct
<1>7. QED
  BY <1>2, <1>4, <1>5, <1>6

LEMMA HeadTailIds ==
  ASSUME NEW q \in Seq(Record), q # <<>>
  PROVE  /\ Head(q) \in Record /\ Tail(q) \in Seq(Record)
         /\ Tail(q) = <<>> <=> Len(q) = 1
         /\ Range(q) = {Head(q)} \cup Range(Tail(q))
         /\ Ids(Range(q)) = Head(q).ids \cup Ids(Range(Tail(q)))
         /\ Distinct(q) => Distinct(Tail(q)) /\ Head(q).ids \cap Ids(Range(Tail(q))) = {}
<1>1. Len(q) \in Nat \ {0} /\ DOMAIN q = 1..Len(q) /\ Head(q) = q[1]
  BY LenProperties, EmptySeq
<1>2. /\ Head(q) \in Record /\ Tail(q) \in Seq(Record)
      /\ Len(Tail(q)) = Len(q) - 1
      /\ \A i \in 1..Len(Tail(q)) : Tail(q)[i] = q[i + 1]
  BY HeadTailProperties
<1>3. DOMAIN Tail(q) = 1..Len(q) - 1
  BY <1>2, LenProperties
<1>4. Tail(q) = <<>> <=> Len(q) = 1
  <2>1. Tail(q) = <<>> => Len(Tail(q)) = 0
    BY EmptySeq
  <2>2. Tail(q) # <<>> => Len(Tail(q)) # 0
    BY <1>2, EmptySeq
  <2>3. QED
    BY <1>1, <1>2, <2>1, <2>2
<1>5. \A i \in 1..Len(q) : i = 1 \/ (i - 1 \in 1..Len(q) - 1 /\ Tail(q)[i - 1] = q[i])
  <2> SUFFICES ASSUME NEW i \in 1..Len(q), i # 1
               PROVE  i - 1 \in 1..Len(q) - 1 /\ Tail(q)[i - 1] = q[i]
    OBVIOUS
  <2>1. i - 1 \in 1..Len(q) - 1 /\ (i - 1) + 1 = i
    BY <1>1
  <2>2. QED
    BY <1>2, <2>1
<1>6. \A i \in 1..Len(q) - 1 : i + 1 \in 1..Len(q) /\ i + 1 # 1 /\ Tail(q)[i] = q[i + 1]
  BY <1>1, <1>2
<1>7. Range(q) = {Head(q)} \cup Range(Tail(q))
  <2>1. \A x : x \in Range(q) <=> \E i \in 1..Len(q) : x = q[i]
    BY <1>1 DEF Range
  <2>2. \A x : x \in Range(Tail(q)) <=> \E i \in 1..Len(q) - 1 : x = Tail(q)[i]
    BY <1>3 DEF Range
  <2>3. ASSUME NEW i \in 1..Len(q)
        PROVE  q[i] = Head(q) \/ q[i] \in Range(Tail(q))
    BY <1>1, <1>5, <2>2
  <2>4. ASSUME NEW i \in 1..Len(q) - 1
        PROVE  Tail(q)[i] \in Range(q)
    BY <1>6, <2>1
  <2>5. Head(q) \in Range(q)
    BY <1>1, <2>1
  <2>6. QED
    BY <2>1, <2>2, <2>3, <2>4, <2>5
<1>8. Ids(Range(q)) = Head(q).ids \cup Ids(Range(Tail(q)))
  BY <1>7 DEF Ids
<1>9. ASSUME Distinct(q)
      PROVE  Distinct(Tail(q)) /\ Head(q).ids \cap Ids(Range(Tail(q))) = {}
  <2>1. \A i, j \in 1..Len(q) - 1 : i # j => i + 1 # j + 1
    BY <1>1
  <2>2. Distinct(Tail(q))
    BY <1>2, <1>6, <1>9, <2>1 DEF Distinct
  <2>3. \A i \in 1..Len(q) - 1 : q[1].ids \cap Tail(q)[i].ids = {}
    BY <1>1, <1>6, <1>9 DEF Distinct
  <2>4. QED
    BY <1>1, <1>2, <2>2, <2>3, IdsOf
<1>10. QED
  BY <1>2, <1>4, <1>7, <1>8, <1>9

LEMMA IdsFinite ==
  ASSUME NEW S \in SUBSET Id
  PROVE  IsFiniteSet(S) /\ Cardinality(S) \in Nat
<1>1. IsFiniteSet(Id)
  BY DeliveryAssumption, FS_Interval DEF Id
<1>2. QED
  BY <1>1, FS_Subset, FS_CardinalityType

\* mergeInto loses no event, and keeps a record's count that of its events.
LEMMA MergeIds ==
  ASSUME NEW done \in Seq(Record), NEW next \in Record
  PROVE  LET d == mergeInto(done, next)
         IN  /\ d \in Seq(Record) /\ Len(d) > 0
             /\ Ids(Range(d)) = Ids(Range(done)) \cup next.ids
             /\ Ids(Range(done)) \cap next.ids = {} =>
                  /\ Distinct(done) => Distinct(d)
                  /\ (\A r \in Range(done) \cup {next} : Genuine(r)) => \A r \in Range(d) : Genuine(r)
<1> DEFINE d == mergeInto(done, next)
           n == Len(done)
<1>1. n \in Nat /\ DOMAIN done = 1..n
  BY LenProperties
<1>2. CASE ~(n > 0 /\ canMerge(done[n], next))
  <2>1. d = Append(done, next)
    BY <1>2 DEF mergeInto
  <2>2. Len(Append(done, next)) = n + 1
    BY AppendProperties
  <2>3. QED
    BY <1>1, <2>1, <2>2, AppendIds
<1>3. CASE n > 0 /\ canMerge(done[n], next)
  <2> DEFINE r == [done[n] EXCEPT !.count = @ + next.count, !.ids = @ \cup next.ids]
  <2>1. done[n] \in Record /\ n \in 1..n
    BY <1>1, <1>3, ElementOfSeq
  <2>2. r \in Record /\ r.count = done[n].count + next.count /\ r.ids = done[n].ids \cup next.ids
        /\ r.session = done[n].session /\ r.kind = done[n].kind
    <3>1. PICK a \in Record : a = done[n]
      BY <2>1
    <3>2. r = [a EXCEPT !.count = @ + next.count, !.ids = @ \cup next.ids]
      BY <3>1
    <3> HIDE DEF r
    <3>3. a.count + next.count \in Nat /\ a.ids \cup next.ids \in SUBSET Id
      BY DEF Record
    <3>4. /\ r \in Record /\ r.count = a.count + next.count /\ r.ids = a.ids \cup next.ids
          /\ r.session = a.session /\ r.kind = a.kind
      BY <3>2, <3>3 DEF Record
    <3>5. QED
      BY <3>1, <3>4
  <2>3. d = [done EXCEPT ![n] = r]
    BY <1>1, <1>3, <2>1 DEF mergeInto
  <2> HIDE DEF d, r
  <2>4. /\ d \in Seq(Record) /\ Len(d) = n
        /\ \A j \in 1..n : d[j] = IF j = n THEN r ELSE done[j]
    BY <2>1, <2>2, <2>3, ExceptSeq
  <2>5. Ids(Range(d)) = Ids(Range(done)) \cup next.ids
    <3>1. \A x : x \in Ids(Range(d)) <=> \E j \in 1..n : x \in d[j].ids
      BY <2>4, IdsOf
    <3>2. \A x : x \in Ids(Range(done)) <=> \E j \in 1..n : x \in done[j].ids
      BY IdsOf
    <3>3. \A j \in 1..n : d[j].ids = done[j].ids \/ d[j].ids = done[n].ids \cup next.ids
      BY <2>2, <2>4
    <3>4. \A j \in 1..n : done[j].ids \subseteq d[j].ids
      BY <2>2, <2>4
    <3>5. next.ids \subseteq d[n].ids
      BY <2>1, <2>2, <2>4
    <3>6. QED
      BY <2>1, <3>1, <3>2, <3>3, <3>4, <3>5
  <2>6. ASSUME Ids(Range(done)) \cap next.ids = {}, Distinct(done)
        PROVE  Distinct(d)
    <3>1. \A j \in 1..n : done[j].ids \cap next.ids = {}
      BY <2>6, IdsOf
    <3>2. \A i, j \in 1..n : i # j => done[i].ids \cap done[j].ids = {}
      BY <2>6 DEF Distinct
    <3>3. QED
      BY <2>1, <2>2, <2>4, <3>1, <3>2 DEF Distinct
  <2>7. ASSUME Ids(Range(done)) \cap next.ids = {},
               \A x \in Range(done) \cup {next} : Genuine(x)
        PROVE  \A x \in Range(d) : Genuine(x)
    <3>1. DOMAIN d = 1..n
      BY <2>4, LenProperties
    <3>2. Genuine(done[n]) /\ Genuine(next) /\ done[n].ids \cap next.ids = {}
      BY <2>1, <2>7, IdsOf
    <3>3. r.count = Cardinality(r.ids)
      <4>1. /\ IsFiniteSet(done[n].ids) /\ IsFiniteSet(next.ids)
            /\ Cardinality(done[n].ids) \in Nat /\ Cardinality(next.ids) \in Nat
        BY <2>1, IdsFinite DEF Record
      <4>2. Cardinality(done[n].ids \cup next.ids) =
              Cardinality(done[n].ids) + Cardinality(next.ids) - Cardinality({})
        BY <3>2, <4>1, FS_Union
      <4>3. QED
        BY <2>2, <3>2, <4>1, <4>2, FS_EmptySet DEF Genuine
    <3>4. done[n].session = next.session /\ done[n].kind = next.kind
      BY <1>3 DEF canMerge
    <3>5. Genuine(r)
      BY <2>2, <3>2, <3>3, <3>4 DEF Genuine
    <3>6. QED
      BY <1>1, <2>4, <2>7, <3>1, <3>5 DEF Range
  <2>8. QED
    BY <1>3, <2>4, <2>5, <2>6, <2>7 DEF d
<1>4. QED
  BY <1>2, <1>3

-----------------------------------------------------------------------------
(* Places, as the properties see them, and the parts of the invariant.      *)

LEMMA HandsTyped ==
  ASSUME TypeOK, NEW f \in Flusher
  PROVE  /\ rest[f] \in Seq(Record) /\ Unsent(f) \in Seq(Record)
         /\ merged[f] \in Seq(Record) /\ sent[f] \in Nat
         /\ Ids(Held(f)) = Ids(Range(rest[f])) \cup Ids(Range(Unsent(f)))
<1>1. rest[f] \in Seq(Record) /\ merged[f] \in Seq(Record) /\ sent[f] \in Nat
  BY DEF TypeOK
<1>2. Unsent(f) \in Seq(Record)
  BY <1>1, SliceIds, LenProperties DEF Unsent
<1>3. QED
  BY <1>1, <1>2 DEF Held, Ids

InQueue(x) == \E j \in 1..Len(queue) : x = <<NoOne, j, queue[j]>>
InRest(x, f) == \E j \in 1..Len(rest[f]) : x = <<f, j, rest[f][j]>>
InUnsent(x, f) == \E j \in 1..Len(Unsent(f)) : x = <<f, Len(rest[f]) + j, Unsent(f)[j]>>

\* A place is one in the file, in rest or in what is unsent.
LEMMA PlaceOf ==
  ASSUME TypeOK, NEW x \in Places
  PROVE  InQueue(x) \/ \E f \in Flusher : InRest(x, f) \/ InUnsent(x, f)
<1> USE DEF InQueue, InRest, InUnsent
<1>1. CASE \E j \in 1..Len(queue) : x = <<NoOne, j, queue[j]>>
  BY <1>1
<1>2. CASE \E f \in Flusher : \E j \in 1..Len(rest[f]) + Len(Unsent(f)) :
             x = <<f, j, (rest[f] \o Unsent(f))[j]>>
  <2> PICK f \in Flusher : \E j \in 1..Len(rest[f]) + Len(Unsent(f)) :
                             x = <<f, j, (rest[f] \o Unsent(f))[j]>>
    BY <1>2
  <2>1. PICK j \in 1..Len(rest[f]) + Len(Unsent(f)) : x = <<f, j, (rest[f] \o Unsent(f))[j]>>
    OBVIOUS
  <2>2. rest[f] \in Seq(Record) /\ Unsent(f) \in Seq(Record)
    BY HandsTyped
  <2>3. Len(rest[f]) \in Nat /\ Len(Unsent(f)) \in Nat
    BY <2>2, LenProperties
  <2>4. (rest[f] \o Unsent(f))[j] = IF j <= Len(rest[f]) THEN rest[f][j] ELSE Unsent(f)[j - Len(rest[f])]
    BY <2>2, ConcatProperties
  <2>5. CASE j <= Len(rest[f])
    <3>1. j \in 1..Len(rest[f])
      BY <2>3, <2>5
    <3>2. QED
      BY <2>1, <2>4, <2>5, <3>1
  <2>6. CASE ~(j <= Len(rest[f]))
    <3>1. j - Len(rest[f]) \in 1..Len(Unsent(f)) /\ j = Len(rest[f]) + (j - Len(rest[f]))
      BY <2>3, <2>6
    <3>2. QED
      BY <2>1, <2>4, <2>6, <3>1
  <2>7. QED
    BY <2>5, <2>6
<1>3. QED
  BY <1>1, <1>2 DEF Places

LEMMA PlaceFor ==
  ASSUME TypeOK
  PROVE  /\ \A r \in Range(queue) : \E x \in Places : x[3] = r
         /\ \A f \in Flusher : \A r \in Held(f) : \E x \in Places : x[3] = r
<1>1. ASSUME NEW r \in Range(queue)
      PROVE  \E x \in Places : x[3] = r
  <2>1. PICK j \in 1..Len(queue) : r = queue[j]
    BY <1>1, LenProperties DEF TypeOK, Range
  <2>2. <<NoOne, j, queue[j]>> \in Places
    BY DEF Places
  <2>3. QED
    BY <2>1, <2>2
<1>2. ASSUME NEW f \in Flusher, NEW r \in Held(f)
      PROVE  \E x \in Places : x[3] = r
  <2> DEFINE hand == rest[f] \o Unsent(f)
  <2>1. /\ rest[f] \in Seq(Record) /\ Unsent(f) \in Seq(Record)
        /\ Len(rest[f]) \in Nat /\ Len(Unsent(f)) \in Nat
    BY HandsTyped, LenProperties
  <2>2. \A j \in 1..Len(rest[f]) + Len(Unsent(f)) :
          hand[j] = IF j <= Len(rest[f]) THEN rest[f][j] ELSE Unsent(f)[j - Len(rest[f])]
    BY <2>1, ConcatProperties
  <2>3. \A j \in 1..Len(rest[f]) + Len(Unsent(f)) : <<f, j, hand[j]>> \in Places
    BY DEF Places
  <2>4. CASE r \in Range(rest[f])
    <3>1. PICK j \in 1..Len(rest[f]) : r = rest[f][j]
      BY <2>1, <2>4, LenProperties DEF Range
    <3>2. j \in 1..Len(rest[f]) + Len(Unsent(f)) /\ hand[j] = r
      BY <2>1, <2>2, <3>1
    <3>3. QED
      BY <2>3, <3>2
  <2>5. CASE r \in Range(Unsent(f))
    <3>1. PICK j \in 1..Len(Unsent(f)) : r = Unsent(f)[j]
      BY <2>1, <2>5, LenProperties DEF Range
    <3>2. /\ Len(rest[f]) + j \in 1..Len(rest[f]) + Len(Unsent(f))
          /\ ~(Len(rest[f]) + j <= Len(rest[f])) /\ (Len(rest[f]) + j) - Len(rest[f]) = j
      BY <2>1
    <3>3. hand[Len(rest[f]) + j] = r
      BY <2>2, <3>1, <3>2
    <3>4. QED
      BY <2>3, <3>2, <3>3
  <2>6. QED
    BY <1>2, <2>4, <2>5 DEF Held
<1>3. QED
  BY <1>1, <1>2

LEMMA PlacedIds ==
  ASSUME TypeOK, NEW x \in Places
  PROVE  \/ x[3] \in Range(queue) /\ x[3].ids \subseteq InFile
         \/ \E f \in Flusher : x[3] \in Held(f) /\ x[3].ids \subseteq InHands(f)
<1>1. \A j \in 1..Len(queue) : queue[j] \in Range(queue)
  BY IdsOf DEF TypeOK
<1>2. \A f \in Flusher : /\ \A j \in 1..Len(rest[f]) : rest[f][j] \in Held(f)
                         /\ \A j \in 1..Len(Unsent(f)) : Unsent(f)[j] \in Held(f)
  BY HandsTyped, IdsOf DEF Held
<1>3. x[3] \in Range(queue) \/ \E f \in Flusher : x[3] \in Held(f)
  BY <1>1, <1>2, PlaceOf DEF InQueue, InRest, InUnsent
<1>4. QED
  BY <1>3 DEF InFile, InHands, Ids

LEMMA OnePlaceHolds == TypeOK /\ Apart => OnePlace
<1> SUFFICES ASSUME TypeOK, Apart, NEW x \in Places, NEW y \in Places, x # y
             PROVE  x[3].ids \cap y[3].ids = {}
  BY DEF OnePlace
<1> USE DEF InQueue, InRest, InUnsent
<1>1. \A z \in {x, y} : InQueue(z) \/ \E f \in Flusher : InRest(z, f) \/ InUnsent(z, f)
  BY PlaceOf
<1>2. \A z \in {x, y} : InQueue(z) => z[3].ids \subseteq InFile
  BY IdsOf DEF TypeOK, InFile
<1>3. \A z \in {x, y}, f \in Flusher :
        /\ InRest(z, f) => z[3].ids \subseteq Ids(Range(rest[f]))
        /\ InUnsent(z, f) => z[3].ids \subseteq Ids(Range(Unsent(f)))
        /\ InRest(z, f) \/ InUnsent(z, f) => z[3].ids \subseteq InHands(f)
  <2> TAKE z \in {x, y}, f \in Flusher
  <2>1. InRest(z, f) => z[3].ids \subseteq Ids(Range(rest[f]))
    BY HandsTyped, IdsOf
  <2>2. InUnsent(z, f) => z[3].ids \subseteq Ids(Range(Unsent(f)))
    BY HandsTyped, IdsOf
  <2>3. QED
    BY <2>1, <2>2, HandsTyped DEF InHands
<1>4. CASE InQueue(x) /\ InQueue(y)
  <2>1. PICK j \in 1..Len(queue) : x = <<NoOne, j, queue[j]>>
    BY <1>4
  <2>2. PICK k \in 1..Len(queue) : y = <<NoOne, k, queue[k]>>
    BY <1>4
  <2>3. QED
    BY <2>1, <2>2 DEF Apart, Distinct
<1>5. CASE \E f, g \in Flusher : f # g /\ (InRest(x, f) \/ InUnsent(x, f)) /\ (InRest(y, g) \/ InUnsent(y, g))
  BY <1>3, <1>5 DEF Apart
<1>6. CASE \E f \in Flusher : InQueue(x) /\ (InRest(y, f) \/ InUnsent(y, f))
  BY <1>2, <1>3, <1>6 DEF Apart
<1>7. CASE \E f \in Flusher : InQueue(y) /\ (InRest(x, f) \/ InUnsent(x, f))
  BY <1>2, <1>3, <1>7 DEF Apart
<1>8. ASSUME NEW f \in Flusher, InRest(x, f), InRest(y, f)
      PROVE  x[3].ids \cap y[3].ids = {}
  <2>1. PICK j \in 1..Len(rest[f]) : x = <<f, j, rest[f][j]>>
    BY <1>8
  <2>2. PICK k \in 1..Len(rest[f]) : y = <<f, k, rest[f][k]>>
    BY <1>8
  <2>3. QED
    BY <2>1, <2>2 DEF Apart, Distinct
<1>9. ASSUME NEW f \in Flusher, InUnsent(x, f), InUnsent(y, f)
      PROVE  x[3].ids \cap y[3].ids = {}
  <2>1. PICK j \in 1..Len(Unsent(f)) : x = <<f, Len(rest[f]) + j, Unsent(f)[j]>>
    BY <1>9
  <2>2. PICK k \in 1..Len(Unsent(f)) : y = <<f, Len(rest[f]) + k, Unsent(f)[k]>>
    BY <1>9
  <2>3. QED
    BY <2>1, <2>2 DEF Apart, Distinct
<1>10. ASSUME NEW f \in Flusher, (InRest(x, f) /\ InUnsent(y, f)) \/ (InUnsent(x, f) /\ InRest(y, f))
       PROVE  x[3].ids \cap y[3].ids = {}
  BY <1>3, <1>10 DEF Apart
<1> HIDE DEF InQueue, InRest, InUnsent
<1>11. CASE InQueue(x) \/ InQueue(y)
  BY <1>1, <1>4, <1>6, <1>7, <1>11
<1>12. CASE ~InQueue(x) /\ ~InQueue(y)
  <2>1. PICK f \in Flusher : InRest(x, f) \/ InUnsent(x, f)
    BY <1>1, <1>12
  <2>2. PICK g \in Flusher : InRest(y, g) \/ InUnsent(y, g)
    BY <1>1, <1>12
  <2>3. CASE f # g
    BY <1>5, <2>1, <2>2, <2>3
  <2>4. CASE f = g
    <3>1. InRest(y, f) \/ InUnsent(y, f)
      BY <2>2, <2>4 DEF InRest, InUnsent
    <3>2. QED
      BY <1>8, <1>9, <1>10, <2>1, <3>1
  <2>5. QED
    BY <2>3, <2>4
<1>13. QED
  BY <1>11, <1>12

LEMMA PropertiesHold == IInv => NothingVanishes /\ OnePlace /\ ConfirmedOnce /\ CountsTrue
<1> SUFFICES ASSUME IInv PROVE NothingVanishes /\ OnePlace /\ ConfirmedOnce /\ CountsTrue
  OBVIOUS
<1> USE DEF IInv
<1>1. NothingVanishes
  <2>1. InFile \subseteq Somewhere
    BY PlaceFor DEF InFile, Somewhere, Ids
  <2>2. \A f \in Flusher : InHands(f) \subseteq Somewhere
    BY PlaceFor DEF InHands, Somewhere, Ids
  <2>3. QED
    BY <2>1, <2>2 DEF Accounted, NothingVanishes, Somewhere
<1>2. ConfirmedOnce
  <2>1. \A i \in confirmed : \A x \in Places : i \notin x[3].ids
    BY PlacedIds DEF Ledger
  <2>2. Ids({x[3] : x \in Places}) \cap confirmed = {}
    BY <2>1 DEF Ids
  <2>3. \A i \in Id : recorded[i] <= 1 + unsure[i]
    <3>1. unsure \in [Id -> Nat]
      BY DEF TypeOK
    <3>2. QED
      BY <3>1 DEF Ledger
  <2>4. QED
    BY <2>2, <2>3 DEF ConfirmedOnce
<1>3. CountsTrue
  <2>1. \A x \in Places : Genuine(x[3])
    BY PlacedIds DEF AllGenuine
  <2>2. QED
    BY <2>1 DEF CountsTrue, Genuine
<1>4. QED
  BY <1>1, <1>2, <1>3, OnePlaceHolds

-----------------------------------------------------------------------------
(* The inductive invariant: the initial states.                             *)

LEMMA InitHolds == Init => IInv
<1> SUFFICES ASSUME Init PROVE IInv
  OBVIOUS
<1>1. \A f \in Flusher : Unsent(f) = <<>>
  <2> TAKE f \in Flusher
  <2>1. merged[f] = <<>> /\ sent[f] = 0 /\ Len(<<>>) = 0
    BY EmptySeq DEF Init
  <2>2. QED
    BY <2>1, SubSeqEmpty DEF Unsent
<1>2. InFile = {} /\ \A f \in Flusher : Held(f) = {} /\ InHands(f) = {}
  BY <1>1, NoIds DEF Init, InFile, InHands, Held, Ids
<1>3. TypeOK
  BY EmptySeq, DeliveryAssumption DEF Init, TypeOK, Steps
<1>4. InPhase /\ InSession
  BY DEF Init, InPhase, Fits, InSession, Sending
<1>5. Apart
  BY <1>1, <1>2, NoIds DEF Init, Apart
<1>6. AllGenuine
  BY <1>2, NoIds DEF Init, AllGenuine
<1>7. Accounted
  BY DEF Init, Accounted
<1>8. Ledger
  BY DEF Init, Ledger
<1>9. QED
  BY <1>3, <1>4, <1>5, <1>6, <1>7, <1>8 DEF IInv

-----------------------------------------------------------------------------
(* The inductive invariant: what several steps have in common.              *)

\* What the hands of a flusher that takes no part in a step hold.
LEMMA SameHands ==
  ASSUME NEW f \in Flusher, rest'[f] = rest[f], merged'[f] = merged[f], sent'[f] = sent[f]
  PROVE  Unsent(f)' = Unsent(f) /\ Held(f)' = Held(f) /\ InHands(f)' = InHands(f)
<1>1. Unsent(f)' = Unsent(f)
  BY DEF Unsent
<1>2. QED
  BY <1>1 DEF Held, InHands

\* Empty hands.
LEMMA NoHands ==
  ASSUME NEW f \in Flusher, rest'[f] = <<>>, merged'[f] = <<>>, sent'[f] = 0
  PROVE  Unsent(f)' = <<>> /\ Held(f)' = {} /\ InHands(f)' = {}
<1>1. Unsent(f)' = <<>>
  <2>1. Unsent(f)' = SubSeq(<<>>, 1, 0)
    BY EmptySeq DEF Unsent
  <2>2. QED
    BY <2>1, SubSeqEmpty
<1>2. QED
  BY <1>1, NoIds DEF Held, InHands, Ids

\* What the hands of a flusher stand for, before and after a step.
LEMMA HandsAre ==
  ASSUME NEW f \in Flusher
  PROVE  /\ InHands(f) = Ids(Range(rest[f])) \cup Ids(Range(Unsent(f)))
         /\ InHands(f)' = Ids(Range(rest'[f])) \cup Ids(Range(Unsent(f)'))
         /\ Held(f)' = Range(rest'[f]) \cup Range(Unsent(f)')
BY DEF InHands, Held, Ids

LEMMA NothingSent ==
  ASSUME NEW f \in Flusher
  PROVE  /\ merged[f] \in Seq(Record) /\ sent[f] = 0 => Unsent(f) = merged[f]
         /\ merged'[f] \in Seq(Record) /\ sent'[f] = 0 => Unsent(f)' = merged'[f]
BY SubSeqFull DEF Unsent

\* A step of one flusher.
Elsewhere(f) == \A g \in Flusher \ {f} :
  /\ pc'[g] = pc[g] /\ rest'[g] = rest[g] /\ merged'[g] = merged[g]
  /\ sent'[g] = sent[g] /\ attempt'[g] = attempt[g]

LEMMA FitsElsewhere ==
  ASSUME InPhase, NEW f \in Flusher, Elsewhere(f), Fits(f)'
  PROVE  InPhase'
BY DEF InPhase, Fits, Elsewhere

\* A step of one flusher that only moves events between the file and its own
\* hands, or out of both because they are recorded or lost.
LEMMA Moved ==
  ASSUME IInv, NEW f \in Flusher,
         Elsewhere(f),
         InFile' \cup InHands(f)' \subseteq InFile \cup InHands(f),
         InFile' \cap InHands(f)' = {},
         Distinct(queue'), Distinct(rest'[f]), Distinct(Unsent(f)'),
         Ids(Range(rest'[f])) \cap Ids(Range(Unsent(f)')) = {},
         \A r \in Range(queue') \cup Held(f)' : Genuine(r),
         InFile \cup InHands(f) \subseteq InFile' \cup InHands(f)' \cup Recorded' \cup unwritten',
         Recorded \subseteq Recorded', unwritten \subseteq unwritten',
         UNCHANGED <<origin, tracked, crashed, trimmed>>
  PROVE  Apart' /\ AllGenuine' /\ Accounted'
<1> USE DEF IInv
<1>1. \A g \in Flusher \ {f} : /\ Unsent(g)' = Unsent(g) /\ Held(g)' = Held(g)
                               /\ InHands(g)' = InHands(g) /\ rest'[g] = rest[g]
  BY SameHands DEF Elsewhere
<1>2. Apart'
  <2>1. \A g \in Flusher : /\ Distinct(rest'[g]) /\ Distinct(Unsent(g)')
                           /\ Ids(Range(rest'[g])) \cap Ids(Range(Unsent(g)')) = {}
    BY <1>1 DEF Apart
  <2>2. \A g \in Flusher : InFile' \cap InHands(g)' = {}
    BY <1>1 DEF Apart
  <2>3. \A g, h \in Flusher : g # h => InHands(g)' \cap InHands(h)' = {}
    BY <1>1 DEF Apart
  <2>4. QED
    BY <2>1, <2>2, <2>3 DEF Apart, Distinct
<1>3. AllGenuine'
  <2>1. \A r : Genuine(r)' <=> Genuine(r)
    BY DEF Genuine
  <2>2. \A g \in Flusher \ {f} : \A r \in Held(g)' : Genuine(r)
    BY <1>1 DEF AllGenuine
  <2>3. QED
    BY <2>1, <2>2 DEF AllGenuine
<1>4. Accounted'
  <2>1. \A g \in Flusher : InHands(g) \subseteq InHands(g)' \cup InHands(f)
    BY <1>1
  <2>2. (UNION {InHands(g) : g \in Flusher}) \subseteq (UNION {InHands(g)' : g \in Flusher}) \cup InHands(f)
    BY <2>1
  <2>3. InHands(f)' \subseteq UNION {InHands(g)' : g \in Flusher}
    OBVIOUS
  <2>4. QED
    BY <2>2, <2>3 DEF Accounted
<1>5. QED
  BY <1>2, <1>3, <1>4

\* The server's books are as true after a step that only moves events.
LEMMA LedgerKept ==
  ASSUME Ledger, InFile' \subseteq InFile \cup (UNION {InHands(f) : f \in Flusher}),
         \A f \in Flusher : InHands(f)' \subseteq InFile \cup InHands(f),
         UNCHANGED <<origin, confirmed, recorded, unsure>>
  PROVE  Ledger'
BY DEF Ledger

-----------------------------------------------------------------------------
(* The inductive invariant: the steps of a process.                         *)

LEMMA TrimKeeps ==
  ASSUME TypeOK, NEW k \in 0..MaxSize, TrimTo(k)
  PROVE  /\ queue' \in Seq(Record) /\ Range(queue') \subseteq Range(queue)
         /\ InFile' \subseteq InFile
         /\ Distinct(queue) => Distinct(queue')
         /\ InFile \subseteq InFile' \cup trimmed' \cup unwritten'
         /\ trimmed \subseteq trimmed' /\ trimmed' \subseteq Id
         /\ unwritten \subseteq unwritten' /\ unwritten' \subseteq Id
<1>1. /\ queue \in Seq(Record) /\ Len(queue) \in Nat /\ MaxSize \in Nat
      /\ Len(queue) > MaxSize /\ k \in Nat /\ k <= MaxSize
  BY LenProperties, DeliveryAssumption DEF TypeOK, TrimTo
<1> DEFINE n == Len(queue) - MaxSize
           kept == SubSeq(queue, n + 1, n + k)
           old == SubSeq(queue, 1, n)
           lost == SubSeq(queue, n + k + 1, Len(queue))
<1>2. /\ queue' = kept /\ trimmed' = trimmed \cup Ids(Range(old))
      /\ unwritten' = unwritten \cup Ids(Range(lost))
  BY DEF TrimTo, Over
<1>3. n \in Nat /\ n + k <= Len(queue) /\ n + 1 \in Int /\ n + k \in Int /\ n + k + 1 \in Int
  BY <1>1
<1> HIDE DEF n
<1>4. /\ kept \in Seq(Record) /\ Range(kept) \subseteq Range(queue)
      /\ \A x : x \in Ids(Range(kept)) <=> \E j \in n + 1..n + k : x \in queue[j].ids
      /\ Distinct(kept) <=> \A i, j \in n + 1..n + k : i # j => queue[i].ids \cap queue[j].ids = {}
  BY <1>1, <1>3, SliceIds
<1>5. /\ old \in Seq(Record)
      /\ \A x : x \in Ids(Range(old)) <=> \E j \in 1..n : x \in queue[j].ids
  BY <1>1, <1>3, SliceIds
<1>6. /\ lost \in Seq(Record)
      /\ \A x : x \in Ids(Range(lost)) <=> \E j \in n + k + 1..Len(queue) : x \in queue[j].ids
  BY <1>1, <1>3, SliceIds
<1> HIDE DEF kept, old, lost
<1>7. Distinct(queue) => Distinct(kept)
  <2>1. \A i \in n + 1..n + k : i \in 1..Len(queue)
    BY <1>1, <1>3
  <2>2. QED
    BY <1>4, <2>1 DEF Distinct
<1>8. \A j \in 1..Len(queue) : j \in 1..n \/ j \in n + 1..n + k \/ j \in n + k + 1..Len(queue)
  BY <1>1, <1>3
<1>9. Ids(Range(queue)) \subseteq Ids(Range(kept)) \cup Ids(Range(old)) \cup Ids(Range(lost))
  BY <1>1, <1>4, <1>5, <1>6, <1>8, IdsOf
<1>10. Ids(Range(kept)) \subseteq Ids(Range(queue))
  BY <1>4 DEF Ids
<1>11. Ids(Range(old)) \subseteq Id /\ Ids(Range(lost)) \subseteq Id
  BY <1>5, <1>6, IdsOf
<1>12. QED
  BY <1>2, <1>4, <1>7, <1>9, <1>10, <1>11 DEF InFile, TypeOK

LEMMA StartHolds ==
  ASSUME IInv, NEW p \in Proc, Start(p)
  PROVE  IInv'
<1> USE DEF IInv
<1>1. UNCHANGED <<mu, hands, recorded, tracked, origin, confirmed, unsure, crashed, failures>>
  BY DEF Start
<1>2. /\ queue' \in Seq(Record) /\ Range(queue') \subseteq Range(queue)
      /\ InFile' \subseteq InFile /\ Distinct(queue')
      /\ InFile \subseteq InFile' \cup trimmed' \cup unwritten'
      /\ trimmed \subseteq trimmed' /\ trimmed' \subseteq Id
      /\ unwritten \subseteq unwritten' /\ unwritten' \subseteq Id
  <2>1. CASE \E k \in 0..MaxSize : TrimTo(k)
    BY <2>1, TrimKeeps DEF Apart
  <2>2. CASE UNCHANGED <<queue, trimmed, unwritten>>
    BY <2>2 DEF Apart, InFile, TypeOK
  <2>3. QED
    <3>1. MaxSize \in 0..MaxSize /\ 0..MaxSize - 1 \subseteq 0..MaxSize
      BY DeliveryAssumption
    <3>2. QED
      BY <2>1, <2>2, <3>1 DEF Start
<1>3. \A f \in Flusher : Unsent(f)' = Unsent(f) /\ Held(f)' = Held(f) /\ InHands(f)' = InHands(f)
  BY <1>1, SameHands DEF hands
<1>4. TypeOK'
  <2>1. running' \subseteq Proc /\ starts' \in [Proc -> 0..MaxStarts]
    BY DeliveryAssumption DEF Start, TypeOK
  <2>2. faults' \in 0..MaxFaults
    BY DeliveryAssumption DEF Start, TypeOK
  <2>3. QED
    BY <1>1, <1>2, <2>1, <2>2 DEF TypeOK, hands
<1>5. InPhase' /\ InSession'
  <2>1. InPhase'
    BY <1>1 DEF InPhase, Fits, hands
  <2>2. InSession'
    BY DeliveryAssumption DEF Start, InSession, TypeOK
  <2>3. QED
    BY <2>1, <2>2
<1>6. Apart'
  BY <1>1, <1>2, <1>3 DEF Apart, hands, Distinct
<1>7. AllGenuine'
  BY <1>1, <1>2, <1>3 DEF AllGenuine, Genuine
<1>8. Accounted'
  BY <1>1, <1>2, <1>3 DEF Accounted, Recorded
<1>9. Ledger'
  BY <1>1, <1>2, <1>3, LedgerKept
<1>10. QED
  BY <1>4, <1>5, <1>6, <1>7, <1>8, <1>9

LEMMA CrashHolds ==
  ASSUME IInv, NEW p \in Proc, Crash(p)
  PROVE  IInv'
<1> USE DEF IInv
<1>1. /\ UNCHANGED <<queue, starts, recorded, tracked, origin, confirmed, unsure, trimmed,
                     unwritten, failures, faults>>
      /\ running' = running \ {p} /\ mu' = [mu EXCEPT ![p] = NoOne]
      /\ crashed' = crashed \cup Ids(UNION {Held(f) : f \in Mine(p)})
  BY DEF Crash
<1>2. \A f \in Flusher \ Mine(p) :
        /\ pc'[f] = pc[f] /\ rest'[f] = rest[f] /\ merged'[f] = merged[f]
        /\ sent'[f] = sent[f] /\ attempt'[f] = attempt[f]
  BY DEF Crash
<1>3. \A f \in Mine(p) :
        /\ f \in Flusher /\ pc'[f] = "idle" /\ rest'[f] = <<>> /\ merged'[f] = <<>>
        /\ sent'[f] = 0 /\ attempt'[f] = 0
  BY DEF Crash, Mine
<1>4. /\ pc' \in [Flusher -> Steps] /\ rest' \in [Flusher -> Seq(Record)]
      /\ merged' \in [Flusher -> Seq(Record)]
      /\ sent' \in [Flusher -> Nat] /\ attempt' \in [Flusher -> 0..MaxRetries]
  BY EmptySeq, DeliveryAssumption DEF Crash, TypeOK, Steps
<1>5. \A f \in Flusher \ Mine(p) :
        Unsent(f)' = Unsent(f) /\ Held(f)' = Held(f) /\ InHands(f)' = InHands(f)
  BY <1>2, SameHands
<1>6. \A f \in Mine(p) : Unsent(f)' = <<>> /\ Held(f)' = {} /\ InHands(f)' = {}
  BY <1>3, NoHands
<1>7. crashed' \subseteq Id /\ \A f \in Mine(p) : InHands(f) \subseteq crashed'
  <2>1. \A f \in Flusher : InHands(f) \subseteq Id
    BY HandsTyped, IdsOf DEF InHands
  <2>2. Ids(UNION {Held(f) : f \in Mine(p)}) = UNION {InHands(f) : f \in Mine(p)}
    BY DEF Ids, InHands
  <2>3. crashed' = crashed \cup UNION {InHands(f) : f \in Mine(p)}
    BY <1>1, <2>2
  <2>4. (UNION {InHands(f) : f \in Mine(p)}) \subseteq Id /\ crashed \subseteq Id
    BY <1>3, <2>1 DEF TypeOK
  <2>5. QED
    BY <2>3, <2>4
<1>8. TypeOK'
  BY <1>1, <1>4, <1>7 DEF TypeOK
<1>9. InPhase' /\ InSession'
  <2>1. ASSUME NEW f \in Flusher
        PROVE  Fits(f)'
    <3>1. CASE f \in Mine(p)
      BY <1>3, <3>1 DEF Fits, Sending
    <3>2. CASE f \notin Mine(p)
      BY <1>2, <3>2 DEF InPhase, Fits
    <3>3. QED
      BY <3>1, <3>2
  <2>2. QED
    BY <1>1, <2>1 DEF InPhase, InSession
<1>10. Apart'
  <2>1. \A f \in Flusher : /\ Distinct(rest'[f]) /\ Distinct(Unsent(f)')
                           /\ Ids(Range(rest'[f])) \cap Ids(Range(Unsent(f)')) = {}
    BY <1>2, <1>3, <1>5, <1>6, NoIds DEF Apart
  <2>2. InFile' = InFile /\ \A f \in Flusher : InHands(f)' \subseteq InHands(f)
    BY <1>1, <1>5, <1>6 DEF InFile
  <2>3. QED
    BY <1>1, <2>1, <2>2 DEF Apart, Distinct
<1>11. AllGenuine'
  <2>1. \A f \in Flusher : Held(f)' \subseteq Held(f)
    BY <1>5, <1>6
  <2>2. QED
    BY <1>1, <2>1 DEF AllGenuine, Genuine
<1>12. Accounted'
  <2>1. InFile' = InFile /\ Recorded' = Recorded
    BY <1>1 DEF InFile, Recorded
  <2>2. \A f \in Flusher : InHands(f) \subseteq InHands(f)' \cup crashed'
    BY <1>5, <1>7
  <2>3. (UNION {InHands(f) : f \in Flusher}) \subseteq (UNION {InHands(f)' : f \in Flusher}) \cup crashed'
    BY <2>2
  <2>4. QED
    BY <1>1, <2>1, <2>3 DEF Accounted
<1>13. Ledger'
  <2>1. InFile' = InFile /\ \A f \in Flusher : InHands(f)' \subseteq InHands(f)
    BY <1>1, <1>5, <1>6 DEF InFile
  <2>2. QED
    BY <1>1, <2>1, LedgerKept
<1>14. QED
  BY <1>8, <1>9, <1>10, <1>11, <1>12, <1>13

LEMMA TrackHolds ==
  ASSUME IInv, NEW p \in Proc, NEW kind \in Kind, Track(p, kind)
  PROVE  IInv'
<1> USE DEF IInv
<1> DEFINE Origin == (Proc \X (1..MaxStarts)) \X Kind
<1>i. PICK i : i = Len(origin) + 1
  OBVIOUS
<1>r. PICK r : r = [session |-> <<p, starts[p]>>, kind |-> kind, count |-> 1, ids |-> {i}]
  OBVIOUS
<1>1. /\ p \in running /\ i \in Id /\ origin' = Append(origin, <<<<p, starts[p]>>, kind>>)
      /\ UNCHANGED <<running, starts, mu, hands, recorded, confirmed, unsure, losses, failures>>
      /\ \/ queue' = Append(queue, r) /\ tracked' = tracked \cup {i} /\ UNCHANGED faults
         \/ UNCHANGED <<queue, tracked>> /\ faults < MaxFaults /\ faults' = faults + 1
  BY <1>i, <1>r DEF Track
<1>2. <<p, starts[p]>> \in Proc \X (1..MaxStarts)
  <2>1. starts[p] \in 0..MaxStarts /\ starts[p] > 0
    BY <1>1 DEF TypeOK, InSession
  <2>2. QED
    BY <2>1, DeliveryAssumption
<1>3. origin \in Seq(Origin) /\ Len(origin) \in Nat /\ i \in Nat
  BY <1>i, LenProperties DEF TypeOK
<1>4. /\ origin' \in Seq(Origin) /\ Len(origin') = i
      /\ \A j \in 1..Len(origin) : origin'[j] = origin[j]
      /\ origin'[i] = <<<<p, starts[p]>>, kind>>
  BY <1>1, <1>2, <1>3, <1>i, AppendProperties
<1>5. r \in Record
  BY <1>1, <1>2, <1>r DEF Record
<1>6. r.ids = {i} /\ r.count = 1 /\ r.session = <<p, starts[p]>> /\ r.kind = kind
  BY <1>r
<1>7. /\ queue' \in Seq(Record) /\ Range(queue) \subseteq Range(queue')
      /\ Range(queue') \subseteq Range(queue) \cup {r}
      /\ InFile \subseteq InFile' /\ InFile' \subseteq InFile \cup {i}
  <2>1. CASE queue' = Append(queue, r)
    <3>1. queue \in Seq(Record)
      BY DEF TypeOK
    <3>2. /\ Append(queue, r) \in Seq(Record)
          /\ Range(Append(queue, r)) = Range(queue) \cup {r}
          /\ Ids(Range(Append(queue, r))) = Ids(Range(queue)) \cup r.ids
      BY <1>5, <3>1, AppendIds
    <3>3. QED
      BY <1>6, <2>1, <3>2 DEF InFile
  <2>2. CASE queue' = queue
    BY <2>2 DEF TypeOK, InFile
  <2>3. QED
    BY <1>1, <2>1, <2>2
<1>8. tracked' \subseteq tracked \cup {i} /\ (i \in tracked' => i \in tracked \/ i \in InFile')
  BY <1>1, <1>5, <1>6, AppendIds DEF TypeOK, InFile
<1>9. \A f \in Flusher : Unsent(f)' = Unsent(f) /\ Held(f)' = Held(f) /\ InHands(f)' = InHands(f)
  BY <1>1, SameHands DEF hands
<1>10. i \notin InFile /\ i \notin confirmed /\ \A f \in Flusher : i \notin InHands(f)
  <2>1. \A x : Genuine(x) => i \notin x.ids
    BY <1>3, <1>i DEF Genuine
  <2>2. QED
    BY <1>3, <1>i, <2>1 DEF AllGenuine, Ledger, InFile, InHands, Ids
<1>11. TypeOK'
  <2>1. tracked' \subseteq Id
    BY <1>1 DEF TypeOK
  <2>2. faults' \in 0..MaxFaults
    BY <1>1, DeliveryAssumption DEF TypeOK
  <2>3. Len(origin') <= MaxEvents
    BY <1>1, <1>4, DeliveryAssumption DEF Id
  <2>4. QED
    BY <1>1, <1>4, <1>7, <2>1, <2>2, <2>3 DEF TypeOK, hands, losses
<1>12. InPhase' /\ InSession'
  BY <1>1 DEF InPhase, Fits, InSession, hands
<1>13. Apart'
  <2>1. Distinct(queue')
    <3>1. CASE queue' = Append(queue, r)
      <4>1. queue \in Seq(Record) /\ Distinct(queue) /\ Ids(Range(queue)) \cap r.ids = {}
        BY <1>6, <1>10 DEF TypeOK, Apart, InFile
      <4>2. QED
        BY <1>5, <3>1, <4>1, AppendIds
    <3>2. CASE queue' = queue
      BY <3>2 DEF Apart
    <3>3. QED
      BY <1>1, <3>1, <3>2
  <2>2. \A f \in Flusher : InFile' \cap InHands(f)' = {}
    BY <1>7, <1>9, <1>10 DEF Apart
  <2>3. QED
    BY <1>1, <1>9, <2>1, <2>2 DEF Apart, hands, Distinct
<1>14. AllGenuine'
  <2>1. ASSUME NEW x \in Record, Genuine(x)
        PROVE  Genuine(x)'
    <3>1. \A j \in x.ids : j \in 1..Len(origin) /\ j <= i
      BY <1>3, <1>i, <2>1 DEF Genuine, Record, Id
    <3>2. QED
      BY <1>4, <2>1, <3>1 DEF Genuine
  <2>2. Genuine(r)'
    <3>1. Cardinality({i}) = 1
      BY FS_Singleton
    <3>2. QED
      BY <1>3, <1>4, <1>6, <3>1 DEF Genuine
  <2>3. \A f \in Flusher : Held(f) \subseteq Record
    BY HandsTyped, IdsOf DEF Held
  <2>4. Range(queue) \subseteq Record
    BY IdsOf DEF TypeOK
  <2>5. QED
    BY <1>7, <1>9, <2>1, <2>2, <2>3, <2>4 DEF AllGenuine
<1>15. Accounted'
  <2>1. \A f \in Flusher : InHands(f)' = InHands(f)
    BY <1>9
  <2>2. (UNION {InHands(f)' : f \in Flusher}) = UNION {InHands(f) : f \in Flusher}
    BY <2>1
  <2>3. Recorded' = Recorded
    BY <1>1 DEF Recorded
  <2>4. QED
    BY <1>1, <1>7, <1>8, <2>2, <2>3 DEF Accounted, losses
<1>16. Ledger'
  <2>1. \A j \in confirmed' : /\ j <= Len(origin') /\ j \notin InFile'
                               /\ \A f \in Flusher : j \notin InHands(f)'
    <3> SUFFICES ASSUME NEW j \in confirmed'
                 PROVE  /\ j <= Len(origin') /\ j \notin InFile'
                        /\ \A f \in Flusher : j \notin InHands(f)'
      OBVIOUS
    <3>1. j \in confirmed /\ j \in Nat
      BY <1>1 DEF TypeOK, Id
    <3>2. QED
      BY <1>3, <1>4, <1>7, <1>9, <1>10, <1>i, <3>1 DEF Ledger
  <2>2. QED
    BY <1>1, <2>1 DEF Ledger
<1>17. QED
  BY <1>11, <1>12, <1>13, <1>14, <1>15, <1>16

-----------------------------------------------------------------------------
(* The inductive invariant: the steps of Flush.                             *)

\* What a flusher that neither merges nor sends has in hand.
LEMMA OnlyRest ==
  ASSUME IInv, NEW f \in Flusher, pc[f] \in {"idle", "rebuffer"}
  PROVE  /\ merged[f] = <<>> /\ sent[f] = 0 /\ attempt[f] = 0 /\ Unsent(f) = <<>>
         /\ InHands(f) = Ids(Range(rest[f]))
<1>1. merged[f] = <<>> /\ sent[f] = 0 /\ attempt[f] = 0
  BY DEF IInv, InPhase, Fits, Sending
<1>2. Unsent(f) = <<>>
  BY <1>1, NoIds, NothingSent
<1>3. QED
  BY <1>1, <1>2, NoIds, HandsAre

LEMMA ReadAndClearHolds ==
  ASSUME IInv, NEW f \in Flusher, ReadAndClear(f)
  PROVE  IInv'
<1> USE DEF IInv
<1>1. /\ pc[f] = "idle" /\ pc' = [pc EXCEPT ![f] = "merge"] /\ queue # <<>>
      /\ rest' = [rest EXCEPT ![f] = queue] /\ queue' = <<>>
      /\ UNCHANGED <<running, starts, mu, merged, sent, attempt, recorded, ghost>>
  BY DEF ReadAndClear, Goto, Cleared
<1>2. Elsewhere(f) /\ pc'[f] = "merge" /\ rest'[f] = queue
  BY <1>1 DEF TypeOK, Elsewhere
<1>3. TypeOK'
  BY <1>1, EmptySeq DEF TypeOK, Steps, ghost, losses
<1>4. InPhase' /\ InSession'
  <2>1. merged'[f] = <<>> /\ sent'[f] = 0 /\ attempt'[f] = 0
    BY <1>1, OnlyRest
  <2>2. Fits(f)'
    BY <1>1, <1>2, <2>1 DEF Fits, Sending
  <2>3. QED
    BY <1>1, <1>2, <2>2, FitsElsewhere DEF InSession
<1>5. /\ Unsent(f)' = <<>> /\ InFile' = {} /\ InHands(f)' = InFile /\ Held(f)' = Range(queue)
      /\ Ids(Range(Unsent(f)')) = {}
  <2>1. Unsent(f)' = <<>>
    BY <1>1, OnlyRest, NoIds, NothingSent
  <2>2. QED
    BY <1>1, <1>2, <2>1, NoIds, HandsAre DEF InFile
<1>6. Apart' /\ AllGenuine' /\ Accounted'
  <2>1. Recorded' = Recorded
    BY <1>1 DEF Recorded
  <2>2. Distinct(queue') /\ Distinct(rest'[f]) /\ Distinct(Unsent(f)')
    BY <1>1, <1>2, <1>5, NoIds DEF Apart
  <2>3. \A r \in Range(queue') \cup Held(f)' : Genuine(r)
    BY <1>1, <1>5, NoIds DEF AllGenuine
  <2>4. InFile \cup InHands(f) = InFile
    <3>1. rest[f] = <<>>
      BY <1>1 DEF InPhase, Fits
    <3>2. QED
      BY <1>1, <3>1, OnlyRest, NoIds
  <2>5. QED
    BY <1>1, <1>2, <1>5, <2>1, <2>2, <2>3, <2>4, Moved DEF ghost, losses
<1>7. Ledger'
  <2>1. \A g \in Flusher : InHands(g)' \subseteq InFile \cup InHands(g)
    BY <1>2, <1>5, SameHands DEF Elsewhere
  <2>2. QED
    BY <1>1, <1>5, <2>1, LedgerKept DEF ghost
<1>8. QED
  BY <1>3, <1>4, <1>6, <1>7

LEMMA MergeHolds ==
  ASSUME IInv, NEW f \in Flusher, Merge(f)
  PROVE  IInv'
<1> USE DEF IInv
<1>a. PICK head : head = Head(rest[f])
  OBVIOUS
<1>b. PICK d : d = mergeInto(merged[f], head)
  OBVIOUS
<1>1. /\ pc[f] = "merge"
      /\ pc' = [pc EXCEPT ![f] = IF Len(rest[f]) = 1 THEN "post" ELSE "merge"]
      /\ rest' = [rest EXCEPT ![f] = Tail(rest[f])] /\ merged' = [merged EXCEPT ![f] = d]
      /\ UNCHANGED <<queue, running, starts, mu, sent, attempt, recorded, ghost>>
  BY <1>a, <1>b DEF Merge, Goto
<1>2. /\ Elsewhere(f) /\ rest'[f] = Tail(rest[f]) /\ merged'[f] = d
      /\ pc'[f] = IF Len(rest[f]) = 1 THEN "post" ELSE "merge"
  BY <1>1 DEF TypeOK, Elsewhere
<1>3. rest[f] \in Seq(Record) /\ merged[f] \in Seq(Record)
  BY DEF TypeOK
<1>4. rest[f] # <<>> /\ sent[f] = 0 /\ sent'[f] = 0 /\ attempt'[f] = 0
  BY <1>1 DEF InPhase, Fits, Sending
<1>5. /\ head \in Record /\ Tail(rest[f]) \in Seq(Record)
      /\ Tail(rest[f]) = <<>> <=> Len(rest[f]) = 1
      /\ Range(rest[f]) = {head} \cup Range(Tail(rest[f]))
      /\ Ids(Range(rest[f])) = head.ids \cup Ids(Range(Tail(rest[f])))
      /\ Distinct(Tail(rest[f])) /\ head.ids \cap Ids(Range(Tail(rest[f]))) = {}
  BY <1>a, <1>3, <1>4, HeadTailIds DEF Apart
<1>6. Unsent(f) = merged[f] /\ Ids(Range(rest[f])) \cap Ids(Range(merged[f])) = {}
      /\ Distinct(merged[f])
  BY <1>3, <1>4, NothingSent DEF Apart
<1>7. /\ d \in Seq(Record) /\ Len(d) > 0
      /\ Ids(Range(d)) = Ids(Range(merged[f])) \cup head.ids
      /\ Distinct(d) /\ \A r \in Range(d) : Genuine(r)
  <2>1. Ids(Range(merged[f])) \cap head.ids = {}
    BY <1>5, <1>6
  <2>2. \A r \in Range(merged[f]) \cup {head} : Genuine(r)
    BY <1>5, <1>6 DEF AllGenuine, Held
  <2>3. QED
    BY <1>b, <1>3, <1>5, <1>6, <2>1, <2>2, MergeIds
<1>8. TypeOK'
  BY <1>1, <1>5, <1>7 DEF TypeOK, Steps, ghost, losses
<1>9. InPhase' /\ InSession'
  <2>1. Fits(f)'
    BY <1>2, <1>4, <1>5, <1>7 DEF Fits, Sending
  <2>2. QED
    BY <1>1, <1>2, <2>1, FitsElsewhere DEF InSession
<1>10. /\ Unsent(f)' = d /\ InFile' = InFile /\ InHands(f)' = InHands(f)
       /\ Held(f)' = Range(Tail(rest[f])) \cup Range(d)
  <2>1. Unsent(f)' = d
    BY <1>2, <1>4, <1>7, NothingSent
  <2>2. QED
    BY <1>1, <1>2, <1>5, <1>6, <1>7, <2>1, HandsAre DEF InFile
<1>11. Apart' /\ AllGenuine' /\ Accounted'
  <2>1. Recorded' = Recorded
    BY <1>1 DEF Recorded
  <2>2. \A r \in Range(queue') \cup Held(f)' : Genuine(r)
    BY <1>1, <1>5, <1>7, <1>10 DEF AllGenuine, Held
  <2>3. Ids(Range(rest'[f])) \cap Ids(Range(Unsent(f)')) = {}
    BY <1>2, <1>5, <1>6, <1>7, <1>10
  <2>4. Distinct(queue') /\ Distinct(rest'[f]) /\ Distinct(Unsent(f)') /\ InFile' \cap InHands(f)' = {}
    BY <1>1, <1>2, <1>5, <1>7, <1>10 DEF Apart
  <2>5. QED
    BY <1>1, <1>2, <1>10, <2>1, <2>2, <2>3, <2>4, Moved DEF ghost, losses
<1>12. Ledger'
  <2>1. \A g \in Flusher : InHands(g)' = InHands(g)
    BY <1>2, <1>10, SameHands DEF Elsewhere
  <2>2. QED
    BY <1>1, <1>10, <2>1, LedgerKept DEF ghost
<1>13. QED
  BY <1>8, <1>9, <1>11, <1>12

\* The batch and what comes after it are the two parts of what is unsent.
LEMMA BatchSplits ==
  ASSUME TypeOK, NEW f \in Flusher, sent[f] < Len(merged[f]), Distinct(Unsent(f))
  PROVE  LET later == SubSeq(merged[f], end(f) + 1, Len(merged[f]))
         IN  /\ end(f) \in sent[f] + 1..Len(merged[f])
             /\ Batch(f) \in Seq(Record) /\ Distinct(Batch(f))
             /\ later \in Seq(Record) /\ Distinct(later)
             /\ Range(later) \subseteq Range(Unsent(f))
             /\ Ids(Range(Unsent(f))) = Ids(Range(Batch(f))) \cup Ids(Range(later))
             /\ Ids(Range(Batch(f))) \cap Ids(Range(later)) = {}
             /\ end(f) = Len(merged[f]) => Ids(Range(later)) = {}
<1> DEFINE later == SubSeq(merged[f], end(f) + 1, Len(merged[f]))
<1>a. PICK q : q = merged[f]
  OBVIOUS
<1>b. PICK m : m = sent[f]
  OBVIOUS
<1>c. PICK e : e = end(f)
  OBVIOUS
<1>1. q \in Seq(Record) /\ Len(q) \in Nat /\ m \in Nat /\ MaxBatch \in Nat \ {0} /\ m < Len(q)
  BY <1>a, <1>b, LenProperties, DeliveryAssumption DEF TypeOK
<1>2. /\ e \in Nat /\ m + 1 <= e /\ e <= Len(q)
      /\ e \in Int /\ Len(q) \in Int /\ m + 1 \in Int /\ e + 1 \in Int
      /\ m + 1 >= 1 /\ e + 1 >= 1 /\ Len(q) <= Len(q)
  BY <1>a, <1>b, <1>c, <1>1 DEF end
<1>3. /\ Unsent(f) = SubSeq(q, m + 1, Len(q)) /\ Batch(f) = SubSeq(q, m + 1, e)
      /\ later = SubSeq(q, e + 1, Len(q))
  BY <1>a, <1>b, <1>c DEF Unsent, Batch
<1> HIDE DEF later
<1>4. /\ Unsent(f) \in Seq(Record) /\ \A j \in m + 1..Len(q) : q[j] \in Range(Unsent(f))
      /\ \A x : x \in Ids(Range(Unsent(f))) <=> \E j \in m + 1..Len(q) : x \in q[j].ids
      /\ \A i, j \in m + 1..Len(q) : i # j => q[i].ids \cap q[j].ids = {}
  BY <1>1, <1>3, SliceIds
<1>5. /\ Batch(f) \in Seq(Record)
      /\ \A x : x \in Ids(Range(Batch(f))) <=> \E j \in m + 1..e : x \in q[j].ids
      /\ Distinct(Batch(f)) <=> \A i, j \in m + 1..e : i # j => q[i].ids \cap q[j].ids = {}
  <2> DEFINE s == SubSeq(q, m + 1, e)
  <2>1. /\ s \in Seq(Record)
        /\ \A x : x \in Ids(Range(s)) <=> \E j \in m + 1..e : x \in q[j].ids
        /\ Distinct(s) <=> \A i, j \in m + 1..e : i # j => q[i].ids \cap q[j].ids = {}
    BY <1>1, <1>2, SliceIds
  <2>2. QED
    BY <1>3, <2>1
<1>6. /\ later \in Seq(Record) /\ Len(later) = IF e + 1 <= Len(q) THEN Len(q) - (e + 1) + 1 ELSE 0
      /\ \A i \in 1..Len(later) : later[i] = q[e + 1 + i - 1]
      /\ \A x : x \in Ids(Range(later)) <=> \E j \in e + 1..Len(q) : x \in q[j].ids
      /\ Distinct(later) <=> \A i, j \in e + 1..Len(q) : i # j => q[i].ids \cap q[j].ids = {}
  <2> DEFINE s == SubSeq(q, e + 1, Len(q))
  <2>1. /\ s \in Seq(Record) /\ Len(s) = IF e + 1 <= Len(q) THEN Len(q) - (e + 1) + 1 ELSE 0
        /\ \A i \in 1..Len(s) : s[i] = q[e + 1 + i - 1]
        /\ \A x : x \in Ids(Range(s)) <=> \E j \in e + 1..Len(q) : x \in q[j].ids
        /\ Distinct(s) <=> \A i, j \in e + 1..Len(q) : i # j => q[i].ids \cap q[j].ids = {}
    BY <1>1, <1>2, SliceIds
  <2>2. QED
    BY <1>3, <2>1
<1>7. \A j : j \in m + 1..Len(q) <=> j \in m + 1..e \/ j \in e + 1..Len(q)
  BY <1>1, <1>2
<1>8. \A j \in m + 1..e, k \in e + 1..Len(q) : j # k
  BY <1>1, <1>2
<1>9. Distinct(Batch(f)) /\ Distinct(later)
  BY <1>4, <1>5, <1>6, <1>7
<1>10. Range(later) \subseteq Range(Unsent(f))
  <2> SUFFICES ASSUME NEW r \in Range(later)
               PROVE  r \in Range(Unsent(f))
    OBVIOUS
  <2>1. PICK i \in 1..Len(later) : r = later[i]
    BY <1>6, LenProperties DEF Range
  <2>2. e + 1 + i - 1 \in m + 1..Len(q)
    BY <1>1, <1>2, <1>6
  <2>3. QED
    BY <1>4, <1>6, <2>1, <2>2
<1>11. Ids(Range(Unsent(f))) = Ids(Range(Batch(f))) \cup Ids(Range(later))
  BY <1>4, <1>5, <1>6, <1>7
<1>12. Ids(Range(Batch(f))) \cap Ids(Range(later)) = {}
  BY <1>4, <1>5, <1>6, <1>7, <1>8
<1>13. e = Len(q) => Ids(Range(later)) = {}
  BY <1>1, <1>6
<1>14. QED
  BY <1>a, <1>b, <1>c, <1>1, <1>2, <1>5, <1>6, <1>9, <1>10, <1>11, <1>12, <1>13 DEF later

\* The server records each event of a batch once.
LEMMA Delivered ==
  ASSUME NEW q \in Seq(Record), Distinct(q), NEW i
  PROVE  Cardinality({j \in 1..Len(q) : i \in q[j].ids}) = IF i \in Ids(Range(q)) THEN 1 ELSE 0
<1> DEFINE S == {j \in 1..Len(q) : i \in q[j].ids}
<1>1. CASE i \in Ids(Range(q))
  <2>1. PICK j \in 1..Len(q) : i \in q[j].ids
    BY <1>1, IdsOf
  <2>2. S = {j}
    BY <2>1 DEF Distinct
  <2>3. QED
    BY <1>1, <2>2, FS_Singleton
<1>2. CASE i \notin Ids(Range(q))
  <2>1. S = {}
    BY <1>2, IdsOf
  <2>2. QED
    BY <1>2, <2>1, FS_EmptySet
<1>3. QED
  BY <1>1, <1>2

LEMMA DeliverAdds ==
  ASSUME TypeOK, NEW f \in Flusher, Batch(f) \in Seq(Record), Distinct(Batch(f)), Deliver(f)
  PROVE  /\ \A i \in Id : recorded'[i] = recorded[i] + IF i \in Ids(Range(Batch(f))) THEN 1 ELSE 0
         /\ recorded' \in [Id -> Nat] /\ Recorded \subseteq Recorded'
         /\ Ids(Range(Batch(f))) \subseteq Recorded' /\ Ids(Range(Batch(f))) \subseteq Id
<1>1. Ids(Range(Batch(f))) \subseteq Id
  BY IdsOf
<1>2. \A i \in Id : Cardinality({j \in 1..Len(Batch(f)) : i \in Batch(f)[j].ids})
                      = IF i \in Ids(Range(Batch(f))) THEN 1 ELSE 0
  BY Delivered
<1>3. /\ recorded' \in [Id -> Nat]
      /\ \A i \in Id : recorded'[i] = recorded[i] + IF i \in Ids(Range(Batch(f))) THEN 1 ELSE 0
  <2>1. recorded' = [i \in Id |-> recorded[i] + IF i \in Ids(Range(Batch(f))) THEN 1 ELSE 0]
    BY <1>2 DEF Deliver
  <2>2. \A i \in Id : recorded[i] + (IF i \in Ids(Range(Batch(f))) THEN 1 ELSE 0) \in Nat
    BY DEF TypeOK
  <2>3. QED
    BY <2>1, <2>2
<1>4. \A i \in Id : recorded[i] \in Nat
  BY DEF TypeOK
<1>5. QED
  BY <1>1, <1>3, <1>4 DEF Recorded

LEMMA PostOkHolds ==
  ASSUME IInv, NEW f \in Flusher, PostOk(f)
  PROVE  IInv'
<1> USE DEF IInv
<1>a. PICK later : later = SubSeq(merged[f], end(f) + 1, Len(merged[f]))
  OBVIOUS
<1>b. PICK batch : batch = Ids(Range(Batch(f)))
  OBVIOUS
<1>1. /\ pc[f] = "post" /\ confirmed' = confirmed \cup batch
      /\ attempt' = [attempt EXCEPT ![f] = 0]
      /\ UNCHANGED <<queue, running, starts, mu, rest, tracked, origin, unsure, losses,
                     failures, faults>>
      /\ \/ /\ end(f) = Len(merged[f]) /\ pc' = [pc EXCEPT ![f] = "idle"]
            /\ merged' = [merged EXCEPT ![f] = <<>>] /\ sent' = [sent EXCEPT ![f] = 0]
         \/ /\ end(f) # Len(merged[f]) /\ sent' = [sent EXCEPT ![f] = end(f)]
            /\ UNCHANGED <<pc, merged>>
  BY <1>b DEF PostOk, Goto
<1>2. /\ sent[f] < Len(merged[f]) /\ rest[f] = <<>> /\ rest'[f] = <<>>
      /\ Distinct(Unsent(f)) /\ merged[f] \in Seq(Record) /\ Len(merged[f]) \in Nat
  BY <1>1, LenProperties DEF InPhase, Fits, Sending, Apart, TypeOK
<1>3. /\ end(f) \in sent[f] + 1..Len(merged[f])
      /\ Batch(f) \in Seq(Record) /\ Distinct(Batch(f))
      /\ later \in Seq(Record) /\ Distinct(later) /\ Range(later) \subseteq Range(Unsent(f))
      /\ Ids(Range(Unsent(f))) = batch \cup Ids(Range(later))
      /\ batch \cap Ids(Range(later)) = {}
      /\ end(f) = Len(merged[f]) => Ids(Range(later)) = {}
  BY <1>a, <1>b, <1>2, BatchSplits
<1>4. /\ \A i \in Id : recorded'[i] = recorded[i] + IF i \in batch THEN 1 ELSE 0
      /\ recorded' \in [Id -> Nat] /\ Recorded \subseteq Recorded'
      /\ batch \subseteq Recorded' /\ batch \subseteq Id
  <2>1. Deliver(f)
    BY DEF PostOk
  <2>2. QED
    BY <1>b, <1>3, <2>1, DeliverAdds
<1>5. Elsewhere(f)
  BY <1>1 DEF TypeOK, Elsewhere
<1>6. end(f) \in Nat
  <2>1. sent[f] \in Nat
    BY DEF TypeOK
  <2>2. QED
    BY <1>3, <2>1
<1>7. TypeOK'
  <2>1. pc' \in [Flusher -> Steps] /\ merged' \in [Flusher -> Seq(Record)] /\ sent' \in [Flusher -> Nat]
    <3>1. pc' \in [Flusher -> Steps]
      BY <1>1 DEF TypeOK, Steps
    <3>2. merged' \in [Flusher -> Seq(Record)]
      BY <1>1, NoIds DEF TypeOK
    <3>3. sent' \in [Flusher -> Nat]
      <4>1. sent \in [Flusher -> Nat]
        BY DEF TypeOK
      <4>2. \E n \in Nat : sent' = [sent EXCEPT ![f] = n]
        BY <1>1, <1>6
      <4>3. QED
        BY <4>1, <4>2
    <3>4. QED
      BY <3>1, <3>2, <3>3
  <2>2. attempt' \in [Flusher -> 0..MaxRetries]
    BY <1>1, DeliveryAssumption DEF TypeOK
  <2>3. QED
    BY <1>1, <1>4, <2>1, <2>2 DEF TypeOK, losses
<1>8. InPhase' /\ InSession'
  <2>1. CASE end(f) = Len(merged[f])
    <3>1. pc'[f] = "idle" /\ merged'[f] = <<>> /\ sent'[f] = 0 /\ attempt'[f] = 0
      BY <1>1, <2>1 DEF TypeOK
    <3>2. QED
      BY <1>1, <1>2, <1>5, <3>1, FitsElsewhere DEF Fits, Sending, InSession
  <2>2. CASE end(f) # Len(merged[f])
    <3>1. pc'[f] = "post" /\ merged'[f] = merged[f] /\ sent'[f] = end(f) /\ attempt'[f] = 0
      BY <1>1, <2>2 DEF TypeOK
    <3>2. end(f) < Len(merged[f])
      BY <1>2, <1>3, <1>6, <2>2
    <3>3. Fits(f)'
      BY <1>2, <3>1, <3>2 DEF Fits, Sending
    <3>4. QED
      BY <1>1, <1>5, <3>3, FitsElsewhere DEF InSession
  <2>3. QED
    BY <2>1, <2>2
<1>9. /\ Distinct(Unsent(f)') /\ Range(Unsent(f)') \subseteq Range(Unsent(f))
      /\ Ids(Range(Unsent(f)')) = Ids(Range(later))
  <2>1. CASE end(f) = Len(merged[f])
    <3>1. merged'[f] = <<>> /\ sent'[f] = 0
      BY <1>1, <2>1 DEF TypeOK
    <3>2. Unsent(f)' = <<>>
      BY <1>2, <3>1, NoHands
    <3>3. QED
      BY <1>3, <2>1, <3>2, NoIds
  <2>2. CASE end(f) # Len(merged[f])
    <3>1. merged'[f] = merged[f] /\ sent'[f] = end(f)
      BY <1>1, <2>2 DEF TypeOK
    <3>2. Unsent(f)' = later
      BY <1>a, <3>1 DEF Unsent
    <3>3. QED
      BY <1>3, <3>2
  <2>3. QED
    BY <2>1, <2>2
<1>10. /\ InFile' = InFile /\ InHands(f)' = Ids(Range(later))
       /\ InHands(f) = batch \cup Ids(Range(later)) /\ Held(f)' \subseteq Held(f)
  BY <1>1, <1>2, <1>3, <1>9, NoIds, HandsAre DEF InFile, Held
<1>11. Apart' /\ AllGenuine' /\ Accounted'
  <2>1. \A r \in Range(queue') \cup Held(f)' : Genuine(r)
    BY <1>1, <1>10 DEF AllGenuine
  <2>2. Ids(Range(rest'[f])) \cap Ids(Range(Unsent(f)')) = {} /\ Distinct(rest'[f])
    BY <1>2, NoIds
  <2>3. Distinct(queue') /\ InFile' \cap InHands(f)' = {}
    BY <1>1, <1>10 DEF Apart
  <2>4. InFile \cup InHands(f) \subseteq InFile' \cup InHands(f)' \cup Recorded' \cup unwritten'
    BY <1>4, <1>10
  <2>5. QED
    BY <1>1, <1>4, <1>5, <1>9, <1>10, <2>1, <2>2, <2>3, <2>4, Moved DEF losses
<1>12. Ledger'
  <2>1. \A g \in Flusher \ {f} : InHands(g)' = InHands(g)
    BY <1>5, SameHands DEF Elsewhere
  <2>2. \A i \in confirmed : \A g \in Flusher : i \notin InHands(g)'
    BY <1>10, <2>1 DEF Ledger
  <2>3. \A i \in batch : i \notin InFile /\ \A g \in Flusher : i \notin InHands(g)'
    <3>1. \A g \in Flusher \ {f} : InHands(f) \cap InHands(g) = {}
      BY DEF Apart
    <3>2. InFile \cap InHands(f) = {}
      BY DEF Apart
    <3>3. QED
      BY <1>3, <1>10, <2>1, <3>1, <3>2
  <2>4. \A i \in batch : i <= Len(origin)
    <3>1. \A i \in batch : \E r \in Range(Unsent(f)) : i \in r.ids
      BY <1>3 DEF Ids
    <3>2. \A r \in Range(Unsent(f)) : Genuine(r)
      BY DEF AllGenuine, Held
    <3>3. QED
      BY <3>1, <3>2 DEF Genuine
  <2>5. \A i \in Id : recorded'[i] = unsure[i] + IF i \in confirmed' THEN 1 ELSE 0
    <3> SUFFICES ASSUME NEW i \in Id
                 PROVE  recorded'[i] = unsure[i] + IF i \in confirmed' THEN 1 ELSE 0
      OBVIOUS
    <3>1. recorded[i] = unsure[i] + (IF i \in confirmed THEN 1 ELSE 0) /\ unsure[i] \in Nat
      BY DEF Ledger, TypeOK
    <3>2. i \in batch => i \notin confirmed
      BY <1>10 DEF Ledger
    <3>3. QED
      BY <1>1, <1>4, <3>1, <3>2
  <2>6. QED
    BY <1>1, <1>10, <2>2, <2>3, <2>4, <2>5 DEF Ledger
<1>13. QED
  BY <1>7, <1>8, <1>11, <1>12

LEMMA PostFailsHolds ==
  ASSUME IInv, NEW f \in Flusher, PostFails(f)
  PROVE  IInv'
<1> USE DEF IInv
<1>a. PICK batch : batch = Ids(Range(Batch(f)))
  OBVIOUS
<1>1. /\ pc[f] = "post" /\ failures' \in 0..MaxFailures
      /\ UNCHANGED <<queue, running, starts, mu, rest, merged, sent, attempt, tracked, origin,
                     confirmed, losses, faults>>
      /\ \/ /\ Deliver(f)
            /\ unsure' = [i \in Id |-> unsure[i] + IF i \in batch THEN 1 ELSE 0]
         \/ UNCHANGED <<recorded, unsure>>
  BY <1>a, DeliveryAssumption DEF PostFails, Goto, TypeOK
<1>2. \E s \in {"wait", "failed"} :
        pc' = [pc EXCEPT ![f] = s] /\ (s = "wait" => attempt[f] < MaxRetries)
  BY DEF PostFails, Goto, AttemptLeft
<1>3. Batch(f) \in Seq(Record) /\ Distinct(Batch(f))
  BY <1>1, BatchSplits DEF InPhase, Fits, Sending, Apart
<1>4. /\ recorded' \in [Id -> Nat] /\ unsure' \in [Id -> Nat] /\ Recorded \subseteq Recorded'
      /\ \A i \in Id : recorded'[i] - unsure'[i] = recorded[i] - unsure[i]
  <2>1. \A i \in Id : recorded[i] \in Nat /\ unsure[i] \in Nat
    BY DEF TypeOK
  <2>2. CASE UNCHANGED <<recorded, unsure>>
    BY <2>2 DEF TypeOK, Recorded
  <2>3. CASE /\ Deliver(f)
             /\ unsure' = [i \in Id |-> unsure[i] + IF i \in batch THEN 1 ELSE 0]
    <3>1. /\ \A i \in Id : recorded'[i] = recorded[i] + IF i \in batch THEN 1 ELSE 0
          /\ recorded' \in [Id -> Nat] /\ Recorded \subseteq Recorded'
      BY <1>a, <1>3, <2>3, DeliverAdds
    <3>2. \A i \in Id : unsure[i] + (IF i \in batch THEN 1 ELSE 0) \in Nat
      BY <2>1
    <3>3. unsure' \in [Id -> Nat]
      BY <2>3, <3>2
    <3>4. \A i \in Id : unsure'[i] = unsure[i] + IF i \in batch THEN 1 ELSE 0
      BY <2>3
    <3>5. QED
      BY <2>1, <3>1, <3>3, <3>4
  <2>4. QED
    BY <1>1, <2>2, <2>3
<1>5. Elsewhere(f) /\ rest'[f] = rest[f] /\ merged'[f] = merged[f] /\ sent'[f] = sent[f]
  BY <1>1, <1>2 DEF TypeOK, Elsewhere
<1>6. TypeOK'
  <2>1. pc' \in [Flusher -> Steps]
    BY <1>2 DEF TypeOK, Steps
  <2>2. QED
    BY <1>1, <1>4, <2>1 DEF TypeOK, losses
<1>7. InPhase' /\ InSession'
  <2>1. pc'[f] \in {"wait", "failed"} /\ (pc'[f] = "wait" => attempt[f] < MaxRetries)
    BY <1>2 DEF TypeOK
  <2>2. Fits(f)'
    BY <1>1, <2>1 DEF InPhase, Fits, Sending
  <2>3. QED
    BY <1>1, <1>5, <2>2, FitsElsewhere DEF InSession
<1>8. \A g \in Flusher : InHands(g)' = InHands(g) /\ Held(g)' = Held(g) /\ Unsent(g)' = Unsent(g)
  BY <1>1, SameHands
<1>9. InFile' = InFile
  BY <1>1 DEF InFile
<1>10. Apart' /\ AllGenuine' /\ Accounted'
  <2>1. \A r \in Range(queue') \cup Held(f)' : Genuine(r)
    BY <1>1, <1>8 DEF AllGenuine
  <2>2. Ids(Range(rest'[f])) \cap Ids(Range(Unsent(f)')) = {} /\ Distinct(rest'[f])
    BY <1>1, <1>8 DEF Apart
  <2>3. Distinct(queue') /\ InFile' \cap InHands(f)' = {} /\ Distinct(Unsent(f)')
    BY <1>1, <1>8, <1>9 DEF Apart
  <2>4. QED
    BY <1>1, <1>4, <1>5, <1>8, <1>9, <2>1, <2>2, <2>3, Moved DEF losses
<1>11. Ledger'
  <2>1. \A i \in Id : recorded'[i] = unsure'[i] + IF i \in confirmed THEN 1 ELSE 0
    <3>1. \A i \in Id : /\ recorded[i] \in Nat /\ unsure[i] \in Nat
                        /\ recorded'[i] \in Nat /\ unsure'[i] \in Nat
      BY <1>4 DEF TypeOK
    <3>2. \A i \in Id : recorded[i] = unsure[i] + IF i \in confirmed THEN 1 ELSE 0
      BY DEF Ledger
    <3>3. QED
      BY <1>4, <3>1, <3>2
  <2>2. QED
    BY <1>1, <1>8, <1>9, <2>1 DEF Ledger
<1>12. QED
  BY <1>6, <1>7, <1>10, <1>11

LEMMA RetryHolds ==
  ASSUME IInv, NEW f \in Flusher, Retry(f)
  PROVE  IInv'
<1> USE DEF IInv
<1>1. /\ pc[f] = "wait"
      /\ UNCHANGED <<queue, running, starts, mu, rest, merged, sent, recorded, ghost>>
  BY DEF Retry, Goto
<1>2. /\ pc'[f] \in {"post", "failed"} /\ pc' \in [Flusher -> Steps]
      /\ attempt' \in [Flusher -> 0..MaxRetries] /\ Elsewhere(f)
  <2>1. attempt[f] \in 0..MaxRetries /\ attempt[f] < MaxRetries
    BY <1>1 DEF InPhase, Fits, TypeOK
  <2>2. attempt[f] + 1 \in 0..MaxRetries
    BY <2>1, DeliveryAssumption
  <2>3. QED
    BY <1>1, <2>2 DEF Retry, Goto, TypeOK, Steps, Elsewhere
<1>3. TypeOK'
  BY <1>1, <1>2 DEF TypeOK, ghost, losses
<1>4. InPhase' /\ InSession'
  <2>1. Fits(f)'
    BY <1>1, <1>2 DEF InPhase, Fits, Sending
  <2>2. QED
    BY <1>1, <1>2, <2>1, FitsElsewhere DEF InSession
<1>5. InFile' = InFile /\ \A g \in Flusher :
        InHands(g)' = InHands(g) /\ Held(g)' = Held(g) /\ Unsent(g)' = Unsent(g)
  BY <1>1, SameHands DEF InFile
<1>6. Apart' /\ AllGenuine' /\ Accounted'
  <2>1. Apart'
    BY <1>1, <1>5 DEF Apart, Distinct
  <2>2. AllGenuine'
    BY <1>1, <1>5 DEF AllGenuine, Genuine, ghost
  <2>3. (UNION {InHands(g)' : g \in Flusher}) = UNION {InHands(g) : g \in Flusher}
    BY <1>5
  <2>4. Accounted'
    BY <1>1, <1>5, <2>3 DEF Accounted, Recorded, ghost, losses
  <2>5. QED
    BY <2>1, <2>2, <2>4
<1>7. Ledger'
  BY <1>1, <1>5, LedgerKept DEF ghost
<1>8. QED
  BY <1>3, <1>4, <1>6, <1>7

LEMMA LockHolds ==
  ASSUME IInv, NEW f \in Flusher, Lock(f)
  PROVE  IInv'
<1> USE DEF IInv
<1>1. /\ pc[f] = "failed" /\ pc' = [pc EXCEPT ![f] = "rebuffer"]
      /\ mu' = [mu EXCEPT ![Owner[f]] = f] /\ rest' = [rest EXCEPT ![f] = Unsent(f)]
      /\ merged' = [merged EXCEPT ![f] = <<>>] /\ sent' = [sent EXCEPT ![f] = 0]
      /\ attempt' = [attempt EXCEPT ![f] = 0]
      /\ UNCHANGED <<queue, running, starts, recorded, ghost>>
  BY DEF Lock, Goto, Requeued
<1>2. Elsewhere(f) /\ pc'[f] = "rebuffer" /\ rest'[f] = Unsent(f) /\ merged'[f] = <<>>
      /\ sent'[f] = 0 /\ attempt'[f] = 0
  BY <1>1 DEF TypeOK, Elsewhere
<1>3. Unsent(f) \in Seq(Record) /\ rest[f] = <<>>
  BY <1>1, HandsTyped DEF InPhase, Fits
<1>4. Unsent(f) # <<>>
  <2>1. PICK q : q = merged[f]
    OBVIOUS
  <2>2. PICK m : m = sent[f]
    OBVIOUS
  <2>3. q \in Seq(Record) /\ Len(q) \in Nat /\ m \in Nat /\ m < Len(q)
    BY <1>1, <2>1, <2>2, LenProperties DEF InPhase, Fits, Sending, TypeOK
  <2>4. m + 1 \in Int /\ Len(q) \in Int /\ m + 1 >= 1 /\ Len(q) <= Len(q)
    BY <2>3
  <2>5. Len(SubSeq(q, m + 1, Len(q))) = Len(q) - (m + 1) + 1
    BY <2>3, <2>4, SliceIds
  <2>6. Len(Unsent(f)) = Len(q) - (m + 1) + 1
    BY <2>1, <2>2, <2>5 DEF Unsent
  <2>7. Len(Unsent(f)) # 0
    BY <2>3, <2>6
  <2>8. QED
    BY <2>7, EmptySeq
<1>5. TypeOK'
  <2>1. mu' \in [Proc -> Flusher \cup {NoOne}]
    BY <1>1 DEF TypeOK
  <2>2. /\ rest' \in [Flusher -> Seq(Record)] /\ merged' \in [Flusher -> Seq(Record)]
        /\ pc' \in [Flusher -> Steps]
    BY <1>1, <1>3, NoIds DEF TypeOK, Steps
  <2>3. sent' \in [Flusher -> Nat] /\ attempt' \in [Flusher -> 0..MaxRetries]
    BY <1>1, DeliveryAssumption DEF TypeOK
  <2>4. QED
    BY <1>1, <2>1, <2>2, <2>3 DEF TypeOK, ghost, losses
<1>6. InPhase' /\ InSession'
  <2>1. Fits(f)'
    BY <1>2, <1>4 DEF Fits, Sending
  <2>2. QED
    BY <1>1, <1>2, <2>1, FitsElsewhere DEF InSession
<1>7. Unsent(f)' = <<>> /\ InFile' = InFile /\ InHands(f)' = InHands(f) /\ Held(f)' = Held(f)
  <2>1. Unsent(f)' = <<>>
    BY <1>2, NoIds, NothingSent
  <2>2. QED
    BY <1>1, <1>2, <1>3, <2>1, NoIds, HandsAre DEF InFile, Held
<1>8. Apart' /\ AllGenuine' /\ Accounted'
  <2>1. Recorded' = Recorded
    BY <1>1 DEF Recorded
  <2>2. \A r \in Range(queue') \cup Held(f)' : Genuine(r)
    BY <1>1, <1>7 DEF AllGenuine
  <2>3. /\ Ids(Range(rest'[f])) \cap Ids(Range(Unsent(f)')) = {}
        /\ Distinct(rest'[f]) /\ Distinct(Unsent(f)')
    BY <1>2, <1>7, NoIds DEF Apart
  <2>4. Distinct(queue') /\ InFile' \cap InHands(f)' = {}
    BY <1>1, <1>7 DEF Apart
  <2>5. QED
    BY <1>1, <1>2, <1>7, <2>1, <2>2, <2>3, <2>4, Moved DEF ghost, losses
<1>9. Ledger'
  <2>1. \A g \in Flusher : InHands(g)' = InHands(g)
    BY <1>2, <1>7, SameHands DEF Elsewhere
  <2>2. QED
    BY <1>1, <1>7, <2>1, LedgerKept DEF ghost
<1>10. QED
  BY <1>5, <1>6, <1>8, <1>9

LEMMA RebufferHolds ==
  ASSUME IInv, NEW f \in Flusher, Rebuffer(f)
  PROVE  IInv'
<1> USE DEF IInv
<1>a. PICK head : head = Head(rest[f])
  OBVIOUS
<1>1. /\ pc[f] = "rebuffer"
      /\ pc' = [pc EXCEPT ![f] = IF Len(rest[f]) = 1 THEN "idle" ELSE "rebuffer"]
      /\ rest' = [rest EXCEPT ![f] = Tail(rest[f])]
      /\ UNCHANGED <<running, starts, merged, sent, attempt, recorded, tracked, origin, confirmed,
                     unsure, crashed, trimmed, failures>>
      /\ \/ queue' = Append(queue, head) /\ UNCHANGED <<unwritten, faults>>
         \/ /\ faults' \in 0..MaxFaults /\ unwritten' = unwritten \cup head.ids
            /\ UNCHANGED queue
  BY <1>a, DeliveryAssumption DEF Rebuffer, Goto, TypeOK
<1>2. /\ Elsewhere(f) /\ rest'[f] = Tail(rest[f]) /\ merged'[f] = merged[f] /\ sent'[f] = sent[f]
      /\ pc'[f] = IF Len(rest[f]) = 1 THEN "idle" ELSE "rebuffer"
  BY <1>1 DEF TypeOK, Elsewhere
<1>3. rest[f] # <<>> /\ rest[f] \in Seq(Record) /\ queue \in Seq(Record)
  BY <1>1 DEF InPhase, Fits, TypeOK
<1>4. /\ head \in Record /\ head.ids \subseteq Id /\ Tail(rest[f]) \in Seq(Record)
      /\ Tail(rest[f]) = <<>> <=> Len(rest[f]) = 1
      /\ Range(rest[f]) = {head} \cup Range(Tail(rest[f]))
      /\ Ids(Range(rest[f])) = head.ids \cup Ids(Range(Tail(rest[f])))
      /\ Distinct(Tail(rest[f])) /\ head.ids \cap Ids(Range(Tail(rest[f]))) = {}
  <2>1. Distinct(rest[f])
    BY DEF Apart
  <2>2. QED
    BY <1>a, <1>3, <2>1, HeadTailIds DEF Record
<1>5. /\ Unsent(f) = <<>> /\ Unsent(f)' = <<>> /\ InHands(f) = head.ids \cup InHands(f)'
      /\ InHands(f)' = Ids(Range(Tail(rest[f]))) /\ Held(f)' \subseteq Held(f)
      /\ head \in Held(f) /\ head.ids \cap InHands(f)' = {}
  <2>1. Unsent(f) = <<>> /\ Unsent(f)' = <<>>
    BY <1>1, <1>2, OnlyRest, NoIds, NothingSent
  <2>2. QED
    BY <1>2, <1>4, <2>1, NoIds, HandsAre DEF Held
<1>6. InFile \cap InHands(f) = {}
  BY DEF Apart
<1>7. /\ queue' \in Seq(Record) /\ Distinct(queue') /\ Range(queue') \subseteq Range(queue) \cup {head}
      /\ InFile \subseteq InFile' /\ InFile' \subseteq InFile \cup head.ids
      /\ head.ids \subseteq InFile' \cup unwritten'
      /\ unwritten \subseteq unwritten' /\ unwritten' \subseteq Id
  <2>1. Distinct(queue) /\ unwritten \subseteq Id
    BY DEF Apart, TypeOK
  <2>2. CASE queue' = Append(queue, head) /\ UNCHANGED <<unwritten, faults>>
    <3>1. Ids(Range(queue)) \cap head.ids = {}
      BY <1>5, <1>6 DEF InFile
    <3>2. /\ Append(queue, head) \in Seq(Record) /\ Distinct(Append(queue, head))
          /\ Range(Append(queue, head)) = Range(queue) \cup {head}
          /\ Ids(Range(Append(queue, head))) = Ids(Range(queue)) \cup head.ids
      BY <1>3, <1>4, <2>1, <3>1, AppendIds
    <3>3. QED
      BY <2>1, <2>2, <3>2 DEF InFile
  <2>3. CASE unwritten' = unwritten \cup head.ids /\ UNCHANGED queue
    BY <1>3, <1>4, <2>1, <2>3 DEF InFile
  <2>4. QED
    BY <1>1, <2>2, <2>3
<1>8. TypeOK'
  <2>1. mu' \in [Proc -> Flusher \cup {NoOne}]
    BY DEF Rebuffer, Released, TypeOK
  <2>2. pc' \in [Flusher -> Steps] /\ rest' \in [Flusher -> Seq(Record)]
    BY <1>1, <1>4 DEF TypeOK, Steps
  <2>3. faults' \in 0..MaxFaults
    BY <1>1 DEF TypeOK
  <2>4. QED
    BY <1>1, <1>7, <2>1, <2>2, <2>3 DEF TypeOK
<1>9. InPhase' /\ InSession'
  <2>1. merged'[f] = <<>> /\ sent'[f] = 0 /\ attempt'[f] = 0
    BY <1>1, OnlyRest
  <2>2. Fits(f)'
    BY <1>2, <1>4, <2>1 DEF Fits, Sending
  <2>3. QED
    BY <1>1, <1>2, <2>2, FitsElsewhere DEF InSession
<1>10. Apart' /\ AllGenuine' /\ Accounted'
  <2>1. Recorded' = Recorded
    BY <1>1 DEF Recorded
  <2>2. \A r \in Range(queue') \cup Held(f)' : Genuine(r)
    BY <1>5, <1>7 DEF AllGenuine
  <2>3. /\ Ids(Range(rest'[f])) \cap Ids(Range(Unsent(f)')) = {}
        /\ Distinct(rest'[f]) /\ Distinct(Unsent(f)')
    BY <1>2, <1>4, <1>5, NoIds
  <2>4. InFile' \cap InHands(f)' = {}
    BY <1>5, <1>6, <1>7
  <2>5. /\ InFile' \cup InHands(f)' \subseteq InFile \cup InHands(f)
        /\ InFile \cup InHands(f) \subseteq InFile' \cup InHands(f)' \cup Recorded' \cup unwritten'
    BY <1>5, <1>7
  <2>6. QED
    BY <1>1, <1>2, <1>7, <2>1, <2>2, <2>3, <2>4, <2>5, Moved
<1>11. Ledger'
  <2>1. \A g \in Flusher : InHands(g)' \subseteq InFile \cup InHands(g)
    BY <1>2, <1>5, SameHands DEF Elsewhere
  <2>2. InFile' \subseteq InFile \cup (UNION {InHands(g) : g \in Flusher})
    BY <1>5, <1>7
  <2>3. QED
    BY <1>1, <2>1, <2>2, LedgerKept
<1>12. QED
  BY <1>8, <1>9, <1>10, <1>11

-----------------------------------------------------------------------------
(* The inductive invariant holds, and with it the properties.               *)

LEMMA IdleHolds == IInv /\ UNCHANGED vars => IInv'
<1> SUFFICES ASSUME IInv, UNCHANGED vars PROVE IInv'
  OBVIOUS
<1> USE DEF IInv, vars, hands, ghost, losses
<1>1. InFile' = InFile /\ Recorded' = Recorded
  BY DEF InFile, Recorded
<1>2. \A f \in Flusher : Unsent(f)' = Unsent(f) /\ Held(f)' = Held(f) /\ InHands(f)' = InHands(f)
  BY SameHands
<1>3. TypeOK' /\ InPhase' /\ InSession'
  BY DEF TypeOK, InPhase, Fits, InSession
<1>4. Apart' /\ AllGenuine'
  BY <1>1, <1>2 DEF Apart, Distinct, AllGenuine, Genuine
<1>5. Accounted' /\ Ledger'
  BY <1>1, <1>2 DEF Accounted, Ledger
<1>6. QED
  BY <1>3, <1>4, <1>5

LEMMA StepHolds == IInv /\ [Next]_vars => IInv'
<1> SUFFICES ASSUME IInv, [Next]_vars PROVE IInv'
  OBVIOUS
<1>1. ASSUME NEW p \in Proc, Start(p) PROVE IInv'
  BY <1>1, StartHolds
<1>2. ASSUME NEW p \in Proc, Crash(p) PROVE IInv'
  BY <1>2, CrashHolds
<1>3. ASSUME NEW p \in Proc, NEW kind \in Kind, Track(p, kind) PROVE IInv'
  BY <1>3, TrackHolds
<1>4. ASSUME NEW f \in Flusher, ReadAndClear(f) PROVE IInv'
  BY <1>4, ReadAndClearHolds
<1>5. ASSUME NEW f \in Flusher, Merge(f) PROVE IInv'
  BY <1>5, MergeHolds
<1>6. ASSUME NEW f \in Flusher, PostOk(f) PROVE IInv'
  BY <1>6, PostOkHolds
<1>7. ASSUME NEW f \in Flusher, PostFails(f) PROVE IInv'
  BY <1>7, PostFailsHolds
<1>8. ASSUME NEW f \in Flusher, Retry(f) PROVE IInv'
  BY <1>8, RetryHolds
<1>9. ASSUME NEW f \in Flusher, Lock(f) PROVE IInv'
  BY <1>9, LockHolds
<1>10. ASSUME NEW f \in Flusher, Rebuffer(f) PROVE IInv'
  BY <1>10, RebufferHolds
<1>11. CASE UNCHANGED vars
  BY <1>11, IdleHolds
<1>12. QED
  BY <1>1, <1>2, <1>3, <1>4, <1>5, <1>6, <1>7, <1>8, <1>9, <1>10, <1>11 DEF Next, Work

LEMMA Invariant == Spec => []IInv
<1>1. QED
  BY InitHolds, StepHolds, PTL DEF Spec

\* Every variable has the type the code gives it.
THEOREM TypeCorrect == Spec => []TypeOK
<1>1. IInv => TypeOK
  BY DEF IInv
<1>2. QED
  BY <1>1, Invariant, PTL

\* However many processes share the file, fail and die: an event Track
\* accepted (logger.go) is in the file, with a flusher or with the server, or
\* one of the three ways to lose it has taken it.
THEOREM NothingVanishesEver == Spec => []NothingVanishes
<1>1. IInv => NothingVanishes
  BY PropertiesHold
<1>2. QED
  BY <1>1, Invariant, PTL

\* However many flushers take, merge, send and re-queue events: no event is in
\* two places, or twice in one.
THEOREM OnePlaceOnly == Spec => []OnePlace
<1>1. IInv => OnePlace
  BY PropertiesHold
<1>2. QED
  BY <1>1, Invariant, PTL

\* For every size of batch and number of retries: what SendBatched reports as
\* sent (client.go) is never sent or queued again, and the server records an
\* event more than once only after requests of unknown outcome.
THEOREM ConfirmedIsOnce == Spec => []ConfirmedOnce
<1>1. IInv => ConfirmedOnce
  BY PropertiesHold
<1>2. QED
  BY <1>1, Invariant, PTL

\* However often mergeEvents meets an event again after it was re-queued: a
\* record counts its events once each, and all are of its session and kind.
THEOREM CountsAreTrue == Spec => []CountsTrue
<1>1. IInv => CountsTrue
  BY PropertiesHold
<1>2. QED
  BY <1>1, Invariant, PTL

-----------------------------------------------------------------------------
(* Delivery's calls on the buffer are those that AtomicBuffer offers.  What *)
(* the last ReadAndClear returned is no variable of Delivery, which passes  *)
(* it on to a Flush at once: `taken' remembers it, and changes nothing.     *)

VARIABLE taken

Remember == \/ /\ \/ \E p \in Proc : Start(p) \/ Crash(p) \/ \E kind \in Kind : Track(p, kind)
                  \/ \E f \in Flusher : Work(f) \/ Lock(f)
               /\ UNCHANGED taken
            \/ \E f \in Flusher : ReadAndClear(f) /\ taken' = queue
RememberingSpec == Init /\ taken = <<>> /\ [][Remember]_<<vars, taken>>

\* Whole lines, none of them too long; a write that fails leaves nothing.
Lines == [recs |-> queue, tail |-> "ended"]
Buffer == INSTANCE AtomicBuffer WITH Event <- Record, LongEvent <- {}, file <- Lines

LEMMA LinesRead ==
  ASSUME NEW q \in Seq(Record)
  PROVE  LET lines == [recs |-> q, tail |-> "ended"]
         IN  /\ Buffer!Cut(lines) = Len(q) /\ Buffer!scanEvents(lines) = q
             /\ \A r \in Record : Buffer!Landed(lines, r) = [recs |-> Append(q, r), tail |-> "ended"]
<1>1. PICK lines : lines = [recs |-> q, tail |-> "ended"]
  OBVIOUS
<1>2. lines.recs = q /\ lines.tail = "ended" /\ Len(q) \in Nat
  BY <1>1
<1>3. {n \in 1..Len(q) : \A i \in 1..n : q[i] \notin {}} = 1..Len(q)
  OBVIOUS
<1>4. Cardinality(1..Len(q)) = Len(q)
  <2>1. Len(q) \in Int /\ 1 \in Int
    BY <1>2
  <2>2. Cardinality(1..Len(q)) = IF 1 > Len(q) THEN 0 ELSE Len(q) - 1 + 1
    BY <2>1, FS_Interval
  <2>3. QED
    BY <1>2, <2>2
<1>5. Buffer!Cut(lines) = Len(q)
  BY <1>2, <1>3, <1>4 DEF Buffer!Cut, Buffer!Cardinality, Cardinality
<1>6. Buffer!scanEvents(lines) = q
  BY <1>2, <1>5, SubSeqFull DEF Buffer!scanEvents
<1>7. Buffer!Spoiled(lines) = q
  BY <1>2 DEF Buffer!Spoiled
<1>8. \A r \in Record : Buffer!Landed(lines, r) = [recs |-> Append(q, r), tail |-> "ended"]
  BY <1>2, <1>7 DEF Buffer!Landed, Buffer!WithRecord
<1>9. QED
  BY <1>1, <1>5, <1>6, <1>8

LEMMA FirstKept ==
  ASSUME NEW q \in Seq(Record), Len(q) > MaxSize, NEW k \in 0..MaxSize
  PROVE  LET over == Len(q) - MaxSize
         IN  SubSeq(SubSeq(q, over + 1, Len(q)), 1, k) = SubSeq(q, over + 1, over + k)
<1>1. PICK n : n = Len(q)
  OBVIOUS
<1>2. PICK over : over = n - MaxSize
  OBVIOUS
<1>3. n \in Nat /\ MaxSize \in Nat \ {0} /\ over \in Nat /\ over + 1 \in 1..n /\ n \in 1..n
  BY <1>1, <1>2, DeliveryAssumption
<1>4. PICK kept : kept = SubSeq(q, over + 1, n)
  OBVIOUS
<1>5. \A i \in over + 1..n : q[i] \in Record
  BY <1>1, <1>3, ElementOfSeq
<1>6. kept \in Seq(Record) /\ Len(kept) = MaxSize /\ \A i \in 1..MaxSize : kept[i] = q[over + i]
  <2>1. /\ kept \in Seq(Record) /\ Len(kept) = IF over + 1 <= n THEN n - (over + 1) + 1 ELSE 0
        /\ \A i \in 1..n - (over + 1) + 1 : kept[i] = q[over + 1 + i - 1]
    BY <1>3, <1>4, <1>5, SubSeqProperties
  <2>2. n - (over + 1) + 1 = MaxSize /\ over + 1 <= n
    BY <1>2, <1>3
  <2>3. QED
    BY <1>3, <2>1, <2>2
<1>7. PICK left : left = SubSeq(kept, 1, k)
  OBVIOUS
<1>8. k \in Nat /\ k <= MaxSize
  BY <1>3
<1>9. left \in Seq(Record) /\ Len(left) = k /\ \A i \in 1..k : left[i] = kept[i]
  <2>1. \A i \in 1..k : kept[i] \in Record
    BY <1>3, <1>6, <1>8, ElementOfSeq
  <2>2. /\ left \in Seq(Record) /\ Len(left) = IF 1 <= k THEN k - 1 + 1 ELSE 0
        /\ \A i \in 1..k - 1 + 1 : left[i] = kept[1 + i - 1]
    BY <1>7, <1>8, <2>1, SubSeqProperties
  <2>3. QED
    BY <1>8, <2>2
<1>10. PICK right : right = SubSeq(q, over + 1, over + k)
  OBVIOUS
<1>11. right \in Seq(Record) /\ Len(right) = k /\ \A i \in 1..k : right[i] = q[over + i]
  <2>1. \A i \in over + 1..over + k : q[i] \in Record
    BY <1>2, <1>3, <1>5, <1>8
  <2>2. /\ right \in Seq(Record)
        /\ Len(right) = IF over + 1 <= over + k THEN over + k - (over + 1) + 1 ELSE 0
        /\ \A i \in 1..over + k - (over + 1) + 1 : right[i] = q[over + 1 + i - 1]
    BY <1>3, <1>8, <1>10, <2>1, SubSeqProperties
  <2>3. over + k - (over + 1) + 1 = k /\ (over + 1 <= over + k <=> 1 <= k)
    BY <1>3, <1>8
  <2>4. QED
    BY <1>3, <1>8, <2>2, <2>3
<1>12. \A i \in 1..k : left[i] = right[i]
  <2>1. \A i \in 1..k : i \in 1..MaxSize
    BY <1>3, <1>8
  <2>2. QED
    BY <1>6, <1>9, <1>11, <2>1, Zenon
<1>13. left = right
  BY <1>9, <1>11, <1>12, SeqEqual
<1>14. QED
  BY <1>1, <1>2, <1>4, <1>7, <1>10, <1>13

\* NewLogger's Trim keeps the newest, or a part of them.
LEMMA StartUses ==
  ASSUME IInv, NEW p \in Proc, Start(p), UNCHANGED taken
  PROVE  Buffer!TrimDone \/ Buffer!TrimTorn \/ UNCHANGED Buffer!avars
<1>1. queue \in Seq(Record) /\ Len(queue) \in Nat /\ MaxSize \in Nat \ {0}
  BY DeliveryAssumption DEF IInv, TypeOK
<1>2. Buffer!Cut(Lines) = Len(queue) /\ Lines.recs = queue
  BY <1>1, LinesRead DEF Lines
<1>3. PICK kept : kept = SubSeq(queue, Over + 1, Len(queue))
  OBVIOUS
<1>4. Buffer!Newest(Lines) = kept /\ (Buffer!Overfull(Lines) <=> Len(queue) > MaxSize)
  BY <1>2, <1>3 DEF Buffer!Newest, Buffer!Overfull, Over
<1>5. CASE TrimTo(MaxSize)
  <2>1. Over + MaxSize = Len(queue)
    BY <1>1 DEF Over
  <2>2. Lines' = [recs |-> kept, tail |-> "ended"] /\ Len(queue) > MaxSize
    BY <1>3, <1>5, <2>1 DEF TrimTo, Lines
  <2>3. QED
    BY <1>4, <2>2 DEF Buffer!TrimDone
<1>6. CASE \E k \in 0..MaxSize - 1 : TrimTo(k)
  <2>1. PICK k \in 0..MaxSize - 1 : TrimTo(k)
    BY <1>6
  <2>2. k \in 0..MaxSize
    BY <1>1
  <2>3. Len(queue) > MaxSize /\ queue' = SubSeq(queue, Over + 1, Over + k)
    BY <2>1 DEF TrimTo
  <2>4. queue' = SubSeq(kept, 1, k)
    BY <1>1, <1>3, <2>2, <2>3, FirstKept DEF Over
  <2>5. PICK f : f = [recs |-> SubSeq(kept, 1, k), tail |-> "ended"]
    OBVIOUS
  <2>6. Lines' = f
    BY <2>4, <2>5 DEF Lines
  <2>7. QED
    BY <1>4, <2>3, <2>5, <2>6 DEF Buffer!TrimTorn
<1>7. CASE UNCHANGED queue
  BY <1>7 DEF Lines, Buffer!avars
<1>8. QED
  BY <1>5, <1>6, <1>7 DEF Start

\* One more line at the end, or none.
LEMMA AppendUses ==
  ASSUME IInv, NEW r \in Record, queue' = Append(queue, r) \/ queue' = queue, UNCHANGED taken
  PROVE  Buffer!AppendDone \/ UNCHANGED Buffer!avars
<1>1. queue \in Seq(Record)
  BY DEF IInv, TypeOK
<1>2. CASE queue' = Append(queue, r)
  <2>1. Buffer!Landed(Lines, r) = [recs |-> Append(queue, r), tail |-> "ended"]
    BY <1>1, LinesRead DEF Lines
  <2>2. Lines' = Buffer!Landed(Lines, r)
    BY <1>2, <2>1 DEF Lines
  <2>3. QED
    BY <2>2 DEF Buffer!AppendDone
<1>3. CASE queue' = queue
  BY <1>3 DEF Lines, Buffer!avars
<1>4. QED
  BY <1>2, <1>3

LEMMA TrackUses ==
  ASSUME IInv, NEW p \in Proc, NEW kind \in Kind, Track(p, kind), UNCHANGED taken
  PROVE  Buffer!AppendDone \/ UNCHANGED Buffer!avars
<1>1. PICK r : r = [session |-> <<p, starts[p]>>, kind |-> kind, count |-> 1, ids |-> {Len(origin) + 1}]
  OBVIOUS
<1>2. r \in Record
  <2>1. starts[p] \in 1..MaxStarts
    BY DeliveryAssumption DEF IInv, TypeOK, InSession, Track
  <2>2. {Len(origin) + 1} \subseteq Id
    BY DEF Track
  <2>3. QED
    BY <1>1, <2>1, <2>2 DEF Record
<1>3. queue' = Append(queue, r) \/ queue' = queue
  BY <1>1 DEF Track
<1>4. QED
  BY <1>2, <1>3, AppendUses

LEMMA RebufferUses ==
  ASSUME IInv, NEW f \in Flusher, Rebuffer(f), UNCHANGED taken
  PROVE  Buffer!AppendDone \/ UNCHANGED Buffer!avars
<1>1. rest[f] \in Seq(Record) /\ rest[f] # <<>>
  BY DEF IInv, TypeOK, InPhase, Fits, Rebuffer, Goto
<1>2. Head(rest[f]) \in Record
  BY <1>1
<1>3. queue' = Append(queue, Head(rest[f])) \/ queue' = queue
  BY DEF Rebuffer
<1>4. QED
  BY <1>2, <1>3, AppendUses

LEMMA ReadAndClearUses ==
  ASSUME IInv, NEW f \in Flusher, ReadAndClear(f), taken' = queue
  PROVE  Buffer!TakeAll
<1>1. queue \in Seq(Record)
  BY DEF IInv, TypeOK
<1>2. Buffer!scanEvents(Lines) = queue
  BY <1>1, LinesRead DEF Lines
<1>3. Lines' = [recs |-> <<>>, tail |-> "ended"]
  BY DEF ReadAndClear, Cleared, Lines
<1>4. QED
  BY <1>2, <1>3 DEF Buffer!TakeAll, Buffer!Empty

LEMMA StepUses == IInv /\ [Remember]_<<vars, taken>> => [Buffer!ANext]_(Buffer!avars)
<1> SUFFICES ASSUME IInv, [Remember]_<<vars, taken>> PROVE [Buffer!ANext]_(Buffer!avars)
  OBVIOUS
<1>1. ASSUME NEW p \in Proc, Start(p), UNCHANGED taken PROVE Buffer!ANext \/ UNCHANGED Buffer!avars
  BY <1>1, StartUses DEF Buffer!ANext
<1>2. ASSUME NEW p \in Proc, NEW kind \in Kind, Track(p, kind), UNCHANGED taken
      PROVE  Buffer!ANext \/ UNCHANGED Buffer!avars
  BY <1>2, TrackUses DEF Buffer!ANext
<1>3. ASSUME NEW f \in Flusher, Rebuffer(f), UNCHANGED taken PROVE Buffer!ANext \/ UNCHANGED Buffer!avars
  BY <1>3, RebufferUses DEF Buffer!ANext
<1>4. ASSUME NEW f \in Flusher, ReadAndClear(f), taken' = queue PROVE Buffer!ANext
  BY <1>4, ReadAndClearUses DEF Buffer!ANext
<1>5. ASSUME UNCHANGED <<queue, taken>> PROVE UNCHANGED Buffer!avars
  BY <1>5 DEF Lines, Buffer!avars
<1>6. ASSUME NEW p \in Proc, Crash(p), UNCHANGED taken PROVE UNCHANGED Buffer!avars
  BY <1>5, <1>6 DEF Crash
<1>7. ASSUME NEW f \in Flusher, Merge(f) \/ PostOk(f) \/ PostFails(f) \/ Retry(f) \/ Lock(f), UNCHANGED taken
      PROVE  UNCHANGED Buffer!avars
  BY <1>5, <1>7 DEF Merge, PostOk, PostFails, Retry, Lock
<1>8. CASE UNCHANGED <<vars, taken>>
  BY <1>5, <1>8 DEF vars
<1>9. QED
  BY <1>1, <1>2, <1>3, <1>4, <1>6, <1>7, <1>8 DEF Remember, Work

\* Whatever the processes and their Flushes do (logger.go), and whatever fails or
\* dies, each of their calls on the file is one of AtomicBuffer's: together with
\* EventBuffer_proofs, the buffer keeps to what is relied on here.
THEOREM UsesAtomicBuffer == RememberingSpec => Buffer!ASpec
<1>1. Init /\ taken = <<>> => Buffer!AInit
  BY DEF Init, Lines, Buffer!AInit, Buffer!Empty
<1>2. [Remember]_<<vars, taken>> => [Next]_vars
  BY DEF Remember, Next, vars
<1>3. QED
  BY <1>1, <1>2, InitHolds, StepHolds, StepUses, PTL DEF RememberingSpec, Buffer!ASpec
=============================================================================
