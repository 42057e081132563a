------------------------- MODULE EventBuffer_proofs -------------------------
(* What holds of the buffer for any number of clients, events and lines.    *)
EXTENDS EventBuffer, SequenceTheorems, FiniteSetTheorems, TLAPS

-----------------------------------------------------------------------------
(* The operators of BufferFile: what they return stays within the file.     *)

LEMMA CutBound ==
  ASSUME NEW f \in File
  PROVE  Cut(f) \in 0..Len(f.recs)
<1> DEFINE S == {n \in 1..Len(f.recs) : \A i \in 1..n : f.recs[i] \notin LongEvent}
<1>1. Len(f.recs) \in Nat
  BY LenProperties DEF File
<1>2. /\ IsFiniteSet(1..Len(f.recs))
      /\ Cardinality(1..Len(f.recs)) = Len(f.recs)
  BY <1>1, FS_Interval
<1>3. /\ IsFiniteSet(S)
      /\ Cardinality(S) <= Len(f.recs)
  BY <1>2, FS_Subset
<1>4. Cardinality(S) \in Nat
  BY <1>3, FS_CardinalityType
<1>5. QED
  BY <1>1, <1>3, <1>4 DEF Cut

LEMMA SliceWithin ==
  ASSUME NEW q \in Seq(Event), NEW m \in Int, NEW n \in Int, m >= 1, n <= Len(q)
  PROVE  /\ SubSeq(q, m, n) \in Seq(Event)
         /\ Len(SubSeq(q, m, n)) = IF m <= n THEN n - m + 1 ELSE 0
         /\ \A i \in 1..n - m + 1 : SubSeq(q, m, n)[i] = q[m + i - 1]
         /\ Range(SubSeq(q, m, n)) \subseteq Range(q)
<1>1. Len(q) \in Nat /\ DOMAIN q = 1..Len(q)
  BY LenProperties
<1>2. \A i \in m..n : q[i] \in Event
  BY <1>1, ElementOfSeq
<1>3. /\ SubSeq(q, m, n) \in Seq(Event)
      /\ Len(SubSeq(q, m, n)) = IF m <= n THEN n - m + 1 ELSE 0
      /\ \A i \in 1..n - m + 1 : SubSeq(q, m, n)[i] = q[m + i - 1]
  BY <1>2, SubSeqProperties
<1>4. DOMAIN SubSeq(q, m, n) = 1..Len(SubSeq(q, m, n))
  BY <1>3, LenProperties
<1>5. \A i \in DOMAIN SubSeq(q, m, n) : i \in 1..n - m + 1 /\ m + i - 1 \in DOMAIN q
  BY <1>1, <1>3, <1>4
<1>6. Range(SubSeq(q, m, n)) \subseteq Range(q)
  BY <1>3, <1>5 DEF Range
<1>7. QED
  BY <1>3, <1>6

LEMMA AppendRange ==
  ASSUME NEW q \in Seq(Event), NEW e \in Event
  PROVE  /\ Append(q, e) \in Seq(Event)
         /\ Range(Append(q, e)) = Range(q) \cup {e}
<1>1. Len(q) \in Nat /\ DOMAIN q = 1..Len(q)
  BY LenProperties
<1>2. /\ Append(q, e) \in Seq(Event)
      /\ Len(Append(q, e)) = Len(q) + 1
      /\ \A i \in 1..Len(q) : Append(q, e)[i] = q[i]
      /\ Append(q, e)[Len(q) + 1] = e
  BY AppendProperties
<1>3. DOMAIN Append(q, e) = 1..Len(q) + 1
  BY <1>2, LenProperties
<1>4. QED
  BY <1>1, <1>2, <1>3 DEF Range

LEMMA ScanWithin ==
  ASSUME NEW f \in File
  PROVE  /\ scanEvents(f) \in Seq(Event)
         /\ Range(scanEvents(f)) \subseteq Range(f.recs)
<1>1. f.recs \in Seq(Event) /\ Len(f.recs) \in Nat
  BY LenProperties DEF File
<1>2. QED
  BY <1>1, CutBound, SliceWithin DEF scanEvents

LEMMA NewestWithin ==
  ASSUME NEW f \in File, Overfull(f)
  PROVE  /\ Newest(f) \in Seq(Event)
         /\ Len(Newest(f)) = MaxSize
         /\ Range(Newest(f)) \subseteq Range(f.recs)
<1>1. f.recs \in Seq(Event) /\ Len(f.recs) \in Nat
  BY LenProperties DEF File
<1>2. Cut(f) \in 0..Len(f.recs) /\ Cut(f) > MaxSize /\ MaxSize \in Nat \ {0}
  BY CutBound, BufferAssumption DEF Overfull
<1>3. QED
  BY <1>1, <1>2, SliceWithin DEF Newest

LEMMA OldestWithin ==
  ASSUME NEW f \in File, Overfull(f)
  PROVE  /\ Range(Oldest(f)) \subseteq Range(f.recs)
         /\ Cut(f) = Len(f.recs) =>
              Range(f.recs) \subseteq Range(Oldest(f)) \cup Range(Newest(f))
<1>1. /\ f.recs \in Seq(Event) /\ Len(f.recs) \in Nat
      /\ DOMAIN f.recs = 1..Len(f.recs)
  BY LenProperties DEF File
<1>2. Cut(f) \in 0..Len(f.recs) /\ Cut(f) > MaxSize /\ MaxSize \in Nat \ {0}
  BY CutBound, BufferAssumption DEF Overfull
<1> DEFINE m == Cut(f) - MaxSize
<1>3. m \in Nat \ {0} /\ m + 1 <= Cut(f) /\ Cut(f) - (m + 1) + 1 = MaxSize
  BY <1>1, <1>2
<1>4. /\ Oldest(f) = SubSeq(f.recs, 1, m)
      /\ Newest(f) = SubSeq(f.recs, m + 1, Cut(f))
  BY DEF Oldest, Newest
<1> HIDE DEF m
<1>5. /\ Oldest(f) \in Seq(Event) /\ Len(Oldest(f)) = m
      /\ \A i \in 1..m : Oldest(f)[i] = f.recs[i]
      /\ Range(Oldest(f)) \subseteq Range(f.recs)
  BY <1>1, <1>2, <1>3, <1>4, SliceWithin
<1>6. /\ Newest(f) \in Seq(Event) /\ Len(Newest(f)) = MaxSize
      /\ \A i \in 1..MaxSize : Newest(f)[i] = f.recs[(m + 1) + i - 1]
  BY <1>1, <1>2, <1>3, <1>4, SliceWithin
<1>7. DOMAIN Oldest(f) = 1..m /\ DOMAIN Newest(f) = 1..MaxSize
  BY <1>5, <1>6, LenProperties
<1>8. ASSUME Cut(f) = Len(f.recs), NEW i \in 1..Len(f.recs)
      PROVE  f.recs[i] \in Range(Oldest(f)) \cup Range(Newest(f))
  <2>1. CASE i <= m
    <3>1. i \in 1..m
      BY <1>1, <1>3, <2>1
    <3>2. QED
      BY <1>5, <1>7, <3>1 DEF Range
  <2>2. CASE ~(i <= m)
    <3>1. i - m \in 1..MaxSize /\ (m + 1) + (i - m) - 1 = i
      BY <1>1, <1>2, <1>3, <1>8, <2>2
    <3>2. QED
      BY <1>6, <1>7, <3>1 DEF Range
  <2>3. QED
    BY <2>1, <2>2
<1>9. QED
  BY <1>1, <1>5, <1>8 DEF Range

LEMMA WriteWithin ==
  ASSUME NEW f \in File, NEW e \in Event
  PROVE  \A g \in {Landed(f, e)} \cup Torn(f, e) :
           g \in File /\ Range(g.recs) \subseteq Range(f.recs) \cup {e}
<1>1. f.recs \in Seq(Event) /\ Len(f.recs) \in Nat
  BY LenProperties DEF File
<1>2. /\ Spoiled(f) \in Seq(Event)
      /\ Range(Spoiled(f)) \subseteq Range(f.recs)
  BY <1>1, SliceWithin DEF Spoiled
<1>3. /\ Append(Spoiled(f), e) \in Seq(Event)
      /\ Range(Append(Spoiled(f), e)) = Range(Spoiled(f)) \cup {e}
  BY <1>2, AppendRange
<1>4. /\ WithRecord(f, e) \in Seq(Event)
      /\ Range(WithRecord(f, e)) \subseteq Range(f.recs) \cup {e}
  BY <1>2, <1>3 DEF WithRecord
<1>5. QED
  BY <1>2, <1>4 DEF Landed, Torn, File, Tails

\* Writing back the next of the kept events: what is in the file and what is
\* still to be written stay a prefix and the rest of the same sequence.
LEMMA WriteBackOne ==
  ASSUME NEW q \in Seq(Event), NEW k \in 0..Len(q) - 1
  PROVE  LET rest == SubSeq(q, k + 1, Len(q))
         IN  /\ Len(rest) = Len(q) - k
             /\ Head(rest) = q[k + 1] /\ q[k + 1] \in Event
             /\ Tail(rest) = SubSeq(q, k + 2, Len(q)) /\ Tail(rest) \in Seq(Event)
             /\ Range(rest) = {q[k + 1]} \cup Range(Tail(rest))
             /\ Landed([recs |-> SubSeq(q, 1, k), tail |-> "ended"], q[k + 1])
                  = [recs |-> SubSeq(q, 1, k + 1), tail |-> "ended"]
<1> DEFINE rest == SubSeq(q, k + 1, Len(q))
<1>1. Len(q) \in Nat /\ k \in Nat /\ k + 1 \in 1..Len(q) /\ Len(q) \in k + 1..Len(q)
  BY LenProperties
<1>2. /\ rest \in Seq(Event) /\ Len(rest) = Len(q) - k
      /\ rest[1] = q[k + 1] /\ q[k + 1] \in Event
  BY <1>1, SliceWithin, ElementOfSeq
<1>3. Head(rest) = q[k + 1] /\ Tail(rest) = SubSeq(q, k + 2, Len(q))
  <2>1. Head(rest) = q[k + 1] /\ Tail(rest) = SubSeq(q, (k + 1) + 1, Len(q))
    BY <1>1, HeadTailOfSubSeq
  <2>2. (k + 1) + 1 = k + 2
    BY <1>1
  <2>3. QED
    BY <2>1, <2>2
<1> HIDE DEF rest
<1>4. Tail(rest) \in Seq(Event) /\ Range(rest) = {q[k + 1]} \cup Range(Tail(rest))
  <2>1. /\ rest # <<>> /\ Tail(rest) \in Seq(Event) /\ Len(Tail(rest)) = Len(rest) - 1
        /\ \A i \in 1..Len(Tail(rest)) : Tail(rest)[i] = rest[i + 1]
    <3>1. Len(rest) # 0 /\ Len(<<>>) = 0
      BY <1>1, <1>2, EmptySeq
    <3>2. QED
      BY <1>2, <3>1, HeadTailProperties
  <2>2. DOMAIN rest = 1..Len(rest) /\ DOMAIN Tail(rest) = 1..Len(rest) - 1
    BY <1>2, <2>1, LenProperties
  <2>3. \A x \in Range(rest) : x = rest[1] \/ x \in Range(Tail(rest))
    <3>1. SUFFICES ASSUME NEW i \in 1..Len(rest), i # 1
                   PROVE  rest[i] \in Range(Tail(rest))
      BY <2>2 DEF Range
    <3>2. i - 1 \in 1..Len(rest) - 1 /\ (i - 1) + 1 = i
      BY <1>1, <1>2, <3>1
    <3>3. QED
      BY <1>1, <1>2, <2>1, <2>2, <3>2 DEF Range
  <2>4. Range(Tail(rest)) \subseteq Range(rest) /\ rest[1] \in Range(rest)
    BY <1>1, <1>2, <2>1, <2>2 DEF Range
  <2>5. QED
    BY <1>2, <2>1, <2>3, <2>4
<1>5. Append(SubSeq(q, 1, k), q[k + 1]) = SubSeq(q, 1, k + 1)
  <2>1. SubSeq(q, 1, k) \in Seq(Event)
    BY <1>1, SliceWithin
  <2>2. SubSeq(q, 1, k + 1) = SubSeq(q, 1, (k + 1) - 1) \o <<q[k + 1]>>
    BY <1>1, SubSeqRecursiveSecond
  <2>3. QED
    BY <1>1, <1>2, <2>1, <2>2, AppendIsConcat
<1>6. QED
  BY <1>2, <1>3, <1>4, <1>5 DEF Landed, WithRecord, Spoiled, rest

-----------------------------------------------------------------------------
(* The inductive invariant.                                                 *)

LEMMA Alone ==
  ASSUME Exclusive, NEW c \in Client, pc[c] \in Locked
  PROVE  \A d \in Client \ {c} : pc[d] \notin Locked
BY DEF Exclusive

LEMMA InitHolds == Init => IInv
<1> SUFFICES ASSUME Init PROVE IInv
  OBVIOUS
<1>1. Empty \in File /\ Range(Empty.recs) = {} /\ <<>> \in Seq(Event)
  BY EmptySeq DEF Empty, File, Tails, Range
<1>2. Unwritten = {}
  BY DEF Init, Unwritten
<1>3. TypeOK
  BY <1>1, MaxTornAssumption DEF Init, TypeOK, Steps
<1>4. Exclusive
  BY DEF Init, Exclusive, Locked
<1>5. AppendAtEnd /\ SnapshotCurrent /\ RewriteProgress
  BY DEF Init, AppendAtEnd, SnapshotCurrent, RewriteProgress
<1>6. Provenance /\ HandedOnce
  BY <1>1, <1>2 DEF Init, Provenance, HandedOnce
<1>7. QED
  BY <1>3, <1>4, <1>5, <1>6 DEF IInv

\* One step, action by action: at most one client acts on the file, so the
\* conjuncts about every other client have nothing to say about the new state.
LEMMA StepHolds == IInv /\ [Next]_vars => IInv'
<1> SUFFICES ASSUME IInv, [Next]_vars PROVE IInv'
  OBVIOUS
<1> USE DEF IInv, Truncated
<1>1. ASSUME NEW c \in Client, Call(c)
      PROVE  IInv'
  <2>1. TypeOK'
    BY <1>1 DEF Call, Goto, Opened, Steps, TypeOK, ghost
  <2>2. Exclusive'
    BY <1>1 DEF Call, Goto, Opened, Locked, Exclusive, TypeOK, ghost
  <2>3. AppendAtEnd' /\ SnapshotCurrent' /\ RewriteProgress'
    BY <1>1 DEF Call, Goto, Opened, TypeOK, ghost, AppendAtEnd, SnapshotCurrent, RewriteProgress
  <2>4. Unwritten' = Unwritten
    BY <1>1 DEF Call, Goto, Opened, TypeOK, ghost, Unwritten
  <2>5. Provenance' /\ HandedOnce'
    BY <1>1, <2>4 DEF Call, ghost, Provenance, HandedOnce
  <2>6. QED
    BY <2>1, <2>2, <2>3, <2>5
<1>2. ASSUME NEW c \in Client, lockFile(c)
      PROVE  IInv'
  <2>1. /\ pc[c] \in Opened
        /\ \E s \in {"seek", "scan", "trimScan"} : pc' = [pc EXCEPT ![c] = s]
        /\ lock = {} /\ lock' = {c}
        /\ UNCHANGED <<file, size, off, got, taken, ghost>>
    <3>1. PICK o \in Opened : Goto(c, o, AfterLock[o])
      BY <1>2 DEF lockFile
    <3>2. AfterLock[o] \in {"seek", "scan", "trimScan"}
      BY DEF Opened, AfterLock
    <3>3. QED
      BY <1>2, <3>1, <3>2 DEF lockFile, Free, Goto
  <2>2. TypeOK'
    BY <2>1 DEF Locked, Steps, TypeOK, ghost
  <2>3. Exclusive'
    BY <2>1 DEF Locked, Exclusive, TypeOK
  <2>4. AppendAtEnd' /\ SnapshotCurrent' /\ RewriteProgress'
    <3>1. \A d \in Client : pc'[d] \notin {"seek", "scan", "trimScan"} => pc[d] = pc'[d]
      BY <2>1 DEF TypeOK
    <3>2. QED
      BY <2>1, <3>1 DEF ghost, AppendAtEnd, SnapshotCurrent, RewriteProgress
  <2>5. Unwritten' = Unwritten
    BY <2>1 DEF Opened, TypeOK, ghost, Unwritten
  <2>6. Provenance' /\ HandedOnce'
    BY <2>1, <2>5 DEF ghost, Provenance, HandedOnce
  <2>7. QED
    BY <2>2, <2>3, <2>4, <2>6
<1>3. ASSUME NEW c \in Client, Seek(c)
      PROVE  IInv'
  <2>1. TypeOK'
    BY <1>3 DEF Seek, Goto, Locked, Steps, TypeOK, ghost
  <2>2. Exclusive'
    BY <1>3 DEF Seek, Goto, Locked, Exclusive, TypeOK, ghost
  <2>3. AppendAtEnd' /\ SnapshotCurrent' /\ RewriteProgress'
    BY <1>3 DEF Seek, Goto, TypeOK, ghost, AppendAtEnd, SnapshotCurrent, RewriteProgress
  <2>4. Unwritten' = Unwritten
    BY <1>3 DEF Seek, Goto, TypeOK, ghost, Unwritten
  <2>5. Provenance' /\ HandedOnce'
    BY <1>3, <2>4 DEF Seek, ghost, Provenance, HandedOnce
  <2>6. QED
    BY <2>1, <2>2, <2>3, <2>5
<1>4. ASSUME NEW c \in Client, Write(c) \/ TornWrite(c)
      PROVE  IInv'
  <2>1. /\ pc[c] = "write" /\ Return(c) /\ size' = size + 1
        /\ UNCHANGED <<taken, saved, handed, dropped>>
        /\ torn' \in 0..MaxTorn /\ acked' \subseteq used'
    BY <1>4, MaxTornAssumption DEF Write, TornWrite, TypeOK
  <2>2. PICK e \in Event : /\ file' \in {Landed(file, e)} \cup Torn(file, e)
                           /\ used' = used \cup {e} /\ e \notin used
    BY <1>4 DEF Write, TornWrite
  <2>3. file' \in File /\ Range(file.recs') \subseteq Range(file.recs) \cup {e}
    BY <2>2, WriteWithin DEF TypeOK
  <2>4. \A d \in Client \ {c} : pc[d] \notin Locked
    BY <2>1, Alone DEF Locked
  <2>5. TypeOK'
    BY <2>1, <2>2, <2>3, EmptySeq DEF TypeOK, Return, Steps
  <2>6. Exclusive'
    BY <2>1, <2>4 DEF Exclusive, Return, TypeOK, Locked
  <2>7. AppendAtEnd' /\ SnapshotCurrent' /\ RewriteProgress'
    BY <2>1, <2>4 DEF AppendAtEnd, SnapshotCurrent, RewriteProgress, Return, TypeOK, Locked
  <2>8. Unwritten' = {}
    BY <2>1, <2>4 DEF Unwritten, Return, TypeOK, Locked
  <2>9. Provenance' /\ HandedOnce'
    BY <2>1, <2>2, <2>3, <2>8 DEF Provenance, HandedOnce
  <2>10. QED
    BY <2>5, <2>6, <2>7, <2>9
<1>5. ASSUME NEW c \in Client, Scan(c)
      PROVE  IInv'
  <2>1. scanEvents(file) \in Seq(Event)
    BY ScanWithin DEF TypeOK
  <2>2. TypeOK'
    BY <1>5, <2>1 DEF Scan, Goto, Locked, Steps, TypeOK, ghost
  <2>3. Exclusive'
    BY <1>5 DEF Scan, Goto, Locked, Exclusive, TypeOK, ghost
  <2>4. AppendAtEnd' /\ SnapshotCurrent' /\ RewriteProgress'
    BY <1>5 DEF Scan, Goto, TypeOK, ghost, AppendAtEnd, SnapshotCurrent, RewriteProgress
  <2>5. Unwritten' = Unwritten
    BY <1>5 DEF Scan, Goto, TypeOK, ghost, Unwritten
  <2>6. Provenance' /\ HandedOnce'
    BY <1>5, <2>5 DEF Scan, ghost, Provenance, HandedOnce
  <2>7. QED
    BY <2>2, <2>3, <2>4, <2>6
<1>6. ASSUME NEW c \in Client, Clear(c)
      PROVE  IInv'
  <2>1. Empty \in File /\ Range(Empty.recs) = {} /\ <<>> \in Seq(Event)
    BY EmptySeq DEF Empty, File, Tails, Range
  <2>2. \A d \in Client \ {c} : pc[d] \notin Locked
    BY <1>6, Alone DEF Clear, Locked
  <2>3. got[c] \in Seq(Event) /\ Range(got[c]) \subseteq Range(file.recs)
    BY <1>6, ScanWithin DEF Clear, SnapshotCurrent, TypeOK
  <2>4. TypeOK'
    BY <1>6, <2>1, <2>3 DEF Clear, Return, Steps, TypeOK, Provenance
  <2>5. Exclusive'
    BY <1>6, <2>2 DEF Clear, Return, Locked, Exclusive, TypeOK
  <2>6. AppendAtEnd' /\ SnapshotCurrent' /\ RewriteProgress'
    BY <1>6, <2>2 DEF Clear, Return, TypeOK, Locked, AppendAtEnd, SnapshotCurrent, RewriteProgress
  <2>7. Unwritten' = {}
    BY <1>6, <2>2 DEF Clear, Return, TypeOK, Locked, Unwritten
  <2>8. Provenance' /\ HandedOnce'
    BY <1>6, <2>1, <2>3, <2>7 DEF Clear, Provenance, HandedOnce
  <2>9. QED
    BY <2>4, <2>5, <2>6, <2>8

<1>7. ASSUME NEW c \in Client, TrimScan(c)
      PROVE  IInv'
  <2>1. pc[c] = "trimScan" /\ UNCHANGED <<file, size, taken, ghost>>
    BY <1>7 DEF TrimScan, Goto
  <2>2. CASE Overfull(file)
    <3>1. /\ pc' = [pc EXCEPT ![c] = "truncate"]
          /\ got' = [got EXCEPT ![c] = Newest(file)]
          /\ UNCHANGED <<lock, off>>
      BY <1>7, <2>2 DEF TrimScan, Goto
    <3>2. Newest(file) \in Seq(Event)
      BY <2>2, NewestWithin DEF TypeOK
    <3>3. TypeOK'
      BY <2>1, <3>1, <3>2 DEF Locked, Steps, TypeOK, ghost
    <3>4. Exclusive'
      BY <2>1, <3>1 DEF Locked, Exclusive, TypeOK
    <3>5. AppendAtEnd' /\ SnapshotCurrent' /\ RewriteProgress'
      BY <2>1, <2>2, <3>1 DEF TypeOK, ghost, AppendAtEnd, SnapshotCurrent, RewriteProgress
    <3>6. Unwritten' = Unwritten
      BY <2>1, <3>1 DEF TypeOK, Unwritten
    <3>7. QED
      BY <2>1, <3>3, <3>4, <3>5, <3>6 DEF ghost, Provenance, HandedOnce
  <2>3. CASE ~Overfull(file)
    <3>1. Return(c)
      BY <1>7, <2>3 DEF TrimScan
    <3>2. TypeOK'
      BY <2>1, <3>1, EmptySeq DEF Return, Steps, TypeOK, ghost
    <3>3. Exclusive'
      BY <2>1, <3>1 DEF Return, Locked, Exclusive, TypeOK
    <3>4. AppendAtEnd' /\ SnapshotCurrent' /\ RewriteProgress'
      BY <2>1, <3>1 DEF Return, TypeOK, ghost, AppendAtEnd, SnapshotCurrent, RewriteProgress
    <3>5. Unwritten' = Unwritten
      BY <2>1, <3>1 DEF Return, TypeOK, Unwritten
    <3>6. QED
      BY <2>1, <3>2, <3>3, <3>4, <3>5 DEF ghost, Provenance, HandedOnce
  <2>4. QED
    BY <2>2, <2>3
<1>8. ASSUME NEW c \in Client, Truncate(c)
      PROVE  IInv'
  <2>1. /\ pc[c] = "truncate" /\ pc' = [pc EXCEPT ![c] = "rewrite"]
        /\ saved' = file /\ file' = Empty /\ size' = 0
        /\ UNCHANGED <<lock, off, got, taken, acked, used, handed, torn>>
    BY <1>8 DEF Truncate, Goto
  <2>2. \A d \in Client \ {c} : pc[d] \notin Locked
    BY <2>1, Alone DEF Locked
  <2>3. Empty \in File /\ Range(Empty.recs) = {}
    BY EmptySeq DEF Empty, File, Tails, Range
  <2>4. /\ Overfull(file) /\ got[c] = Newest(file)
        /\ Newest(file) \in Seq(Event) /\ Len(Newest(file)) = MaxSize
        /\ Range(Newest(file)) \subseteq Range(file.recs)
    BY <2>1, NewestWithin DEF SnapshotCurrent, TypeOK
  <2>5. dropped' \subseteq Event
    BY <1>8, <2>4, OldestWithin DEF Truncate, TypeOK, Provenance
  <2>6. TypeOK'
    BY <2>1, <2>3, <2>5 DEF Locked, Steps, TypeOK
  <2>7. Exclusive'
    BY <2>1 DEF Locked, Exclusive, TypeOK
  <2>8. AppendAtEnd' /\ SnapshotCurrent'
    BY <2>1, <2>2 DEF TypeOK, Locked, AppendAtEnd, SnapshotCurrent
  <2>9. RewriteProgress'
    <3>1. SubSeq(Newest(file), 1, 0) = <<>>
      BY SubSeqEmpty
    <3>2. SubSeq(Newest(file), 0 + 1, MaxSize) = Newest(file)
      BY <2>4, SubSeqFull
    <3>3. 0 \in 0..MaxSize - 1
      BY BufferAssumption
    <3>4. \A d \in Client : pc'[d] = "rewrite" => d = c
      BY <2>1, <2>2 DEF TypeOK, Locked
    <3>5. /\ file' = [recs |-> SubSeq(Newest(file), 1, 0), tail |-> "ended"]
          /\ got'[c] = SubSeq(Newest(file), 0 + 1, MaxSize)
      BY <2>1, <2>4, <3>1, <3>2 DEF Empty
    <3>6. QED
      BY <2>1, <2>4, <3>3, <3>4, <3>5 DEF RewriteProgress, Overfull, Newest, Cut
  <2>10. Unwritten' = Range(got[c])
    BY <2>1, <2>2 DEF TypeOK, Locked, Unwritten
  <2>11. Provenance' /\ HandedOnce'
    BY <2>1, <2>3, <2>4, <2>10 DEF Provenance, HandedOnce
  <2>12. QED
    BY <2>6, <2>7, <2>8, <2>9, <2>11
<1>9. ASSUME NEW c \in Client, pc[c] = "rewrite", Rewrite(c) \/ TornRewrite(c)
      PROVE  IInv'
  <2> DEFINE keep == Newest(saved)
  <2>1. \A d \in Client \ {c} : pc[d] \notin Locked
    BY <1>9, Alone DEF Locked
  <2>2. PICK k \in 0..MaxSize - 1 :
          /\ file = [recs |-> SubSeq(keep, 1, k), tail |-> "ended"]
          /\ got[c] = SubSeq(keep, k + 1, MaxSize)
    BY <1>9 DEF RewriteProgress
  <2>3. Overfull(saved) /\ keep \in Seq(Event) /\ Len(keep) = MaxSize
    BY <1>9, NewestWithin DEF RewriteProgress, TypeOK
  <2>4. /\ Len(got[c]) = MaxSize - k
        /\ Head(got[c]) = keep[k + 1] /\ keep[k + 1] \in Event
        /\ Tail(got[c]) = SubSeq(keep, k + 2, MaxSize) /\ Tail(got[c]) \in Seq(Event)
        /\ Range(got[c]) = {keep[k + 1]} \cup Range(Tail(got[c]))
        /\ Landed(file, keep[k + 1]) = [recs |-> SubSeq(keep, 1, k + 1), tail |-> "ended"]
    BY <2>2, <2>3, WriteBackOne
  <2>5. /\ file' \in File
        /\ Range(file.recs') \subseteq Range(file.recs) \cup Range(got[c])
    <3>1. file' \in {file} \cup {Landed(file, keep[k + 1])} \cup Torn(file, keep[k + 1])
      BY <1>9, <2>4 DEF Rewrite, TornRewrite
    <3>2. file \in File /\ Range(file.recs) \cup {keep[k + 1]} \subseteq Range(file.recs) \cup Range(got[c])
      BY <2>4 DEF TypeOK
    <3>3. \A g \in {Landed(file, keep[k + 1])} \cup Torn(file, keep[k + 1]) :
            g \in File /\ Range(g.recs) \subseteq Range(file.recs) \cup {keep[k + 1]}
      BY <2>4, <3>2, WriteWithin
    <3>4. QED
      BY <3>1, <3>2, <3>3
  <2>6. Unwritten = Range(got[c])
    BY <1>9, <2>1 DEF Unwritten, Locked
  <2>7. UNCHANGED <<taken, saved, acked, used, handed>>
    BY <1>9 DEF Rewrite, TornRewrite, ghost
  <2>8. CASE Return(c)
    <3>1. Unwritten' = {}
      BY <2>1, <2>8 DEF Unwritten, Return, TypeOK, Locked
    <3>2. torn' \in 0..MaxTorn /\ size' \in Nat /\ dropped' \subseteq Event
      BY <1>9, <2>6, MaxTornAssumption DEF Rewrite, TornRewrite, ghost, TypeOK, Provenance
    <3>3. TypeOK'
      BY <2>5, <2>7, <2>8, <3>2, EmptySeq DEF Return, Steps, TypeOK
    <3>4. Exclusive'
      BY <2>1, <2>8 DEF Exclusive, Return, TypeOK, Locked
    <3>5. AppendAtEnd' /\ SnapshotCurrent' /\ RewriteProgress'
      BY <2>1, <2>8 DEF AppendAtEnd, SnapshotCurrent, RewriteProgress, Return, TypeOK, Locked
    <3>6. Provenance' /\ HandedOnce'
      BY <2>5, <2>6, <2>7, <3>1 DEF Provenance, HandedOnce
    <3>7. QED
      BY <3>3, <3>4, <3>5, <3>6
  <2>9. CASE ~Return(c)
    <3>1. /\ Len(got[c]) # 1 /\ file' = Landed(file, Head(got[c]))
          /\ got' = [got EXCEPT ![c] = Tail(@)] /\ size' = size + 1
          /\ UNCHANGED <<pc, lock, off, dropped, torn>>
      BY <1>9, <2>9 DEF Rewrite, TornRewrite, ghost
    <3>2. got'[c] = Tail(got[c]) /\ \A d \in Client \ {c} : got'[d] = got[d]
      BY <3>1 DEF TypeOK
    <3>3. k + 1 \in 0..MaxSize - 1 /\ (k + 1) + 1 = k + 2
      BY <2>4, <3>1, BufferAssumption
    <3>4. TypeOK'
      BY <2>4, <2>5, <2>7, <3>1 DEF TypeOK
    <3>5. Exclusive' /\ AppendAtEnd' /\ SnapshotCurrent'
      BY <1>9, <2>1, <3>1, <3>2 DEF Exclusive, AppendAtEnd, SnapshotCurrent, Locked
    <3>6. RewriteProgress'
      <4>1. /\ file' = [recs |-> SubSeq(keep, 1, k + 1), tail |-> "ended"]
            /\ got'[c] = SubSeq(keep, (k + 1) + 1, MaxSize)
        BY <2>4, <3>1, <3>2, <3>3
      <4>2. \A d \in Client : pc'[d] = "rewrite" => d = c
        BY <2>1, <3>1 DEF Locked
      <4>3. saved' = saved /\ keep' = keep /\ Overfull(saved)'
        BY <2>3, <2>7 DEF Newest, Cut, Overfull
      <4>4. QED
        BY <3>3, <4>1, <4>2, <4>3 DEF RewriteProgress
    <3>7. Unwritten' = Range(Tail(got[c]))
      BY <1>9, <2>1, <3>1, <3>2 DEF Unwritten, Locked
    <3>8. Provenance' /\ HandedOnce'
      BY <2>4, <2>5, <2>6, <2>7, <3>7 DEF Provenance, HandedOnce
    <3>9. QED
      BY <3>4, <3>5, <3>6, <3>8
  <2>10. QED
    BY <2>8, <2>9
<1>10. ASSUME NEW c \in Client, Abandon(c)
      PROVE  IInv'
  <2>1. TypeOK'
    BY <1>10, EmptySeq DEF Abandon, Return, Steps, TypeOK, ghost
  <2>2. Exclusive'
    BY <1>10 DEF Abandon, Return, Locked, Exclusive, TypeOK
  <2>3. AppendAtEnd' /\ SnapshotCurrent' /\ RewriteProgress'
    BY <1>10 DEF Abandon, Return, TypeOK, ghost, AppendAtEnd, SnapshotCurrent, RewriteProgress
  <2>4. Unwritten' = Unwritten
    BY <1>10 DEF Abandon, Return, TypeOK, Unwritten
  <2>5. Provenance' /\ HandedOnce'
    BY <1>10, <2>4 DEF Abandon, ghost, Provenance, HandedOnce
  <2>6. QED
    BY <2>1, <2>2, <2>3, <2>5
<1>11. CASE UNCHANGED vars
  <2> USE <1>11 DEF vars, ghost
  <2>1. TypeOK'
    BY DEF TypeOK
  <2>2. Exclusive' /\ AppendAtEnd'
    BY DEF Exclusive, AppendAtEnd
  <2>3. SnapshotCurrent' /\ RewriteProgress'
    BY DEF SnapshotCurrent, RewriteProgress
  <2>4. Provenance' /\ HandedOnce'
    BY DEF Provenance, HandedOnce, Unwritten
  <2>5. QED
    BY <2>1, <2>2, <2>3, <2>4
<1>12. ASSUME NEW c \in Client, Rewrite(c) \/ TornRewrite(c)
       PROVE  IInv'
  BY <1>9, <1>12 DEF Rewrite, TornRewrite
<1>13. QED
  BY <1>1, <1>2, <1>3, <1>4, <1>5, <1>6, <1>7, <1>8, <1>10, <1>11, <1>12
     DEF Next, Proceed

LEMMA InvariantHolds == Spec => []IInv
<1>1. QED
  BY InitHolds, StepHolds, PTL DEF Spec

-----------------------------------------------------------------------------
(* The theorems.                                                            *)

\* Every variable keeps its type: what Seek, Scan and Trim leave in the local
\* variables of a call, and every file a write can leave (buffer.go).
THEOREM TypeCorrect == Spec => []TypeOK
<1>1. IInv => TypeOK
  BY DEF IInv
<1>2. QED
  BY <1>1, InvariantHolds, PTL

\* Whatever runs between Seek and Write, the write lands at the end of the
\* file: the claim of the comment in Append, buffer.go:38-41.
THEOREM AppendsAtEnd == Spec => []AppendAtEnd
<1>1. IInv => AppendAtEnd
  BY DEF IInv
<1>2. QED
  BY <1>1, InvariantHolds, PTL

\* An event that ReadAndClear has handed out never returns to the file, though
\* Trim writes events back that it read before: no two callers get it.
THEOREM HandedOutOnce == Spec => []HandedOnce
<1>1. IInv => HandedOnce
  BY DEF IInv
<1>2. QED
  BY <1>1, InvariantHolds, PTL

-----------------------------------------------------------------------------
(* Each call takes effect in one step: EventBuffer implements AtomicBuffer. *)

LEMMA SameOperators ==
  ASSUME NEW f
  PROVE  /\ Atomic!scanEvents(f) = scanEvents(f)
         /\ Atomic!Overfull(f) <=> Overfull(f)
         /\ Atomic!Newest(f) = Newest(f)
         /\ \A e : Atomic!Landed(f, e) = Landed(f, e) /\ Atomic!Torn(f, e) = Torn(f, e)
<1>1. Atomic!Cut(f) = Cut(f)
  BY DEF Atomic!Cut, Cut, Atomic!Cardinality, Cardinality
<1>2. Atomic!Spoiled(f) = Spoiled(f)
  BY DEF Atomic!Spoiled, Spoiled
<1>3. \A e : Atomic!WithRecord(f, e) = WithRecord(f, e)
  BY <1>2 DEF Atomic!WithRecord, WithRecord
<1>4. \A e : Atomic!Landed(f, e) = Landed(f, e)
  BY <1>3 DEF Atomic!Landed, Landed
<1>5. \A e : Atomic!Torn(f, e) = Torn(f, e)
  BY <1>2, <1>3 DEF Atomic!Torn, Torn
<1>6. QED
  BY <1>1, <1>4, <1>5 DEF Atomic!scanEvents, Atomic!Overfull, Atomic!Newest, scanEvents, Overfull, Newest

LEMMA StepRefines == IInv /\ [Next]_vars => [Atomic!ANext]_(Atomic!avars)
<1> SUFFICES ASSUME IInv, [Next]_vars
             PROVE  [Atomic!ANext]_(Atomic!avars)
  OBVIOUS
<1> USE DEF IInv, Truncated
\* What readers find when nobody, or when c, is writing back.
<1>1. ASSUME NEW c \in Client, pc[c] \in Locked
      PROVE  Durable = IF pc[c] = "rewrite" THEN saved ELSE file
  BY <1>1, Alone DEF Durable, Locked
<1>2. ASSUME NEW c \in Client, pc[c] \in Locked, Return(c)
      PROVE  Durable' = file'
  BY <1>2, Alone DEF Durable, Locked, Return, TypeOK
<1>3. ASSUME NEW c \in Client,
             Call(c) \/ lockFile(c) \/ Seek(c) \/ Scan(c) \/ TrimScan(c) \/ Abandon(c)
      PROVE  UNCHANGED Atomic!avars
  <2>1. UNCHANGED <<file, saved, taken>>
    BY <1>3 DEF Call, lockFile, Seek, Scan, TrimScan, Abandon, ghost
  <2>2. \E s \in Steps \ {"rewrite"} : pc[c] # "rewrite" /\ pc' = [pc EXCEPT ![c] = s]
    <3>1. CASE lockFile(c)
      <4>1. PICK o \in Opened : Goto(c, o, AfterLock[o])
        BY <3>1 DEF lockFile
      <4>2. AfterLock[o] \in Steps \ {"rewrite"} /\ o # "rewrite"
        BY DEF Opened, AfterLock, Steps, Locked
      <4>3. QED
        BY <4>1, <4>2 DEF Goto
    <3>2. CASE Call(c) \/ Seek(c) \/ Scan(c) \/ Abandon(c)
      BY <3>2 DEF Call, Seek, Scan, Abandon, Goto, Return, Opened, Steps, Locked
    <3>3. CASE TrimScan(c)
      BY <3>3 DEF TrimScan, Goto, Return, Steps, Locked
    <3>4. QED
      BY <1>3, <3>1, <3>2, <3>3
  <2>3. Durable' = Durable
    BY <2>1, <2>2 DEF Durable, TypeOK
  <2>4. QED
    BY <2>1, <2>3 DEF Atomic!avars
<1>4. ASSUME NEW c \in Client, Write(c) \/ TornWrite(c)
      PROVE  Atomic!AppendDone \/ Atomic!AppendTorn
  <2>1. /\ pc[c] = "write" /\ Return(c) /\ taken' = taken
        /\ \E e \in Event : file' = Landed(file, e) \/ file' \in Torn(file, e)
    BY <1>4 DEF Write, TornWrite
  <2>2. Durable = file /\ Durable' = file'
    BY <1>1, <1>2, <2>1 DEF Locked
  <2>3. QED
    BY <2>1, <2>2, SameOperators DEF Atomic!AppendDone, Atomic!AppendTorn, TypeOK
<1>5. ASSUME NEW c \in Client, Clear(c)
      PROVE  Atomic!TakeAll
  <2>1. /\ pc[c] = "clear" /\ Return(c) /\ file' = Empty
        /\ taken' = scanEvents(file)
    BY <1>5 DEF Clear, SnapshotCurrent
  <2>2. Durable = file /\ Durable' = file'
    BY <1>1, <1>2, <2>1 DEF Locked
  <2>3. QED
    BY <2>1, <2>2, SameOperators DEF Atomic!TakeAll, Atomic!Empty, Empty
<1>6. ASSUME NEW c \in Client, Truncate(c)
      PROVE  UNCHANGED Atomic!avars
  <2>1. pc[c] = "truncate" /\ pc'[c] = "rewrite" /\ saved' = file /\ taken' = taken
    BY <1>6 DEF Truncate, Goto, TypeOK
  <2>2. Durable = file /\ Durable' = saved'
    BY <1>1, <2>1 DEF Durable, Locked
  <2>3. QED
    BY <2>1, <2>2 DEF Atomic!avars
<1>7. ASSUME NEW c \in Client, Rewrite(c) \/ TornRewrite(c)
      PROVE  Atomic!TrimDone \/ Atomic!TrimTorn \/ UNCHANGED Atomic!avars
  <2> DEFINE keep == Newest(saved)
  <2>1. /\ pc[c] = "rewrite" /\ Durable = saved
        /\ UNCHANGED <<saved, taken>>
    BY <1>1, <1>7 DEF Rewrite, TornRewrite, ghost, Locked
  <2>2. PICK k \in 0..MaxSize - 1 :
          /\ file = [recs |-> SubSeq(keep, 1, k), tail |-> "ended"]
          /\ got[c] = SubSeq(keep, k + 1, MaxSize)
    BY <2>1 DEF RewriteProgress
  <2>3. /\ saved \in File /\ Overfull(saved)
        /\ keep \in Seq(Event) /\ Len(keep) = MaxSize
    BY <2>1, NewestWithin DEF RewriteProgress, TypeOK
  <2>4. /\ Len(got[c]) = MaxSize - k
        /\ Head(got[c]) = keep[k + 1] /\ keep[k + 1] \in Event
        /\ Landed(file, keep[k + 1]) = [recs |-> SubSeq(keep, 1, k + 1), tail |-> "ended"]
    BY <2>2, <2>3, WriteBackOne
  <2>5. Atomic!Overfull(saved) /\ Atomic!Newest(saved) = keep
    BY <2>3, <2>4, SameOperators
  <2>6. CASE Rewrite(c) /\ Len(got[c]) = 1
    <3>1. k + 1 = MaxSize
      <4>1. MaxSize - k = 1
        BY <2>4, <2>6
      <4>2. k \in Nat /\ MaxSize \in Nat
        BY BufferAssumption
      <4>3. QED
        BY <4>1, <4>2
    <3>2. Return(c) /\ file' = [recs |-> keep, tail |-> "ended"]
      BY <2>3, <2>4, <2>6, <3>1, SubSeqFull DEF Rewrite
    <3>3. Durable' = file'
      BY <1>2, <2>1, <3>2 DEF Locked
    <3>4. QED
      BY <2>1, <2>5, <3>2, <3>3 DEF Atomic!TrimDone
  <2>7. CASE Rewrite(c) /\ Len(got[c]) # 1
    <3>1. pc' = pc
      BY <2>7 DEF Rewrite
    <3>2. Durable' = saved'
      BY <2>1, <3>1 DEF Durable
    <3>3. QED
      BY <2>1, <3>2 DEF Atomic!avars
  <2>8. CASE TornRewrite(c)
    <3>1. Return(c) /\ file' \in {file} \cup Torn(file, keep[k + 1])
      BY <2>4, <2>8 DEF TornRewrite
    <3>2. Durable' = file'
      BY <1>2, <2>1, <3>1 DEF Locked
    <3>3. Atomic!Torn(file, keep[k + 1]) = Torn(file, keep[k + 1])
      BY <2>4, SameOperators DEF TypeOK
    <3>4. QED
      BY <2>1, <2>2, <2>5, <3>1, <3>2, <3>3 DEF Atomic!TrimTorn
  <2>9. QED
    BY <1>7, <2>6, <2>7, <2>8
<1>8. CASE UNCHANGED vars
  BY <1>8 DEF vars, ghost, Atomic!avars, Durable
<1>9. QED
  BY <1>3, <1>4, <1>5, <1>6, <1>7, <1>8 DEF Next, Proceed, Atomic!ANext

\* Append, ReadAndClear and Trim, made of several steps each and cut short
\* anywhere, look to every caller like the one-step operations of
\* AtomicBuffer: buffer.go:69 says so of ReadAndClear.
THEOREM ImplementsAtomicBuffer == Spec => AtomicSpec
<1>1. Init => Atomic!AInit
  BY DEF Init, Atomic!AInit, Atomic!Empty, Empty, Durable
<1>2. QED
  BY <1>1, InvariantHolds, StepRefines, PTL DEF Spec, AtomicSpec, Atomic!ASpec

-----------------------------------------------------------------------------
(* What a write that stops half-way costs, when no line is too long.        *)

LEMMA SmallerLoss ==
  ASSUME NEW L, NEW M, NEW x, IsFiniteSet(L), M \subseteq L \cup {x}
  PROVE  /\ IsFiniteSet(M)
         /\ Cardinality(M) \in Nat /\ Cardinality(L) \in Nat
         /\ Cardinality(M) <= Cardinality(L) + 1
         /\ M \subseteq L => Cardinality(M) <= Cardinality(L)
<1>1. /\ IsFiniteSet(L \cup {x}) /\ Cardinality(L) \in Nat
      /\ Cardinality(L \cup {x}) <= Cardinality(L) + 1
  BY FS_AddElement, FS_CardinalityType
<1>2. IsFiniteSet(M) /\ Cardinality(M) <= Cardinality(L \cup {x})
  BY <1>1, FS_Subset
<1>3. M \subseteq L => Cardinality(M) <= Cardinality(L)
  BY FS_Subset
<1>4. Cardinality(M) \in Nat /\ Cardinality(L \cup {x}) \in Nat
  BY <1>1, <1>2, FS_CardinalityType
<1>5. QED
  BY <1>1, <1>2, <1>3, <1>4

LEMMA NothingLongReadsAll ==
  ASSUME LongEvent = {}, NEW f \in File
  PROVE  Cut(f) = Len(f.recs) /\ scanEvents(f) = f.recs
<1>1. f.recs \in Seq(Event) /\ Len(f.recs) \in Nat
  BY LenProperties DEF File
<1>2. {n \in 1..Len(f.recs) : \A i \in 1..n : f.recs[i] \notin LongEvent} = 1..Len(f.recs)
  OBVIOUS
<1>3. Cardinality(1..Len(f.recs)) = Len(f.recs)
  BY <1>1, FS_Interval
<1>4. Cut(f) = Len(f.recs)
  BY <1>2, <1>3, Zenon DEF Cut
<1>5. QED
  BY <1>1, <1>4, SubSeqFull DEF scanEvents

\* Gluing costs at most the last record of the file.
LEMMA SpoiledKeeps ==
  ASSUME NEW f \in File
  PROVE  /\ Spoiled(f) \in Seq(Event)
         /\ f.tail # "unended" => Spoiled(f) = f.recs
         /\ \A x \in Range(f.recs) : x \in Range(Spoiled(f)) \/ x = f.recs[Len(f.recs)]
<1>1. /\ f.recs \in Seq(Event) /\ Len(f.recs) \in Nat
      /\ DOMAIN f.recs = 1..Len(f.recs)
  BY LenProperties DEF File
<1> DEFINE front == SubSeq(f.recs, 1, Len(f.recs) - 1)
<1>2. /\ front \in Seq(Event)
      /\ Len(front) = IF 1 <= Len(f.recs) - 1 THEN Len(f.recs) - 1 ELSE 0
      /\ \A i \in 1..Len(f.recs) - 1 : front[i] = f.recs[i]
  BY <1>1, SliceWithin
<1>3. DOMAIN front = 1..Len(front)
  BY <1>2, LenProperties
<1> HIDE DEF front
<1>4. \A i \in 1..Len(f.recs) - 1 : i \in DOMAIN front
  BY <1>1, <1>2, <1>3
<1>5. \A x \in Range(f.recs) : x \in Range(front) \/ x = f.recs[Len(f.recs)]
  <2>1. SUFFICES ASSUME NEW i \in 1..Len(f.recs), i # Len(f.recs)
                 PROVE  f.recs[i] \in Range(front)
    BY <1>1 DEF Range
  <2>2. i \in 1..Len(f.recs) - 1
    BY <1>1, <2>1
  <2>3. QED
    BY <1>2, <1>4, <2>2 DEF Range
<1>6. QED
  BY <1>1, <1>2, <1>5 DEF Spoiled, front

\* The ledger, action by action: a loss is paid for by a write that stopped
\* half-way, when that write is not the one whose bytes still end the file.
LEMMA LedgerStep ==
  ASSUME LongEvent = {}
  PROVE  IInv /\ IInv' /\ TornLedger /\ [Next]_vars => TornLedger'
<1> SUFFICES ASSUME IInv, IInv', TornLedger, [Next]_vars
             PROVE  TornLedger'
  OBVIOUS
<1> USE DEF IInv, Truncated
<1>1. ASSUME NEW c \in Client,
             Call(c) \/ lockFile(c) \/ Seek(c) \/ Scan(c) \/ TrimScan(c) \/ Abandon(c)
      PROVE  TornLedger'
  <2>1. UNCHANGED <<file, ghost>>
    BY <1>1 DEF Call, lockFile, Seek, Scan, TrimScan, Abandon
  <2>2. \A d \in Client : pc[d] = "rewrite" => pc'[d] = "rewrite" /\ got'[d] = got[d]
    <3>1. CASE lockFile(c)
      <4>1. PICK o \in Opened : Goto(c, o, AfterLock[o])
        BY <3>1 DEF lockFile
      <4>2. o # "rewrite"
        BY DEF Opened
      <4>3. QED
        BY <3>1, <4>1, <4>2 DEF lockFile, Goto, TypeOK
    <3>2. CASE Call(c) \/ Seek(c) \/ Scan(c) \/ Abandon(c)
      BY <3>2 DEF Call, Seek, Scan, Abandon, Goto, Return, TypeOK
    <3>3. CASE TrimScan(c)
      BY <3>3 DEF TrimScan, Goto, Return, TypeOK
    <3>4. QED
      BY <1>1, <3>1, <3>2, <3>3
  <2>3. Unwritten \subseteq Unwritten'
    BY <2>2 DEF Unwritten
  <2>4. Lost' \subseteq Lost
    BY <2>1, <2>3 DEF Lost, ghost
  <2>5. /\ IsFiniteSet(Lost') /\ Cardinality(Lost') <= Cardinality(Lost)
        /\ Cardinality(Lost') \in Nat /\ Cardinality(Lost) \in Nat
    BY <2>4, SmallerLoss DEF TornLedger
  <2>6. QED
    BY <2>1, <2>5 DEF TornLedger, Debt, ghost, TypeOK
<1>2. ASSUME NEW c \in Client, pc[c] = "write", Write(c) \/ TornWrite(c)
      PROVE  TornLedger'
  <2>1. \A d \in Client \ {c} : pc[d] \notin Locked
    BY <1>2, Alone DEF Locked
  <2>2. Unwritten = {}
    BY <1>2, <2>1 DEF Unwritten, Locked
  <2>3. PICK e \in Event :
          /\ e \notin used
          /\ \/ file' = Landed(file, e) /\ acked' = acked \cup {e} /\ torn' = torn
             \/ file' \in Torn(file, e) /\ acked' = acked /\ torn' = torn + 1
    BY <1>2 DEF Write, TornWrite
  <2>4. handed' = handed /\ dropped' = dropped
    BY <1>2 DEF Write, TornWrite
  <2>5. \A x \in Range(file.recs) : x \in Range(Spoiled(file)) \/ x \notin acked \ dropped
    BY SpoiledKeeps DEF TornLedger, TypeOK
  <2>6. /\ Append(Spoiled(file), e) \in Seq(Event)
        /\ Range(Append(Spoiled(file), e)) = Range(Spoiled(file)) \cup {e}
    BY SpoiledKeeps, AppendRange DEF TypeOK
  <2>7. Range(Spoiled(file)) \subseteq Range(file.recs')
    <3>1. file.recs' \in {Spoiled(file), WithRecord(file, e)}
      BY <2>3 DEF Landed, Torn
    <3>2. Range(Spoiled(file)) \subseteq Range(WithRecord(file, e))
      BY <2>6 DEF WithRecord
    <3>3. QED
      BY <3>1, <3>2
  <2>8. Lost' \subseteq Lost \cup {e}
    BY <2>2, <2>3, <2>4, <2>5, <2>7 DEF Lost
  <2>9. /\ IsFiniteSet(Lost') /\ Cardinality(Lost') \in Nat /\ Cardinality(Lost) \in Nat
        /\ Cardinality(Lost') <= Cardinality(Lost) + 1
        /\ Lost' \subseteq Lost => Cardinality(Lost') <= Cardinality(Lost)
    BY <2>8, SmallerLoss DEF TornLedger
  <2>10. e \notin acked /\ torn \in Nat
    BY <2>3 DEF TypeOK
  <2>11. CASE file' = Landed(file, e) /\ acked' = acked \cup {e} /\ torn' = torn
    <3>1. file.tail' = "ended"
      BY <2>11 DEF Landed
    <3>2. file.tail = "ended" => Lost' \subseteq Lost
      BY <2>2, <2>4, <2>5, <2>6, <2>11 DEF Lost, Landed, WithRecord
    <3>3. /\ Cardinality(Lost) + Debt <= torn /\ Debt' = 0
          /\ Debt = IF file.tail = "ended" THEN 0 ELSE 1
      BY <3>1 DEF TornLedger, Debt
    <3>4. Cardinality(Lost') + Debt' <= torn'
      BY <2>9, <2>10, <2>11, <3>2, <3>3
    <3>5. QED
      BY <2>9, <3>1, <3>4 DEF TornLedger
  <2>12. CASE file' \in Torn(file, e) /\ acked' = acked /\ torn' = torn + 1
    <3>1. Lost' \subseteq Lost
      BY <2>2, <2>4, <2>5, <2>7, <2>12 DEF Lost
    <3>2. file.tail' = "unended" => file.recs' = Append(Spoiled(file), e)
      BY <2>12 DEF Torn, WithRecord
    <3>3. file.tail' = "unended" => /\ file.recs' # <<>>
                                   /\ file.recs[Len(file.recs)]' \notin acked' \ dropped'
      BY <2>10, <2>12, <3>2, SpoiledKeeps, AppendProperties DEF TypeOK
    <3>4. Cardinality(Lost) + Debt <= torn /\ Debt \in {0, 1} /\ Debt' \in {0, 1}
      BY DEF TornLedger, Debt
    <3>5. Cardinality(Lost') + Debt' <= torn'
      BY <2>9, <2>10, <2>12, <3>1, <3>4
    <3>6. QED
      BY <2>9, <3>3, <3>5 DEF TornLedger
  <2>13. QED
    BY <2>3, <2>11, <2>12
<1>3. ASSUME NEW c \in Client, Clear(c)
      PROVE  TornLedger'
  <2>1. /\ got[c] = file.recs /\ file' = Empty /\ handed' = handed \cup Range(got[c])
        /\ UNCHANGED <<acked, dropped, torn>>
    BY <1>3, NothingLongReadsAll DEF Clear, SnapshotCurrent, TypeOK
  <2>2. Unwritten = {}
    BY <1>3, Alone DEF Clear, Unwritten, Locked
  <2>3. Lost' \subseteq Lost
    BY <2>1, <2>2 DEF Lost
  <2>4. /\ IsFiniteSet(Lost') /\ Cardinality(Lost') <= Cardinality(Lost)
        /\ Cardinality(Lost') \in Nat /\ Cardinality(Lost) \in Nat
    BY <2>3, SmallerLoss DEF TornLedger
  <2>5. QED
    BY <2>1, <2>4 DEF TornLedger, Debt, Empty, TypeOK
<1>4. ASSUME NEW c \in Client, Truncate(c)
      PROVE  TornLedger'
  <2>1. /\ pc[c] = "truncate" /\ pc'[c] = "rewrite" /\ got' = got /\ file' = Empty
        /\ dropped' = dropped \cup Range(Oldest(file))
        /\ UNCHANGED <<acked, handed, torn>>
    BY <1>4 DEF Truncate, Goto, TypeOK
  <2>2. Unwritten = {} /\ Range(got[c]) \subseteq Unwritten'
    BY <2>1, Alone DEF Unwritten, Locked
  <2>3. Range(file.recs) \subseteq Range(Oldest(file)) \cup Range(got[c])
    BY <2>1, NothingLongReadsAll, OldestWithin DEF SnapshotCurrent, TypeOK
  <2>4. Lost' \subseteq Lost
    BY <2>1, <2>2, <2>3 DEF Lost
  <2>5. /\ IsFiniteSet(Lost') /\ Cardinality(Lost') <= Cardinality(Lost)
        /\ Cardinality(Lost') \in Nat /\ Cardinality(Lost) \in Nat
    BY <2>4, SmallerLoss DEF TornLedger
  <2>6. QED
    BY <2>1, <2>5 DEF TornLedger, Debt, Empty, TypeOK
<1>5. ASSUME NEW c \in Client, pc[c] = "rewrite", Rewrite(c) \/ TornRewrite(c)
      PROVE  TornLedger'
  <2> DEFINE keep == Newest(saved)
             h == Head(got[c])
  <2>1. PICK k \in 0..MaxSize - 1 :
          /\ file = [recs |-> SubSeq(keep, 1, k), tail |-> "ended"]
          /\ got[c] = SubSeq(keep, k + 1, MaxSize)
    BY <1>5 DEF RewriteProgress
  <2>2. keep \in Seq(Event) /\ Len(keep) = MaxSize
    BY <1>5, NewestWithin DEF RewriteProgress, TypeOK
  <2>3. /\ h \in Event /\ Len(got[c]) \in Nat \ {0} /\ Tail(got[c]) \in Seq(Event)
        /\ Range(got[c]) = {h} \cup Range(Tail(got[c]))
    <3>1. /\ Len(got[c]) = MaxSize - k
          /\ h = keep[k + 1] /\ keep[k + 1] \in Event /\ Tail(got[c]) \in Seq(Event)
          /\ Range(got[c]) = {keep[k + 1]} \cup Range(Tail(got[c]))
      BY <2>1, <2>2, WriteBackOne
    <3>2. MaxSize - k \in Nat \ {0}
      BY BufferAssumption
    <3>3. QED
      BY <3>1, <3>2
  <2>4. Unwritten = Range(got[c])
    BY <1>5, Alone DEF Unwritten, Locked
  <2>5. /\ file.tail = "ended" /\ Spoiled(file) = file.recs
        /\ Append(file.recs, h) \in Seq(Event)
        /\ Append(file.recs, h) # <<>>
        /\ Append(file.recs, h)[Len(Append(file.recs, h))] = h
        /\ Range(Append(file.recs, h)) = Range(file.recs) \cup {h}
    <3>1. file.tail = "ended"
      BY <2>1
    <3>2. file.recs \in Seq(Event)
      BY DEF TypeOK, File
    <3>3. QED
      BY <2>3, <3>1, <3>2, AppendProperties, AppendRange DEF Spoiled
  <2>6. torn \in Nat /\ UNCHANGED <<acked, handed>>
    BY <1>5 DEF Rewrite, TornRewrite, ghost, TypeOK
  <2>7. ASSUME Lost' \subseteq Lost
        PROVE  /\ IsFiniteSet(Lost') /\ Cardinality(Lost') <= Cardinality(Lost)
               /\ Cardinality(Lost') \in Nat /\ Cardinality(Lost) \in Nat
    BY <2>7, SmallerLoss DEF TornLedger
  <2>8. CASE Rewrite(c)
    <3>1. /\ file' = [recs |-> Append(file.recs, h), tail |-> "ended"]
          /\ UNCHANGED <<dropped, torn>>
      BY <2>5, <2>8 DEF Rewrite, Landed, WithRecord, ghost
    <3>2. Range(Tail(got[c])) \subseteq Unwritten'
      <4>1. CASE Len(got[c]) = 1
        <5>1. Len(Tail(got[c])) = 0
          BY <2>1, <2>2, <4>1, WriteBackOne, HeadTailProperties, EmptySeq, SliceWithin
        <5>2. Range(Tail(got[c])) = {}
          BY <2>3, <5>1, LenProperties DEF Range
        <5>3. QED
          BY <5>2
      <4>2. CASE Len(got[c]) # 1
        <5>1. pc' = pc /\ got' = [got EXCEPT ![c] = Tail(@)]
          BY <2>8, <4>2 DEF Rewrite
        <5>2. QED
          BY <1>5, <5>1 DEF Unwritten, TypeOK
      <4>3. QED
        BY <4>1, <4>2
    <3>3. Lost' \subseteq Lost
      BY <2>3, <2>4, <2>5, <2>6, <3>1, <3>2 DEF Lost
    <3>4. QED
      BY <2>5, <2>6, <2>7, <3>1, <3>3 DEF TornLedger, Debt
  <2>9. CASE TornRewrite(c)
    <3>1. /\ file' \in {file} \cup Torn(file, h) /\ torn' = torn + 1
          /\ dropped' = dropped \cup Range(got[c])
      BY <2>9 DEF TornRewrite
    <3>2. /\ Range(file.recs) \subseteq Range(file.recs')
          /\ file.tail' = "unended" => file.recs' = Append(file.recs, h)
      <4>1. WithRecord(file, h) = Append(file.recs, h)
        BY <2>5 DEF WithRecord
      <4>2. CASE file' = file
        BY <2>5, <4>2
      <4>3. CASE file' \in Torn(file, h)
        <5>1. \/ file.recs' = file.recs /\ file.tail' = "partial"
              \/ file.recs' = Append(file.recs, h) /\ file.tail' = "unended"
          BY <2>5, <4>1, <4>3 DEF Torn
        <5>2. QED
          BY <2>5, <5>1
      <4>4. QED
        BY <3>1, <4>2, <4>3
    <3>3. Lost' \subseteq Lost
      BY <2>4, <2>6, <3>1, <3>2 DEF Lost
    <3>4. file.tail' = "unended" => /\ file.recs' # <<>>
                                   /\ file.recs[Len(file.recs)]' \notin acked' \ dropped'
      BY <2>3, <2>5, <3>1, <3>2
    <3>5. QED
      BY <2>5, <2>6, <2>7, <3>1, <3>3, <3>4 DEF TornLedger, Debt
  <2>10. QED
    BY <1>5, <2>8, <2>9
<1>6. CASE UNCHANGED vars
  BY <1>6 DEF vars, ghost, TornLedger, Lost, Debt, Unwritten
<1>7. QED
  <2>1. ASSUME NEW c \in Client, Write(c) \/ TornWrite(c) \/ Rewrite(c) \/ TornRewrite(c)
        PROVE  TornLedger'
    BY <1>2, <1>5, <2>1 DEF Write, TornWrite, Rewrite, TornRewrite
  <2>2. QED
    BY <1>1, <1>3, <1>4, <1>6, <2>1 DEF Next, Proceed

\* While no line exceeds the scanner's limit, ReadAndClear reads all of the
\* events that it then truncates away (buffer.go:69).
THEOREM ReadsAllThereIs ==
  ASSUME LongEvent = {}
  PROVE  Spec => []ReadsAllEvents
<1>1. IInv => ReadsAllEvents
  BY NothingLongReadsAll DEF IInv, SnapshotCurrent, ReadsAllEvents, TypeOK
<1>2. QED
  BY <1>1, InvariantHolds, PTL

\* Of the events whose Append returned nil, a write that stops half-way costs
\* at most one, the one glued to what it left; nothing else loses any while no
\* line exceeds the scanner's limit (buffer.go:63 and 136-152).
THEOREM TornWritesCostOneEach ==
  ASSUME LongEvent = {}
  PROVE  Spec => []TornCostsOne
<1>1. Init => TornLedger
  <2> SUFFICES ASSUME Init PROVE TornLedger
    OBVIOUS
  <2>1. Lost = {}
    BY DEF Init, Lost
  <2>2. QED
    BY <2>1, FS_EmptySet DEF Init, TornLedger, Debt, Empty
<1>2. IInv /\ TornLedger => TornCostsOne
  <2> SUFFICES ASSUME IInv, TornLedger PROVE TornCostsOne
    OBVIOUS
  <2>1. Cardinality(Lost) \in Nat /\ torn \in Nat
    BY FS_CardinalityType DEF TornLedger, IInv, TypeOK
  <2>2. QED
    BY <2>1 DEF TornLedger, TornCostsOne, Debt
<1>3. QED
  BY <1>1, <1>2, LedgerStep, InvariantHolds, PTL DEF Spec
=============================================================================
