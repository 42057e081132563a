------------------------- MODULE SchemeCache_proofs -------------------------
(* The scheme cache, for any number of calls, any TTL and any faults.        *)
EXTENDS SchemeCache, TLAPS

LocalTypes == /\ pc \in [Caller -> Steps]
              /\ cached \in [Caller -> Scheme \cup {Nothing}]
              /\ fetched \in [Caller -> Scheme \cup {Nothing}]
              /\ answer \in [Caller -> Answer \cup {Nothing}]

LEMMA Leaves ==
  ASSUME LocalTypes, NEW c \in Caller, NEW a \in Answer \cup {Nothing}, Leave(c, a)
  PROVE  LocalTypes'
BY DEF LocalTypes, Leave, Steps

LEMMA Goes ==
  ASSUME LocalTypes, NEW c \in Caller, NEW from, NEW to \in Steps, Goto(c, from, to),
         UNCHANGED <<cached, fetched, answer>>
  PROVE  LocalTypes'
BY DEF LocalTypes, Goto

LEMMA Returns ==
  ASSUME LocalTypes, now \in 0..MaxTime, NEW c \in Caller, NEW from \in {"cache", "fallback", "remote"},
         NEW s \in Scheme, s.at <= now, Return(c, from, s)
  PROVE  LocalTypes'
<1>1. s.at \in 0..MaxTime
  BY DEF Scheme
<1>2. now - s.at \in 0..MaxTime
  BY <1>1, CacheAssumption
<1>3. [from |-> from, scheme |-> s, age |-> now - s.at] \in Answer
  BY <1>2 DEF Answer
<1>4. QED
  BY <1>3, Leaves DEF Return

LEMMA InitHolds == Init => JInv
<1> SUFFICES ASSUME Init PROVE JInv
  OBVIOUS
<1>1. TypeOK
  <2>1. now \in 0..MaxTime /\ faults \in 0..MaxFaults
    BY CacheAssumption DEF Init
  <2>2. LocalTypes
    BY DEF Init, LocalTypes, Steps
  <2>3. QED
    BY <2>1, <2>2 DEF Init, TypeOK, LocalTypes
<1>2. Storing = {}
  BY DEF Init, Storing
<1>3. QED
  BY <1>1, <1>2 DEF Init, JInv, IInv, NeverAhead, FreshUnlessDisturbed, Current, Settled, Answered,
                    Sole, Latest, InStore

LEMMA TypeStep == IInv /\ [Next]_vars => TypeOK'
<1> SUFFICES ASSUME IInv, [Next]_vars PROVE TypeOK'
  OBVIOUS
<1>0. /\ TypeOK /\ LocalTypes
      /\ TypeOK' <=> /\ now' \in 0..MaxTime /\ faults' \in 0..MaxFaults
                     /\ data' \in Scheme \cup {Nothing} /\ stamp' \in (0..MaxTime) \cup {Nothing}
                     /\ LocalTypes'
                     /\ stored' \in Scheme \cup {Nothing} /\ raced' \subseteq Caller
                     /\ unread' \subseteq Caller
                     /\ overlap' \in BOOLEAN /\ broken' \in BOOLEAN
  BY DEF IInv, TypeOK, LocalTypes
<1> USE CacheAssumption DEF TypeOK, files, ghost
<1>1. CASE Tick
  BY <1>0, <1>1 DEF Tick, LocalTypes
<1>2. ASSUME NEW c \in Caller, Call(c)
      PROVE  TypeOK'
  BY <1>0, <1>2 DEF Call, Goto, LocalTypes, Steps
<1>3. ASSUME NEW c \in Caller, Load(c)
      PROVE  TypeOK'
  <2>1. LocalTypes'
    BY <1>0, <1>3 DEF Load, Goto, LocalTypes, Steps
  <2>2. QED
    BY <1>0, <1>3, <2>1 DEF Load
<1>4. ASSUME NEW c \in Caller, Check(c)
      PROVE  TypeOK'
  <2>1. cached[c] \in Scheme /\ cached[c].at <= now
    BY <1>0, <1>4 DEF Check, IInv, Settled, Usable
  <2>2. LocalTypes'
    BY <1>0, <1>4, <2>1, Returns, Goes DEF Check, Steps
  <2>3. QED
    BY <1>0, <1>4, <2>2 DEF Check
<1>5. ASSUME NEW c \in Caller, FetchOk(c)
      PROVE  TypeOK'
  <2>1. PICK g \in BOOLEAN : fetched' = [fetched EXCEPT ![c] = [at |-> now, groups |-> g]]
    BY <1>5 DEF FetchOk
  <2>2. [at |-> now, groups |-> g] \in Scheme
    BY <1>0 DEF Scheme
  <2>3. LocalTypes'
    BY <1>0, <1>5, <2>1, <2>2 DEF FetchOk, Goto, LocalTypes, Steps
  <2>4. raced' \subseteq Caller /\ overlap' \in BOOLEAN
    BY <1>0, <1>5 DEF FetchOk, Reading
  <2>5. QED
    BY <1>0, <1>5, <2>3, <2>4 DEF FetchOk
<1>6. ASSUME NEW c \in Caller, FetchFails(c)
      PROVE  TypeOK'
  <2>1. CASE Usable(cached[c])
    <3>1. cached[c] \in Scheme /\ cached[c].at <= now /\ Return(c, "fallback", cached[c])
      BY <1>0, <1>6, <2>1 DEF FetchFails, IInv, Settled, Usable
    <3>2. LocalTypes'
      BY <1>0, <3>1, Returns
    <3>3. QED
      BY <1>0, <1>6, <3>2 DEF FetchFails
  <2>2. CASE ~Usable(cached[c])
    <3>1. LocalTypes'
      BY <1>0, <1>6, <2>2, Leaves DEF FetchFails, Answer
    <3>2. QED
      BY <1>0, <1>6, <3>1 DEF FetchFails
  <2>3. QED
    BY <2>1, <2>2
<1>7. ASSUME NEW c \in Caller, TruncateData(c)
      PROVE  TypeOK'
  <2>1. LocalTypes'
    BY <1>0, <1>7, Goes DEF TruncateData, Steps
  <2>2. faults' \in 0..MaxFaults /\ data' \in {data, Nothing}
    BY <1>0, <1>7 DEF TruncateData, Fault
  <2>3. broken' \in {broken, TRUE} /\ UNCHANGED <<now, stamp, stored, raced, unread, overlap>>
    BY <1>7 DEF TruncateData
  <2>4. QED
    BY <1>0, <2>1, <2>2, <2>3
<1>8. ASSUME NEW c \in Caller, WriteData(c)
      PROVE  TypeOK'
  <2>1. LocalTypes'
    BY <1>0, <1>8, Goes DEF WriteData, Steps
  <2>2. fetched[c] \in Scheme
    BY <1>0, <1>8 DEF WriteData, Goto, IInv, Settled, InStore
  <2>3. data' \in Scheme \cup {Nothing} /\ stored' \in Scheme \cup {Nothing}
    BY <1>0, <1>8, <2>2 DEF WriteData
  <2>4. faults' \in 0..MaxFaults /\ broken' \in BOOLEAN
    <3>1. broken' \in {broken, TRUE}
      BY <1>8 DEF WriteData
    <3>2. faults' \in 0..MaxFaults
      BY <1>0, <1>8 DEF WriteData, Fault
    <3>3. QED
      BY <1>0, <3>1, <3>2
  <2>5. QED
    BY <1>0, <1>8, <2>1, <2>3, <2>4 DEF WriteData
<1>9. ASSUME NEW c \in Caller, TruncateMeta(c)
      PROVE  TypeOK'
  <2>1. pc[c] = "truncateMeta" /\ fetched[c] \in Scheme /\ fetched[c].at <= now
    BY <1>0, <1>9 DEF TruncateMeta, Goto, IInv, Settled, InStore
  <2>2. LocalTypes'
    BY <1>0, <1>9, <2>1, Goes, Returns DEF TruncateMeta, Steps
  <2>3. QED
    BY <1>0, <1>9, <2>2 DEF TruncateMeta, Fault
<1>10. ASSUME NEW c \in Caller, WriteMeta(c)
       PROVE  TypeOK'
  <2>1. pc[c] = "writeMeta" /\ fetched[c] \in Scheme /\ fetched[c].at <= now
    BY <1>0, <1>10 DEF WriteMeta, IInv, Settled, InStore
  <2>2. LocalTypes'
    BY <1>0, <1>10, <2>1, Returns DEF WriteMeta
  <2>3. QED
    BY <1>0, <1>10, <2>2 DEF WriteMeta, Fault, Time
<1>11. ASSUME NEW c \in Caller, Die(c)
       PROVE  TypeOK'
  <2>1. LocalTypes'
    BY <1>0, <1>11, Leaves DEF Die
  <2>2. broken' \in BOOLEAN
    BY <1>0, <1>11 DEF Die
  <2>3. QED
    BY <1>0, <1>11, <2>1, <2>2 DEF Die, Fault
<1>12. CASE UNCHANGED vars
  BY <1>0, <1>12 DEF vars, LocalTypes
<1>13. QED
  BY <1>1, <1>2, <1>3, <1>4, <1>5, <1>6, <1>7, <1>8, <1>9, <1>10, <1>11, <1>12 DEF Next

Bounds == (data = Nothing \/ data.at <= now) /\ (stamp = Nothing \/ stamp <= now)

\* The call returns, or its process dies: what the others have read and hold
\* is as before.
LEMMA LeaveStep ==
  ASSUME IInv, TypeOK', NEW c \in Caller, NEW a \in Answer \cup {Nothing}, Leave(c, a),
         UNCHANGED <<now, data, raced, unread>>, broken => broken',
         a # Nothing /\ a.from \in {"cache", "fallback"} => a.scheme.groups,
         ~broken' /\ c \notin raced /\ a # Nothing /\ a.from = "cache" => a.age < TTL,
         NeverAhead', stamp' = Nothing \/ stamp' <= now
  PROVE  IInv'
<1>1. /\ pc'[c] = "idle" /\ answer'[c] = a /\ cached'[c] = Nothing
      /\ \A d \in Caller \ {c} : /\ pc'[d] = pc[d] /\ answer'[d] = answer[d]
                                 /\ cached'[d] = cached[d] /\ fetched'[d] = fetched[d]
  BY DEF Leave, IInv, TypeOK
<1>2. FreshUnlessDisturbed'
  BY <1>1 DEF IInv, FreshUnlessDisturbed, Answered
<1>3. Storing' \subseteq Storing
  BY <1>1 DEF Storing
<1>4. ASSUME NEW d \in Caller
      PROVE  Current(d)' /\ Settled(d)'
  <2>1. CASE d = c
    BY <1>1, <2>1 DEF Current, Settled, Answered, InStore
  <2>2. CASE d # c
    BY <1>1, <1>3, <2>2 DEF IInv, Current, Settled, Answered, Usable
  <2>3. QED
    BY <2>1, <2>2
<1>5. QED
  BY <1>2, <1>4 DEF IInv

\* What a step leaves alone of the other calls.
LEMMA OthersStay ==
  ASSUME TypeOK, NEW c \in Caller, NEW from, NEW to, Goto(c, from, to)
  PROVE  /\ pc[c] = from /\ pc'[c] = to
         /\ \A d \in Caller \ {c} : pc'[d] = pc[d]
BY DEF Goto, TypeOK

LEMMA StepHolds == IInv /\ [Next]_vars => IInv'
<1> SUFFICES ASSUME IInv, [Next]_vars PROVE IInv'
  OBVIOUS
<1>0. TypeOK /\ TypeOK'
  BY TypeStep DEF IInv
<1>1. CASE Tick
  <2>1. \A c \in Caller : pc[c] = "idle"
    BY <1>1 DEF Tick
  <2>2. /\ now' = now + 1 /\ now \in Nat
        /\ UNCHANGED <<data, stamp, pc, cached, fetched, answer, stored, raced, unread, overlap, broken>>
    BY <1>0, <1>1 DEF Tick, files, ghost, TypeOK
  <2>3. Bounds'
    BY <1>0, <2>2, CacheAssumption DEF Bounds, IInv, TypeOK, Scheme
  <2>4. QED
    BY <1>0, <2>1, <2>2, <2>3 DEF Bounds, IInv, NeverAhead, FreshUnlessDisturbed, Current, Settled,
                                  Answered, InStore
<1>2. ASSUME NEW c \in Caller, Call(c)
      PROVE  IInv'
  <2>1. /\ pc[c] = "idle" /\ pc'[c] = "read" /\ \A d \in Caller \ {c} : pc'[d] = pc[d]
        /\ answer'[c] = Nothing /\ \A d \in Caller \ {c} : answer'[d] = answer[d]
        /\ UNCHANGED <<now, data, stamp, cached, fetched, stored, raced, unread, overlap, broken>>
    BY <1>0, <1>2, OthersStay DEF Call, files, ghost, TypeOK
  <2>2. Storing' = Storing
    BY <2>1 DEF Storing
  <2>3. QED
    BY <1>0, <2>1, <2>2 DEF IInv, NeverAhead, FreshUnlessDisturbed, Current, Settled, Answered, InStore
<1>3. ASSUME NEW c \in Caller, Load(c)
      PROVE  IInv'
  <2>1. /\ pc[c] = "read" /\ \A d \in Caller \ {c} : pc'[d] = pc[d]
        /\ raced' = IF Storing = {} THEN raced \ {c} ELSE raced \cup {c}
        /\ UNCHANGED <<now, data, stamp, fetched, answer, stored, overlap, broken>>
    BY <1>0, <1>3, OthersStay DEF Load, files
  <2>a. /\ \A d \in Caller \ {c} : cached'[d] = cached[d] /\ (d \in unread' <=> d \in unread)
        /\ \/ /\ pc'[c] = (IF Usable(data) THEN "check" ELSE "fetch")
              /\ cached'[c] = data
           \/ pc'[c] = "fetch" /\ cached'[c] = Nothing /\ c \in unread'
    <3>1. CASE /\ Goto(c, "read", IF Usable(data) THEN "check" ELSE "fetch")
               /\ cached' = [cached EXCEPT ![c] = data]
               /\ unread' = unread \ {c}
      BY <1>0, <3>1 DEF Goto, TypeOK
    <3>2. CASE Goto(c, "read", "fetch") /\ unread' = unread \cup {c} /\ UNCHANGED cached
      BY <1>0, <2>1, <3>2 DEF Goto, TypeOK, IInv, Settled
    <3>3. QED
      BY <1>3, <3>1, <3>2 DEF Load
  <2>2. Storing' = Storing
    BY <2>1, <2>a DEF Storing
  <2>3. answer[c] = Nothing
    BY <2>1 DEF IInv, Settled
  <2>4. FreshUnlessDisturbed'
    BY <2>1, <2>3 DEF IInv, FreshUnlessDisturbed, Answered
  <2>5. ASSUME NEW d \in Caller
        PROVE  Current(d)' /\ Settled(d)'
    <3>1. CASE d = c
      BY <2>1, <2>a, <2>2, <2>3, <3>1 DEF IInv, Current, Settled, Answered, Usable, InStore
    <3>2. CASE d # c
      BY <2>1, <2>a, <2>2, <3>2 DEF IInv, Current, Settled, Answered, Usable
    <3>3. QED
      BY <3>1, <3>2
  <2>6. QED
    BY <1>0, <2>1, <2>4, <2>5 DEF IInv, NeverAhead
<1>4. ASSUME NEW c \in Caller, Check(c)
      PROVE  IInv'
  <2>1. pc[c] = "check" /\ UNCHANGED <<now, data, stamp, stored, raced, unread, overlap, broken>>
    BY <1>4 DEF Check, files, ghost
  <2>2. Usable(cached[c]) /\ cached[c] \in Scheme /\ cached[c].at <= now
    BY <1>0, <2>1 DEF IInv, Settled, Usable, TypeOK
  <2>3. CASE isCacheFresh /\ Return(c, "cache", cached[c])
    <3> DEFINE a == [from |-> "cache", scheme |-> cached[c], age |-> now - cached[c].at]
    <3>1. Leave(c, a)
      BY <2>3 DEF Return
    <3>2. ~broken /\ c \notin raced => a.age < TTL
      <4> SUFFICES ASSUME ~broken, c \notin raced PROVE now - cached[c].at < TTL
        OBVIOUS
      <4>1. cached[c] = data /\ stamp # Nothing /\ now - stamp < TTL
        BY <2>1, <2>2, <2>3 DEF IInv, Current, Usable, isCacheFresh
      <4>2. stamp <= cached[c].at
        BY <2>2, <4>1 DEF IInv, NeverAhead, Usable
      <4>3. now \in Nat /\ stamp \in Nat /\ cached[c].at \in Nat /\ TTL \in Nat
        BY <1>0, <2>2, <4>1, CacheAssumption DEF TypeOK, Scheme
      <4>4. QED
        BY <4>1, <4>2, <4>3
    <3>3. a \in Answer
      <4>1. now - cached[c].at \in 0..MaxTime
        BY <1>0, <2>2, CacheAssumption DEF TypeOK, Scheme
      <4>2. QED
        BY <2>2, <4>1 DEF Answer
    <3>4. a.scheme.groups
      BY <2>2 DEF Usable
    <3>5. NeverAhead' /\ (stamp' = Nothing \/ stamp' <= now)
      BY <2>1 DEF IInv, NeverAhead
    <3>6. QED
      BY <1>0, <2>1, <3>1, <3>2, <3>3, <3>4, <3>5, LeaveStep
  <2>4. CASE Goto(c, "check", "fetch") /\ UNCHANGED <<cached, fetched, answer>>
    <3>1. /\ pc'[c] = "fetch" /\ \A d \in Caller \ {c} : pc'[d] = pc[d]
          /\ UNCHANGED <<cached, fetched, answer>>
      BY <1>0, <2>4, OthersStay
    <3>2. Storing' = Storing
      BY <2>1, <3>1 DEF Storing
    <3>3. ASSUME NEW d \in Caller
          PROVE  Current(d)' /\ Settled(d)'
      BY <2>1, <3>1, <3>2 DEF IInv, Current, Settled, Answered, Usable, InStore
    <3>4. QED
      BY <1>0, <2>1, <3>1, <3>3 DEF IInv, NeverAhead, FreshUnlessDisturbed, Answered
  <2>5. QED
    BY <1>4, <2>3, <2>4 DEF Check
<1>5. ASSUME NEW c \in Caller, FetchOk(c)
      PROVE  IInv'
  <2>1. /\ pc[c] = "fetch" /\ pc'[c] = "truncate" /\ \A d \in Caller \ {c} : pc'[d] = pc[d]
        /\ raced' = raced \cup Reading(c)
        /\ UNCHANGED <<now, data, stamp, cached, answer, stored, unread, broken>>
    BY <1>0, <1>5, OthersStay DEF FetchOk, files
  <2>2. PICK g \in BOOLEAN : fetched' = [fetched EXCEPT ![c] = [at |-> now, groups |-> g]]
    BY <1>5 DEF FetchOk
  <2>3. [at |-> now, groups |-> g] # Nothing
    BY <1>0, CacheAssumption DEF TypeOK, Scheme
  <2>4. /\ fetched'[c] # Nothing /\ fetched'[c].at = now
        /\ \A d \in Caller \ {c} : fetched'[d] = fetched[d]
    BY <1>0, <2>2, <2>3 DEF TypeOK
  <2>5. \A d \in Caller \ {c} : pc'[d] \in {"check", "fetch"} => d \in raced'
    BY <2>1 DEF Reading
  <2>6. ASSUME NEW d \in Caller
        PROVE  Current(d)' /\ Settled(d)'
    BY <2>1, <2>4, <2>5 DEF IInv, Current, Settled, Answered, Usable, InStore
  <2>7. QED
    BY <1>0, <2>1, <2>6 DEF IInv, NeverAhead, FreshUnlessDisturbed, Answered
<1>6. ASSUME NEW c \in Caller, FetchFails(c)
      PROVE  IInv'
  <2>1. pc[c] = "fetch" /\ UNCHANGED <<now, data, stamp, stored, raced, unread, overlap, broken>>
    BY <1>6 DEF FetchFails, files, ghost
  <2>2. NeverAhead' /\ (stamp' = Nothing \/ stamp' <= now)
    BY <2>1 DEF IInv, NeverAhead
  <2>3. CASE Usable(cached[c])
    <3> DEFINE a == [from |-> "fallback", scheme |-> cached[c], age |-> now - cached[c].at]
    <3>1. Leave(c, a)
      BY <1>6, <2>3 DEF FetchFails, Return
    <3>2. cached[c] \in Scheme /\ cached[c].at <= now
      BY <1>0, <2>1, <2>3 DEF IInv, Settled, Usable, TypeOK
    <3>3. a \in Answer
      <4>1. now - cached[c].at \in 0..MaxTime
        BY <1>0, <3>2, CacheAssumption DEF TypeOK, Scheme
      <4>2. QED
        BY <3>2, <4>1 DEF Answer
    <3>4. a.scheme.groups /\ a.from # "cache"
      BY <2>3 DEF Usable
    <3>5. QED
      BY <1>0, <2>1, <2>2, <3>1, <3>3, <3>4, LeaveStep
  <2>4. CASE ~Usable(cached[c])
    <3> DEFINE a == [from |-> "error"]
    <3>1. Leave(c, a) /\ a \in Answer /\ a.from \notin {"cache", "fallback"}
      BY <1>6, <2>4 DEF FetchFails, Answer
    <3>2. QED
      BY <1>0, <2>1, <2>2, <3>1, LeaveStep
  <2>5. QED
    BY <2>3, <2>4
<1>7. ASSUME NEW c \in Caller, TruncateData(c)
      PROVE  IInv'
  <2>1. /\ pc[c] = "truncate" /\ pc'[c] \in {"write", "truncateMeta"}
        /\ \A d \in Caller \ {c} : pc'[d] = pc[d]
        /\ pc'[c] = "truncateMeta" => broken'
        /\ data' \in {data, Nothing} /\ (broken => broken')
        /\ UNCHANGED <<now, stamp, cached, fetched, answer, stored, raced, unread, overlap>>
    BY <1>0, <1>7, OthersStay DEF TruncateData, files, ghost
  <2>2. c \in Storing
    BY <2>1 DEF Storing
  <2>3. ASSUME NEW d \in Caller
        PROVE  Current(d)' /\ Settled(d)'
    BY <2>1, <2>2 DEF IInv, Current, Settled, Answered, Usable, InStore
  <2>4. QED
    BY <1>0, <2>1, <2>3 DEF IInv, NeverAhead, FreshUnlessDisturbed, Answered
<1>8. ASSUME NEW c \in Caller, WriteData(c)
      PROVE  IInv'
  <2>1. /\ pc[c] = "write" /\ pc'[c] = "truncateMeta"
        /\ \A d \in Caller \ {c} : pc'[d] = pc[d]
        /\ data' \in {fetched[c], Nothing} /\ (broken => broken')
        /\ UNCHANGED <<now, stamp, cached, fetched, answer, raced, unread, overlap>>
    BY <1>0, <1>8, OthersStay DEF WriteData
  <2>2. c \in Storing
    BY <2>1 DEF Storing
  <2>3. fetched[c] \in Scheme /\ fetched[c].at = now
    BY <1>0, <2>1 DEF IInv, Settled, InStore, TypeOK
  <2>4. ASSUME NEW d \in Caller
        PROVE  Current(d)' /\ Settled(d)'
    BY <2>1, <2>2, <2>3 DEF IInv, Current, Settled, Answered, Usable, InStore
  <2>5. NeverAhead' /\ (data' = Nothing \/ data'.at <= now')
    BY <1>0, <2>1, <2>3 DEF IInv, NeverAhead, TypeOK
  <2>6. QED
    BY <1>0, <2>1, <2>4, <2>5 DEF IInv, FreshUnlessDisturbed, Answered
<1>r. ASSUME NEW c \in Caller, pc[c] \in InStore, Return(c, "remote", fetched[c]),
             UNCHANGED <<now, data, raced, unread, broken>>, stamp' \in {stamp, now}, NeverAhead'
      PROVE  IInv'
  <2> DEFINE a == [from |-> "remote", scheme |-> fetched[c], age |-> now - fetched[c].at]
  <2>1. fetched[c] \in Scheme /\ fetched[c].at = now
    BY <1>0, <1>r DEF IInv, Settled, TypeOK
  <2>2. a \in Answer
    <3>1. now - fetched[c].at \in 0..MaxTime
      BY <1>0, <2>1, CacheAssumption DEF TypeOK
    <3>2. QED
      BY <2>1, <3>1 DEF Answer
  <2>3. Leave(c, a) /\ a.from \notin {"cache", "fallback"}
    BY <1>r DEF Return
  <2>4. stamp' = Nothing \/ stamp' <= now
    BY <1>0, <1>r DEF IInv, TypeOK
  <2>5. QED
    BY <1>0, <1>r, <2>2, <2>3, <2>4, LeaveStep
<1>9. ASSUME NEW c \in Caller, TruncateMeta(c)
      PROVE  IInv'
  <2>1. pc[c] = "truncateMeta" /\ UNCHANGED <<now, data, stored, raced, unread, overlap, broken>>
    BY <1>9 DEF TruncateMeta, Goto, ghost
  <2>2. CASE Return(c, "remote", fetched[c]) /\ UNCHANGED stamp
    BY <1>r, <2>1, <2>2 DEF IInv, NeverAhead, InStore
  <2>3. CASE Goto(c, "truncateMeta", "writeMeta") /\ stamp' = Nothing /\ UNCHANGED <<cached, fetched, answer>>
    <3>1. pc'[c] = "writeMeta" /\ \A d \in Caller \ {c} : pc'[d] = pc[d]
      BY <1>0, <2>3, OthersStay
    <3>2. c \in Storing
      BY <2>1 DEF Storing
    <3>3. ASSUME NEW d \in Caller
          PROVE  Current(d)' /\ Settled(d)'
      BY <2>1, <2>3, <3>1, <3>2 DEF IInv, Current, Settled, Answered, Usable, InStore
    <3>4. QED
      BY <1>0, <2>1, <2>3, <3>3 DEF IInv, NeverAhead, FreshUnlessDisturbed, Answered
  <2>4. QED
    BY <1>9, <2>2, <2>3 DEF TruncateMeta
<1>10. ASSUME NEW c \in Caller, WriteMeta(c)
       PROVE  IInv'
  <2>1. /\ pc[c] = "writeMeta" /\ Return(c, "remote", fetched[c]) /\ stamp' \in {stamp, now}
        /\ UNCHANGED <<now, data, stored, raced, unread, overlap, broken>>
    BY <1>10 DEF WriteMeta, ghost, Time
  <2>2. NeverAhead'
    BY <1>0, <2>1 DEF IInv, Settled, NeverAhead, TypeOK
  <2>3. QED
    BY <1>r, <2>1, <2>2 DEF InStore
<1>11. ASSUME NEW c \in Caller, Die(c)
       PROVE  IInv'
  <2>1. Leave(c, Nothing) /\ (broken => broken') /\ UNCHANGED <<now, data, stamp, stored, raced, unread, overlap>>
    BY <1>11 DEF Die, files
  <2>2. NeverAhead' /\ (stamp' = Nothing \/ stamp' <= now)
    BY <2>1 DEF IInv, NeverAhead
  <2>3. QED
    BY <1>0, <2>1, <2>2, LeaveStep
<1>12. CASE UNCHANGED vars
  <2>1. UNCHANGED <<now, data, stamp, pc, cached, fetched, answer, stored, raced, unread, overlap, broken>>
    BY <1>12 DEF vars, files, ghost
  <2>2. QED
    BY <1>0, <2>1 DEF IInv, NeverAhead, FreshUnlessDisturbed, Current, Settled, Answered, Usable,
                      Storing
<1>13. QED
  BY <1>1, <1>2, <1>3, <1>4, <1>5, <1>6, <1>7, <1>8, <1>9, <1>10, <1>11, <1>12 DEF Next

Calm == ~overlap /\ ~broken

LEMMA LatestStep == JInv /\ [Next]_vars => JInv'
<1> SUFFICES ASSUME JInv, [Next]_vars PROVE JInv'
  OBVIOUS
<1>0. /\ IInv /\ IInv' /\ TypeOK /\ (Calm => Sole /\ Latest)
      /\ (Calm' => (Sole /\ Latest)') => JInv'
  BY StepHolds DEF JInv, IInv, Calm
\* A call that leaves, or moves outside the writes, without touching the scheme.
<1>m. ASSUME NEW c \in Caller, \A d \in Caller \ {c} : pc'[d] = pc[d],
             pc'[c] \in {"idle", "read", "check", "fetch"},
             pc[c] = "write" => ~Calm', Calm' => Calm, UNCHANGED <<data, stored>>
      PROVE  JInv'
  <2>1. Storing' = Storing \ {c}
    BY <1>m DEF Storing
  <2>2. ASSUME Calm' PROVE (Sole /\ Latest)'
    <3>1. Sole /\ Latest /\ pc[c] # "write"
      BY <1>0, <1>m, <2>2
    <3>2. Sole'
      BY <2>1, <3>1 DEF Sole
    <3>3. Storing' \subseteq {d \in Caller : pc'[d] = "truncate"} => data' = stored'
      <4>1. CASE c \in Storing
        BY <1>m, <3>1, <4>1 DEF Sole, Latest, Storing
      <4>2. CASE c \notin Storing
        BY <1>m, <2>1, <3>1, <4>2 DEF Latest, Storing
      <4>3. QED
        BY <4>1, <4>2
    <3>4. QED
      BY <1>m, <3>1, <3>2, <3>3 DEF Latest
  <2>3. QED
    BY <1>0, <2>2
<1>1. CASE Tick \/ UNCHANGED vars
  <2>1. UNCHANGED <<pc, data, stored, overlap, broken>>
    BY <1>1 DEF Tick, vars, files, ghost
  <2>2. QED
    BY <1>0, <2>1 DEF Calm, Sole, Latest, Storing
<1>2. ASSUME NEW c \in Caller, Call(c) \/ Load(c)
      PROVE  JInv'
  <2>1. /\ pc[c] \in {"idle", "read"} /\ pc'[c] \in {"read", "check", "fetch"}
        /\ \A d \in Caller \ {c} : pc'[d] = pc[d]
        /\ UNCHANGED <<data, stored, overlap, broken>>
    BY <1>0, <1>2, OthersStay DEF Call, Load, files, ghost
  <2>2. QED
    BY <1>m, <2>1 DEF Calm
<1>3. ASSUME NEW c \in Caller, Check(c) \/ FetchFails(c)
      PROVE  JInv'
  <2>1. /\ pc[c] \in {"check", "fetch"} /\ pc'[c] \in {"idle", "fetch"}
        /\ \A d \in Caller \ {c} : pc'[d] = pc[d]
        /\ UNCHANGED <<data, stored, overlap, broken>>
    BY <1>0, <1>3 DEF Check, FetchFails, Goto, Return, Leave, files, ghost, TypeOK
  <2>2. QED
    BY <1>m, <2>1 DEF Calm
<1>4. ASSUME NEW c \in Caller, FetchOk(c)
      PROVE  JInv'
  <2>1. /\ pc'[c] = "truncate" /\ \A d \in Caller \ {c} : pc'[d] = pc[d]
        /\ overlap' = (overlap \/ Storing # {}) /\ UNCHANGED <<data, stored, broken>>
    BY <1>0, <1>4, OthersStay DEF FetchOk, files
  <2>2. ASSUME Calm' PROVE (Sole /\ Latest)'
    <3>1. Sole /\ Latest /\ Storing = {}
      BY <1>0, <2>1, <2>2 DEF Calm
    <3>2. \A d \in Caller \ {c} : pc'[d] \notin InStore
      BY <2>1, <3>1 DEF Storing, InStore
    <3>3. Storing' = {c} /\ data' = stored'
      BY <2>1, <3>1, <3>2 DEF Storing, InStore, Latest
    <3>4. QED
      BY <2>1, <3>2, <3>3 DEF Sole, Latest, InStore
  <2>3. QED
    BY <1>0, <2>2
\* A call that goes on writing: it is the only one.
<1>w. ASSUME NEW c \in Caller, c \in Storing, pc'[c] \in InStore, Calm', Calm,
             \A d \in Caller \ {c} : pc'[d] = pc[d]
      PROVE  Sole' /\ \A d \in Caller \ {c} : pc'[d] \notin InStore
  <2>1. \A d \in Storing : d = c
    BY <1>0, <1>w DEF Sole
  <2>2. QED
    BY <1>w, <2>1 DEF Sole, Storing, InStore
<1>5. ASSUME NEW c \in Caller, TruncateData(c)
      PROVE  JInv'
  <2>1. /\ pc[c] = "truncate" /\ \A d \in Caller \ {c} : pc'[d] = pc[d]
        /\ Calm' => Calm /\ pc'[c] = "write" /\ data' = Nothing
    BY <1>0, <1>5, OthersStay DEF TruncateData, Calm, files, ghost
  <2>2. ASSUME Calm' PROVE (Sole /\ Latest)'
    <3>1. Sole' /\ \A d \in Caller \ {c} : pc'[d] \notin InStore
      BY <1>w, <2>1, <2>2 DEF Storing, InStore
    <3>2. c \in Storing'
      BY <2>1, <2>2 DEF Storing
    <3>3. QED
      BY <2>1, <2>2, <3>1, <3>2 DEF Latest, InStore
  <2>3. QED
    BY <1>0, <2>2
<1>6. ASSUME NEW c \in Caller, WriteData(c)
      PROVE  JInv'
  <2>1. pc[c] = "write" /\ pc'[c] = "truncateMeta" /\ \A d \in Caller \ {c} : pc'[d] = pc[d]
    BY <1>0, <1>6, OthersStay DEF WriteData
  <2>2. ASSUME Calm' PROVE (Sole /\ Latest)'
    <3>1. Calm /\ Sole /\ Latest
      BY <1>0, <1>6, <2>2 DEF WriteData, Calm
    <3>2. data = Nothing
      BY <2>1, <3>1 DEF Latest
    <3>3. data' = stored'
      BY <1>6, <2>2, <3>2 DEF WriteData, Calm
    <3>4. Sole' /\ \A d \in Caller \ {c} : pc'[d] \notin InStore
      BY <1>w, <2>1, <2>2, <3>1 DEF Storing, InStore
    <3>5. QED
      BY <2>1, <3>3, <3>4 DEF Latest, InStore
  <2>3. QED
    BY <1>0, <2>2
<1>7. ASSUME NEW c \in Caller, TruncateMeta(c) \/ WriteMeta(c)
      PROVE  JInv'
  <2>1. /\ pc[c] \in {"truncateMeta", "writeMeta"} /\ pc'[c] \in {"writeMeta", "idle"}
        /\ \A d \in Caller \ {c} : pc'[d] = pc[d]
        /\ UNCHANGED <<data, stored, overlap, broken>>
    BY <1>0, <1>7 DEF TruncateMeta, WriteMeta, Goto, Return, Leave, ghost, TypeOK
  <2>2. CASE pc'[c] = "idle"
    BY <1>m, <2>1, <2>2 DEF Calm
  <2>3. CASE pc'[c] = "writeMeta"
    <3>1. ASSUME Calm' PROVE (Sole /\ Latest)'
      <4>1. Calm /\ Sole /\ Latest
        BY <1>0, <2>1, <3>1 DEF Calm
      <4>2. Sole' /\ \A d \in Caller \ {c} : pc'[d] \notin InStore
        BY <1>w, <2>1, <2>3, <3>1, <4>1 DEF Storing, InStore
      <4>3. data' = stored'
        BY <2>1, <4>1 DEF Latest
      <4>4. QED
        BY <2>3, <4>2, <4>3 DEF Latest, InStore
    <3>2. QED
      BY <1>0, <3>1
  <2>4. QED
    BY <2>1, <2>2, <2>3
<1>8. ASSUME NEW c \in Caller, Die(c)
      PROVE  JInv'
  <2>1. /\ pc'[c] = "idle" /\ \A d \in Caller \ {c} : pc'[d] = pc[d]
        /\ UNCHANGED <<data, stored, overlap>> /\ broken' = (broken \/ pc[c] = "write")
    BY <1>0, <1>8 DEF Die, Leave, files, TypeOK
  <2>2. QED
    BY <1>m, <2>1 DEF Calm
<1>9. QED
  BY <1>1, <1>2, <1>3, <1>4, <1>5, <1>6, <1>7, <1>8 DEF Next

\* Types, for any number of calls and faults (metadata.go:51-100).
THEOREM TypeCorrect == Spec => []TypeOK
<1>1. Init => IInv
  BY InitHolds DEF JInv
<1>2. IInv => TypeOK
  BY DEF IInv
<1>3. QED
  BY <1>1, <1>2, StepHolds, PTL DEF Spec

\* A scheme from the cache is younger than the TTL, whatever other calls do and
\* wherever they fail or die, unless one of them stored a scheme between the
\* two reads of the call, or a write of the scheme was cut short
\* (metadata.go:58-70, 79-100).
THEOREM FreshUnlessRaced == Spec => []FreshUnlessDisturbed
<1>1. Init => IInv
  BY InitHolds DEF JInv
<1>2. IInv => FreshUnlessDisturbed
  BY DEF IInv
<1>3. QED
  BY <1>1, <1>2, StepHolds, PTL DEF Spec

\* A call that is not disturbed, and does not fail to read the cache, has the
\* scheme that was stored last to return or to fall back to, as long as calls
\* do not store at the same time and no write is cut short (metadata.go:58-76).
THEOREM FallbackUnlessRaced == Spec => []FallbackUnlessDisturbed
<1>1. JInv => FallbackUnlessDisturbed
  <2> SUFFICES ASSUME JInv, ~overlap, ~broken, NEW c \in Caller, c \notin raced
               PROVE  /\ pc[c] \in {"check", "fetch"} /\ c \notin unread /\ Usable(stored) => cached[c] = stored
                      /\ Answered(c, {"cache", "fallback"}) => answer[c].scheme.groups
    BY DEF FallbackUnlessDisturbed
  <2>1. Latest /\ Current(c) /\ Settled(c)
    BY DEF JInv, IInv
  <2>2. pc[c] \in {"check", "fetch"} /\ c \notin unread => cached[c] = data /\ data = stored
    BY <2>1 DEF Latest, Current
  <2>3. QED
    BY <2>1, <2>2 DEF Settled
<1>2. QED
  BY <1>1, InitHolds, LatestStep, PTL DEF Spec
=============================================================================
