------------------------- MODULE LoggerMutex_proofs -------------------------
(* l.mu, for any number of goroutines and any depth of nested callbacks.     *)
EXTENDS LoggerMutex, SequenceTheorems, TLAPS

\* What the three changes of a stack do to it.
LEMMA FrontOf ==
  ASSUME NEW s \in Seq(Frame), s # <<>>
  PROVE  /\ Front(s) \in Seq(Frame) /\ Len(Front(s)) = Len(s) - 1
         /\ \A j \in 1..Len(s) - 1 : Front(s)[j] = s[j]
<1>1. Len(s) \in Nat \ {0} /\ \A j \in 1..Len(s) - 1 : s[j] \in Frame
  BY EmptySeq, ElementOfSeq
<1>2. /\ SubSeq(s, 1, Len(s) - 1) \in Seq(Frame)
      /\ Len(SubSeq(s, 1, Len(s) - 1)) = IF 1 <= Len(s) - 1 THEN Len(s) - 1 ELSE 0
      /\ \A j \in 1..Len(s) - 1 : SubSeq(s, 1, Len(s) - 1)[j] = s[j]
  BY <1>1, SubSeqProperties
<1>3. Front(s) = SubSeq(s, 1, Len(s) - 1)
  BY Zenon DEF Front
<1>4. (IF 1 <= Len(s) - 1 THEN Len(s) - 1 ELSE 0) = Len(s) - 1
  <2>1. Len(s) - 1 \in Nat /\ \A k \in Nat : (IF 1 <= k THEN k ELSE 0) = k
    BY <1>1
  <2>2. QED
    BY <2>1, Zenon
<1>5. QED
  BY <1>2, <1>3, <1>4, Zenon

LEMMA MovedStack ==
  ASSUME NEW s \in Seq(Frame), s # <<>>, NEW w, [Last(s) EXCEPT !.at = w] \in Frame
  PROVE  /\ Moved(s, w) \in Seq(Frame) /\ Len(Moved(s, w)) = Len(s)
         /\ \A j \in 1..Len(s) - 1 : Moved(s, w)[j] = s[j]
         /\ Moved(s, w)[Len(s)].at = w /\ Last(Moved(s, w)).at = w
         /\ HeldAt(Moved(s, w)) = (HeldAt(s) \ {Len(s)}) \cup (IF w \in Holding THEN {Len(s)} ELSE {})
<1> DEFINE n == Len(s)  m == Moved(s, w)  top == [Last(s) EXCEPT !.at = w]
<1>1. n \in Nat \ {0}
  OBVIOUS
<1>2. Front(s) \in Seq(Frame) /\ Len(Front(s)) = n - 1 /\ \A j \in 1..n - 1 : Front(s)[j] = s[j]
  BY FrontOf
<1>3. m = Append(Front(s), top)
  BY DEF Moved
<1>4. m \in Seq(Frame) /\ Len(m) = n /\ m[n] = top /\ \A j \in 1..n - 1 : m[j] = s[j]
  BY <1>1, <1>2, <1>3
<1>5. Last(s) \in Frame
  BY <1>1 DEF Last
<1>6. m[n].at = w /\ Last(m).at = w
  BY <1>4, <1>5 DEF Frame, Last
<1>7. HeldAt(m) = (HeldAt(s) \ {n}) \cup (IF w \in Holding THEN {n} ELSE {})
  <2> HIDE DEF m, n
  <2>1. n = Len(s)
    BY DEF n
  <2>2. ASSUME NEW j
        PROVE  j \in HeldAt(m) <=> j \in (HeldAt(s) \ {n}) \cup (IF w \in Holding THEN {n} ELSE {})
    <3>1. CASE j = n
      <4>1. n \in 1..n
        BY <1>1
      <4>2. n \in HeldAt(m) <=> w \in Holding
        BY <1>4, <1>6, <4>1, Zenon DEF HeldAt
      <4>3. QED
        BY <3>1, <4>2
    <3>2. CASE j # n /\ j \in 1..n
      BY <1>1, <1>4, <2>1, <3>2 DEF HeldAt
    <3>3. CASE j # n /\ j \notin 1..n
      BY <1>4, <2>1, <3>3 DEF HeldAt
    <3>4. QED
      BY <3>1, <3>2, <3>3
  <2>3. QED
    BY <2>2
<1>8. QED
  BY <1>4, <1>6, <1>7

LEMMA PoppedStack ==
  ASSUME NEW s \in Seq(Frame), s # <<>>
  PROVE  /\ Front(s) \in Seq(Frame) /\ Len(Front(s)) = Len(s) - 1
         /\ HeldAt(Front(s)) = HeldAt(s) \ {Len(s)}
         /\ Waiting(s) => Waiting(Front(s))
<1>1. Len(s) \in Nat \ {0}
  OBVIOUS
<1>2. Front(s) \in Seq(Frame) /\ Len(Front(s)) = Len(s) - 1 /\ \A j \in 1..Len(s) - 1 : Front(s)[j] = s[j]
  BY FrontOf
<1>3. QED
  BY <1>1, <1>2 DEF HeldAt, Waiting

LEMMA PushedStack ==
  ASSUME NEW s \in Seq(Frame), NEW o \in {"Track", "Flush"},
         \A j \in 1..Len(s) : s[j].at \in {"return", "unlock"}
  PROVE  /\ Append(s, Call(o)) \in Seq(Frame)
         /\ HeldAt(Append(s, Call(o))) = HeldAt(s)
         /\ Waiting(Append(s, Call(o)))
<1> DEFINE m == Append(s, Call(o))
<1>1. Call(o) \in Frame /\ Call(o).at \notin Holding
  BY DEF Call, Frame, Holding
<1>2. m \in Seq(Frame) /\ Len(m) = Len(s) + 1 /\ m[Len(s) + 1] = Call(o) /\ \A j \in 1..Len(s) : m[j] = s[j]
  BY <1>1
<1>3. QED
  BY <1>1, <1>2 DEF HeldAt, Waiting

\* The innermost call decides whether a step gives up the mutex.
LEMMA TopHeld ==
  ASSUME NEW s \in Seq(Frame), s # <<>>
  PROVE  Len(s) \in HeldAt(s) <=> Last(s).at \in Holding
BY DEF HeldAt, Last

\* A step of one goroutine that leaves the mutex as it is.
LEMMA KeepsMutex ==
  ASSUME IInv, NEW t \in Goroutine, NEW s \in Seq(Frame), stack' = [stack EXCEPT ![t] = s],
         UNCHANGED mu, Waiting(s), HeldAt(s) = HeldAt(stack[t])
  PROVE  IInv'
BY DEF IInv, TypeOK

\* A step that releases it, the call in the critical section being the innermost.
LEMMA Releases ==
  ASSUME IInv, NEW t \in Goroutine, NEW s \in Seq(Frame), stack' = [stack EXCEPT ![t] = s],
         mu' = Nobody, Waiting(s), stack[t] # <<>>, Last(stack[t]).at \in Holding,
         HeldAt(s) = HeldAt(stack[t]) \ {Len(stack[t])}
  PROVE  IInv'
<1>1. stack[t] \in Seq(Frame) /\ Nobody \notin Goroutine
  BY MutexAssumption DEF IInv, TypeOK
<1>2. Len(stack[t]) \in HeldAt(stack[t])
  BY <1>1, TopHeld
<1>3. mu = t /\ HeldAt(s) = {}
  BY <1>2 DEF IInv
<1>4. \A u \in Goroutine \ {t} : HeldAt(stack[u]) = {}
  BY <1>3 DEF IInv
<1>5. QED
  BY <1>1, <1>3, <1>4 DEF IInv, TypeOK

LEMMA InitHolds == Init => IInv
BY MutexAssumption DEF Init, IInv, TypeOK, HeldAt, Waiting

LEMMA StepHolds == IInv /\ [Next]_vars => IInv'
<1> SUFFICES ASSUME IInv, [Next]_vars PROVE IInv'
  OBVIOUS
<1>0. ASSUME NEW t \in Goroutine
      PROVE  stack[t] \in Seq(Frame) /\ Waiting(stack[t])
  BY <1>0 DEF IInv, TypeOK
\* The innermost call goes on: to a place that holds the mutex exactly if the
\* one before did.
<1>m. ASSUME NEW t \in Goroutine, stack[t] # <<>>, NEW w, Goto(t, w), UNCHANGED mu,
             [Last(stack[t]) EXCEPT !.at = w] \in Frame,
             w \in Holding <=> Last(stack[t]).at \in Holding
      PROVE  IInv'
  <2> DEFINE s == stack[t]
  <2>1. s \in Seq(Frame) /\ Waiting(s)
    BY <1>0
  <2>2. /\ Moved(s, w) \in Seq(Frame) /\ Len(Moved(s, w)) = Len(s)
        /\ \A j \in 1..Len(s) - 1 : Moved(s, w)[j] = s[j]
        /\ HeldAt(Moved(s, w)) = (HeldAt(s) \ {Len(s)}) \cup (IF w \in Holding THEN {Len(s)} ELSE {})
    BY <1>m, <2>1, MovedStack
  <2>3. HeldAt(Moved(s, w)) = HeldAt(s)
    BY <1>m, <2>1, <2>2, TopHeld
  <2>4. Waiting(Moved(s, w))
    BY <2>1, <2>2 DEF Waiting
  <2>5. stack' = [stack EXCEPT ![t] = Moved(s, w)]
    BY <1>m DEF Goto
  <2>6. QED
    BY <1>m, <2>2, <2>3, <2>4, <2>5, KeepsMutex
<1>r. ASSUME NEW t \in Goroutine, stack[t] # <<>>, Return(t), UNCHANGED mu, Last(stack[t]).at \notin Holding
      PROVE  IInv'
  <2>1. stack[t] \in Seq(Frame) /\ Waiting(stack[t])
    BY <1>0
  <2>2. Front(stack[t]) \in Seq(Frame) /\ Waiting(Front(stack[t])) /\ HeldAt(Front(stack[t])) = HeldAt(stack[t])
    BY <1>r, <2>1, PoppedStack, TopHeld
  <2>3. QED
    BY <1>r, <2>2, KeepsMutex DEF Return
<1>u. ASSUME NEW t \in Goroutine, stack[t] # <<>>, Return(t), mu' = Nobody, Last(stack[t]).at \in Holding
      PROVE  IInv'
  <2>1. stack[t] \in Seq(Frame) /\ Waiting(stack[t])
    BY <1>0
  <2>2. /\ Front(stack[t]) \in Seq(Frame) /\ Waiting(Front(stack[t]))
        /\ HeldAt(Front(stack[t])) = HeldAt(stack[t]) \ {Len(stack[t])}
    BY <1>u, <2>1, PoppedStack
  <2>3. QED
    BY <1>u, <2>2, Releases DEF Return
<1>1. ASSUME NEW t \in Goroutine, Enter(t)
      PROVE  IInv'
  <2>1. PICK o \in {"Track", "Flush"} : stack' = [stack EXCEPT ![t] = <<Call(o)>>]
    BY <1>1 DEF Enter
  <2>2. stack[t] = <<>> /\ UNCHANGED mu /\ <<Call(o)>> = Append(<<>>, Call(o))
    BY <1>1 DEF Enter
  <2>3. <<>> \in Seq(Frame) /\ \A j \in 1..Len(<<>>) : <<>>[j].at \in {"return", "unlock"}
    OBVIOUS
  <2>4. Append(<<>>, Call(o)) \in Seq(Frame) /\ HeldAt(Append(<<>>, Call(o))) = HeldAt(stack[t])
        /\ Waiting(Append(<<>>, Call(o)))
    BY <2>2, <2>3, PushedStack
  <2>5. QED
    BY <2>1, <2>2, <2>4, KeepsMutex
<1>2. ASSUME NEW t \in Goroutine, Lock(t)
      PROVE  IInv'
  <2>1. PICK w \in {"critical", "rebuffer"} :
          stack[t] # <<>> /\ Goto(t, w) /\ [Last(stack[t]) EXCEPT !.at = w] \in Frame
    BY <1>2 DEF Lock, At, Frame
  <2> DEFINE s == stack[t]
  <2>2. s \in Seq(Frame) /\ Waiting(s)
    BY <1>0
  <2>3. /\ Moved(s, w) \in Seq(Frame) /\ Len(Moved(s, w)) = Len(s)
        /\ \A j \in 1..Len(s) - 1 : Moved(s, w)[j] = s[j]
        /\ HeldAt(Moved(s, w)) = (HeldAt(s) \ {Len(s)}) \cup {Len(s)}
    BY <2>1, <2>2, MovedStack DEF Holding
  <2>4. mu = Nobody /\ mu' = t /\ Nobody \notin Goroutine
    BY <1>2, MutexAssumption DEF Lock, Unheld
  <2>5. \A u \in Goroutine : HeldAt(stack[u]) = {}
    BY <2>4 DEF IInv
  <2>6. HeldAt(Moved(s, w)) = {Len(s)} /\ Len(s) \in Nat
    <3>1. Len(s) \in Nat
      BY <2>2, LenProperties
    <3>2. HeldAt(s) = {}
      BY <2>5
    <3>3. QED
      BY <2>3, <3>1, <3>2
  <2>7. Waiting(Moved(s, w))
    BY <2>2, <2>3 DEF Waiting
  <2>8. stack' = [stack EXCEPT ![t] = Moved(s, w)]
    BY <2>1 DEF Goto
  <2>9. QED
    BY <2>3, <2>4, <2>5, <2>6, <2>7, <2>8 DEF IInv, TypeOK
<1>3. ASSUME NEW t \in Goroutine, CheckFields(t)
      PROVE  IInv'
  <2>1. PICK w \in {"lock", "onDrop"} : Goto(t, w)
    BY <1>3 DEF CheckFields
  <2>2. /\ stack[t] # <<>> /\ UNCHANGED mu /\ Last(stack[t]).at \notin Holding /\ w \notin Holding
        /\ [Last(stack[t]) EXCEPT !.at = w] \in Frame
    BY <1>3 DEF CheckFields, At, Frame, Holding
  <2>3. QED
    BY <1>m, <2>1, <2>2
<1>4. ASSUME NEW t \in Goroutine, Critical(t)
      PROVE  IInv'
  <2>1. PICK w \in {"unlock", "onDropLocked"} : Goto(t, w)
    BY <1>4 DEF Critical
  <2>2. /\ stack[t] # <<>> /\ UNCHANGED mu /\ Last(stack[t]).at \in Holding /\ w \in Holding
        /\ [Last(stack[t]) EXCEPT !.at = w] \in Frame
    BY <1>4 DEF Critical, At, Frame, Holding
  <2>3. QED
    BY <1>m, <2>1, <2>2
<1>5. ASSUME NEW t \in Goroutine, OnDrop(t)
      PROVE  IInv'
  <2> DEFINE s == stack[t]
             next == IF Last(s).at = "onDrop" THEN "return" ELSE "unlock"
  <2>1. /\ s # <<>> /\ UNCHANGED mu /\ [Last(s) EXCEPT !.at = next] \in Frame
        /\ next \in Holding <=> Last(s).at \in Holding
    BY <1>5 DEF OnDrop, At, Frame, Holding
  <2>2. CASE Goto(t, next)
    BY <1>m, <2>1, <2>2
  <2>3. CASE \E o \in Calls : stack' = [stack EXCEPT ![t] = Append(Moved(s, next), Call(o))]
    <3>1. PICK o \in {"Track", "Flush"} : stack' = [stack EXCEPT ![t] = Append(Moved(s, next), Call(o))]
      BY <2>3, MutexAssumption
    <3>2. s \in Seq(Frame) /\ Waiting(s)
      BY <1>0
    <3>3. /\ Moved(s, next) \in Seq(Frame) /\ Len(Moved(s, next)) = Len(s)
          /\ \A j \in 1..Len(s) - 1 : Moved(s, next)[j] = s[j]
          /\ Moved(s, next)[Len(s)].at = next
          /\ HeldAt(Moved(s, next)) = (HeldAt(s) \ {Len(s)}) \cup (IF next \in Holding THEN {Len(s)} ELSE {})
      BY <2>1, <3>2, MovedStack
    <3>4. HeldAt(Moved(s, next)) = HeldAt(s)
      BY <2>1, <3>2, <3>3, TopHeld
    <3>5. \A j \in 1..Len(Moved(s, next)) : Moved(s, next)[j].at \in {"return", "unlock"}
      BY <3>2, <3>3 DEF Waiting
    <3>6. /\ Append(Moved(s, next), Call(o)) \in Seq(Frame)
          /\ HeldAt(Append(Moved(s, next), Call(o))) = HeldAt(s)
          /\ Waiting(Append(Moved(s, next), Call(o)))
      BY <3>3, <3>4, <3>5, PushedStack
    <3>7. QED
      BY <2>1, <3>1, <3>6, KeepsMutex
  <2>4. QED
    BY <1>5, <2>2, <2>3 DEF OnDrop
<1>6. ASSUME NEW t \in Goroutine, EndTrack(t)
      PROVE  IInv'
  <2>1. CASE At(t, "Track", "return") /\ Return(t) /\ UNCHANGED mu
    BY <1>r, <2>1 DEF At, Holding
  <2>2. CASE At(t, "Track", "unlock") /\ Return(t) /\ mu' = Nobody
    BY <1>u, <2>2 DEF At, Holding
  <2>3. QED
    BY <1>6, <2>1, <2>2 DEF EndTrack
<1>7. ASSUME NEW t \in Goroutine, Take(t)
      PROVE  IInv'
  <2> DEFINE s == stack[t]
  <2>1. s # <<>> /\ Last(s).at \in Holding /\ mu' = Nobody /\ [Last(s) EXCEPT !.at = "send"] \in Frame
    BY <1>7 DEF Take, At, Frame, Holding
  <2>2. CASE Return(t)
    BY <1>u, <2>1, <2>2
  <2>3. CASE Goto(t, "send")
    <3>1. s \in Seq(Frame) /\ Waiting(s)
      BY <1>0
    <3>2. /\ Moved(s, "send") \in Seq(Frame) /\ Len(Moved(s, "send")) = Len(s)
          /\ \A j \in 1..Len(s) - 1 : Moved(s, "send")[j] = s[j]
          /\ HeldAt(Moved(s, "send")) = HeldAt(s) \ {Len(s)}
      BY <2>1, <3>1, MovedStack DEF Holding
    <3>3. Waiting(Moved(s, "send"))
      BY <3>1, <3>2 DEF Waiting
    <3>4. QED
      BY <2>1, <2>3, <3>2, <3>3, Releases DEF Goto
  <2>4. QED
    BY <1>7, <2>2, <2>3 DEF Take
<1>8. ASSUME NEW t \in Goroutine, SendReturns(t)
      PROVE  IInv'
  <2>1. /\ stack[t] # <<>> /\ UNCHANGED mu /\ Last(stack[t]).at \notin Holding /\ "relock" \notin Holding
        /\ [Last(stack[t]) EXCEPT !.at = "relock"] \in Frame
    BY <1>8 DEF SendReturns, At, Frame, Holding
  <2>2. CASE Return(t)
    BY <1>r, <2>1, <2>2
  <2>3. CASE Goto(t, "relock")
    BY <1>m, <2>1, <2>3
  <2>4. QED
    BY <1>8, <2>2, <2>3 DEF SendReturns
<1>9. ASSUME NEW t \in Goroutine, Rebuffer(t)
      PROVE  IInv'
  BY <1>9, <1>u DEF Rebuffer, At, Holding
<1>10. CASE UNCHANGED vars
  BY <1>10 DEF vars, IInv, TypeOK
<1>11. QED
  BY <1>1, <1>2, <1>3, <1>4, <1>5, <1>6, <1>7, <1>8, <1>9, <1>10 DEF Next, Run

\* Types, for any goroutines: each call of each stack is at a place its
\* operation has (logger.go:151-267).
THEOREM TypeCorrect == Spec => []TypeOK
<1>1. IInv => TypeOK
  BY DEF IInv
<1>2. QED
  BY <1>1, InitHolds, StepHolds, PTL DEF Spec

\* l.mu is held by the goroutine inside a critical section and by nobody else,
\* whatever the callback calls and however deep: in particular Track runs its
\* callback with the mutex, and Flush posts without it (logger.go:159-190,
\* 240-254).
THEOREM MutexIsScoped == Spec => []MutexScope
<1>1. IInv => MutexScope
  <2> SUFFICES ASSUME IInv, NEW t \in Goroutine PROVE HoldsMutex(t) <=> mu = t
    BY DEF MutexScope
  <2>1. HoldsMutex(t) <=> HeldAt(stack[t]) # {}
    BY DEF HoldsMutex, HeldAt, Holding
  <2>2. QED
    BY <2>1 DEF IInv
<1>2. QED
  BY <1>1, InitHolds, StepHolds, PTL DEF Spec

\* The calls below the innermost one do not hold the mutex, unless a callback
\* made from the critical section calls the Logger.
LEMMA OuterKept ==
  ASSUME "onDropLocked" \notin CallsFrom
  PROVE  IInv /\ OuterFinished /\ [Next]_vars => OuterFinished'
<1> SUFFICES ASSUME IInv, OuterFinished, [Next]_vars PROVE OuterFinished'
  OBVIOUS
<1>t. ASSUME NEW t \in Goroutine
      PROVE  stack[t] \in Seq(Frame) /\ Finished(stack[t])
  BY <1>t DEF IInv, TypeOK, OuterFinished
<1>c. ASSUME NEW t \in Goroutine, NEW s, stack' = [stack EXCEPT ![t] = s], Finished(s)
      PROVE  OuterFinished'
  BY <1>c DEF OuterFinished, IInv, TypeOK
<1>m. ASSUME NEW t \in Goroutine, stack[t] # <<>>, NEW w, Goto(t, w),
             [Last(stack[t]) EXCEPT !.at = w] \in Frame
      PROVE  OuterFinished'
  <2>1. /\ Len(Moved(stack[t], w)) = Len(stack[t])
        /\ \A j \in 1..Len(stack[t]) - 1 : Moved(stack[t], w)[j] = stack[t][j]
    BY <1>m, <1>t, MovedStack
  <2>2. Finished(Moved(stack[t], w))
    BY <1>t, <2>1 DEF Finished
  <2>3. QED
    BY <1>c, <1>m, <2>2 DEF Goto
<1>r. ASSUME NEW t \in Goroutine, stack[t] # <<>>, Return(t)
      PROVE  OuterFinished'
  <2>1. /\ Len(stack[t]) \in Nat \ {0} /\ Len(Front(stack[t])) = Len(stack[t]) - 1
        /\ \A j \in 1..Len(stack[t]) - 1 : Front(stack[t])[j] = stack[t][j]
    BY <1>r, <1>t, FrontOf, EmptySeq
  <2>2. Finished(Front(stack[t]))
    BY <1>t, <2>1 DEF Finished
  <2>3. QED
    BY <1>c, <1>r, <2>2 DEF Return
<1>1. ASSUME NEW t \in Goroutine, Enter(t)
      PROVE  OuterFinished'
  <2>1. PICK o \in {"Track", "Flush"} : stack' = [stack EXCEPT ![t] = <<Call(o)>>]
    BY <1>1 DEF Enter
  <2>2. Finished(<<Call(o)>>)
    BY DEF Finished
  <2>3. QED
    BY <1>c, <2>1, <2>2
<1>2. ASSUME NEW t \in Goroutine, Lock(t)
      PROVE  OuterFinished'
  <2>1. PICK w \in {"critical", "rebuffer"} :
          stack[t] # <<>> /\ Goto(t, w) /\ [Last(stack[t]) EXCEPT !.at = w] \in Frame
    BY <1>2 DEF Lock, At, Frame
  <2>2. QED
    BY <1>m, <2>1
<1>3. ASSUME NEW t \in Goroutine, CheckFields(t) \/ Critical(t)
      PROVE  OuterFinished'
  <2>1. PICK w \in {"lock", "onDrop", "unlock", "onDropLocked"} : Goto(t, w)
    BY <1>3 DEF CheckFields, Critical
  <2>2. stack[t] # <<>> /\ [Last(stack[t]) EXCEPT !.at = w] \in Frame
    BY <1>3 DEF CheckFields, Critical, At, Frame
  <2>3. QED
    BY <1>m, <2>1, <2>2
<1>4. ASSUME NEW t \in Goroutine, OnDrop(t)
      PROVE  OuterFinished'
  <2> DEFINE s == stack[t]
             next == IF Last(s).at = "onDrop" THEN "return" ELSE "unlock"
  <2>1. s # <<>> /\ [Last(s) EXCEPT !.at = next] \in Frame /\ Last(s).at \in {"onDrop", "onDropLocked"}
    BY <1>4 DEF OnDrop, At, Frame
  <2>2. CASE Goto(t, next)
    BY <1>m, <2>1, <2>2
  <2>3. CASE /\ Last(s).at \in CallsFrom
             /\ \E o \in Calls : stack' = [stack EXCEPT ![t] = Append(Moved(s, next), Call(o))]
    <3>1. PICK o \in Calls : stack' = [stack EXCEPT ![t] = Append(Moved(s, next), Call(o))]
      BY <2>3
    <3>2. next = "return"
      BY <2>1, <2>3
    <3>3. s \in Seq(Frame) /\ Finished(s)
      BY <1>t
    <3>4. /\ Moved(s, next) \in Seq(Frame) /\ Len(Moved(s, next)) = Len(s)
          /\ \A j \in 1..Len(s) - 1 : Moved(s, next)[j] = s[j]
          /\ Moved(s, next)[Len(s)].at = next
      BY <2>1, <3>3, MovedStack
    <3>5. \A j \in 1..Len(Moved(s, next)) : Moved(s, next)[j].at = "return"
      BY <3>2, <3>3, <3>4 DEF Finished
    <3> HIDE DEF next
    <3>6. Finished(Append(Moved(s, next), Call(o)))
      BY <3>4, <3>5 DEF Finished
    <3>7. QED
      BY <1>c, <3>1, <3>6
  <2>4. QED
    BY <1>4, <2>2, <2>3 DEF OnDrop
<1>5. ASSUME NEW t \in Goroutine, EndTrack(t) \/ Rebuffer(t)
      PROVE  OuterFinished'
  BY <1>5, <1>r DEF EndTrack, Rebuffer, At
<1>6. ASSUME NEW t \in Goroutine, Take(t) \/ SendReturns(t)
      PROVE  OuterFinished'
  <2>1. /\ stack[t] # <<>>
        /\ Last(stack[t]) \in [op : {"Flush"}, at : {"critical", "send"}]
        /\ Return(t) \/ \E w \in {"send", "relock"} : Goto(t, w)
    BY <1>6 DEF Take, SendReturns, At
  <2>2. \A w \in {"send", "relock"} : [Last(stack[t]) EXCEPT !.at = w] \in Frame
    BY <2>1 DEF Frame
  <2>3. QED
    BY <1>m, <1>r, <2>1, <2>2
<1>7. CASE UNCHANGED vars
  BY <1>7 DEF vars, OuterFinished
<1>8. QED
  BY <1>1, <1>2, <1>3, <1>4, <1>5, <1>6, <1>7 DEF Next, Run

\* For any goroutines, depth of nested callbacks and calls they make before the
\* mutex is taken, whoever holds l.mu is at work in the critical section
\* (logger.go:159-190, 224-254): no goroutine waits for the mutex it holds
\* itself, none posts with it, none returns with it.
THEOREM NobodyWaitsForItself ==
  ASSUME "onDropLocked" \notin CallsFrom
  PROVE  Spec => []HolderAtWork
<1>1. Init => OuterFinished
  BY DEF Init, OuterFinished, Finished
<1>2. IInv /\ OuterFinished => HolderAtWork
  <2> SUFFICES ASSUME IInv, OuterFinished, NEW t \in Goroutine, mu = t
               PROVE  stack[t] # <<>> /\ Last(stack[t]).at \in Holding
    BY DEF HolderAtWork
  <2>1. PICK j \in HeldAt(stack[t]) : TRUE
    BY DEF IInv
  <2>2. stack[t] \in Seq(Frame) /\ Finished(stack[t])
    BY DEF IInv, TypeOK, OuterFinished
  <2>3. j \in 1..Len(stack[t]) /\ stack[t][j].at \in Holding
    BY <2>1 DEF HeldAt
  <2>4. stack[t][j].at # "return"
    BY <2>3 DEF Holding
  <2>5. j = Len(stack[t]) /\ stack[t] # <<>>
    BY <2>2, <2>3, <2>4 DEF Finished
  <2>6. QED
    BY <2>3, <2>5 DEF Last
<1>3. QED
  BY <1>1, <1>2, InitHolds, StepHolds, OuterKept, PTL DEF Spec
=============================================================================
