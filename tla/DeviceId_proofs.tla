--------------------------- MODULE DeviceId_proofs ---------------------------
(* The device ID, for any number of calls.                                  *)
EXTENDS DeviceId, TLAPS

LEMMA InitHolds == Init => IInv
BY DEF Init, IInv, TypeOK, Content, Creating, Returned, Found

LEMMA StepHolds == IInv /\ [Next]_vars => IInv'
<1> SUFFICES ASSUME IInv, [Next]_vars PROVE IInv'
  OBVIOUS
<1> USE DEF IInv
<1>1. ASSUME NEW c \in Caller, Read(c)
      PROVE  IInv'
  <2>1. CASE /\ Found
             /\ Goto(c, "read", "done")
             /\ result' = [result EXCEPT ![c] = content]
             /\ UNCHANGED <<content, overlap, unread, replaced>>
    <3>1. TypeOK'
      BY <2>1 DEF TypeOK, Goto
    <3>2. Creating' = Creating /\ Returned' = Returned \cup {c} /\ Found'
      BY <2>1 DEF TypeOK, Creating, Returned, Found, Goto
    <3>3. result'[c] = content /\ \A d \in Caller \ {c} : result'[d] = result[d]
      BY <2>1 DEF TypeOK
    <3>4. \A d \in Caller : pc'[d] = "write" => pc[d] = "write"
      BY <2>1 DEF TypeOK, Goto
    <3>5. QED
      BY <2>1, <3>1, <3>2, <3>3, <3>4 DEF Found
  <2>2. CASE /\ Goto(c, "read", "create")
             /\ overlap' = (overlap \/ Creating # {})
             /\ unread' = (unread \/ Found)
             /\ UNCHANGED <<content, result, replaced>>
    <3>1. TypeOK'
      BY <2>2 DEF TypeOK, Goto
    <3>2. Creating' = Creating \cup {c} /\ Returned' = Returned
      BY <2>2 DEF TypeOK, Creating, Returned, Goto
    <3>3. \A d \in Caller : pc'[d] = "write" => pc[d] = "write"
      BY <2>2 DEF TypeOK, Goto
    <3>4. ~overlap' => Creating = {} /\ ~overlap
      BY <2>2
    <3>5. ~unread' => ~Found /\ ~unread
      BY <2>2
    <3>6. QED
      BY <2>2, <3>1, <3>2, <3>3, <3>4, <3>5 DEF Found
  <2>3. QED
    BY <1>1, <2>1, <2>2 DEF Read
<1>2. ASSUME NEW c \in Caller, Truncate(c)
      PROVE  IInv'
  <2>1. TypeOK'
    BY <1>2 DEF Truncate, Goto, TypeOK, Content, Returned
  <2>2. c \in Creating /\ Creating' = Creating /\ Returned' = Returned /\ ~Found'
    BY <1>2 DEF Truncate, Goto, TypeOK, Creating, Returned, Found
  <2>3. replaced' = Returned /\ overlap' = overlap /\ unread' = unread
    BY <1>2 DEF Truncate
  <2>4. ~overlap /\ ~unread => Returned = {}
    BY <2>2
  <2>5. QED
    BY <2>1, <2>2, <2>3, <2>4
<1>3. ASSUME NEW c \in Caller, Write(c)
      PROVE  IInv'
  <2>1. TypeOK'
    BY <1>3 DEF Write, Goto, TypeOK, Content
  <2>2. /\ c \in Creating /\ Creating' = Creating \ {c} /\ Returned' = Returned \cup {c}
    BY <1>3 DEF Write, Goto, TypeOK, Creating, Returned
  <2>3. Found' /\ result'[c] = content'
    BY <1>3, DeviceAssumption DEF Write, Found, TypeOK
  <2>4. ~overlap => ~Found /\ Returned \subseteq replaced
    BY <1>3 DEF Write, Goto
  <2>5. UNCHANGED <<overlap, unread, replaced>>
    BY <1>3 DEF Write
  <2>6. ~overlap => \A d \in Caller : pc'[d] # "write"
    BY <1>3, <2>2 DEF Write, Goto, Creating, TypeOK
  <2>7. QED
    BY <2>1, <2>2, <2>3, <2>4, <2>5, <2>6
<1>4. ASSUME NEW c \in Caller, TornWrite(c)
      PROVE  IInv'
  <2>1. TypeOK'
    BY <1>4 DEF TornWrite, Goto, TypeOK, Content
  <2>2. c \in Creating /\ Creating' = Creating \ {c} /\ Returned' = Returned
    BY <1>4 DEF TornWrite, Goto, TypeOK, Creating, Returned
  <2>3. ~overlap => ~Found /\ Returned \subseteq replaced
    BY <1>4 DEF TornWrite, Goto
  <2>4. ~overlap => \A d \in Caller : pc'[d] # "write"
    BY <1>4, <2>2 DEF TornWrite, Goto, Creating, TypeOK
  <2>5. QED
    BY <1>4, <2>1, <2>2, <2>3, <2>4 DEF TornWrite
<1>5. ASSUME NEW c \in Caller, Fail(c)
      PROVE  IInv'
  <2>1. TypeOK'
    BY <1>5 DEF Fail, TypeOK
  <2>2. Creating' = Creating \ {c} /\ Returned' = Returned
    BY <1>5 DEF Fail, TypeOK, Creating, Returned
  <2>3. QED
    BY <1>5, <2>1, <2>2 DEF Fail, Found
<1>6. CASE UNCHANGED vars
  BY <1>6 DEF vars, TypeOK, Creating, Returned, Found
<1>7. QED
  BY <1>1, <1>2, <1>3, <1>4, <1>5, <1>6 DEF Next

\* Types, for any calls: the file holds nothing, or a whole ID or a part of one
\* that a call has generated, and calls return what they read or wrote
\* (device.go:19-43).
THEOREM TypeCorrect == Spec => []TypeOK
<1>1. IInv => TypeOK
  BY DEF IInv
<1>2. QED
  BY <1>1, InitHolds, StepHolds, PTL DEF Spec

\* However many calls of GetOrCreateDeviceID there are and wherever each of them
\* fails or dies, as long as no two create an ID at the same time: those that
\* return between two truncations of the file agree, and the ID that a call has
\* returned is replaced only after another failed to read the file
\* (device.go:19-43).
THEOREM SoleCreatorsAgree == Spec => []SoleCreatorAgrees
<1>1. IInv => SoleCreatorAgrees
  BY DEF IInv, SoleCreatorAgrees
<1>2. QED
  BY <1>1, InitHolds, StepHolds, PTL DEF Spec
=============================================================================
