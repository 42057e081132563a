--------------------------- MODULE Startup_proofs ---------------------------
(* The salt, for any number of Loggers, FUSConfigs and salts.                *)
EXTENDS Startup, TLAPS

InUse == {"set", "check", "session", "running"}

\* A FUSConfig that a Logger makes for itself is no other Logger's.
LEMMA Objects ==
  ASSUME TypeOK, NEW l \in Logger
  PROVE  /\ Object(l) \in Logger \cup Shared
         /\ \A m \in Logger : Object(l) = m => l = m
         /\ UNCHANGED given => Object(l)' = Object(l)
BY StartupAssumption DEF Object, TypeOK

\* A step of LoadOrFetchConfig, or one that leaves it: only the Salt of the
\* Logger's own FUSConfig may change, and nobody uses it yet.
LEMMA Outside ==
  ASSUME IInv, TypeOK', ReadFirst', NEW l \in Logger, pc[l] \notin InUse,
         NEW w \in Steps \ InUse, pc' = [pc EXCEPT ![l] = w],
         \A o \in (Logger \cup Shared) \ {l} : salt'[o] = salt[o],
         UNCHANGED <<given, read, session, device>>
  PROVE  IInv'
<1>1. ASSUME NEW m \in Logger
      PROVE  Settled(m)'
  <2>1. CASE m = l
    BY <2>1 DEF IInv, TypeOK, Settled, InUse
  <2>2. CASE m # l
    <3>1. Object(m)' = Object(m) /\ salt'[Object(m)] = salt[Object(m)] /\ pc'[m] = pc[m]
      BY <2>2, Objects DEF IInv, TypeOK
    <3>2. QED
      BY <3>1 DEF IInv, Settled, HasOwn
  <2>3. QED
    BY <2>1, <2>2
<1>2. QED
  BY <1>1 DEF IInv

\* A step with the FUSConfig that writes no salt: what the others rely on stays.
LEMMA Inside ==
  ASSUME IInv, TypeOK', ReadFirst', NEW l \in Logger, Settled(l)',
         \A m \in Logger \ {l} : /\ pc'[m] = pc[m] /\ read'[m] = read[m]
                                 /\ session'[m] = session[m] /\ device'[m] = device[m],
         UNCHANGED <<given, salt>>
  PROVE  IInv'
<1>1. ASSUME NEW m \in Logger \ {l}
      PROVE  Settled(m)'
  <2>1. Object(m)' = Object(m)
    BY Objects DEF IInv
  <2>2. QED
    BY <2>1 DEF IInv, Settled, HasOwn
<1>2. QED
  BY <1>1 DEF IInv

LEMMA InitHolds == Init => IInv
<1> SUFFICES ASSUME Init PROVE IInv
  OBVIOUS
<1>1. TypeOK
  <2>1. {stored, overlap, broken} \subseteq BOOLEAN
    BY DEF Init
  <2>2. {read, session, device} \subseteq [Logger -> AnySalt]
    BY DEF Init, AnySalt
  <2>3. QED
    BY <2>1, <2>2, StartupAssumption DEF Init, TypeOK, Steps
<1>2. ASSUME NEW l \in Logger
      PROVE  Settled(l)
  BY DEF Init, Settled
<1>3. QED
  BY <1>1, <1>2 DEF IInv, Init, ReadFirst

LEMMA TypeStep == TypeOK /\ ReadFirst /\ [Next]_vars => TypeOK'
<1> SUFFICES ASSUME TypeOK, ReadFirst, [Next]_vars PROVE TypeOK'
  OBVIOUS
<1>0. TypeOK
  OBVIOUS
<1> USE StartupAssumption DEF TypeOK, Goto, Fault, Steps, AnySalt, local, ghost
<1>1. CASE Tick
  BY <1>0, <1>1 DEF Tick
<1>2. ASSUME NEW l \in Logger, NewLogger(l)
      PROVE  TypeOK'
  BY <1>0, <1>2 DEF NewLogger
<1>3. ASSUME NEW l \in Logger, Cancelled(l)
      PROVE  TypeOK'
  BY <1>0, <1>3 DEF Cancelled
<1>4. ASSUME NEW l \in Logger, Load(l)
      PROVE  TypeOK'
  <2>1. pc' \in [Logger -> Steps] /\ unread' \subseteq Logger
    BY <1>0, <1>4 DEF Load
  <2>2. CASE salt' = salt /\ config' = config
    BY <1>0, <1>4, <2>1, <2>2 DEF Load
  <2>3. CASE /\ config' = [config EXCEPT ![l] = IF Fresh(file) THEN Nothing ELSE file]
             /\ salt' = IF Fresh(file) THEN [salt EXCEPT ![l] = file.salt] ELSE salt
    BY <1>0, <1>4, <2>1, <2>3 DEF Load, Fresh, Config
  <2>4. QED
    BY <1>4, <2>2, <2>3 DEF Load
<1>5. ASSUME NEW l \in Logger, FetchOk(l)
      PROVE  TypeOK'
  BY <1>0, <1>5 DEF FetchOk, Config, FetchedAt
<1>6. ASSUME NEW l \in Logger, FetchFails(l)
      PROVE  TypeOK'
  BY <1>0, <1>6 DEF FetchFails, FallsBack, Config
<1>7. ASSUME NEW l \in Logger, Truncate(l)
      PROVE  TypeOK'
  BY <1>0, <1>7 DEF Truncate
<1>8. ASSUME NEW l \in Logger, Write(l)
      PROVE  TypeOK'
  <2>1. file' \in Config \cup {Nothing}
    BY <1>0, <1>8 DEF Write
  <2>2. stored' \in BOOLEAN /\ broken' \in BOOLEAN /\ overlap' \in BOOLEAN
    <3>1. stored' \in {stored, TRUE} /\ broken' \in BOOLEAN /\ overlap' = overlap
      BY <1>8 DEF Write
    <3>2. QED
      BY <1>0, <3>1
  <2>3. faults' \in 0..MaxFaults
    BY <1>0, <1>8 DEF Write
  <2>4. QED
    BY <1>0, <1>8, <2>1, <2>2, <2>3 DEF Write
<1>9. ASSUME NEW l \in Logger
      PROVE  Object(l) \in Logger \cup Shared
  BY <1>0, <1>9, Objects
<1>10. ASSUME NEW l \in Logger, ReadSalt(l)
       PROVE  TypeOK'
  BY <1>0, <1>9, <1>10 DEF ReadSalt
<1>11. ASSUME NEW l \in Logger, SetSalt(l)
       PROVE  TypeOK'
  <2>1. Or(l) \in Salt \cup {NoSalt}
    BY <1>11 DEF SetSalt, ReadFirst, Or
  <2>2. QED
    BY <1>0, <1>9, <1>11, <2>1 DEF SetSalt
<1>12. ASSUME NEW l \in Logger, Check(l)
       PROVE  TypeOK'
  BY <1>0, <1>12 DEF Check
<1>13. ASSUME NEW l \in Logger, Session(l)
       PROVE  TypeOK'
  BY <1>0, <1>9, <1>13 DEF Session, SessionSalt
<1>14. ASSUME NEW l \in Logger, Track(l)
       PROVE  TypeOK'
  BY <1>0, <1>9, <1>14 DEF Track
<1>15. ASSUME NEW l \in Logger, Drop(l)
       PROVE  TypeOK'
  BY <1>0, <1>15 DEF Drop
<1>16. CASE UNCHANGED vars
  BY <1>0, <1>16 DEF vars
<1>17. QED
  BY <1>1, <1>2, <1>3, <1>4, <1>5, <1>6, <1>7, <1>8, <1>10, <1>11, <1>12, <1>13, <1>14, <1>15, <1>16
     DEF Next

LEMMA ReadStep == TypeOK /\ ReadFirst /\ [Next]_vars => ReadFirst'
<1> SUFFICES ASSUME TypeOK, ReadFirst, [Next]_vars, NEW m \in Logger, pc'[m] = "set"
             PROVE  read'[m] \in Salt \cup {NoSalt}
  BY DEF ReadFirst
<1>1. CASE pc[m] = "set" /\ read'[m] = read[m]
  BY <1>1 DEF ReadFirst
<1>2. ASSUME NEW l \in Logger, ReadSalt(l), m = l
      PROVE  read'[m] \in Salt \cup {NoSalt}
  BY <1>2, Objects DEF ReadSalt, TypeOK
<1>3. ASSUME NEW l \in Logger, ReadSalt(l), m # l
      PROVE  pc[m] = "set" /\ read'[m] = read[m]
  BY <1>3 DEF ReadSalt, Goto, TypeOK
<1>4. ASSUME NEW l \in Logger, SetSalt(l) \/ Drop(l)
      PROVE  pc[m] = "set" /\ read'[m] = read[m]
  BY <1>4 DEF SetSalt, Drop, Goto, TypeOK
<1>5. ASSUME NEW l \in Logger, NewLogger(l) \/ Cancelled(l) \/ Load(l) \/ FetchOk(l) \/ FetchFails(l)
      PROVE  pc[m] = "set" /\ read'[m] = read[m]
  BY <1>5 DEF NewLogger, Cancelled, Load, FetchOk, FetchFails, Goto, TypeOK, local
<1>6. ASSUME NEW l \in Logger, Truncate(l) \/ Write(l) \/ Check(l) \/ Session(l) \/ Track(l)
      PROVE  pc[m] = "set" /\ read'[m] = read[m]
  BY <1>6 DEF Truncate, Write, Check, Session, Track, Goto, TypeOK, local
<1>7. CASE Tick \/ UNCHANGED vars
  BY <1>1, <1>7 DEF Tick, vars, local
<1>8. QED
  BY <1>1, <1>2, <1>3, <1>4, <1>5, <1>6, <1>7 DEF Next

\* The step that writes the salt into a FUSConfig: every Logger that uses it is
\* of the same product, and without a salt of its own writes the one it read.
LEMMA SetSaltHolds ==
  ASSUME IInv, TypeOK', ReadFirst', SharersAgree, NEW l \in Logger, SetSalt(l)
  PROVE  IInv'
<1> DEFINE o == Object(l)
<1>1. /\ pc[l] = "set" /\ pc' = [pc EXCEPT ![l] = "check"] /\ salt' = [salt EXCEPT ![o] = Or(l)]
      /\ read' = [read EXCEPT ![l] = Nothing] /\ UNCHANGED <<given, session, device>>
  BY DEF SetSalt, Goto
<1>2. TypeOK /\ given \in [Logger -> Shared \cup {Nothing}] /\ given \in Given
  BY StartupAssumption DEF IInv, TypeOK
<1>3. \A m \in Logger : Object(m) \in Logger \cup Shared /\ Object(m)' = Object(m)
  BY <1>1, <1>2, Objects
<1>4. ASSUME NEW m \in Logger, Object(m) = o
      PROVE  Product[m] = Product[l]
  <2>1. CASE given[l] = Nothing
    BY <1>2, <1>3, <1>4, <2>1, Objects DEF Object
  <2>2. CASE given[l] # Nothing
    <3>1. o = given[l] /\ o \in Shared /\ given[m] = given[l]
      BY <1>2, <1>4, <2>2, StartupAssumption DEF Object
    <3>2. QED
      BY <1>2, <2>2, <3>1 DEF SharersAgree
  <2>3. QED
    BY <2>1, <2>2
<1>5. /\ Product[l] # NoSalt => Or(l) = Product[l]
      /\ Product[l] = NoSalt => Or(l) = salt[o]
  BY <1>1 DEF IInv, Settled, Or
<1>6. salt'[o] = Or(l)
  BY <1>1, <1>2, <1>3 DEF TypeOK
<1>7. ASSUME NEW m \in Logger
      PROVE  Settled(m)'
  <2>1. CASE m = l
    <3>1. pc'[l] = "check"
      BY <1>1, <1>2 DEF TypeOK
    <3>2. HasOwn(l)' /\ session'[l] = Nothing /\ device'[l] = Nothing
      BY <1>1, <1>3, <1>5, <1>6 DEF HasOwn, IInv, Settled
    <3>3. QED
      BY <2>1, <3>1, <3>2 DEF Settled
  <2>2. CASE m # l /\ Object(m) # o
    <3>1. salt'[Object(m)] = salt[Object(m)] /\ pc'[m] = pc[m] /\ read'[m] = read[m]
      BY <1>1, <1>2, <1>3, <2>2 DEF TypeOK
    <3>2. QED
      BY <1>1, <1>3, <3>1 DEF IInv, Settled, HasOwn
  <2>3. CASE m # l /\ Object(m) = o
    <3>1. pc'[m] = pc[m] /\ read'[m] = read[m]
      BY <1>1, <1>2, <2>3 DEF TypeOK
    <3>2. Product[m] # NoSalt => salt'[o] = Product[m]
      BY <1>4, <1>5, <1>6, <2>3
    <3>3. Product[m] = NoSalt => salt'[o] = salt[o]
      BY <1>4, <1>5, <1>6, <2>3
    <3>4. QED
      BY <1>1, <1>3, <2>3, <3>1, <3>2, <3>3 DEF IInv, Settled, HasOwn
  <2>4. QED
    BY <2>1, <2>2, <2>3
<1>8. QED
  BY <1>7 DEF IInv

LEMMA StepHolds == SharersAgree /\ IInv /\ [Next]_vars => IInv'
<1> SUFFICES ASSUME SharersAgree, IInv, [Next]_vars PROVE IInv'
  OBVIOUS
<1>0. TypeOK /\ TypeOK' /\ ReadFirst'
  BY TypeStep, ReadStep DEF IInv
\* A step of one Logger that changes nothing of the others, nor any salt.
<1>a. ASSUME NEW l \in Logger, pc[l] \notin InUse, NEW w \in Steps \ InUse, Goto(l, pc[l], w),
             \A o \in (Logger \cup Shared) \ {l} : salt'[o] = salt[o],
             UNCHANGED <<given, read, session, device>>
      PROVE  IInv'
  BY <1>0, <1>a, Outside DEF Goto
<1>1. CASE Tick
  <2>1. UNCHANGED <<given, salt, pc, read, session, device>>
    BY <1>1 DEF Tick, local
  <2>2. QED
    BY <1>0, <2>1 DEF IInv, Settled, HasOwn, Object
<1>2. ASSUME NEW l \in Logger, NewLogger(l)
      PROVE  IInv'
  <2>1. CASE given[l] = Nothing
    BY <1>2, <2>1, <1>a DEF NewLogger, Goto, Steps, InUse, local
  <2>2. CASE given[l] # Nothing
    BY <1>2, <2>2, <1>a DEF NewLogger, Goto, Steps, InUse, local
  <2>3. QED
    BY <2>1, <2>2
<1>3. ASSUME NEW l \in Logger, Cancelled(l)
      PROVE  IInv'
  BY <1>3, <1>a DEF Cancelled, Goto, Steps, InUse, local
<1>4. ASSUME NEW l \in Logger, Load(l)
      PROVE  IInv'
  <2>1. \A o \in (Logger \cup Shared) \ {l} : salt'[o] = salt[o]
    BY <1>0, <1>4 DEF Load, TypeOK
  <2>2. PICK w \in {"or", "fetch"} : Goto(l, "load", w)
    BY <1>4 DEF Load
  <2>3. QED
    BY <1>4, <2>1, <2>2, <1>a DEF Load, Goto, Steps, InUse
<1>5. ASSUME NEW l \in Logger, FetchOk(l)
      PROVE  IInv'
  <2>1. \A o \in (Logger \cup Shared) \ {l} : salt'[o] = salt[o]
    BY <1>0, <1>5 DEF FetchOk, TypeOK
  <2>2. QED
    BY <1>5, <2>1, <1>a DEF FetchOk, Goto, Steps, InUse
<1>6. ASSUME NEW l \in Logger, FetchFails(l)
      PROVE  IInv'
  <2>1. \A o \in (Logger \cup Shared) \ {l} : salt'[o] = salt[o]
    BY <1>0, <1>6 DEF FetchFails, TypeOK
  <2>2. PICK w \in {"or", "noConfig"} : Goto(l, "fetch", w)
    BY <1>6 DEF FetchFails
  <2>3. QED
    BY <1>6, <2>1, <2>2, <1>a DEF FetchFails, Goto, Steps, InUse
<1>7. ASSUME NEW l \in Logger, Truncate(l)
      PROVE  IInv'
  <2>1. PICK w \in {"or", "write"} : Goto(l, "truncate", w)
    BY <1>7 DEF Truncate
  <2>2. UNCHANGED <<given, salt, read, session, device>>
    BY <1>7 DEF Truncate, local
  <2>3. QED
    BY <2>1, <2>2, <1>a DEF Goto, Steps, InUse
<1>8. ASSUME NEW l \in Logger, Write(l)
      PROVE  IInv'
  BY <1>8, <1>a DEF Write, Goto, Steps, InUse
<1>9. ASSUME NEW l \in Logger, ReadSalt(l)
      PROVE  IInv'
  <2>1. Object(l)' = Object(l) /\ Object(l) \in Logger \cup Shared
    BY <1>0, <1>9, Objects DEF ReadSalt
  <2>2. /\ pc[l] = "or" /\ pc'[l] = "set" /\ read'[l] = salt[Object(l)]
        /\ UNCHANGED <<given, salt, session, device>>
    BY <1>0, <1>9 DEF ReadSalt, Goto, TypeOK
  <2>3. Settled(l)'
    BY <1>0, <2>1, <2>2 DEF IInv, Settled, TypeOK
  <2>4. \A m \in Logger \ {l} : pc'[m] = pc[m] /\ read'[m] = read[m]
    BY <1>0, <1>9 DEF ReadSalt, Goto, TypeOK
  <2>5. QED
    BY <1>0, <2>2, <2>3, <2>4, Inside
<1>10. ASSUME NEW l \in Logger, SetSalt(l)
       PROVE  IInv'
  BY <1>0, <1>10, SetSaltHolds
<1>11. ASSUME NEW l \in Logger, Check(l)
       PROVE  IInv'
  <2>1. Object(l)' = Object(l)
    BY <1>0, <1>11, Objects DEF Check
  <2>2. /\ pc[l] = "check" /\ pc'[l] \in {"session", "refused"}
        /\ pc'[l] = "session" => salt[Object(l)] # NoSalt
        /\ UNCHANGED <<given, salt, read, session, device>>
    BY <1>0, <1>11 DEF Check, Goto, TypeOK, Salted, local
  <2>3. Settled(l)'
    BY <2>1, <2>2 DEF IInv, Settled, HasOwn
  <2>4. \A m \in Logger \ {l} : pc'[m] = pc[m]
    BY <1>0, <1>11 DEF Check, Goto, TypeOK
  <2>5. QED
    BY <1>0, <2>2, <2>3, <2>4, Inside
<1>12. ASSUME NEW l \in Logger, Session(l)
       PROVE  IInv'
  <2>1. Object(l)' = Object(l)
    BY <1>0, <1>12, Objects DEF Session
  <2>2. /\ pc[l] = "session" /\ pc'[l] = "running" /\ session'[l] = salt[Object(l)]
        /\ UNCHANGED <<given, salt, read, device>>
    BY <1>0, <1>12 DEF Session, Goto, TypeOK, SessionSalt
  <2>3. Settled(l)'
    BY <2>1, <2>2 DEF IInv, Settled, HasOwn
  <2>4. \A m \in Logger \ {l} : pc'[m] = pc[m] /\ session'[m] = session[m]
    BY <1>0, <1>12 DEF Session, Goto, TypeOK
  <2>5. QED
    BY <1>0, <2>2, <2>3, <2>4, Inside
<1>13. ASSUME NEW l \in Logger, Track(l)
       PROVE  IInv'
  <2>1. Object(l)' = Object(l)
    BY <1>0, <1>13, Objects DEF Track
  <2>2. /\ pc[l] = "running" /\ device'[l] = salt[Object(l)]
        /\ UNCHANGED <<given, salt, pc, read, session>>
    BY <1>0, <1>13 DEF Track, TypeOK
  <2>3. Settled(l)'
    BY <2>1, <2>2 DEF IInv, Settled, HasOwn
  <2>4. \A m \in Logger \ {l} : device'[m] = device[m]
    BY <1>0, <1>13 DEF Track, TypeOK
  <2>5. QED
    BY <1>0, <2>2, <2>3, <2>4, Inside
<1>14. ASSUME NEW l \in Logger, Drop(l)
       PROVE  IInv'
  <2>1. ASSUME NEW m \in Logger
        PROVE  Settled(m)'
    <3>1. CASE m = l
      BY <1>0, <1>14, <3>1 DEF Drop, Settled, TypeOK
    <3>2. CASE m # l
      <4>1. /\ Object(m)' = Object(m) /\ salt'[Object(m)] = salt[Object(m)] /\ pc'[m] = pc[m]
            /\ read'[m] = read[m] /\ session'[m] = session[m] /\ device'[m] = device[m]
        BY <1>0, <1>14, <3>2, Objects DEF Drop, TypeOK
      <4>2. QED
        BY <4>1 DEF IInv, Settled, HasOwn
    <3>3. QED
      BY <3>1, <3>2
  <2>2. QED
    BY <1>0, <2>1 DEF IInv
<1>15. CASE UNCHANGED vars
  <2>1. UNCHANGED <<given, salt, pc, read, session, device>>
    BY <1>15 DEF vars, local
  <2>2. QED
    BY <1>0, <2>1 DEF IInv, Settled, HasOwn, Object
<1>16. QED
  BY <1>1, <1>2, <1>3, <1>4, <1>5, <1>6, <1>7, <1>8, <1>9, <1>10, <1>11, <1>12, <1>13, <1>14, <1>15
     DEF Next

\* Types, for any Loggers and however they share FUSConfigs (logger.go:68-149,
\* config.go:50-160).
THEOREM TypeCorrect == Spec => []TypeOK
<1>1. Init => TypeOK /\ ReadFirst
  BY InitHolds DEF IInv
<1>2. TypeOK /\ ReadFirst /\ [Next]_vars => (TypeOK /\ ReadFirst)'
  BY TypeStep, ReadStep
<1>3. QED
  BY <1>1, <1>2, PTL DEF Spec

\* Nothing is ever hashed with the empty salt: the check of NewLogger holds for
\* as long as the Logger runs, though others write the same FUSConfig before
\* and after it (logger.go:115-118).
THEOREM FailsClosed == ASSUME SharersAgree PROVE Spec => []FailClosed
<1>1. IInv => FailClosed
  <2> SUFFICES ASSUME IInv, NEW l \in Logger PROVE NoSalt \notin {session[l], device[l]}
    BY DEF FailClosed
  <2>1. CASE pc[l] = "running"
    BY <2>1, StartupAssumption DEF IInv, Settled, HasOwn
  <2>2. CASE pc[l] # "running"
    BY <2>2, StartupAssumption DEF IInv, Settled
  <2>3. QED
    BY <2>1, <2>2
<1>2. IInv /\ [Next]_vars => IInv'
  BY StepHolds
<1>3. QED
  BY <1>1, <1>2, InitHolds, PTL DEF Spec

\* The session of a Logger and the device of each of its events are hashed with
\* one salt (logger.go:127, 170).
THEOREM OneSaltEach == ASSUME SharersAgree PROVE Spec => []OneSalt
<1>1. IInv => OneSalt
  <2> SUFFICES ASSUME IInv, NEW l \in Logger PROVE device[l] # Nothing => device[l] = session[l]
    BY DEF OneSalt
  <2>1. CASE pc[l] = "running"
    BY <2>1, StartupAssumption DEF IInv, Settled, HasOwn
  <2>2. CASE pc[l] # "running"
    BY <2>2, StartupAssumption DEF IInv, Settled
  <2>3. QED
    BY <2>1, <2>2
<1>2. IInv /\ [Next]_vars => IInv'
  BY StepHolds
<1>3. QED
  BY <1>1, <1>2, InitHolds, PTL DEF Spec

\* A product's own salt is the one that is used, whatever the FUSConfig held
\* before, came with or is given by other Loggers (logger.go:115, recorder.go:28).
THEOREM OwnSaltUsed == ASSUME SharersAgree PROVE Spec => []OwnSalt
<1>1. IInv => OwnSalt
  <2> SUFFICES ASSUME IInv, NEW l \in Logger PROVE Product[l] # NoSalt => {session[l], device[l]} \subseteq {Product[l], Nothing}
    BY DEF OwnSalt
  <2>1. CASE pc[l] = "running"
    BY <2>1, StartupAssumption DEF IInv, Settled, HasOwn
  <2>2. CASE pc[l] # "running"
    BY <2>2, StartupAssumption DEF IInv, Settled
  <2>3. QED
    BY <2>1, <2>2
<1>2. IInv /\ [Next]_vars => IInv'
  BY StepHolds
<1>3. QED
  BY <1>1, <1>2, InitHolds, PTL DEF Spec

LEMMA KeptAtFirst == Init => Kept
BY DEF Init, Kept, Writing

LEMMA KeptStep == TypeOK /\ Kept /\ [Next]_vars => Kept'
<1> SUFFICES ASSUME TypeOK, Kept, [Next]_vars PROVE Kept'
  OBVIOUS
<1> USE DEF Goto, TypeOK, Writing, Loading
<1>1. CASE Tick \/ UNCHANGED vars
  <2>1. UNCHANGED <<file, pc, config, stored, overlap, unread, broken>>
    BY <1>1 DEF Tick, vars, local, ghost
  <2>2. QED
    BY <2>1 DEF Kept
<1>2. ASSUME NEW l \in Logger, NewLogger(l)
      PROVE  Kept'
  BY <1>2 DEF NewLogger, Kept, local
<1>3. ASSUME NEW l \in Logger, Cancelled(l)
      PROVE  Kept'
  BY <1>3 DEF Cancelled, Kept, local, ghost
<1>4. ASSUME NEW l \in Logger, Load(l)
      PROVE  Kept'
  BY <1>4 DEF Load, Fresh, Kept, ghost
<1>5. ASSUME NEW l \in Logger, FetchOk(l)
      PROVE  Kept'
  <2>1. config'[l] # Nothing
    BY <1>5, StartupAssumption DEF FetchOk, Config, FetchedAt
  <2>2. QED
    BY <1>5, <2>1 DEF FetchOk, Kept
<1>6. ASSUME NEW l \in Logger, FetchFails(l)
      PROVE  Kept'
  BY <1>6 DEF FetchFails, Kept, ghost
<1>7. ASSUME NEW l \in Logger, Truncate(l)
      PROVE  Kept'
  BY <1>7 DEF Truncate, Kept, local, ghost
<1>8. ASSUME NEW l \in Logger, Write(l)
      PROVE  Kept'
  <2>1. pc[l] = "write" /\ pc' = [pc EXCEPT ![l] = "or"] /\ UNCHANGED overlap
    BY <1>8 DEF Write
  <2>2. ~overlap => Loading = {l} /\ file = Nothing
    BY <2>1 DEF Kept
  <2>3. ~overlap => Writing' = {} /\ \A m \in Logger : pc'[m] # "fetch"
    BY <2>1, <2>2
  <2>4. ~overlap /\ ~broken' => file' # Nothing
    BY <1>8, <2>1, <2>2, StartupAssumption DEF Write, Kept
  <2>5. \A w \in Writing' : config'[w] # Nothing
    BY <1>8, <2>1 DEF Write, Kept
  <2>6. (\A m \in Logger : pc'[m] = "fetch" => config'[m] # Nothing \/ m \in unread') \/ overlap
    BY <2>3
  <2>7. ~overlap' /\ ~broken' /\ stored' => file' # Nothing
    BY <2>1, <2>4
  <2>8. QED
    BY <2>1, <2>3, <2>5, <2>6, <2>7, Zenon DEF Kept
<1>9. ASSUME NEW l \in Logger, ReadSalt(l) \/ SetSalt(l) \/ Check(l) \/ Session(l) \/ Track(l)
      PROVE  Kept'
  BY <1>9 DEF ReadSalt, SetSalt, Check, Session, Track, Kept, local, ghost
<1>10. ASSUME NEW l \in Logger, Drop(l)
       PROVE  Kept'
  <2>1. /\ pc' = [pc EXCEPT ![l] = "idle"] /\ config' = [config EXCEPT ![l] = Nothing]
        /\ UNCHANGED <<file, stored, overlap, unread>> /\ (pc[l] = "write" => broken') /\ (broken => broken')
    BY <1>10 DEF Drop
  <2>2. QED
    BY <2>1 DEF Kept
<1>11. QED
  BY <1>1, <1>2, <1>3, <1>4, <1>5, <1>6, <1>7, <1>8, <1>9, <1>10 DEF Next

\* A stored config keeps NewLogger going without the remote, unless this call
\* fails to read it, writes and loads overlap, or the last write was cut short
\* (config.go:50-98).
THEOREM StartsOfflineAlways == Spec => StartsOffline
<1>1. TypeOK /\ Kept /\ [Next]_vars =>
        [\A l \in Logger : /\ pc[l] = "fetch" /\ pc'[l] = "noConfig" /\ l \notin unread
                           /\ ~overlap /\ ~broken
                           => ~stored]_vars
  <2> SUFFICES ASSUME TypeOK, Kept, Next, NEW l \in Logger,
                      pc[l] = "fetch", pc'[l] = "noConfig", l \notin unread, ~overlap, ~broken
               PROVE  ~stored
    OBVIOUS
  <2>1. FetchFails(l)
    <3>1. PICK m \in Logger : \/ NewLogger(m) \/ Cancelled(m) \/ Load(m) \/ FetchOk(m) \/ FetchFails(m)
                              \/ Truncate(m) \/ Write(m) \/ ReadSalt(m) \/ SetSalt(m)
                              \/ Check(m) \/ Session(m) \/ Track(m) \/ Drop(m)
      BY DEF Next, Tick
    <3>2. m = l
      <4> SUFFICES ASSUME m # l PROVE pc'[l] = pc[l]
        OBVIOUS
      <4> USE DEF TypeOK, Goto
      <4>1. CASE NewLogger(m) \/ Cancelled(m) \/ Load(m) \/ FetchOk(m) \/ FetchFails(m)
        BY <4>1 DEF NewLogger, Cancelled, Load, FetchOk, FetchFails
      <4>2. CASE Truncate(m) \/ Write(m) \/ ReadSalt(m) \/ SetSalt(m)
        BY <4>2 DEF Truncate, Write, ReadSalt, SetSalt
      <4>3. CASE Check(m) \/ Session(m) \/ Track(m) \/ Drop(m)
        BY <4>3 DEF Check, Session, Track, Drop
      <4>4. QED
        BY <3>1, <4>1, <4>2, <4>3
    <3>3. QED
      BY <3>1, <3>2 DEF NewLogger, Cancelled, Load, FetchOk, Truncate, Write, ReadSalt, SetSalt,
                        Check, Session, Track, Drop, Goto, TypeOK
  <2>2. config[l] = Nothing
    BY <2>1 DEF FetchFails, FallsBack, Goto, TypeOK
  <2>3. QED
    BY <2>2 DEF Kept
<1>2. Init => TypeOK /\ ReadFirst /\ Kept
  BY InitHolds, KeptAtFirst DEF IInv
<1>3. TypeOK /\ ReadFirst /\ Kept /\ [Next]_vars => (TypeOK /\ ReadFirst /\ Kept)'
  BY TypeStep, ReadStep, KeptStep
<1>4. QED
  BY <1>1, <1>2, <1>3, PTL DEF Spec, StartsOffline
=============================================================================
