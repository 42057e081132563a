---------------------------- MODULE LoggerMutex ----------------------------
(***************************************************************************)
(* Who waits for whom in a Logger: goroutines call Track and Flush, both   *)
(* take l.mu, Flush posts to a server that may take as long as it likes,   *)
(* and Track runs the application's OnDrop callback, which may call the    *)
(* Logger again.  What the calls do to the buffer is Delivery's matter.    *)
(***************************************************************************)
EXTENDS Naturals, Sequences, SequencesExt

CONSTANTS Goroutine,
          Nobody,    \* the holder of a free mutex
          Calls,     \* what the OnDrop callback may call, of "Track", "Flush"
          CallsFrom, \* on which drops: with the mutex free ("onDrop"), held
          MaxDepth   \* bound: calls in progress in one goroutine

ASSUME MutexAssumption == /\ Nobody \notin Goroutine
                          /\ Calls \subseteq {"Track", "Flush"}
                          /\ CallsFrom \subseteq {"onDrop", "onDropLocked"}
                          /\ MaxDepth \in Nat \ {0}

VARIABLES mu,    \* l.mu
          stack  \* the calls in progress in each goroutine, the innermost last

vars == <<mu, stack>>

Frame == [op : {"Track"}, at : {"start", "lock", "critical", "onDrop", "onDropLocked",
                                "return", "unlock"}] \cup
         [op : {"Flush"}, at : {"lock", "critical", "send", "relock", "rebuffer"}]

Init == mu = Nobody /\ stack = [t \in Goroutine |-> <<>>]

\* Mutant: Flush, too, begins with Track's check.
CallAtStart(o) == [op |-> o, at |-> "start"]
Call(o) == [op |-> o, at |-> IF o = "Track" THEN "start" ELSE "lock"]
At(t, o, where) == stack[t] # <<>> /\ Last(stack[t]) = [op |-> o, at |-> where]
Moved(s, where) == Append(Front(s), [Last(s) EXCEPT !.at = where])
Goto(t, where) == stack' = [stack EXCEPT ![t] = Moved(@, where)]
Return(t) == stack' = [stack EXCEPT ![t] = Front(@)]

\* The application calls Track, Flush or Close.
Enter(t) == /\ stack[t] = <<>>
            /\ \E o \in {"Track", "Flush"} : stack' = [stack EXCEPT ![t] = <<Call(o)>>]
            /\ UNCHANGED mu

\* sync.Mutex is not reentrant.  Mutant: the mutex is not free either while a
\* Flush posts.
FreeAfterPost == mu = Nobody /\ \A t \in Goroutine : ~At(t, "Flush", "send")
Unheld == mu = Nobody

Lock(t) == /\ Unheld /\ mu' = t
           /\ \/ At(t, "Track", "lock")   /\ Goto(t, "critical")
              \/ At(t, "Flush", "lock")   /\ Goto(t, "critical")
              \/ At(t, "Flush", "relock") /\ Goto(t, "rebuffer")

-----------------------------------------------------------------------------
\* Track.  Too many fields: the callback runs before the mutex is taken.
CheckFields(t) == /\ At(t, "Track", "start")
                  /\ Goto(t, "lock") \/ Goto(t, "onDrop")
                  /\ UNCHANGED mu

\* Anonymize, validate, escape and append; Track is done, or the validator or
\* the buffer rejects the event and the callback runs with the mutex held.
Critical(t) == /\ At(t, "Track", "critical")
               /\ Goto(t, "unlock") \/ Goto(t, "onDropLocked")
               /\ UNCHANGED mu

\* The callback returns, or calls the Logger first.
OnDrop(t) == LET next == IF Last(stack[t]).at = "onDrop" THEN "return" ELSE "unlock" IN
             /\ At(t, "Track", "onDrop") \/ At(t, "Track", "onDropLocked")
             /\ \/ Goto(t, next)
                \/ /\ Len(stack[t]) < MaxDepth /\ Last(stack[t]).at \in CallsFrom
                   /\ \E o \in Calls :
                        stack' = [stack EXCEPT ![t] = Append(Moved(@, next), Call(o))]
             /\ UNCHANGED mu

EndTrack(t) == \/ At(t, "Track", "return") /\ Return(t) /\ UNCHANGED mu
               \/ At(t, "Track", "unlock") /\ Return(t) /\ mu' = Nobody

-----------------------------------------------------------------------------
\* Flush.  ReadAndClear, then the mutex is free; nothing to send ends the call.
\* Mutant: the Unlock is missing.
TakeAndKeep(t) == /\ At(t, "Flush", "critical")
                  /\ Goto(t, "send") \/ Return(t)
                  /\ UNCHANGED mu
Take(t) == /\ At(t, "Flush", "critical")
           /\ Goto(t, "send") \/ Return(t)
           /\ mu' = Nobody

\* SendBatched returns; on an error the unsent events go back to the buffer.
SendReturns(t) == /\ At(t, "Flush", "send")
                  /\ Return(t) \/ Goto(t, "relock")
                  /\ UNCHANGED mu

Rebuffer(t) == At(t, "Flush", "rebuffer") /\ Return(t) /\ mu' = Nobody

-----------------------------------------------------------------------------
Run(t) == CheckFields(t) \/ Critical(t) \/ OnDrop(t) \/ EndTrack(t) \/ Take(t) \/ Rebuffer(t)
Next == \E t \in Goroutine : Enter(t) \/ Lock(t) \/ Run(t) \/ SendReturns(t)

\* Goroutines run and l.mu is granted in turn (sync.Mutex hands it to a waiter
\* that starves).  Nothing is assumed of the server: a request may never end.
Spec == /\ Init /\ [][Next]_vars
        /\ \A t \in Goroutine : WF_vars(Run(t)) /\ SF_vars(Lock(t))

TypeOK == /\ mu \in Goroutine \cup {Nobody}
          /\ stack \in [Goroutine -> Seq(Frame)]

\* The mutex is held by a goroutine inside one of its two critical sections,
\* and by no other: in particular not while it posts (logger.go:240).
HoldsMutex(t) == \E j \in 1..Len(stack[t]) :
                   stack[t][j].at \in {"critical", "onDropLocked", "unlock", "rebuffer"}
MutexScope == \A t \in Goroutine : HoldsMutex(t) <=> mu = t

\* Why: a call that is not the innermost one of its goroutine has nothing left
\* but to return, and at most one call of a goroutine is in a critical section.
Holding == {"critical", "onDropLocked", "unlock", "rebuffer"}
HeldAt(s) == {j \in 1..Len(s) : s[j].at \in Holding}
Waiting(s) == \A j \in 1..Len(s) - 1 : s[j].at \in {"return", "unlock"}
IInv == /\ TypeOK
        /\ \A t \in Goroutine : /\ Waiting(stack[t])
                                /\ mu = t => \E j \in HeldAt(stack[t]) : HeldAt(stack[t]) = {j}
                                /\ mu # t => HeldAt(stack[t]) = {}

\* Whoever holds l.mu is at work in the critical section: it does not post with
\* the mutex, wait for it again or leave with it.  It holds as long as no
\* callback calls the Logger with the mutex held (logger.go:162-188): sync.Mutex
\* is not reentrant, and such a goroutine would wait for itself.
HolderAtWork == \A t \in Goroutine : mu = t => stack[t] # <<>> /\ Last(stack[t]).at \in Holding

\* Why: only a call that does not hold the mutex makes another one.
Finished(s) == \A j \in 1..Len(s) - 1 : s[j].at = "return"
OuterFinished == \A t \in Goroutine : Finished(stack[t])

\* Track returns, whatever the server does to the Flush of another goroutine:
\* "never blocks", README.md:60, "not blocked by network latency", logger.go:241.
TrackReturns == \A t \in Goroutine :
  (stack[t] # <<>> /\ stack[t][1].op = "Track") ~> stack[t] = <<>>
=============================================================================
