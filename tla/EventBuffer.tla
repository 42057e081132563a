---------------------------- MODULE EventBuffer ----------------------------
(***************************************************************************)
(* buffer.go step by step: goroutines of any number of processes (Client)  *)
(* call Append, ReadAndClear and Trim on one file.  Each call opens the    *)
(* file, waits for the exclusive lock (flock, LockFileEx) and then seeks   *)
(* and writes, or scans and truncates; writes can stop half-way and calls  *)
(* can be abandoned at each step, by an error or by the death of the       *)
(* process: closing the descriptor releases the lock either way.           *)
(***************************************************************************)
EXTENDS BufferFile, Functions

CONSTANTS Client,  \* goroutines that use the buffer
          MaxTorn  \* bound: how many writes stop half-way

ASSUME MaxTornAssumption == MaxTorn \in Nat

VARIABLES file,   \* fus_buffer.jsonl, see BufferFile
          size,   \* its length, counted in writes since it was last truncated
          lock,   \* the clients that hold the exclusive lock
          pc,     \* where each client's call is
          off,    \* the file offset after Seek(0, io.SeekEnd)
          got,    \* the local variable events
          taken   \* what the last ReadAndClear handed to its caller

\* What only the properties read.
VARIABLES saved,  \* the file before the running Trim truncated it
          acked,  \* events whose Append returned nil
          used,   \* events given to Append
          handed, \* events ReadAndClear handed to a caller
          dropped,\* events Trim gave up
          torn    \* how many writes stopped half-way

ghost == <<saved, acked, used, handed, dropped, torn>>
vars  == <<file, size, lock, pc, off, got, taken, ghost>>

\* A call is first "opened" (its file is open, it waits for the lock).
Opened == {"Append", "ReadAndClear", "Trim"}
AfterLock == [Append |-> "seek", ReadAndClear |-> "scan", Trim |-> "trimScan"]
Locked == {"seek", "write", "scan", "clear", "trimScan", "truncate", "rewrite"}
Steps  == {"idle"} \cup Opened \cup Locked

Init == /\ file = Empty /\ size = 0 /\ lock = {} /\ taken = <<>>
        /\ pc = [c \in Client |-> "idle"]
        /\ off = [c \in Client |-> 0]
        /\ got = [c \in Client |-> <<>>]
        /\ saved = Empty /\ acked = {} /\ used = {} /\ torn = 0
        /\ handed = {} /\ dropped = {}

Goto(c, from, to) == pc[c] = from /\ pc' = [pc EXCEPT ![c] = to]

\* Mutant: an early return that forgets to unlock.
ReturnLocked(c) == /\ pc' = [pc EXCEPT ![c] = "idle"]
                   /\ off' = [off EXCEPT ![c] = 0]
                   /\ got' = [got EXCEPT ![c] = <<>>]
                   /\ UNCHANGED lock
\* The deferred unlockFile and Close; the local variables are gone.
Return(c) == /\ pc' = [pc EXCEPT ![c] = "idle"]
             /\ lock' = lock \ {c}
             /\ off' = [off EXCEPT ![c] = 0]
             /\ got' = [got EXCEPT ![c] = <<>>]

-----------------------------------------------------------------------------
\* Bound: an Append is called only when there is an event left for it.
Appending == {c \in Client : pc[c] \in {"Append", "seek", "write"}}
EventLeft == Cardinality(used) + Cardinality(Appending) < Cardinality(Event)

\* MkdirAll and OpenFile.  A file that ReadAndClear or Trim does not find is
\* the empty one here: both then return what they return for an empty file.
Call(c) == /\ \E o \in Opened : (o = "Append" => EventLeft) /\ Goto(c, "idle", o)
           /\ UNCHANGED <<file, size, lock, off, got, taken, ghost>>

\* lockFile blocks while another descriptor holds the lock.
\* Mutant: the lock is not taken.
NotLocked == TRUE
Free == lock = {}
lockFile(c) == /\ Free
               /\ lock' = lock \cup {c}
               /\ \E o \in Opened : Goto(c, o, AfterLock[o])
               /\ UNCHANGED <<file, size, off, got, taken, ghost>>

\* Append: f.Seek(0, io.SeekEnd).
Seek(c) == /\ Goto(c, "seek", "write")
           /\ off' = [off EXCEPT ![c] = size]
           /\ UNCHANGED <<file, size, lock, got, taken, ghost>>

\* Append: f.Write at off[c], which AppendAtEnd says is the end of the file.
\* Which event the call carries matters from here on only.
Write(c) == /\ pc[c] = "write"
            /\ \E e \in Event \ used :
                 /\ file' = Landed(file, e)
                 /\ acked' = acked \cup {e}
                 /\ used' = used \cup {e}
            /\ size' = size + 1
            /\ Return(c)
            /\ UNCHANGED <<taken, saved, handed, dropped, torn>>

TornWrite(c) == /\ pc[c] = "write" /\ torn < MaxTorn
                /\ \E e \in Event \ used :
                     /\ file' \in Torn(file, e)
                     /\ used' = used \cup {e}
                /\ size' = size + 1
                /\ torn' = torn + 1
                /\ Return(c)
                /\ UNCHANGED <<taken, saved, acked, handed, dropped>>

-----------------------------------------------------------------------------
\* f.Truncate(0).  Mutant: it has no effect.
NotTruncated == file
Truncated == Empty

\* ReadAndClear: scanEvents(f), then f.Truncate(0).
Scan(c) == /\ Goto(c, "scan", "clear")
           /\ got' = [got EXCEPT ![c] = scanEvents(file)]
           /\ UNCHANGED <<file, size, lock, off, taken, ghost>>

Clear(c) == /\ pc[c] = "clear"
            /\ file' = Truncated /\ size' = 0
            /\ taken' = got[c]
            /\ handed' = handed \cup Range(got[c])
            /\ Return(c)
            /\ UNCHANGED <<saved, acked, used, dropped, torn>>

-----------------------------------------------------------------------------
\* Trim: scan, and go on only when there is something to discard.
TrimScan(c) == IF Overfull(file)
                 THEN /\ Goto(c, "trimScan", "truncate")
                      /\ got' = [got EXCEPT ![c] = Newest(file)]
                      /\ UNCHANGED <<file, size, lock, off, taken, ghost>>
                 ELSE /\ pc[c] = "trimScan"
                      /\ Return(c)
                      /\ UNCHANGED <<file, size, taken, ghost>>

\* f.Truncate(0) and f.Seek(0, 0).
Truncate(c) == /\ Goto(c, "truncate", "rewrite")
               /\ saved' = file
               /\ dropped' = dropped \cup Range(Oldest(file))
               /\ file' = Truncated /\ size' = 0
               /\ UNCHANGED <<lock, off, got, taken, acked, used, handed, torn>>

\* One turn of the loop that writes the kept events back.
Rewrite(c) == /\ pc[c] = "rewrite"
              /\ file' = Landed(file, Head(got[c]))
              /\ size' = size + 1
              /\ IF Len(got[c]) = 1
                   THEN Return(c)
                   ELSE /\ got' = [got EXCEPT ![c] = Tail(@)]
                        /\ UNCHANGED <<pc, lock, off>>
              /\ UNCHANGED <<taken, ghost>>

\* The loop ends early: Trim returns the error, or the process dies.
TornRewrite(c) == /\ pc[c] = "rewrite" /\ torn < MaxTorn
                  /\ file' \in {file} \cup Torn(file, Head(got[c]))
                  /\ size' = size + 1
                  /\ torn' = torn + 1
                  /\ dropped' = dropped \cup Range(got[c])
                  /\ Return(c)
                  /\ UNCHANGED <<taken, saved, acked, used, handed>>

-----------------------------------------------------------------------------
\* Every other call that fails, and the death of the process at any point
\* before the file changes: nothing happens but that the lock is released.  When
\* ReadAndClear cannot truncate, it returns the events it has read and an error,
\* and Flush (logger.go), its only caller, then does not look at the events.
Abandon(c) == /\ pc[c] \notin {"idle", "rewrite"}
              /\ Return(c)
              /\ UNCHANGED <<file, size, taken, ghost>>

Proceed(c) == \/ lockFile(c) \/ Seek(c) \/ Write(c) \/ Scan(c) \/ Clear(c)
              \/ TrimScan(c) \/ Truncate(c) \/ Rewrite(c)
Next == \E c \in Client : Call(c) \/ Proceed(c) \/ TornWrite(c) \/ TornRewrite(c) \/ Abandon(c)

\* A goroutine that runs goes on running, and a blocked flock is granted in
\* turn: one that waits is not passed over forever.
Spec == Init /\ [][Next]_vars
FairSpec == Spec /\ \A c \in Client : WF_vars(Proceed(c)) /\ SF_vars(lockFile(c))

-----------------------------------------------------------------------------
TypeOK == /\ file \in File /\ saved \in File
          /\ size \in Nat /\ torn \in 0..MaxTorn
          /\ lock \subseteq Client
          /\ pc \in [Client -> Steps]
          /\ off \in [Client -> Nat]
          /\ got \in [Client -> Seq(Event)] /\ taken \in Seq(Event)
          /\ used \subseteq Event /\ acked \subseteq used
          /\ handed \subseteq Event /\ dropped \subseteq Event

\* Seeking to the end and writing there are two steps, yet no write lands
\* anywhere but at the end: the comment in Append, buffer.go:38-41.
AppendAtEnd == \A c \in Client : pc[c] = "write" => off[c] = size

\* The kept events a running Trim has still to write back.
Unwritten == UNION {Range(got[c]) : c \in {d \in Client : pc[d] = "rewrite"}}

\* An event that ReadAndClear has handed out is out of the file for good: no
\* second ReadAndClear returns it and no Trim writes it back.
HandedOnce == handed \cap (Range(file.recs) \cup Unwritten) = {}

\* Append returned nil: the event is in the file, was handed out, or was
\* discarded by Trim.  One that is none of these was glued to what a write
\* that stopped half-way left behind, and each such write costs at most one.
Lost == acked \ (Range(file.recs) \cup Unwritten \cup handed \cup dropped)
TornCostsOne == Cardinality(Lost) <= torn

\* ReadAndClear reads all events before it truncates, buffer.go:69.
ReadsAllEvents == \A c \in Client : pc[c] = "clear" => Range(got[c]) = Range(file.recs)

\* Nobody waits for the file lock, or in a call on the file, forever.
CallsReturn == \A c \in Client : pc[c] # "idle" ~> pc[c] = "idle"

\* Each call takes effect in one step.  While Trim writes back, the file
\* readers will find is still the one it truncated.
Durable == IF \E c \in Client : pc[c] = "rewrite" THEN saved ELSE file
Atomic == INSTANCE AtomicBuffer WITH file <- Durable
AtomicSpec == Atomic!ASpec

-----------------------------------------------------------------------------
\* Why: at most one client is past lockFile, so what a client has read of the
\* file (its end, its records) is still so when it acts on it, and a Trim that
\* writes back has written a prefix of what it keeps and holds the rest.
Exclusive == /\ \A c \in Client : c \in lock <=> pc[c] \in Locked
             /\ \A c, d \in lock : c = d

SnapshotCurrent ==
  \A c \in Client : /\ pc[c] = "clear" => got[c] = scanEvents(file)
                    /\ pc[c] = "truncate" => Overfull(file) /\ got[c] = Newest(file)

RewriteProgress ==
  \A c \in Client : pc[c] = "rewrite" =>
    /\ Overfull(saved)
    /\ \E k \in 0..MaxSize - 1 :
         /\ file = [recs |-> SubSeq(Newest(saved), 1, k), tail |-> "ended"]
         /\ got[c] = SubSeq(Newest(saved), k + 1, MaxSize)

Provenance == Range(file.recs) \cup Unwritten \cup handed \subseteq used

\* What stopped half-way and has not yet cost an event is the file's tail.
Debt == IF file.tail = "ended" THEN 0 ELSE 1
TornLedger ==
  /\ IsFiniteSet(Lost) /\ Cardinality(Lost) + Debt <= torn
  /\ file.tail = "unended" => /\ file.recs # <<>>
                              /\ file.recs[Len(file.recs)] \notin acked \ dropped

IInv == /\ TypeOK /\ Exclusive /\ AppendAtEnd /\ SnapshotCurrent
        /\ RewriteProgress /\ Provenance /\ HandedOnce
=============================================================================
