------------------------------ MODULE Delivery ------------------------------
(***************************************************************************)
(* The way of an event from Track to the server: logger.go, client.go and  *)
(* the calls they make on the buffer.                                      *)
(*                                                                         *)
(* Processes share one data directory and so one buffer file.  In each,    *)
(* NewLogger starts a session, any goroutine may Track, and some (Flusher) *)
(* run Flush: it takes the whole file, merges consecutive duplicates,      *)
(* posts batches with retries, and appends what was not sent back to the   *)
(* file.  Requests can fail with or without having been recorded, writes   *)
(* can fail, and a process can die at every step.                          *)
(*                                                                         *)
(* A call on the buffer is one step here: EventBuffer implements           *)
(* AtomicBuffer.  What the debris of half-written lines costs is settled   *)
(* there too (TornCostsOne), so a write that fails leaves nothing here.    *)
(***************************************************************************)
EXTENDS Naturals, Sequences, FiniteSets, Functions

CONSTANTS Proc,       \* processes that share the data directory
          Flusher,    \* goroutines that call Flush or Close
          Owner,      \* the process each of them belongs to
          Kind,       \* what canMerge compares, the session apart
          NoOne,      \* the holder of a free mutex
          MaxSize,    \* maxSize
          MaxBatch,   \* maxBatchSize
          MaxRetries, \* maxRetries
          MaxEvents,  \* bound: calls of Track
          MaxStarts,  \* bound: calls of NewLogger in each process
          MaxFailures,\* bound: requests that fail
          MaxFaults   \* bound: writes that fail

ASSUME DeliveryAssumption == /\ Owner \in [Flusher -> Proc] /\ NoOne \notin Flusher
                             /\ MaxSize \in Nat \ {0} /\ MaxBatch \in Nat \ {0}
                             /\ {MaxRetries, MaxEvents, MaxStarts, MaxFailures, MaxFaults} \subseteq Nat

VARIABLES queue,    \* the records of fus_buffer.jsonl, oldest first
          running,  \* processes with a Logger
          starts,   \* calls of NewLogger in each process so far: its session
          mu,       \* l.mu: the flusher that holds it between steps, or NoOne
          pc,       \* where each flusher's Flush is
          rest,     \* events still to be merged, or to be appended back
          merged,   \* the merged events
          sent,     \* how many of them are known to be sent
          attempt,  \* the attempt of the current Send
          recorded  \* how often the server has recorded each event

\* What only the properties, and the bounds, read.
VARIABLES tracked,  \* events whose Append in Track returned nil
          origin,   \* where and as what each was tracked
          confirmed,\* events in a batch that was answered 2xx
          unsure,   \* requests recorded but not answered 2xx, for each event
          crashed, trimmed, unwritten, \* events lost, by cause
          failures, faults

hands  == <<pc, rest, merged, sent, attempt>>
losses == <<crashed, trimmed, unwritten>>
ghost  == <<tracked, origin, confirmed, unsure, losses, failures, faults>>
vars   == <<queue, running, starts, mu, hands, recorded, ghost>>

Id == 1..MaxEvents
Record == [session : Proc \X (1..MaxStarts), kind : Kind, count : Nat, ids : SUBSET Id]
Ids(recs) == UNION {r.ids : r \in recs}

Init == /\ queue = <<>> /\ running = {} /\ starts = [p \in Proc |-> 0]
        /\ mu = [p \in Proc |-> NoOne]
        /\ pc = [f \in Flusher |-> "idle"]
        /\ rest = [f \in Flusher |-> <<>>] /\ merged = [f \in Flusher |-> <<>>]
        /\ sent = [f \in Flusher |-> 0] /\ attempt = [f \in Flusher |-> 0]
        /\ recorded = [i \in Id |-> 0]
        /\ tracked = {} /\ origin = <<>> /\ confirmed = {}
        /\ unsure = [i \in Id |-> 0]
        /\ crashed = {} /\ trimmed = {} /\ unwritten = {}
        /\ failures = 0 /\ faults = 0

-----------------------------------------------------------------------------
\* NewLogger: a new session, then Trim, whose error is ignored: Trim has then
\* left the file alone, or truncated it and written back only the oldest k of
\* the events it keeps.
Over == Len(queue) - MaxSize
TrimTo(k) ==
  /\ Len(queue) > MaxSize
  /\ queue' = SubSeq(queue, Over + 1, Over + k)
  /\ trimmed' = trimmed \cup Ids(Range(SubSeq(queue, 1, Over)))
  /\ unwritten' = unwritten \cup Ids(Range(SubSeq(queue, Over + k + 1, Len(queue))))

Start(p) ==
  /\ p \notin running /\ starts[p] < MaxStarts
  /\ running' = running \cup {p}
  /\ starts' = [starts EXCEPT ![p] = @ + 1]
  /\ \/ TrimTo(MaxSize) /\ UNCHANGED faults
     \/ /\ faults < MaxFaults /\ \E k \in 0..MaxSize - 1 : TrimTo(k)
        /\ faults' = faults + 1
     \/ /\ Len(queue) > MaxSize => faults < MaxFaults
        /\ faults' = IF Len(queue) > MaxSize THEN faults + 1 ELSE faults
        /\ UNCHANGED <<queue, trimmed, unwritten>>
  /\ UNCHANGED <<mu, hands, recorded, tracked, origin, confirmed, unsure, crashed, failures>>

\* The process ends.  What its flushers hold exists nowhere else.  (Bound: only
\* a process that can be started again ends.)
Mine(p) == {f \in Flusher : Owner[f] = p}
Unsent(f) == SubSeq(merged[f], sent[f] + 1, Len(merged[f]))
Held(f) == Range(rest[f]) \cup Range(Unsent(f))

Crash(p) ==
  LET clear(v, x) == [f \in Flusher |-> IF f \in Mine(p) THEN x ELSE v[f]] IN
  /\ p \in running /\ starts[p] < MaxStarts
  /\ running' = running \ {p}
  /\ mu' = [mu EXCEPT ![p] = NoOne]
  /\ pc' = clear(pc, "idle") /\ rest' = clear(rest, <<>>) /\ merged' = clear(merged, <<>>)
  /\ sent' = clear(sent, 0) /\ attempt' = clear(attempt, 0)
  /\ crashed' = crashed \cup Ids(UNION {Held(f) : f \in Mine(p)})
  /\ UNCHANGED <<queue, starts, recorded, tracked, origin, confirmed, unsure, trimmed,
                 unwritten, failures, faults>>

\* Track of an event that is not dropped before the buffer is reached.
Track(p, kind) ==
  LET i == Len(origin) + 1 IN
  /\ p \in running /\ mu[p] = NoOne /\ i \in Id
  /\ origin' = Append(origin, <<<<p, starts[p]>>, kind>>)
  /\ \/ /\ queue' = Append(queue, [session |-> <<p, starts[p]>>, kind |-> kind,
                                   count |-> 1, ids |-> {i}])
        /\ tracked' = tracked \cup {i}
        /\ UNCHANGED faults
     \/ /\ faults < MaxFaults \* onDrop(DropBufferError)
        /\ faults' = faults + 1
        /\ UNCHANGED <<queue, tracked>>
  /\ UNCHANGED <<running, starts, mu, hands, recorded, confirmed, unsure, losses, failures>>

-----------------------------------------------------------------------------
\* Flush.
Goto(f, from, to) == pc[f] = from /\ pc' = [pc EXCEPT ![f] = to]
Unlocked(f) == Owner[f] \in running /\ mu[Owner[f]] = NoOne

\* What ReadAndClear leaves in the file.  Mutant: the file is not truncated.
NotCleared == queue
Cleared == <<>>

\* The whole of the first critical section.
ReadAndClear(f) ==
  /\ Unlocked(f) /\ queue # <<>>
  /\ Goto(f, "idle", "merge")
  /\ rest' = [rest EXCEPT ![f] = queue]
  /\ queue' = Cleared
  /\ UNCHANGED <<running, starts, mu, merged, sent, attempt, recorded, ghost>>

\* Mutant: the sessions are not compared.
canMergeAcross(a, b) == a.kind = b.kind
canMerge(a, b) == a.session = b.session /\ a.kind = b.kind

\* Mutant: a merged record counts for one, as it did when it was tracked.
mergeOneInto(done, next) ==
  LET n == Len(done) IN
  IF n > 0 /\ canMerge(done[n], next)
    THEN [done EXCEPT ![n].count = @ + 1, ![n].ids = @ \cup next.ids]
    ELSE Append(done, next)
mergeInto(done, next) ==
  LET n == Len(done) IN
  IF n > 0 /\ canMerge(done[n], next)
    THEN [done EXCEPT ![n].count = @ + next.count, ![n].ids = @ \cup next.ids]
    ELSE Append(done, next)

\* One turn of the loop of mergeEvents.
Merge(f) ==
  /\ Goto(f, "merge", IF Len(rest[f]) = 1 THEN "post" ELSE "merge")
  /\ merged' = [merged EXCEPT ![f] = mergeInto(@, Head(rest[f]))]
  /\ rest' = [rest EXCEPT ![f] = Tail(@)]
  /\ UNCHANGED <<queue, running, starts, mu, sent, attempt, recorded, ghost>>

\* SendBatched and Send.  The batch is events[i:end], i being sent.
end(f) == IF sent[f] + MaxBatch < Len(merged[f]) THEN sent[f] + MaxBatch ELSE Len(merged[f])
Batch(f) == SubSeq(merged[f], sent[f] + 1, end(f))

\* The server counts every record of the batch.
Deliver(f) == recorded' = [i \in Id |->
                recorded[i] + Cardinality({j \in 1..Len(Batch(f)) : i \in Batch(f)[j].ids})]

PostOk(f) ==
  /\ pc[f] = "post"
  /\ Deliver(f)
  /\ confirmed' = confirmed \cup Ids(Range(Batch(f)))
  /\ attempt' = [attempt EXCEPT ![f] = 0]
  /\ IF end(f) = Len(merged[f])
       THEN /\ Goto(f, "post", "idle")
            /\ merged' = [merged EXCEPT ![f] = <<>>] /\ sent' = [sent EXCEPT ![f] = 0]
       ELSE sent' = [sent EXCEPT ![f] = end(f)] /\ UNCHANGED <<pc, merged>>
  /\ UNCHANGED <<queue, running, starts, mu, rest, tracked, origin, unsure, losses, failures, faults>>

\* Mutant: one attempt too many.
OneMoreAttempt(f) == attempt[f] <= MaxRetries
AttemptLeft(f) == attempt[f] < MaxRetries

\* No 2xx: the request may have been recorded all the same.  Only the status
\* codes of isRetryable are retried, and only maxRetries times.
PostFails(f) ==
  /\ pc[f] = "post" /\ failures < MaxFailures
  /\ failures' = failures + 1
  /\ \/ /\ Deliver(f)
        /\ unsure' = [i \in Id |-> unsure[i] + IF i \in Ids(Range(Batch(f))) THEN 1 ELSE 0]
     \/ UNCHANGED <<recorded, unsure>>
  /\ \/ Goto(f, "post", IF AttemptLeft(f) THEN "wait" ELSE "failed")
     \/ Goto(f, "post", "failed")
  /\ UNCHANGED <<queue, running, starts, mu, rest, merged, sent, attempt, tracked, origin,
                 confirmed, losses, faults>>

\* The retry timer fires, or ctx is done first.
Retry(f) ==
  /\ \/ Goto(f, "wait", "post") /\ attempt' = [attempt EXCEPT ![f] = @ + 1]
     \/ Goto(f, "wait", "failed") /\ UNCHANGED attempt
  /\ UNCHANGED <<queue, running, starts, mu, rest, merged, sent, recorded, ghost>>

\* events[sent:].  Mutants: events[sent]; events.
OnlyFirst(f) == SubSeq(merged[f], sent[f] + 1, sent[f] + 1)
Everything(f) == merged[f]
Requeued(f) == Unsent(f)

\* The second critical section: they go back to the file one by one.
Lock(f) ==
  /\ Unlocked(f)
  /\ Goto(f, "failed", "rebuffer")
  /\ mu' = [mu EXCEPT ![Owner[f]] = f]
  /\ rest' = [rest EXCEPT ![f] = Requeued(f)]
  /\ merged' = [merged EXCEPT ![f] = <<>>] /\ sent' = [sent EXCEPT ![f] = 0]
  /\ attempt' = [attempt EXCEPT ![f] = 0]
  /\ UNCHANGED <<queue, running, starts, recorded, ghost>>

\* l.mu.Unlock().  Mutant: it is forgotten.
StillLocked(f) == mu
Released(f) == [mu EXCEPT ![Owner[f]] = NoOne]

\* The error of Append is ignored, and onDrop is not called.
Rebuffer(f) ==
  /\ Goto(f, "rebuffer", IF Len(rest[f]) = 1 THEN "idle" ELSE "rebuffer")
  /\ rest' = [rest EXCEPT ![f] = Tail(@)]
  /\ mu' = IF Len(rest[f]) = 1 THEN Released(f) ELSE mu
  /\ \/ queue' = Append(queue, Head(rest[f])) /\ UNCHANGED <<unwritten, faults>>
     \/ /\ faults < MaxFaults
        /\ faults' = faults + 1
        /\ unwritten' = unwritten \cup Head(rest[f]).ids
        /\ UNCHANGED queue
  /\ UNCHANGED <<running, starts, merged, sent, attempt, recorded, tracked, origin, confirmed,
                 unsure, crashed, trimmed, failures>>

-----------------------------------------------------------------------------
Work(f) == Merge(f) \/ PostOk(f) \/ PostFails(f) \/ Retry(f) \/ Rebuffer(f)
Next == \/ \E p \in Proc : Start(p) \/ Crash(p) \/ \E kind \in Kind : Track(p, kind)
        \/ \E f \in Flusher : ReadAndClear(f) \/ Work(f) \/ Lock(f)

Spec == Init /\ [][Next]_vars

\* A goroutine that can run does, l.mu is granted in turn, the processes are
\* started again, and some caller keeps calling Flush.
FairSpec == /\ Spec
            /\ \A p \in Proc : WF_vars(Start(p))
            /\ \A f \in Flusher : WF_vars(Work(f)) /\ SF_vars(Lock(f)) /\ SF_vars(ReadAndClear(f))

-----------------------------------------------------------------------------
Steps == {"idle", "merge", "post", "wait", "failed", "rebuffer"}
TypeOK ==
  /\ queue \in Seq(Record) /\ running \subseteq Proc /\ starts \in [Proc -> 0..MaxStarts]
  /\ mu \in [Proc -> Flusher \cup {NoOne}]
  /\ pc \in [Flusher -> Steps]
  /\ rest \in [Flusher -> Seq(Record)] /\ merged \in [Flusher -> Seq(Record)]
  /\ sent \in [Flusher -> Nat] /\ attempt \in [Flusher -> 0..MaxRetries]
  /\ recorded \in [Id -> Nat] /\ unsure \in [Id -> Nat]
  /\ origin \in Seq((Proc \X (1..MaxStarts)) \X Kind) /\ Len(origin) <= MaxEvents
  /\ {tracked, confirmed, crashed, trimmed, unwritten} \subseteq SUBSET Id
  /\ failures \in 0..MaxFailures /\ faults \in 0..MaxFaults

\* Every place a record can be in: the file, or the hands of a flusher.
Places == {<<NoOne, j, queue[j]>> : j \in 1..Len(queue)} \cup
          UNION {{<<f, j, (rest[f] \o Unsent(f))[j]>> :
                    j \in 1..Len(rest[f]) + Len(Unsent(f))} : f \in Flusher}

Recorded == {i \in Id : recorded[i] > 0}
Somewhere == Ids({x[3] : x \in Places}) \cup Recorded

\* Whatever Flush, the retries and the re-queuing of several processes do to
\* it, an event Track accepted is in the file, in the hands of a running
\* Flush, or recorded by the server, unless its process died while it was in
\* flight, Trim discarded it, or writing it back failed.
NothingVanishes == tracked \subseteq Somewhere \cup crashed \cup trimmed \cup unwritten

\* No event is in two places, or twice in one: two flushers never hold the
\* same event, and none is appended back while it is still to be sent.
OnePlace == \A x, y \in Places : x # y => x[3].ids \cap y[3].ids = {}

\* An event whose batch was answered 2xx is never posted or queued again, so
\* the server records an event twice only after a request whose outcome Flush
\* could not know: the count SendBatched returns (client.go:119) is exact.
ConfirmedOnce == /\ Ids({x[3] : x \in Places}) \cap confirmed = {}
                 /\ \A i \in Id : recorded[i] <= 1 + unsure[i]

\* However often an event is merged, queued again and merged again, a record
\* counts each of its events once, and all of them are of its session and kind.
CountsTrue == \A x \in Places :
                /\ x[3].count = Cardinality(x[3].ids)
                /\ \A i \in x[3].ids : origin[i] = <<x[3].session, x[3].kind>>

\* A Flush comes to an end however the server answers.
FlushReturns == \A f \in Flusher : pc[f] # "idle" ~> pc[f] = "idle"

\* Once requests, writes and processes no longer fail, every accepted event
\* reaches the server, or is one of those lost before.
EventuallyRecorded ==
  \A i \in Id : i \in tracked ~> i \in Recorded \cup crashed \cup trimmed \cup unwritten

-----------------------------------------------------------------------------
\* The inductive invariant (Delivery_proofs).  Where the events are:
InFile == Ids(Range(queue))
InHands(f) == Ids(Held(f))

\* No two records of a sequence stand for the same event.
Distinct(recs) == \A i, j \in 1..Len(recs) : i # j => recs[i].ids \cap recs[j].ids = {}

\* What each step of Flush has in hand.
Sending == {"post", "wait", "failed"}
Fits(f) ==
  /\ rest[f] # <<>> <=> pc[f] \in {"merge", "rebuffer"}
  /\ pc[f] \in {"idle", "rebuffer"} => merged[f] = <<>>
  /\ pc[f] \in Sending => sent[f] < Len(merged[f])
  /\ pc[f] \notin Sending => sent[f] = 0 /\ attempt[f] = 0
  /\ pc[f] = "wait" => attempt[f] < MaxRetries
InPhase == \A f \in Flusher : Fits(f)

\* A process that runs has a session.
InSession == \A p \in running : starts[p] > 0

Apart == /\ Distinct(queue)
         /\ \A f \in Flusher : /\ Distinct(rest[f]) /\ Distinct(Unsent(f))
                                /\ Ids(Range(rest[f])) \cap Ids(Range(Unsent(f))) = {}
                                /\ InFile \cap InHands(f) = {}
         /\ \A f, g \in Flusher : f # g => InHands(f) \cap InHands(g) = {}

\* A record stands for as many events as it counts, all as they were tracked.
Genuine(r) == /\ r.count = Cardinality(r.ids)
              /\ \A i \in r.ids : i <= Len(origin) /\ origin[i] = <<r.session, r.kind>>
AllGenuine == \A r \in Range(queue) \cup UNION {Held(f) : f \in Flusher} : Genuine(r)

Accounted == tracked \subseteq InFile \cup (UNION {InHands(f) : f \in Flusher}) \cup Recorded
                                \cup crashed \cup trimmed \cup unwritten

\* The server's books: every recording was answered 2xx, once, or is unsure.
Ledger == /\ \A i \in confirmed : /\ i <= Len(origin) /\ i \notin InFile
                                   /\ \A f \in Flusher : i \notin InHands(f)
          /\ \A i \in Id : recorded[i] = unsure[i] + IF i \in confirmed THEN 1 ELSE 0

IInv == TypeOK /\ InPhase /\ InSession /\ Apart /\ AllGenuine /\ Accounted /\ Ledger
=============================================================================
