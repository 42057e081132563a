---------------------------- MODULE AtomicBuffer ----------------------------
(***************************************************************************)
(* What buffer.go promises its callers, in whatever goroutine or process   *)
(* they run: each call of Append, ReadAndClear and Trim takes effect in    *)
(* one step, on the file the previous call left.  A call that is cut short *)
(* by a write error or by the death of the process has one of the effects  *)
(* listed here and no other.  EventBuffer, which opens, locks, seeks,      *)
(* scans, truncates and writes, implements this module.                    *)
(***************************************************************************)
EXTENDS BufferFile

VARIABLES file,  \* fus_buffer.jsonl
          taken  \* what the last ReadAndClear handed to its caller

avars == <<file, taken>>

AInit == /\ file = Empty
         /\ taken = <<>>

AppendDone == /\ \E e \in Event : file' = Landed(file, e)
              /\ UNCHANGED taken

AppendTorn == /\ \E e \in Event : file' \in Torn(file, e)
              /\ UNCHANGED taken

TakeAll == /\ taken' = scanEvents(file)
           /\ file' = Empty

TrimDone == /\ Overfull(file)
            /\ file' = [recs |-> Newest(file), tail |-> "ended"]
            /\ UNCHANGED taken

\* The first k of the kept events are back in the file, oldest first, and
\* perhaps a part of the next: the newest are the ones that are lost.
TrimTorn == /\ Overfull(file)
            /\ \E k \in 0..MaxSize - 1 :
                 LET f == [recs |-> SubSeq(Newest(file), 1, k), tail |-> "ended"]
                 IN  file' \in {f} \cup Torn(f, Newest(file)[k + 1])
            /\ UNCHANGED taken

ANext == AppendDone \/ AppendTorn \/ TakeAll \/ TrimDone \/ TrimTorn

ASpec == AInit /\ [][ANext]_avars
=============================================================================
