----------------------------- MODULE BufferFile -----------------------------
(***************************************************************************)
(* fus_buffer.jsonl as its readers see it (buffer.go).                     *)
(*                                                                         *)
(* A file is the sequence of the records a scan could return, oldest       *)
(* first, and the state of its tail.  Lines that do not parse are not in   *)
(* the sequence: scanEvents skips them and nothing else looks at them.     *)
(* What a failed write leaves behind the last newline does matter, because *)
(* the next write is glued to it:                                          *)
(*   "ended"    the file is empty or ends with a newline                   *)
(*   "partial"  it ends with bytes that are not a whole record             *)
(*   "unended"  it ends with a whole record whose newline is missing       *)
(* LongEvent are the events whose line exceeds the scanner's 1 MiB limit.  *)
(* The lines of the others are taken to be so short that one of them glued *)
(* to what a failed write left behind does not exceed it either; where two *)
(* do together, the scanner stops there as it does at a long line.         *)
(***************************************************************************)
EXTENDS Naturals, Sequences, FiniteSets

CONSTANTS Event,     \* what a line of the file holds
          LongEvent, \* those whose line the scanner refuses
          MaxSize    \* maxSize, the number of events Trim keeps

\* newBuffer replaces a maxSize that is not positive by the default.
ASSUME BufferAssumption == /\ LongEvent \subseteq Event
                           /\ MaxSize \in Nat \ {0}

Tails == {"ended", "partial", "unended"}
File == [recs : Seq(Event), tail : Tails]
Empty == [recs |-> <<>>, tail |-> "ended"]

-----------------------------------------------------------------------------
\* Reading.  The scanner stops at the first line that is too long, and the
\* error it then holds is never asked for: what lies behind is not returned.
Cut(f) == Cardinality({n \in 1..Len(f.recs) :
                         \A i \in 1..n : f.recs[i] \notin LongEvent})

\* Mutant: a last line without its newline is not returned.
EndedLines(f) == SubSeq(f.recs, 1, IF f.tail = "unended" THEN Cut(f) - 1 ELSE Cut(f))
scanEvents(f) == SubSeq(f.recs, 1, Cut(f))

\* What Trim discards and keeps of a file with more than MaxSize readable events.
Overfull(f) == Cut(f) > MaxSize
Oldest(f) == SubSeq(f.recs, 1, Cut(f) - MaxSize)
\* Mutant: the slice starts one too late.
NewestButOne(f) == SubSeq(f.recs, Cut(f) - MaxSize + 2, Cut(f))
Newest(f) == SubSeq(f.recs, Cut(f) - MaxSize + 1, Cut(f))

-----------------------------------------------------------------------------
\* Writing.  Two records on one line are read as neither; a line that is too
\* long stays too long whatever is glued to it.
Spoiled(f) == IF /\ f.tail = "unended"
                 /\ f.recs[Len(f.recs)] \notin LongEvent
                THEN SubSeq(f.recs, 1, Len(f.recs) - 1)
                ELSE f.recs

\* Mutant: the line holds a JSON array, not an event.
WithArray(f, e) == Append(Spoiled(f), <<e>>)
\* The records once all the bytes of e but its newline are in the file.
WithRecord(f, e) == IF f.tail = "ended" \/ e \in LongEvent
                      THEN Append(Spoiled(f), e)
                      ELSE Spoiled(f)

\* f.Write(line) writes the line to its end.
Landed(f, e) == [recs |-> WithRecord(f, e), tail |-> "ended"]

\* f.Write(line) fails, or the process dies, after some bytes: they are a part
\* of the record, or all of it but the newline.
Torn(f, e) == {[recs |-> Spoiled(f), tail |-> "partial"]} \cup
              (IF f.tail = "ended" \/ e \in LongEvent
                 THEN {[recs |-> WithRecord(f, e), tail |-> "unended"]}
                 ELSE {})
=============================================================================
