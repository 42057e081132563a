------------------------------ MODULE DeviceId ------------------------------
(***************************************************************************)
(* GetOrCreateDeviceID (device.go): read fus_device_id and, when it holds  *)
(* nothing or cannot be read, generate an ID and write it.  NewLogger calls *)
(* it without a lock, from any number of processes that share the data     *)
(* directory, and a process can die between os.WriteFile's truncation and  *)
(* its write, or half-way through the write.                               *)
(***************************************************************************)
EXTENDS Naturals

CONSTANTS Caller,   \* calls of GetOrCreateDeviceID, in any process
          Absent    \* the content of a file that is missing or blank

\* Every call generates an ID of its own: the caller names it.
ASSUME DeviceAssumption == Absent \notin Caller \X {"whole", "part"}

\* A part of an ID is what a write cut short leaves.
Content == {Absent} \cup (Caller \X {"whole", "part"})

VARIABLES content, \* what fus_device_id holds
          pc,      \* where each call is
          result,  \* what it has returned, Absent before that or on an error
          overlap, \* whether two calls were creating an ID at the same time
          unread,  \* whether a call has failed to read a file with an ID in it
          replaced \* the calls that had returned when the file was truncated

vars == <<content, pc, result, overlap, unread, replaced>>

Init == /\ content = Absent
        /\ pc = [c \in Caller |-> "read"]
        /\ result = [c \in Caller |-> Absent]
        /\ overlap = FALSE
        /\ unread = FALSE
        /\ replaced = {}

Creating == {c \in Caller : pc[c] \in {"create", "write"}}
Goto(c, from, to) == pc[c] = from /\ pc' = [pc EXCEPT ![c] = to]

Returned == {c \in Caller : pc[c] = "done"}

\* os.ReadFile and TrimSpace.  An error of os.ReadFile, whatever its reason, is
\* taken for a file that is absent: the call goes on to create an ID.
Found == content # Absent
Read(c) == \/ /\ Found
              /\ Goto(c, "read", "done")
              /\ result' = [result EXCEPT ![c] = content]
              /\ UNCHANGED <<content, overlap, unread, replaced>>
           \/ /\ Goto(c, "read", "create")
              /\ overlap' = (overlap \/ Creating # {})
              /\ unread' = (unread \/ Found)
              /\ UNCHANGED <<content, result, replaced>>

\* generateDeviceID, MkdirAll, and the O_TRUNC of os.WriteFile.
Truncate(c) == /\ Goto(c, "create", "write")
               /\ content' = Absent
               /\ replaced' = Returned
               /\ UNCHANGED <<result, overlap, unread>>

\* The write at offset 0 covers what another call has written since: the IDs
\* all have the same length.
\* Mutant: a line end is written with the ID, and not trimmed when it is read.
WriteLine(c) == /\ Goto(c, "write", "done")
                /\ content' = <<c, "line">>
                /\ result' = [result EXCEPT ![c] = content']
                /\ UNCHANGED <<overlap, unread, replaced>>
Write(c) == /\ Goto(c, "write", "done")
            /\ content' = <<c, "whole">>
            /\ result' = [result EXCEPT ![c] = content']
            /\ UNCHANGED <<overlap, unread, replaced>>

\* The write stops half-way, or the process dies.  Mutant: the error of
\* os.WriteFile is ignored.
TornIgnored(c) == /\ Goto(c, "write", "done")
                  /\ content' = <<c, "part">>
                  /\ result' = [result EXCEPT ![c] = <<c, "whole">>]
                  /\ UNCHANGED <<overlap, unread, replaced>>
TornWrite(c) == /\ Goto(c, "write", "failed")
                /\ content' = <<c, "part">>
                /\ UNCHANGED <<result, overlap, unread, replaced>>

\* An error, or the death of the process, before the file changes any more.
Fail(c) == /\ pc[c] \in {"read", "create", "write"}
           /\ pc' = [pc EXCEPT ![c] = "failed"]
           /\ UNCHANGED <<content, result, overlap, unread, replaced>>

Next == \E c \in Caller : Read(c) \/ Truncate(c) \/ Write(c) \/ TornWrite(c) \/ Fail(c)
Spec == Init /\ [][Next]_vars

-----------------------------------------------------------------------------
TypeOK == /\ content \in Content
          /\ pc \in [Caller -> {"read", "create", "write", "done", "failed"}]
          /\ result \in [Caller -> Content]
          /\ overlap \in BOOLEAN
          /\ unread \in BOOLEAN
          /\ replaced \in SUBSET Caller

\* As long as no two calls create an ID at the same time, though each of them
\* may fail or die at any step, even inside the write: the calls that return
\* between one truncation of the file and the next agree, and no call that has
\* returned an ID sees it replaced unless a later call failed to read the file
\* (device.go:19-43).
SoleCreatorAgrees == ~overlap =>
    /\ \A c, d \in Returned \ replaced : result[c] = result[d]
    /\ ~unread => replaced = {}

\* Why: a creator is alone, and has the file without an ID once it has truncated
\* it; from its write to the next truncation the file keeps the ID that calls
\* return.  Without a failed read nobody creates over an ID.
IInv == /\ TypeOK
        /\ ~overlap => /\ \A c, d \in Creating : c = d
                       /\ \A c \in Caller : pc[c] = "write" => ~Found
                       /\ \A c \in Returned \ replaced : Found /\ result[c] = content
                       /\ ~unread => /\ replaced = {}
                                     /\ Creating # {} => ~Found
=============================================================================
