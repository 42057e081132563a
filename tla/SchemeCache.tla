---------------------------- MODULE SchemeCache ----------------------------
(***************************************************************************)
(* LoadOrFetchScheme (metadata.go): the scheme is cached in one file and   *)
(* the time it was stored in a second one.  Calls of any number of         *)
(* processes read both files, ask the remote when the cache is not fresh,  *)
(* and write the two files one after the other, each write a truncation    *)
(* and then a write; a read that fails is taken for a cache that is not    *)
(* there, write errors are ignored, and a process can die at every step.   *)
(* All calls ask for the same schemeURL.                                   *)
(***************************************************************************)
EXTENDS Integers

CONSTANTS Caller,   \* calls of LoadOrFetchScheme that can be in progress at once
          Nothing,  \* a file that is missing or does not parse
          TTL,      \* metadataCacheTTL
          MaxTime,  \* bound: the clock
          MaxFaults \* bound: writes that fail and processes that die

\* A scheme is known by the time it was served at; it may have no groups.
Scheme == [at : 0..MaxTime, groups : BOOLEAN]
Answer == [from : {"cache", "fallback", "remote"}, scheme : Scheme, age : 0..MaxTime] \cup
          {[from |-> "error"]}

ASSUME CacheAssumption == /\ TTL \in Nat \ {0} /\ MaxTime \in Nat /\ MaxFaults \in Nat
                          /\ Nothing \notin Int \cup Scheme \cup Answer

VARIABLES now,     \* the clock, in units much longer than a call
          data,    \* events-scheme.json
          stamp,   \* events-scheme.json.meta
          pc,      \* where each call is
          cached,  \* the local variable cached
          fetched, \* the scheme fetched from the remote
          answer   \* what the last call of each caller returned

\* What only the properties, and the bounds, read.
VARIABLES stored,  \* the scheme a call has written last
          raced,   \* calls that read the files while another call was storing
          unread,  \* calls whose read of the scheme failed
          overlap, \* whether two calls stored at once
          broken,  \* whether a write of the scheme was cut short or failed
          faults

files == <<data, stamp>>
ghost == <<stored, raced, unread, overlap, broken>>
vars  == <<now, files, pc, cached, fetched, answer, ghost, faults>>

Init == /\ now = 0 /\ data = Nothing /\ stamp = Nothing
        /\ pc = [c \in Caller |-> "idle"]
        /\ cached = [c \in Caller |-> Nothing]
        /\ fetched = [c \in Caller |-> Nothing]
        /\ answer = [c \in Caller |-> Nothing]
        /\ stored = Nothing /\ raced = {} /\ unread = {}
        /\ overlap = FALSE /\ broken = FALSE /\ faults = 0

Goto(c, from, to) == pc[c] = from /\ pc' = [pc EXCEPT ![c] = to]
Reading(c) == {d \in Caller \ {c} : pc[d] \in {"check", "fetch"}}
Storing == {c \in Caller : pc[c] \in {"truncate", "write", "truncateMeta", "writeMeta"}}

\* The call returns; its local variables are gone.
Leave(c, a) == /\ pc' = [pc EXCEPT ![c] = "idle"]
               /\ answer' = [answer EXCEPT ![c] = a]
               /\ cached' = [cached EXCEPT ![c] = Nothing]
               /\ fetched' = [fetched EXCEPT ![c] = Nothing]
Return(c, from, s) == Leave(c, [from |-> from, scheme |-> s, age |-> now - s.at])

-----------------------------------------------------------------------------
\* Time passes between calls.
Tick == /\ now < MaxTime /\ \A c \in Caller : pc[c] = "idle"
        /\ now' = now + 1
        /\ UNCHANGED <<files, pc, cached, fetched, answer, ghost, faults>>

Call(c) == /\ Goto(c, "idle", "read")
           /\ answer' = [answer EXCEPT ![c] = Nothing]
           /\ UNCHANGED <<now, files, cached, fetched, ghost, faults>>

\* cacheErr == nil && len(cached.Groups) > 0.  Mutant: only the first half.
Parsed(s) == s # Nothing
Usable(s) == s # Nothing /\ s.groups

\* LoadSchemeFromFile.  Its read may fail, whatever the file holds: the cache is
\* not usable for this call then.
Load(c) == /\ \/ /\ Goto(c, "read", IF Usable(data) THEN "check" ELSE "fetch")
                 /\ cached' = [cached EXCEPT ![c] = data]
                 /\ unread' = unread \ {c}
              \/ /\ Goto(c, "read", "fetch")
                 /\ unread' = unread \cup {c}
                 /\ UNCHANGED cached
           /\ raced' = IF Storing = {} THEN raced \ {c} ELSE raced \cup {c}
           /\ UNCHANGED <<now, files, fetched, answer, stored, overlap, broken, faults>>

\* Mutant: a scheme is fresh for a moment too long.
isCacheFreshAtTTL == stamp # Nothing /\ now - stamp <= TTL
isCacheFresh == stamp # Nothing /\ now - stamp < TTL

\* A timestamp that cannot be read is taken for an old one.
Check(c) == /\ pc[c] = "check"
            /\ \/ isCacheFresh /\ Return(c, "cache", cached[c])
               \/ Goto(c, "check", "fetch") /\ UNCHANGED <<cached, fetched, answer>>
            /\ UNCHANGED <<now, files, ghost, faults>>

\* FetchScheme decodes a 200; what it decodes may hold no groups.
FetchOk(c) == /\ Goto(c, "fetch", "truncate")
              /\ \E g \in BOOLEAN : fetched' = [fetched EXCEPT ![c] = [at |-> now, groups |-> g]]
              /\ raced' = raced \cup Reading(c)
              /\ overlap' = (overlap \/ Storing # {})
              /\ UNCHANGED <<now, files, cached, answer, stored, unread, broken, faults>>

FetchFails(c) == /\ pc[c] = "fetch"
                 /\ IF Usable(cached[c])
                      THEN Return(c, "fallback", cached[c])
                      ELSE Leave(c, [from |-> "error"])
                 /\ UNCHANGED <<now, files, ghost, faults>>

-----------------------------------------------------------------------------
\* writeSchemeCache: os.WriteFile opens and truncates, then writes; an error
\* at either is ignored, and the next file is written all the same.
Fault == faults < MaxFaults /\ faults' = faults + 1

TruncateData(c) ==
  \/ /\ Goto(c, "truncate", "write")
     /\ data' = Nothing
     /\ UNCHANGED <<now, stamp, cached, fetched, answer, ghost, faults>>
  \/ /\ Goto(c, "truncate", "truncateMeta") /\ Fault
     /\ broken' = TRUE
     /\ UNCHANGED <<now, files, cached, fetched, answer, stored, raced, unread, overlap>>

\* When another call has written since the truncation, the end of a longer
\* text is left behind this one, and the file does not parse.
WriteData(c) ==
  /\ Goto(c, "write", "truncateMeta")
  /\ \/ /\ data' \in {fetched[c]} \cup (IF data = Nothing THEN {} ELSE {Nothing})
        /\ stored' = fetched[c]
        /\ UNCHANGED <<broken, faults>>
     \/ data' = Nothing /\ broken' = TRUE /\ Fault /\ UNCHANGED stored
  /\ UNCHANGED <<now, stamp, cached, fetched, answer, raced, unread, overlap>>

TruncateMeta(c) ==
  /\ \/ /\ Goto(c, "truncateMeta", "writeMeta")
        /\ stamp' = Nothing
        /\ UNCHANGED <<cached, fetched, answer, faults>>
     \/ /\ pc[c] = "truncateMeta" /\ Fault
        /\ Return(c, "remote", fetched[c])
        /\ UNCHANGED stamp
  /\ UNCHANGED <<now, data, ghost>>

\* Mutant: the time at which the scheme expires.
Expiry == now + TTL
Time == now

\* A timestamp that is cut short reads as one of long ago.
WriteMeta(c) ==
  /\ pc[c] = "writeMeta"
  /\ Return(c, "remote", fetched[c])
  /\ \/ stamp' = Time /\ UNCHANGED faults
     \/ Fault /\ UNCHANGED stamp
  /\ UNCHANGED <<now, data, ghost>>

\* The process dies; its caller is a new one from now on.
Die(c) == /\ pc[c] # "idle" /\ Fault
          /\ Leave(c, Nothing)
          /\ broken' = (broken \/ pc[c] = "write")
          /\ UNCHANGED <<now, files, stored, raced, unread, overlap>>

-----------------------------------------------------------------------------
Next == \/ Tick
        \/ \E c \in Caller : \/ Call(c) \/ Load(c) \/ Check(c) \/ FetchOk(c) \/ FetchFails(c)
                             \/ TruncateData(c) \/ WriteData(c) \/ TruncateMeta(c)
                             \/ WriteMeta(c) \/ Die(c)
Spec == Init /\ [][Next]_vars

-----------------------------------------------------------------------------
Steps == {"idle", "read", "check", "fetch", "truncate", "write", "truncateMeta", "writeMeta"}
TypeOK == /\ now \in 0..MaxTime /\ faults \in 0..MaxFaults
          /\ data \in Scheme \cup {Nothing} /\ stamp \in (0..MaxTime) \cup {Nothing}
          /\ pc \in [Caller -> Steps]
          /\ cached \in [Caller -> Scheme \cup {Nothing}]
          /\ fetched \in [Caller -> Scheme \cup {Nothing}]
          /\ answer \in [Caller -> Answer \cup {Nothing}]
          /\ stored \in Scheme \cup {Nothing} /\ raced \subseteq Caller /\ unread \subseteq Caller
          /\ overlap \in BOOLEAN /\ broken \in BOOLEAN

Answered(c, from) == answer[c] # Nothing /\ answer[c].from \in from

\* "a disk cache in dataDir with TTL-based freshness" (metadata.go:44), for two
\* files that may disagree: one is written before the other, either write can
\* fail or be the last thing a process does.  A scheme that is returned without
\* asking the remote is younger than the TTL, unless a write of a scheme has
\* failed, or another call was storing one at some time between this call's
\* two reads.  Two calls that store at once do no harm to later ones.
FreshUnlessDisturbed ==
  ~broken => \A c \in Caller \ raced : Answered(c, {"cache"}) => answer[c].age < TTL

\* "When the remote is unreachable it falls back to the cached copy"
\* (metadata.go:44-45).  The cache that is returned, or fallen back to, is the
\* last scheme that was stored, and it is missed only when it has no groups or
\* this call failed to read its file, unless a write has failed, two calls
\* stored at once, or another stored during this call.
FallbackUnlessDisturbed ==
  ~overlap /\ ~broken => \A c \in Caller \ raced :
    /\ pc[c] \in {"check", "fetch"} /\ c \notin unread /\ Usable(stored) => cached[c] = stored
    /\ Answered(c, {"cache", "fallback"}) => answer[c].scheme.groups

\* Why, for the first: the timestamp is never later than the scheme beside it,
\* and a call that reads undisturbed has read the scheme that is in the file, or
\* nothing.
InStore == {"truncate", "write", "truncateMeta", "writeMeta"}
Current(c) == pc[c] \in {"check", "fetch"} /\ c \notin raced =>
                /\ Storing = {}
                /\ cached[c] = data \/ (c \in unread /\ cached[c] = Nothing)
Settled(c) ==
  /\ pc[c] \in {"check", "fetch"} => cached[c] = Nothing \/ cached[c].at <= now
  /\ pc[c] = "check" => Usable(cached[c])
  /\ pc[c] \in {"idle", "read"} => cached[c] = Nothing
  /\ pc[c] \in InStore => fetched[c] # Nothing /\ fetched[c].at = now
  /\ pc[c] \in {"truncateMeta", "writeMeta"} /\ ~broken => data = Nothing \/ data.at = now
  /\ answer[c] # Nothing => pc[c] = "idle"
  /\ Answered(c, {"cache", "fallback"}) => answer[c].scheme.groups
NeverAhead == ~broken /\ data # Nothing /\ stamp # Nothing => stamp <= data.at
IInv == /\ TypeOK /\ NeverAhead /\ FreshUnlessDisturbed
        /\ data = Nothing \/ data.at <= now
        /\ stamp = Nothing \/ stamp <= now
        /\ \A c \in Caller : Current(c) /\ Settled(c)

\* For the second: without an overlap one call stores at a time, and the file
\* holds what was stored last except while that call rewrites it.
Sole == \A c, d \in Storing : c = d
Latest == /\ Storing \subseteq {c \in Caller : pc[c] = "truncate"} => data = stored
          /\ \A c \in Caller :
               /\ pc[c] = "write" => data = Nothing
               /\ pc[c] \in {"truncateMeta", "writeMeta"} => data = stored
JInv == IInv /\ (~overlap /\ ~broken => Sole /\ Latest)
=============================================================================
