------------------------------ MODULE Startup ------------------------------
(***************************************************************************)
(* Where a Logger gets its salt from: NewLogger (logger.go) takes the      *)
(* FUSConfig it is passed, or LoadOrFetchConfig (config.go) reads it from  *)
(* the cache file or the remote; then it puts the product's salt into the  *)
(* FUSConfig, refuses to start without one, and hashes the session ID.     *)
(* Track reads the salt again for every event.  The cache file is shared   *)
(* by all processes, a FUSConfig by the Loggers it is passed to: NewLogger *)
(* and Track of different Loggers run concurrently on it, without a lock.  *)
(***************************************************************************)
EXTENDS Integers

CONSTANTS Logger,   \* Loggers, in any number of processes
          Shared,   \* the FUSConfig objects passed with WithFUSConfig
          Given,    \* ways to pass them: which one each Logger gets, or Nothing
          Salt,     \* salts, other than the empty one
          NoSalt,   \* the empty salt
          Product,  \* RecorderConfig.AnonymizationSalt of each Logger
          Nothing,  \* a file that is missing or does not parse; no value yet
          TTL,      \* configCacheTTL
          MaxTime,  \* bound: the clock
          MaxFaults \* bound: writes cut short

\* fetchConfig fills in a send endpoint: every config it returns is usable.
Config == [salt : Salt \cup {NoSalt}, at : 0..MaxTime]

ASSUME StartupAssumption == /\ Given \subseteq [Logger -> Shared \cup {Nothing}]
                            /\ Product \in [Logger -> Salt \cup {NoSalt}]
                            /\ Logger \cap Shared = {} /\ Nothing \notin Shared
                            /\ NoSalt \notin Salt /\ Nothing \notin Salt \cup {NoSalt} \cup Config
                            /\ TTL \in Nat \ {0} /\ MaxTime \in Nat /\ MaxFaults \in Nat

VARIABLES given,   \* the FUSConfig each Logger is passed; it never changes
          now,     \* the clock
          file,    \* fus_config.json
          salt,    \* the Salt field of each FUSConfig
          pc,      \* where each NewLogger is; "running" once it has returned
          config,  \* what it has read from the file, or fetched
          read,    \* the value of Salt that cmp.Or was called with
          session, \* the salt the session ID is hashed with
          device   \* the salt the device ID of the last event is hashed with

\* What only the properties, and the bounds, read.
VARIABLES stored,  \* whether a config was ever written to the file
          overlap, \* whether one call wrote the file while another was in LoadOrFetchConfig
          unread,  \* calls whose read of the file failed
          broken,  \* whether the last write to the file was cut short
          faults

local == <<config, read, session, device>>
ghost == <<stored, overlap, unread, broken, faults>>
vars  == <<given, now, file, salt, pc, local, ghost>>

Object(l) == IF given[l] = Nothing THEN l ELSE given[l]

Init == /\ given \in Given
        /\ now = 0 /\ file = Nothing
        /\ salt \in [Logger \cup Shared -> Salt \cup {NoSalt}]
        /\ \A l \in Logger : salt[l] = NoSalt
        /\ pc = [l \in Logger |-> "idle"]
        /\ config = [l \in Logger |-> Nothing] /\ read = [l \in Logger |-> Nothing]
        /\ session = [l \in Logger |-> Nothing] /\ device = [l \in Logger |-> Nothing]
        /\ stored = FALSE /\ overlap = FALSE /\ unread = {} /\ broken = FALSE /\ faults = 0

Goto(l, from, to) == pc[l] = from /\ pc' = [pc EXCEPT ![l] = to]
Fault == faults < MaxFaults /\ faults' = faults + 1
Loading == {l \in Logger : pc[l] \in {"load", "fetch", "truncate", "write"}}
Writing == {l \in Logger : pc[l] \in {"truncate", "write"}}

Tick == /\ now < MaxTime /\ Loading = {}
        /\ now' = now + 1
        /\ UNCHANGED <<given, file, salt, pc, local, ghost>>

-----------------------------------------------------------------------------
\* A FUSConfig that is passed is used as it is.
NewLogger(l) == /\ Goto(l, "idle", IF given[l] = Nothing THEN "load" ELSE "or")
                /\ overlap' = (overlap \/ (given[l] = Nothing /\ Writing # {}))
                /\ UNCHANGED <<given, now, file, salt, local, stored, unread, broken, faults>>

Fresh(c) == c # Nothing /\ now - c.at < TTL

\* loadOrFetchConfigCtx: the context is done already.
Cancelled(l) == /\ Goto(l, "load", "noConfig")
                /\ UNCHANGED <<given, now, file, salt, local, ghost>>

\* loadCachedConfig.  Its read may fail, whatever the file holds: the cached
\* config is not usable for this call then.
Load(l) == /\ \/ /\ Goto(l, "load", IF Fresh(file) THEN "or" ELSE "fetch")
                 /\ config' = [config EXCEPT ![l] = IF Fresh(file) THEN Nothing ELSE file]
                 /\ salt' = IF Fresh(file) THEN [salt EXCEPT ![l] = file.salt] ELSE salt
                 /\ unread' = unread \ {l}
              \/ /\ Goto(l, "load", "fetch")
                 /\ unread' = unread \cup {l}
                 /\ UNCHANGED <<config, salt>>
           /\ UNCHANGED <<given, now, file, read, session, device, stored, overlap, broken, faults>>

\* Mutant: when the config expires.
ExpiresAt == now + TTL
FetchedAt == now

FetchOk(l) == /\ Goto(l, "fetch", "truncate")
              /\ \E s \in Salt \cup {NoSalt} :
                   /\ config' = [config EXCEPT ![l] = [salt |-> s, at |-> FetchedAt]]
                   /\ salt' = [salt EXCEPT ![l] = s]
              /\ overlap' = (overlap \/ Loading # {l})
              /\ UNCHANGED <<given, now, file, read, session, device, stored, unread, broken, faults>>

\* A cached config is used however old it is.  Mutant: only a fresh one is.
FallsBackIfFresh(c) == Fresh(c)
FallsBack(c) == c # Nothing

FetchFails(l) == /\ Goto(l, "fetch", IF FallsBack(config[l]) THEN "or" ELSE "noConfig")
                 /\ salt' = IF FallsBack(config[l]) THEN [salt EXCEPT ![l] = config[l].salt] ELSE salt
                 /\ config' = [config EXCEPT ![l] = Nothing]
                 /\ UNCHANGED <<given, now, file, read, session, device, ghost>>

\* writeCache: open and truncate, then write; errors are ignored.
Truncate(l) == \/ /\ Goto(l, "truncate", "write")
                  /\ file' = Nothing
                  /\ UNCHANGED <<given, now, salt, local, ghost>>
               \/ /\ Goto(l, "truncate", "or") /\ Fault
                  /\ config' = [config EXCEPT ![l] = Nothing]
                  /\ UNCHANGED <<given, now, file, salt, read, session, device, stored, overlap, unread, broken>>

\* A shorter text written over that of another call does not parse.
Write(l) == /\ Goto(l, "write", "or")
            /\ \/ /\ file' \in {config[l]} \cup (IF file = Nothing THEN {} ELSE {Nothing})
                  /\ stored' = TRUE /\ broken' = FALSE
                  /\ UNCHANGED faults
               \/ file' = Nothing /\ broken' = TRUE /\ Fault /\ UNCHANGED stored
            /\ config' = [config EXCEPT ![l] = Nothing]
            /\ UNCHANGED <<given, now, salt, read, session, device, overlap, unread>>

-----------------------------------------------------------------------------
\* l.fusConfig.Salt = cmp.Or(cfg.AnonymizationSalt, l.fusConfig.Salt)
ReadSalt(l) == /\ Goto(l, "or", "set")
               /\ read' = [read EXCEPT ![l] = salt[Object(l)]]
               /\ UNCHANGED <<given, now, file, salt, config, session, device, ghost>>

\* Mutant: the salt of the public config goes first.
PublicFirst(l) == IF read[l] # NoSalt THEN read[l] ELSE Product[l]
Or(l) == IF Product[l] # NoSalt THEN Product[l] ELSE read[l]

SetSalt(l) == /\ Goto(l, "set", "check")
              /\ salt' = [salt EXCEPT ![Object(l)] = Or(l)]
              /\ read' = [read EXCEPT ![l] = Nothing]
              /\ UNCHANGED <<given, now, file, config, session, device, ghost>>

\* Mutant: an empty salt is let through.
Unchecked(l) == TRUE
Salted(l) == salt[Object(l)] # NoSalt

\* The salt and the validator: NewLogger refuses to start without either.
Check(l) == /\ \/ Goto(l, "check", "session") /\ Salted(l)
               \/ Goto(l, "check", "refused")
            /\ UNCHANGED <<given, now, file, salt, local, ghost>>

\* Mutant: the salt of the RecorderConfig.
ProductSalt(l) == Product[l]
SessionSalt(l) == salt[Object(l)]

Session(l) == /\ Goto(l, "session", "running")
              /\ session' = [session EXCEPT ![l] = SessionSalt(l)]
              /\ UNCHANGED <<given, now, file, salt, config, read, device, ghost>>

Track(l) == /\ pc[l] = "running"
            /\ device' = [device EXCEPT ![l] = salt[Object(l)]]
            /\ UNCHANGED <<given, now, file, salt, pc, config, read, session, ghost>>

\* The process dies, or the Logger is not used any more.
Drop(l) == /\ pc[l] # "idle"
           /\ pc' = [pc EXCEPT ![l] = "idle"]
           /\ salt' = [salt EXCEPT ![l] = NoSalt]
           /\ config' = [config EXCEPT ![l] = Nothing] /\ read' = [read EXCEPT ![l] = Nothing]
           /\ session' = [session EXCEPT ![l] = Nothing] /\ device' = [device EXCEPT ![l] = Nothing]
           /\ broken' = (broken \/ pc[l] = "write")
           /\ UNCHANGED <<given, now, file, stored, overlap, unread, faults>>

Next == \/ Tick
        \/ \E l \in Logger : \/ NewLogger(l) \/ Cancelled(l) \/ Load(l) \/ FetchOk(l) \/ FetchFails(l)
                             \/ Truncate(l) \/ Write(l) \/ ReadSalt(l) \/ SetSalt(l)
                             \/ Check(l) \/ Session(l) \/ Track(l) \/ Drop(l)
Spec == Init /\ [][Next]_vars

-----------------------------------------------------------------------------
Steps == {"idle", "load", "fetch", "truncate", "write", "or", "set", "check", "session",
          "running", "noConfig", "refused"}
AnySalt == Salt \cup {NoSalt, Nothing}
TypeOK == /\ given \in Given
          /\ now \in 0..MaxTime /\ faults \in 0..MaxFaults
          /\ unread \subseteq Logger
          /\ file \in Config \cup {Nothing} /\ {stored, overlap, broken} \subseteq BOOLEAN
          /\ salt \in [Logger \cup Shared -> Salt \cup {NoSalt}]
          /\ pc \in [Logger -> Steps]
          /\ config \in [Logger -> Config \cup {Nothing}]
          /\ {read, session, device} \subseteq [Logger -> AnySalt]

\* Fail-closed (README.md:87): nothing is hashed with the empty salt, neither
\* the session nor the device of any event, wherever the salt comes from, as
\* long as the Loggers that share a FUSConfig agree on the product's salt (one
\* without a salt can write the empty one it has read over that of another).
FailClosed == \A l \in Logger : NoSalt \notin {session[l], device[l]}

\* The events of a Logger hash the device with the salt its session was hashed
\* with: the IDs of one Logger can be told to be of one device.
OneSalt == \A l \in Logger : device[l] # Nothing => device[l] = session[l]

\* A salt that the product supplies is the one its Logger hashes with: it
\* "Takes priority over any salt in the public config", recorder.go:28.
OwnSalt == \A l \in Logger :
             Product[l] # NoSalt => {session[l], device[l]} \subseteq {Product[l], Nothing}

\* Loggers that share a FUSConfig are of one product.
SharersAgree == \A g \in Given : \A l, m \in Logger :
                  g[l] = g[m] /\ g[l] # Nothing => Product[l] = Product[m]

\* Why: once a Logger has written its salt, those it shares the FUSConfig with
\* write the same one, the product's, or else the one they have read.
HasOwn(l) == Product[l] # NoSalt => salt[Object(l)] = Product[l]
Settled(l) ==
  /\ pc[l] = "set" /\ Product[l] = NoSalt => read[l] = salt[Object(l)]
  /\ pc[l] \in {"check", "session", "running"} => HasOwn(l)
  /\ pc[l] \in {"session", "running"} => salt[Object(l)] # NoSalt
  /\ pc[l] = "running" => session[l] = salt[Object(l)] /\ device[l] \in {Nothing, session[l]}
  /\ pc[l] # "running" => session[l] = Nothing /\ device[l] = Nothing
ReadFirst == \A l \in Logger : pc[l] = "set" => read[l] \in Salt \cup {NoSalt}
IInv == TypeOK /\ ReadFirst /\ \A l \in Logger : Settled(l)

\* A config that was stored once keeps NewLogger going without the remote, unless
\* this call fails to read it: as long as no call writes the file while another
\* loads, and but for the time from a write that was cut short to the next whole
\* one (config.go:53-72).
StartsOffline ==
  [][\A l \in Logger : /\ pc[l] = "fetch" /\ pc'[l] = "noConfig" /\ l \notin unread
                       /\ ~overlap /\ ~broken
                       => ~stored]_vars

\* Why: a call that writes is alone in LoadOrFetchConfig, so the file holds the
\* stored config whenever another call reads it.
Kept == /\ \A w \in Writing : config[w] # Nothing
        /\ ~overlap => \A w \in Writing : Loading = {w} /\ (pc[w] = "write" => file = Nothing)
        /\ ~overlap /\ ~broken /\ stored =>
             /\ (\A l \in Logger : pc[l] # "write") => file # Nothing
             /\ \A l \in Logger : pc[l] = "fetch" => config[l] # Nothing \/ l \in unread
=============================================================================
