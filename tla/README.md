# fus-reporting-api-go in TLA+

A model of the client that records feature-usage events on disk and delivers
them to a server: what its parts promise each other when goroutines and
processes interleave, when writes and requests fail, and when a process dies.
Line numbers refer to the files under `src/`.

## The system

An application creates a **Logger** and calls `Track` from any goroutine.
`Track` anonymizes, validates and escapes the event and appends it as one line to
`fus_buffer.jsonl` in the data directory. `Flush` takes all lines of the file,
merges consecutive duplicates, posts them in batches with retries, and appends
what was not sent back to the file. The data directory, and everything in it, is
shared by all processes of the product; within a process a Logger is shared by
its goroutines.

| Component | Code | State | Operations |
|---|---|---|---|
| event buffer | `buffer.go`, `buffer_unix.go`, `buffer_windows.go` | `fus_buffer.jsonl`, the exclusive file lock | `Append`, `ReadAndClear`, `Trim` |
| logger | `logger.go` | `l.mu`, session, salt, the options | `NewLogger`, `Track`, `Flush`, `Close`, the `OnDrop` callback |
| sender | `client.go` | none between calls | `SendBatched`, `Send`, retries with backoff |
| device ID | `device.go` | `fus_device_id` | `GetOrCreateDeviceID`; `ComputeBucket` and `Anonymize` are pure |
| configuration cache | `config.go` | `fus_config.json` | `LoadOrFetchConfig`, `fetchConfig`, the choice of a version |
| scheme cache | `metadata.go`, `LoadSchemeFromFile` | `events-scheme.json` and `events-scheme.json.meta` | `LoadOrFetchScheme`, `FetchScheme` |
| validator | `validator.go` | compiled rules, never changed | `NewValidator`, `Validate` |
| anonymizer | `anonymizer.go` | its fields, never changed | `AnonymizeEvent` |
| escaper | `escaper.go` | none | `escape*` |
| scheme definitions | `definition.go`, `events_scheme.go`, `scheme.go` | none | builders, JSON |
| wire types | `event.go`, `recorder.go` | none | JSON |

How they interact:

- `Track` and `Flush` call the buffer under `l.mu`; other processes call it
  without, so only the file lock orders them. `Flush` posts with `l.mu` free and
  takes it a second time to append what is left.
- `Track` runs the application's callback: without the mutex when an event has too
  many fields, with it when the validator or the buffer rejects the event.
- `NewLogger` trims the buffer, reads or creates the device ID, loads the
  configuration and writes the product's salt into the `FUSConfig`, which the
  application may have passed and may share between Loggers.
- The two caches and the device ID are files that are read and written without
  any lock.

What is hard, and what makes each part correct:

| Component | What is hard | Correct means |
|---|---|---|
| buffer | seek, write, scan and truncate are separate calls; a write stops half-way and the next is glued to it; a line the scanner refuses | each call is atomic; no event is handed out twice or deleted unread; a torn write costs one event at most |
| logger and sender | events are in no file while `Flush` has them; a failed request may have been recorded; two Flushes re-queue at once; crash at every step | an accepted event is somewhere, in one place only, and not sent again once confirmed; merged counts add up; everything arrives in the end |
| `l.mu` | a callback that calls the Logger; a server that never answers | `Track` returns |
| device ID | two processes create it; truncation and write are two steps; a read that fails | calls agree on the ID, and it is not replaced without need |
| scheme cache | scheme and timestamp are two files; failed reads and writes are ignored; the clock | a cached scheme is as young as its timestamp says; the fallback is the last one stored |
| configuration and salt | a shared `FUSConfig` read and written without a lock; a cache cut short or not readable | nothing is hashed with the empty salt or with two salts; a stored configuration is enough to start |
| versions | two parsers and comparisons of dotted versions, one of which trims them; half-open borders | every version has one entry; an upgrade does not go back |
| pipeline | the order of copying, anonymizing, validating and escaping | only what the scheme approves reaches the wire, hashed where declared |

`PROJECT.json` lists the places in the code where these bite (`hazards`), each
with the properties that cover it.

## Modules

| Module | What it is |
|---|---|
| `BufferFile` | the contents of the buffer file: readable records and the state of its tail; scanning, trimming, whole and torn writes |
| `AtomicBuffer` | the abstract specification: each call on the buffer is one step |
| `EventBuffer` | `buffer.go` step by step, any number of clients; refines `AtomicBuffer` |
| `EventBuffer_proofs` | its theorems |
| `Delivery`, `Delivery_proofs` | `Track`, `Flush`, batching, retries, re-queuing, `NewLogger`'s trim, process death; the buffer's calls are those of `AtomicBuffer` |
| `LoggerMutex`, `LoggerMutex_proofs` | `l.mu`, the call stacks of goroutines and the callback |
| `DeviceId`, `DeviceId_proofs` | `GetOrCreateDeviceID` and its theorems |
| `SchemeCache`, `SchemeCache_proofs` | `LoadOrFetchScheme` and its two files |
| `Startup`, `Startup_proofs` | `NewLogger`'s salt: `LoadOrFetchConfig`, its cache file, shared `FUSConfig` objects, and `Track`'s use of the salt |
| `VersionOrder` | the two ways to parse and compare versions (`config.go`, `validator.go`) |
| `Versions`, `Versions_proofs` | the choice of a configuration by version, and the build ranges of the validator |
| `Escaper` | texts, the three ways of escaping them, the hash |
| `Validator` | compilation of a scheme's rules, event IDs, event data, ranges of builds and versions |
| `Declarations` | a product's `Definition`, the validation scheme generated from it, the rules it registers |
| `Pipeline`, `Pipeline_proofs` | `Track` before the buffer: copy, anonymize, validate, escape |
| `MC*` | the instances that TLC checks |

The layers: `BufferFile` is shared by `AtomicBuffer` and `EventBuffer`.
`Delivery` treats each buffer call as one step because `EventBuffer` implements
`AtomicBuffer`, and uses it as `AtomicBuffer` says it behaves: both are proved
(`ImplementsAtomicBuffer`, `UsesAtomicBuffer`). What half-written lines cost is settled below (`TornCostsOne`), so
a write that fails in `Delivery` leaves nothing behind. `LoggerMutex` looks at the
mutex and the callback alone; `Delivery` holds the mutex as one variable per
process and makes `Flush`'s two critical sections the steps they are. `Pipeline`
extends `Declarations`, which extends `Validator`, which extends `Escaper` and
`VersionOrder`; an event that gets through `Pipeline` is one `Track` of `Delivery`.

### State and actions

- **EventBuffer.** `file` is the file as a scan sees it, `size` its length counted in
  writes, `lock` the holders of the exclusive lock, `pc`/`off`/`got` the locals
  of each call. `lockFile`, `Seek`, `Write`, `Scan`, `Clear`, `TrimScan`, `Truncate`
  and `Rewrite` are the calls of `buffer.go` in their order; `TornWrite` and
  `TornRewrite` are writes that stop half-way; `Abandon` is every other error and
  the death of a process. A file is a sequence of records and a tail: text that
  cannot be parsed is skipped by `scanEvents` and matters only when the next line
  is glued to it.
- **Delivery.** `queue` is the file; `rest`, `merged`, `sent`, `attempt` are the locals
  of `Flush`, `mergeEvents`, `SendBatched` and `Send`; `recorded` is the server. Records
  carry a count and, for the properties, the set of events they stand for.
  `PostFails` is a request without a 2xx, recorded or not; whether it is retried
  depends on the status, which is left open.
- **LoggerMutex.** `stack` holds the calls in progress in a goroutine, so that a
  callback can call the Logger from inside `Track`.
- **DeviceId, SchemeCache, Startup.** `os.WriteFile` is a truncation and a write;
  either can fail and a process can die in between. `os.ReadFile` can fail whatever the
  file holds, and the code goes on as if there were none: `unread` keeps the calls it
  happened to. `replaced` has the callers whose device ID may be gone. The clock moves only between
  calls: a call takes seconds, the TTLs are minutes and hours.
- **Pipeline.** A caller tracks one map (`data`) again and again; `asked` is the call,
  `wire` what it appended or why it was dropped, `setup` the schemes: the anonymizer
  works from the local one, the validator from the one in use, which may be the
  remote one. Event data are a function from paths to what is at their end: a path is
  the name of a field, followed by names in nested maps and positions in nested slices
  (a `Position` is a text no escaping changes); at its end is a text, another scalar
  with the text it prints as, nil, or a map or slice with nothing in it. So the walks of
  `anonymizeValue`, `cloneEventDataValue` and `escapeEventDataValue` need no recursion:
  each says what becomes of one path. A text is a word with at most one kind of symbol
  that escaping changes, white space at an end told from a space inside, and a count of how
  often it was hashed. The names of a definition's fields have any of these symbols. `NewValidator`
  compiles rules as the code does: a reference is looked up in the group's table, then
  in the scheme's, and a rule that cannot be resolved rejects. Where two names in one
  map are equal once escaped (`Rivals`) the order of the map decides: `escapeEventData` is
  the set of all outcomes, one for each choice of who survives. The same holds for
  `validateEventData`, where the entry for undeclared fields and a field declared under
  that very name write to one key. A container prints as one text that no rule but a
  pattern for anything accepts.
- **Versions.** A version string is the sequence of its parts; a part may not be a
  number, or may have white space on its outer side, which `Trimmed` takes off. The order the two comparisons are measured by (`Same`, `Earlier`) is stated
  with quantifiers: the first part that differs decides.

## Runs

| Run | Question | Result |
|---|---|---|
| `Buffer` | `AppendAtEnd`, `HandedOnce`, `TornCostsOne`, `ReadsAllEvents`, refinement `AtomicSpec`, `CallsReturn` | hold |
| `BufferLong` | `ReadsAllEvents` with one event over the scanner's limit | violated: the events behind it are deleted unread |
| `Delivery` | two processes: `NothingVanishes`, `OnePlace`, `ConfirmedOnce`, `CountsTrue` | hold |
| `DeliveryLive` | one process, two Flushes at once: `FlushReturns`, `EventuallyRecorded`, `OnePlace` | hold |
| `Mutex` | `MutexScope`, `HolderAtWork`, `TrackReturns`, no deadlock, with a callback that calls `Track` for events with too many fields | hold |
| `MutexCallback` | `TrackReturns` with a callback that calls `Track` on any drop | violated: the goroutine waits for its own mutex |
| `Device` | `SoleCreatorAgrees` | holds |
| `Scheme` | `FreshUnlessDisturbed`, `FallbackUnlessDisturbed` | hold |
| `Startup` | `FailClosed`, `OneSalt`, `OwnSalt`, `StartsOffline` | hold |
| `Versions` | `OneAccepts`, `NeverGoesBack`, `GatesAgree` | hold |
| `Pipeline` | `WireApproved`, `DeclaredGetsThrough`, `HashedOnWire`, `RevalidationStable`, `FieldsKept` | hold |
| `PipelineHash` | `DeclaredIsHashed` without a condition on the event ID | violated: an ID that escaping changes is accepted as the declared event, its fields are not hashed |

Every passing run also checks its module's `TypeOK` (`DeliveryLive` leaves that to
`Delivery`).

The three violations are differences between the code and a sentence of its
documentation; `PROJECT.json` quotes it. The properties of the passing runs state
where the code keeps its promises, and their conditions are what else was met
while modelling:

- `Flush` truncates the buffer before it sends: a process that dies in between
  loses events although "Buffer survives process restarts" (README.md:84);
  `NothingVanishes` counts them as `crashed`.
- `LoadOrFetchScheme` reads the scheme before its timestamp (metadata.go:59, 62):
  when another call stores both in between, an expired scheme is returned
  as fresh; `FreshUnlessDisturbed` excludes such calls (`raced`).
- A second Logger with another product's salt overwrites the salt of a `FUSConfig`
  that both were passed (logger.go:115), although the product's salt "Takes priority
  over any salt in the public config" (recorder.go:28); `OwnSalt` is checked, and
  proved, for Loggers that agree (`SharersAgree`).
- Of several `anonymized_fields` entries for one event the anonymizer keeps the last,
  the validator joins them (anonymizer.go:32); `HashedOnWire` asks for one entry.
- The anonymizer looks at names as they are passed, the wire has them escaped: a nested
  name that escaping turns into a declared one arrives unhashed. `HashedOnWire` asks for
  names in declared fields that are passed as they are on the wire (`NamesAsSent`).
- A map or slice in a field that is hashed is hashed only inside, and a map's values
  only where their own names are declared. If a rule of the group accepts what it prints
  as, it is sent, and what arrives is not the hash the field is registered with;
  `DeclaredGetsThrough` asks for a value that can be hashed (`Hashable`).
- Fields that the group does not declare share one key with a declared field of that
  name, if there is one (validator.go:465): which value stays depends on the order of the
  map. `WireApproved` lets both through.
- A typed map or slice (`map[string]string`, `[]string`) is one value to the anonymizer
  and the escaper (anonymizer.go:70).
- Two processes that create the device ID at once return different ones, and an ID
  cut short in writing is returned as it is from then on: `SoleCreatorAgrees` is
  about agreement, not about format.
- `GetOrCreateDeviceID` promises to generate an ID "if absent" (device.go:18), and does
  whenever `os.ReadFile` returns an error (device.go:22-28): a call that cannot read the
  file replaces the ID that others have returned. `SoleCreatorAgrees` says that nothing
  else does, and that calls between two truncations of the file agree.
- A cache that cannot be read is taken for one that is not there (metadata.go:59,
  config.go:54): `LoadOrFetchScheme`, which "falls back to the cached copy"
  (metadata.go:45), and `NewLogger` then fail without the remote although the cache is
  intact. `FallbackUnlessDisturbed` and `StartsOffline` except the call whose own read
  failed (`unread`), and no later one.
- A scheme whose file cannot be opened for writing stays where it was and gets a new
  timestamp, because the error is ignored (metadata.go:97-98); `FreshUnlessDisturbed`
  is stated for files whose scheme was written whole (`broken`).
- config.go trims a version before it parses it (line 219), validator.go does not:
  "2024.1.5\n" is after 2024.1.3 for a configuration's borders, and is 2024.1.0 for a
  group's build range. `GatesAgree` is about versions and borders without white space
  around them.
- "References resolve against the scheme's top-level `Rules` block" (README.md:103):
  in the code a name that the group's own table has is what that table says
  (validator.go:258). `WireApproved` states what the code does, over tables that both
  have a name.
- The values of a rule and a declared event ID are trimmed (validator.go:330), what is
  matched against them is not: an ID that was declared with white space around it is
  dropped. `WireApproved` trims the values, `DeclaredGetsThrough` excludes such IDs.
- A definition may declare field names that escaping changes ("user name",
  definition.go:69-77). They are registered as they are and arrive escaped, and of two
  that are equal once escaped, one arrives. `DeclaredGetsThrough` asks for the escaped
  names, each with a value that satisfies the rules of a field it is the escaped name of.

### Bounds

- `Buffer`: two clients and four events, `MaxSize` 2, two torn writes. Under the
  lock a third client could only wait; four events overfill the buffer by two and
  leave records on both sides of a torn one. The theorems cover all values.
- `Delivery`: two processes with one Flush each, two starts each, three events,
  batches of two, one retry, two failing requests, one failing write. Three events
  give two batches and a merge before and after a re-queue; two failing requests
  end one Flush by its retry and leave one for the other. One kind is enough to
  merge; the sessions provide records that must not be merged.
- `DeliveryLive`: one process, two Flushes that share the mutex, batches of one,
  so that a Flush fails between batches.
- `Mutex`: three goroutines, one nested call. One waits, one holds, one posts.
- `Device`: four calls: two that overlap, one before and one after; each can fail to read.
- `Scheme`: two calls at a time, TTL 2, clock up to 4, two failures: a scheme can
  expire, be refreshed and be about to expire again.
- `Startup`: three Loggers, one that loads, one that is passed a `FUSConfig` and one
  that does either; TTL 1, clock up to 2, one failing write; two published salts.
  Loggers that share have the same product salt, the other has none.
- `Versions`: 18 strings of up to three parts, some unparsable, some with white space
  at an end, lists of one entry
  with any of 17 borders, of two that overlap, touch or leave a gap, and of three
  that cover all versions.

- `Pipeline`: eight setups (a definition with its own scheme, one with a rule that
  cannot be resolved and one that accepts anything, one with field names that escaping
  changes, one of them to that of another field, a definition with a remote scheme for older and for newer
  builds, a scheme written by hand, that scheme under a remote one, a remote one
  alone), eight calls (declared, unknown and escaped IDs and groups, a declared ID with a space at its
  end, another version of the group), maps of up to three of eight fields where two are allowed. One field
  takes every value, a pair one of four; containers are up to two levels deep, with names
  that collide and a slice with a nil. The remote scheme declares a field named
  `validation.undefined_rule`. The tables have a name that is local and global, one that
  does not compile, one that is missing. The theorems cover all values.

`CHECK_DEADLOCK FALSE` stands where the bound on events or calls, and not the
code, makes the system stop (`Delivery`, `DeliveryLive`, `Device`).

### Fairness

- `EventBuffer`: weak fairness of each client's next step (a goroutine that runs goes
  on), strong fairness of `lockFile` (a blocked `flock` is granted in turn). Errors
  and crashes are never required and never excluded.
- `Delivery`: weak fairness of the steps of a Flush and of `NewLogger`; strong fairness
  of taking `l.mu`, which is a `sync.Mutex` and hands itself to a starving waiter.
  `EventuallyRecorded` needs callers that keep calling `Flush`, which the library
  leaves to the application: strong fairness of `ReadAndClear` states it. Nothing is
  assumed of the server but that it fails only finitely often.
- `LoggerMutex`: goroutines run and the mutex is granted in turn; a request may never
  end and nobody has to call.

## Proofs

`EventBuffer_proofs` proves, for any clients, events, `MaxSize` and `MaxTorn`:

- `TypeCorrect`, `AppendsAtEnd`, `HandedOutOnce`: the invariants of the same subject.
- `ImplementsAtomicBuffer`: `Spec => AtomicSpec`, with the file that the last Trim
  truncated as the abstract file while Trim writes back.
- `ReadsAllThereIs`, `TornWritesCostOneEach`: under the assumption that no line is
  longer than the scanner allows (without it `BufferLong` is a counterexample).

The inductive invariant `IInv` is needed because none of the properties says why
it holds: `Exclusive` (whoever is past `lockFile` is alone there) makes
`SnapshotCurrent` inductive (what a call has read of the file is still so), and
`RewriteProgress` (what Trim has written back, followed by what it still holds, is
what it keeps) makes Trim's last step the abstract one. `Provenance` bounds what is
in the file by what was appended, which `HandedOnce` needs. For torn writes
`TornLedger` keeps an account: a torn write leaves a debt in the tail, and the
next write pays for it with at most one acknowledged event.

`DeviceId_proofs` proves `SoleCreatorsAgree` for any number of calls: while no two
calls create the ID together, the creator has the file without an ID once it has
truncated it, and from its write to the next truncation the file keeps what calls
return; and without a failed read nobody creates over an ID.

`DeviceId_proofs` also proves the types.

`LoggerMutex_proofs` proves `TypeCorrect` and `MutexIsScoped` for any number of
goroutines, any callback and any depth of nesting. `MutexScope` alone is not
inductive: a call that returns uncovers the one that called it. `IInv` says that every
call but the innermost has only `return` or `unlock` left, and that a stack has exactly
one place in a critical section if its goroutine holds the mutex, else none.
`NobodyWaitsForItself` proves `HolderAtWork`, the safety core of `TrackReturns`: whoever
holds the mutex is at work in a critical section, so no goroutine waits for a mutex it
holds itself, as long as no callback calls the Logger with the mutex held, which is
what goes wrong in `MutexCallback`. Besides `IInv` it needs that only a call without
the mutex makes another one (`OuterFinished`).

`Startup_proofs` proves `TypeCorrect` and `StartsOfflineAlways` for any Loggers and
FUSConfigs, and `FailsClosed`, `OneSaltEach` and `OwnSaltUsed` when those that share a
FUSConfig are of one product (`SharersAgree`). `Settled` is why: after a Logger wrote
the salt, any other that shares the object writes the same, the product's, or, when
there is none, the one it read before, which nobody has changed. For
`StartsOffline`, `Kept` says that a call that writes is alone in
`LoadOrFetchConfig`, unless the property makes an exception, so a call that can read
the file never finds it empty once a configuration was stored; a write cut short ends
this until the next whole one.

`SchemeCache_proofs` proves `TypeCorrect`, `FreshUnlessRaced` and `FallbackUnlessRaced` for
any number of calls. The timestamp is never later than the time of the scheme
beside it (`NeverAhead`), whoever writes in which order and whatever fails, as
long as no write of a scheme was cut short; and a call that is not in `raced` has read
the scheme that is still in the file, or failed to read it (`Current`). `Latest` adds that, without an
overlap, the file holds the scheme stored last except while it is rewritten.

`Delivery_proofs` proves `TypeCorrect`, `NothingVanishesEver`, `OnePlaceOnly`,
`ConfirmedIsOnce` and `CountsAreTrue` for any processes, threads, batch size, number of
attempts and events. What an event's place is depends on the step `Flush` is at:
`InPhase` says which of `rest`, `merged` and `sent` are in use there. `Apart` strengthens
`OnePlace` to records of one sequence, to what was merged beside what is still
to be merged, and to pairs of Flushes, because each of these becomes another in
a later step. `CountsTrue` needs `Apart`: counts may only be added while the merged
records stand for different events; and `AllGenuine` keeps what every record stands
for with its session and kind, whoever holds it. `Ledger` has the server's books,
`Accounted` is `NothingVanishes` in terms of those sets. The lemmas are about the
operations on records: merging, cutting a batch off, putting back, and what they do to
the set of events that a sequence stands for.

`UsesAtomicBuffer` joins the two halves: whatever the processes and their Flushes do,
each of `Delivery`'s calls on the file is a step of `AtomicBuffer`, with `queue` as the
records of a file that ends with a whole line (`Lines`). What `ReadAndClear` returned last
is a variable of `AtomicBuffer` and none of `Delivery`, where it goes to a Flush at once; the
history variable `taken` keeps it and restricts no step. A write that fails is a call that
leaves nothing behind. So what `EventBuffer_proofs` shows of the calls, one
step at a time, is what the theorems about `Delivery` rely on.

`Versions_proofs` proves `TypeCorrect`, `OneAlwaysAccepts`, `UpgradesNeverGoBack` and
`GatesAlwaysAgree` for versions of any number of parts and lists of any length, the last
for those that `Trimmed` leaves alone. The loops
of `compareMajorVersions` and `compareBuilds` stop at the first difference, which the
modules state as a least element; `LeastIs` gets it from the library's facts on
well-founded orders (a finite set of naturals ordered by inclusion), the one form
of induction that needs no operator as a parameter. From it `OrderIs` and
`ComparisonsAgree` relate both comparisons to `Same` and `Earlier`; `Between` and
`InOrder` place a version among borders that tile, and `Monotone` compares the entries
of two versions. The only state is the entry chosen last, which `Kept` ties to the
version it was chosen for.

`Pipeline_proofs` proves `TypeCorrect`, `OnlyApprovedOnWire`, `StableOnceSent`, `NoFieldLost`,
`DeclaredAreHashed` and `DeclaredAlwaysGetsThrough` for any schemes, calls and event data of any
depth. None of the properties is inductive, for they say nothing of the caller's map:
`IInv` says that it is still one that a caller passed, whose values nobody has hashed,
and that what is on the wire is one of the outcomes of escaping and validating it for
the last call (`Sent`), or why the call dropped it (`Rejected`); each property follows from `IInv` alone. The
lemmas go the way of an event. `HashedIs`: anonymizing hashes each value once at most,
and those of the declared paths unless they are blank or empty. `ValidatedIs`: a field
that passes is as it was (`From`), any other is one reserved string (`Stamped`).
`OneSource`: all that is on the wire under one name comes from one field, although
names collide, so `CarriedIs` and `CarriedValid` can say that the validator reads the
same in both. `EscapeIs`: each way of escaping changes nothing the second time, which is
why `SameAgain` gets what was sent back as it is. `ParsedMeans` and `AcceptedMeans` turn a
compiled chain of rules back into the declaration it was compiled from.

`DeclaredAlwaysGetsThrough` goes the other way, from a definition to the wire. The rules
of a field are joined over all events of the group, each rule where it appears first; the
module says so by the order of their places. `UnionHasAll`: every rule that an event
states is in the joined list, because a finite set of places has a least one
(`LeastExists`, `FirstPlace`) and the numbers of smaller places enumerate it
(`InOrderHasAll`). `Settled`: if every rule of the list can be resolved, one that accepts
decides, wherever it stands. `OwnRuleMeans` and `CompiledHas` find the rule of the
declaration among the compiled ones, `HashedValue` and `UnhashedValue` say what of the
value the validator sees, and `FieldAccepted` concludes that it accepts. Then nothing in the
event is replaced, and `FieldsArrive` gets all of it onto the wire, under the escaped
names; `OneSource` says which field a name stands for there.

The assumptions are those of the modules' `ASSUME`s, which TLC evaluates in the
passing runs, and where named `SharersAgree`. `Pipeline`'s are that callers pass values
that were not hashed before (`CallerAssumption`) and that a Logger has a validator, which
has a scheme (`SetupAssumption`; logger.go:119, validator.go:148). A definition
is one that both documents can be generated from (`HasFallback`), and its lists of events,
rules and path segments are sequences (`WellOrdered`). `AtoiAssumption` says that what
marks a text as no number is no integer, nor is a part with white space around it.

Only model-checked: the liveness properties (`CallsReturn`, `FlushReturns`,
`EventuallyRecorded`, `TrackReturns`), which are out of the prover's reach. All invariants
of the passing runs, and the refinement of `AtomicBuffer`, are proved.

## Not modelled, and why

- What the copy that is anonymized shares with the caller's map: `cloneEventDataValue`
  copies the maps and slices that the anonymizer walks (logger.go:202-224), so the model
  shares nothing, and no property is about the caller's map. The types tell when values
  are hashed twice, as they were if containers were shared.
- Half-written lines that grow over the scanner's limit together with the line glued to
  them (buffer.go:140): here only the glued line is lost, in the code all behind it.
- HTTP below the outcome of a request, JSON, URLs, logging and wording. A timer is a
  step that may happen.
- Regular expressions: a pattern is one of three names (any text, letters, a hash) or
  one that does not compile. The hash is a count.
- The inside of a typed container, texts with several kinds of symbols, the numbers
  that JSON rounds (beyond 2^53), and event data that are an empty map as opposed to none.
- `newPermissiveValidator`, which lets every event through as it is and is for tests only.
- The escaping of the session, the device IDs, the product, the recorder and the build:
  their values are fixed by the library or by the product and need none.
- `events_scheme.go`: the deprecated `BuildEventsScheme(*Scheme)` and the JSON writers turn
  data into a document that nothing here reads. Of the builders of `scheme.go` and
  `definition.go`, those that put a rule's text together; schemes whose group IDs
  occur twice.
- `ComputeBucket`: a pure function of one value.
- The exact bytes that a device ID cut short leaves over one that another call wrote
  at the same time: the model has the part alone, and `SoleCreatorAgrees` does not
  speak of creators that overlap.
- A Go string read while another goroutine assigns it can be torn; in `Startup`
  a read of a shared `Salt` returns the old or the new value.
- A Logger without a product salt that shares a `FUSConfig` with one that has one can
  write the empty salt back over it; `FailClosed` is stated for Loggers that agree.
- Parts of versions that are negative, and the clamping of numbers over 64 bits.
- A clock that steps back. A configuration cached for other arguments: nothing in the
  repository says which calls the cache is for.

## Plan

Done: the buffer with its abstract specification, and its use by the delivery of events;
the mutex, the device ID, the two caches, the salt, the versions, and what `Track` does to
an event with the schemes a product declares; all of them with proofs of the safety
properties that the runs check.

What could follow: torn lines in `Delivery`'s file, which would join `TornCostsOne` to
`NothingVanishes` in one ledger; and group IDs that occur twice in a scheme.
