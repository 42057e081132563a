------------------------------ MODULE Pipeline ------------------------------
(***************************************************************************)
(* What Track (logger.go) does to an event before it is appended to the    *)
(* buffer: the event data are copied, the declared fields hashed           *)
(* (anonymizer.go), the copy validated (validator.go) and every string     *)
(* escaped (escaper.go).  A caller tracks one map again and again.  The    *)
(* anonymizer works from the scheme the product declares, the validator    *)
(* from the one it runs with, which may come from the remote.              *)
(***************************************************************************)
EXTENDS Declarations

CONSTANTS Setup,        \* sequence of what a Logger can be set up with:
                        \* a definition, the local scheme, the runtime scheme
          Build,        \* RecorderConfig.BuildVersion, a dotted version
          MaxDataFields,
          EventData,    \* maps that callers pass
          Calls         \* group, version and event ID that callers pass

\* A value that a path leads to contains no others, and nobody has hashed it.
ASSUME CallerAssumption ==
  /\ Calls \subseteq [group : Texts, version : Nat, id : Texts]
  /\ \A d \in EventData :
       /\ d \in [DOMAIN d -> Leaf]
       /\ \A p \in DOMAIN d : /\ p \in Seq(Texts) \ {<<>>} /\ Printed(d[p]).hashed = 0
                            /\ \A q \in DOMAIN d : ~IsStrictPrefix(p, q)

\* What a scheme or a definition has in order, it has in sequences.
WellFormed(g) == LET exprs == {g.eventData[f] : f \in DOMAIN g.eventData} \cup {g.eventIDs, g.anonymized}
                 IN  \A s \in exprs : s \in Seq(Range(s))

\* A path is made of what is between its dots.
PathPart == {t \in Texts : t.hashed = 0 /\ t.mark \notin {".", "position"}}
WellOrdered(d) ==
  \A g \in DOMAIN d.groups :
    LET events == d.groups[g].events
    IN  /\ events \in Seq(Range(events))
        /\ \A i \in DOMAIN events : \A f \in Range(events[i].fields) :
             f.path \in Seq(PathPart) /\ f.rules \in Seq(Range(f.rules))

\* A definition is not used unless both documents can be generated from it; there
\* is no validator without a scheme, and no Logger without a validator.
ASSUME SetupAssumption ==
  \A i \in DOMAIN Setup :
    LET s == Setup[i]
    IN  /\ s.runtime # Nothing
        /\ s.definition # Nothing => /\ WellOrdered(s.definition) /\ HasFallback(s.definition)
                                     /\ s.local = BuildValidationScheme(s.definition)
        /\ \A r \in {s.local, s.runtime} \ {Nothing} :
             \A g \in DOMAIN r.groups : WellFormed(r.groups[g])

VARIABLES setup, \* what the Logger is set up with; it never changes
          data,  \* the caller's map
          asked, \* the arguments of the last Track
          wire   \* the event that the last Track appended, or why it was dropped
vars == <<setup, data, asked, wire>>

local == Setup[setup].local
Validators == [i \in DOMAIN Setup |-> NewValidator(Setup[i].runtime)]

Init == /\ setup \in DOMAIN Setup
        /\ data \in EventData
        /\ asked = Nothing /\ wire = Nothing

-----------------------------------------------------------------------------
\* NewAnonymizer: of several entries for an event only the last one counts.
Entries(s, group, id) ==
  IF s = Nothing \/ group \notin DOMAIN s.groups \/ id = Plain("") THEN {}
  ELSE LET anonymized == s.groups[group].anonymized
       IN  {i \in DOMAIN anonymized : anonymized[i].event = id /\ anonymized[i].fields # {}}
AnonymizedFields(s, group, id) ==
  LET entries == Entries(s, group, id)
  IN  IF entries = {} THEN {} ELSE s.groups[group].anonymized[Max(entries)].fields

\* The names on the way to a value, joined; a literal name may look the same.
Nested(path, step) == IF step.mark = "position" THEN path ELSE Dot(path, step)
Key(p) == IF Len(p) = 1 THEN p[1] ELSE FoldLeft(Nested, p[1], Tail(p))

\* All that is not a string or a container of any is hashed as the string it
\* prints as; a nil in a slice and an empty container are passed over.
\* Mutant: only strings are hashed.
PassedOver(p, v) == v = Empty \/ (v = Nil /\ p[Len(p)].mark = "position")
keepScalar(v) == IF Is("text", v) THEN Str(Anonymize(v.text)) ELSE v
anonymizeScalar(v) == Str(Anonymize(Printed(v)))
anonymizeValue(p, v, fields) ==
  IF Key(p) \in fields /\ ~PassedOver(p, v) THEN anonymizeScalar(v) ELSE v
AnonymizeEvent(e) ==
  [e EXCEPT !.data = [p \in DOMAIN @ |-> anonymizeValue(p, @[p], AnonymizedFields(local, e.group, e.id))]]

\* cloneEventData: which values the copy that is hashed in place shares with
\* the caller's map.  Mutant: maps.Clone alone shares all that is in containers.
SharedByClone(d) == {p \in DOMAIN d : Len(p) > 1}
Shared(d) == {}

-----------------------------------------------------------------------------
\* Two names in one map that are equal once they are escaped: the order of the
\* map decides which of them stays, with all that is in it.
Rivals(p, q) ==
  \E i \in DOMAIN p \cap DOMAIN q : /\ \A j \in 1..i - 1 : p[j] = q[j]
                                   /\ p[i] # q[i] /\ escapeFieldName(p[i]) = escapeFieldName(q[i])
Survivors(paths) ==
  {kept \in SUBSET paths : /\ \A p, q \in kept : ~Rivals(p, q)
                           /\ \A p \in paths \ kept : \E q \in kept : Rivals(p, q)}

escapePath(p) == [i \in DOMAIN p |-> escapeFieldName(p[i])]
escapeEventDataValue(v) == IF Is("text", v) THEN Str(escapeEventIDOrFieldValue(v.text)) ELSE v
Escaped(d, kept) == [p \in {escapePath(q) : q \in kept} |->
                       escapeEventDataValue(d[CHOOSE q \in kept : escapePath(q) = p])]
escapeEventData(d) == {Escaped(d, kept) : kept \in Survivors(DOMAIN d)}
escapeLogEvent(e) ==
  {[e EXCEPT !.group = escape(@), !.id = escapeEventIDOrFieldValue(@), !.data = d] :
     d \in escapeEventData(e.data)}

Drop(why) == [dropped |-> why]
Event(call) == [group |-> call.group, version |-> call.version, build |-> Build,
                id |-> call.id, data |-> data]

TooMany(d) == Cardinality(Fields(d)) > MaxDataFields

Track(call) ==
  /\ asked' = call
  /\ IF TooMany(data)
       THEN wire' = Drop("DropTooManyFields") /\ UNCHANGED data
       ELSE LET event == AnonymizeEvent(Event(call))
            IN  /\ data' = [p \in DOMAIN data |-> IF p \in Shared(data) THEN event.data[p] ELSE data[p]]
                /\ IF Dropped(event, Validators[setup])
                     THEN wire' = Drop("DropValidation")
                     ELSE wire' \in UNION {escapeLogEvent(e) : e \in Validate(event, Validators[setup])}
  /\ UNCHANGED setup

Next == \E call \in Calls : Track(call)
Spec == Init /\ [][Next]_vars
-----------------------------------------------------------------------------
Kept == wire # Nothing /\ "dropped" \notin DOMAIN wire
runtime == Setup[setup].runtime
Known == Kept /\ asked.group \in DOMAIN runtime.groups
Rules == Validators[setup][asked.group].eventDataRules

\* A scheme whose names are as they are on the wire.
NamesEscaped == \A g \in DOMAIN runtime.groups :
  escape(g) = g /\ \A f \in DOMAIN runtime.groups[g].eventData : escapeFieldName(f) = f

TypeOK ==
  /\ setup \in DOMAIN Setup /\ DOMAIN data \in {DOMAIN d : d \in EventData}
  /\ asked \in Calls \cup {Nothing}
  /\ wire = Nothing \/ wire \in {Drop("DropTooManyFields"), Drop("DropValidation")} \/ Kept
  /\ Kept => /\ wire.group \in Texts /\ wire.id \in Texts
             /\ \A p \in DOMAIN wire.data :
                  /\ p \in Seq(Texts) /\ p # <<>> /\ wire.data[p] \in Leaf
                  /\ Is("text", wire.data[p]) => wire.data[p].text.hashed \in 0..1

\* "only scheme-approved keys and values reach the wire" (README.md:81): each
\* field is declared for the group, and its value is a reserved word, a hash
\* where the group declares one, or accepted by a rule, the values of a rule
\* being taken without white space around them.  A name in a rule is what the
\* group itself makes of it before it is what the scheme does: the code differs
\* from README.md:103, "References resolve against the scheme's top-level
\* `Rules` block", where a group has a table of that name (validator.go:258).
Meaning(e, g) ==
  IF ~Is("ref", e) THEN {e}
  ELSE LET tables == {t \in {g.tables, runtime.tables} : e.ref \in DOMAIN t /\ ~Broken(t[e.ref])}
       IN  IF g.tables \in tables THEN {g.tables[e.ref]} ELSE {t[e.ref] : t \in tables}
Admits(r, t) == IF Is("values", r) THEN t \in {Trim(v) : v \in r.values} ELSE Accepts(r, t)
Approved(d, name, f, g) ==
  \/ IsText(d, name) /\ d[<<name>>].text \in Reserved
  \/ IsText(d, name) /\ d[<<name>>].text.hashed > 0 /\ \E i \in DOMAIN g.anonymized : f \in g.anonymized[i].fields
  \/ \E e \in Range(g.eventData[f]) : \E r \in Meaning(e, g) :
       ~Broken(r) /\ Admits(r, escapeEventIDOrFieldValue(valueToString(d, name)))
WireApproved ==
  Known => LET g == runtime.groups[asked.group]
           IN  \A name \in Fields(wire.data) :
                 \/ name = undefined_rule /\ IsText(wire.data, name) /\ wire.data[<<name>>] = Str(undefined_rule)
                 \/ \E f \in DOMAIN g.eventData : /\ escapeFieldName(f) = name
                                                  /\ Approved(wire.data, name, f, g)

\* What a product declares it can send: with the scheme generated from its
\* definition, an event whose fields satisfy their own rules is kept, under its
\* name and with all its fields, and every value on the wire satisfies the rule
\* the field is registered with for this event, although the rules of a field
\* are those of all events together.  A field arrives under its escaped name,
\* and of two that are equal once they are escaped, one does.  Excluded are an
\* ID that is not as it is on the wire, or has white space around it, for the
\* rule made of it is trimmed; a field with a rule that cannot be resolved in
\* any event of the group, for it rejects the field in all of them; and a map
\* or slice in a field that is hashed, for it is hashed only inside, and sent
\* if a rule of the group accepts what it prints as.
DeclaredEvent(d) == LET es == d.groups[asked.group].events
                    IN  CHOOSE i \in DOMAIN es : es[i].id = asked.id
\* The metadata have a rule "hash" of their own (device.go:80).
MetadataTables(d) == Over([ref \in {HashRuleRef} |-> [pattern |-> "hash"]], d.tables)
Resolved(rules, d) == [i \in DOMAIN rules |-> parseRuleExpr(rules[i], MetadataTables(d))]
Satisfied(rules, d, f, def) ==
  acceptRules(Resolved(rules, def), escapeEventIDOrFieldValue(valueToString(d, f))) = "accepted"
Hashable(f) == <<f>> \in DOMAIN data /\ data[<<f>>] # Empty /\ ~Blank(valueToString(data, f))
AsDeclared(d) ==
  /\ asked.group \in DOMAIN d.groups /\ asked.version = d.groups[asked.group].version
  /\ asked.id \in {d.groups[asked.group].events[i].id : i \in DOMAIN d.groups[asked.group].events}
  /\ escapeEventIDOrFieldValue(asked.id) = asked.id /\ Trim(asked.id) = asked.id
  /\ LET e == d.groups[asked.group].events[DeclaredEvent(d)]
     IN  /\ Fields(data) \subseteq Names(e)
         /\ \A f \in Fields(data) : /\ Incorrect \notin Range(Rules[f])
                                    /\ Satisfied(FieldOf(e, f).rules, data, f, d)
                                    /\ FieldOf(e, f).anonymized => Hashable(f)
DeclaredGetsThrough ==
  LET d == Setup[setup].definition
  IN  wire # Nothing /\ d # Nothing /\ runtime = local /\ ~TooMany(data)
      /\ asked.group \in DOMAIN d.groups /\ AsDeclared(d)
      => /\ Kept /\ wire.id = asked.id /\ Fields(wire.data) = {escapeFieldName(f) : f \in Fields(data)}
         /\ LET e == d.groups[asked.group].events[DeclaredEvent(d)]
            IN  \A name \in Fields(wire.data) : \E f \in Fields(data) :
                  escapeFieldName(f) = name /\ Satisfied(RegisteredRules(FieldOf(e, f)), wire.data, name, d)

\* "Anonymize hashes declared fields before validation" (README.md:80): what
\* is on the wire under the path of a field declared for the event is a hash,
\* blank, or nothing of the caller's.
DeclaredFor(id) == UNION {local.groups[wire.group].anonymized[i].fields : i \in Entries(local, wire.group, id)}
DeclaredIsHashed ==
  Kept => \A p \in DOMAIN wire.data :
            Key(p) \in DeclaredFor(wire.id) =>
              LET v == wire.data[p]
              IN  \/ v \in {Nil, Empty}
                  \/ Is("text", v) /\ (v.text.hashed > 0 \/ Blank(v.text) \/ v.text \in Reserved)

\* It holds when the group, the ID and the names in declared fields are passed
\* as they are on the wire, and the scheme has one entry for the event.
NamesAsSent == \A p \in DOMAIN data :
  asked.group \in DOMAIN runtime.groups /\ p[1] \in DOMAIN Rules => escapePath(p) = p
HashedOnWire ==
  /\ Kept /\ asked.id = wire.id /\ asked.group = wire.group /\ NamesAsSent
  /\ \A i, j \in Entries(local, asked.group, asked.id) : i = j
  => DeclaredIsHashed

\* What was sent is valid as it is: escaping after validation takes nothing
\* back, and "round-trips through server-side validation stay stable"
\* (escaper.go:6), if the names in the scheme are escaped, and the group's.
RevalidationStable ==
  Kept /\ NamesEscaped /\ escape(asked.group) = asked.group =>
    ~Dropped(wire, Validators[setup]) /\ Validate(wire, Validators[setup]) = {wire}

\* No field takes the place of another whose name is equal once both are
\* escaped, if the names in the scheme are escaped: what the group declares
\* arrives, and all else is one entry.
FieldsKept ==
  Known /\ NamesEscaped =>
    LET declared == Fields(data) \cap DOMAIN Rules
    IN  Fields(wire.data) = declared \cup (IF declared = Fields(data) THEN {} ELSE {undefined_rule})
=============================================================================
