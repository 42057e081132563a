---------------------------- MODULE Declarations ----------------------------
(***************************************************************************)
(* What a product declares, and what is generated from it (definition.go): *)
(* the rules it registers for the fields of each event, and the scheme it  *)
(* validates with as long as it has none from the remote.  A definition    *)
(* maps group IDs to a version and a sequence of events with their fields, *)
(* a path being the sequence of its parts; a scheme has rules for a group  *)
(* as a whole.  Types and descriptions are left out.                       *)
(***************************************************************************)
EXTENDS Validator

\* Names joined by dots: of the symbols in them, the first that is no dot counts.
Dot(a, b) ==
  Text(a.word \o "." \o b.word,
       IF a.mark \notin {"plain", "."} THEN a.mark ELSE IF b.mark # "plain" THEN b.mark ELSE ".")
Joined(path) == IF Len(path) = 1 THEN path[1] ELSE FoldLeft(Dot, path[1], Tail(path))

\* Definition.Validate.  A "|" in an event ID would be read as two IDs; a path
\* is cut at its dots, and may have any other symbol.
ValidEvent(e) ==
  LET paths == [i \in DOMAIN e.fields |-> e.fields[i].path]
  IN  /\ e.id # Plain("") /\ e.id.mark # "|" /\ IsInjective(paths)
      /\ \A i \in DOMAIN paths : e.fields[i].rules # <<>> /\ paths[i] # <<>> /\ Plain("") \notin Range(paths[i])
      /\ \A i, j \in DOMAIN paths : ~IsStrictPrefix(paths[i], paths[j])
ValidDefinition(d) ==
  \A g \in DOMAIN d.groups :
    LET events == d.groups[g].events
    IN  /\ d.groups[g].version >= 1
        /\ IsInjective([i \in DOMAIN events |-> events[i].id])
        /\ \A i \in DOMAIN events : ValidEvent(events[i])

\* Nested fields and arrays can be registered, but not validated.
HasFallback(d) ==
  /\ ValidDefinition(d)
  /\ \A g \in DOMAIN d.groups : \A i \in DOMAIN d.groups[g].events :
       \A k \in DOMAIN d.groups[g].events[i].fields :
         LET f == d.groups[g].events[i].fields[k] IN ~f.array /\ Len(f.path) = 1

-----------------------------------------------------------------------------
\* BuildEventsScheme: the rules that a field of an event is registered with.
HashRuleRef == <<"regexps", "hash">>
RegisteredRules(f) == IF f.anonymized THEN <<[ref |-> HashRuleRef]>> ELSE f.rules

Names(e) == {Joined(e.fields[i].path) : i \in DOMAIN e.fields}
FieldOf(e, name) == e.fields[CHOOSE i \in DOMAIN e.fields : Joined(e.fields[i].path) = name]
AnonymizedNames(e) == {Joined(e.fields[i].path) : i \in {k \in DOMAIN e.fields : e.fields[k].anonymized}}

\* Where the events of a group state rules for a field: the event, and the
\* position among its rules.  The loops go through them in this order.
Stated(events, name) ==
  UNION {{<<i, k>> : k \in DOMAIN FieldOf(events[i], name).rules} :
           i \in {j \in DOMAIN events : name \in Names(events[j])}}
RuleAt(events, name, at) == FieldOf(events[at[1]], name).rules[at[2]]
Before(a, b) == a[1] < b[1] \/ (a[1] = b[1] /\ a[2] < b[2])
InOrder(places) ==
  [m \in 1..Cardinality(places) |->
     CHOOSE b \in places : Cardinality({a \in places : Before(a, b)}) = m - 1]

\* The rules of a field are those of all events that have it, each once.
\* Mutant: those of the first event that has it.
FirstOnes(events, name) == {b \in Stated(events, name) : \A a \in Stated(events, name) : b[1] <= a[1]}
NewOnes(events, name) ==
  {b \in Stated(events, name) :
     \A a \in Stated(events, name) : Before(a, b) => RuleAt(events, name, a) # RuleAt(events, name, b)}
Union(events, name) ==
  LET order == InOrder(NewOnes(events, name)) IN [m \in DOMAIN order |-> RuleAt(events, name, order[m])]

\* An event without hashed fields has an entry with none here, and none in the
\* code: NewAnonymizer skips it, and no field is in it.
GroupScheme(g) ==
  LET events == g.events
  IN  [builds     |-> {},
       versions   |-> {[from |-> <<g.version>>, to |-> <<g.version + 1>>]},
       tables     |-> <<>>,
       eventIDs   |-> [i \in DOMAIN events |-> [values |-> {events[i].id}]],
       eventData  |-> [n \in UNION {Names(events[i]) : i \in DOMAIN events} |-> Union(events, n)],
       anonymized |-> [i \in DOMAIN events |-> [event  |-> events[i].id, fields |-> AnonymizedNames(events[i])]]]
BuildValidationScheme(d) ==
  [tables |-> d.tables, groups |-> [g \in DOMAIN d.groups |-> GroupScheme(d.groups[g])]]
=============================================================================
