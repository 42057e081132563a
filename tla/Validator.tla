----------------------------- MODULE Validator -----------------------------
(***************************************************************************)
(* validator.go: a scheme is compiled once, and every event is matched     *)
(* against the rules of its group.  Event data are known by what is at the *)
(* end of every path into them: a path is the name of a field, followed by *)
(* the names in nested map[string]any and the positions in nested []any,   *)
(* and what it leads to is                                                 *)
(*   [text |-> t]     a string                                             *)
(*   [scalar |-> t]   a number, a Boolean or a typed container such as     *)
(*                    []string, known by what valueToString makes of it    *)
(*   Nil              nil                                                  *)
(*   Empty            a map[string]any or []any with nothing in it         *)
(* A rule expression is [values |-> set of texts], [pattern |-> name of a  *)
(* pattern], [from |-> n, to |-> m], Incorrect, or [ref |-> <<kind, name>>]*)
(* which names one of these in the tables of the group or of the scheme.   *)
(***************************************************************************)
EXTENDS Escaper, VersionOrder, Functions

CONSTANT Numeral \* the numbers that words are read as by strconv.Atoi
ASSUME AtoiAssumption == NotANumber \notin Int /\ \A p \in DOMAIN Padded : p \notin Int

Is(kind, v) == kind \in DOMAIN v
Str(t) == [text |-> t]
Nil == [nil |-> TRUE]
Empty == [empty |-> TRUE]
Leaf == [text : Texts] \cup [scalar : Texts] \cup {Nil, Empty}
Position(number) == Text(number, "position")

\* Maps, as functions from paths: the fields, and a field with another value.
Fields(d) == {p[1] : p \in DOMAIN d}
IsText(d, f) == <<f>> \in DOMAIN d /\ Is("text", d[<<f>>])
With(d, f, v) ==
  [p \in {q \in DOMAIN d : q[1] # f} \cup {<<f>>} |-> IF p = <<f>> THEN v ELSE d[p]]

fusSystemEvents == {Plain("registered"), Plain("invoked")}
Reserved == validationResultTypes \cup fusSystemEvents

Incorrect == [incorrect |-> TRUE]
Broken(e) == Is("pattern", e) /\ e.pattern = "broken"

\* The patterns that schemes are written with here; each is anchored.
Matches(pattern, t) == \/ pattern = "anything"
                       \/ pattern = "letters" /\ t.mark = "plain" /\ t.hashed = 0
                       \/ pattern = "hash" /\ t.hashed > 0
Number(t) == IF t \in {Plain(w) : w \in DOMAIN Numeral} THEN Numeral[t.word] ELSE NotANumber

-----------------------------------------------------------------------------
\* A pattern that does not compile leaves its name undefined; the group's
\* tables go over those of the scheme.  Mutant: the other way round.
Compiling(table) == RestrictValues(table, LAMBDA e : ~Broken(e))
Over(f, g) == [x \in DOMAIN f \cup DOMAIN g |-> IF x \in DOMAIN f THEN f[x] ELSE g[x]]
mergeUnder(base, table) == Over(base, Compiling(table))
mergeRules(base, table) == Over(Compiling(table), base)

\* Values are trimmed, and what is matched against them is not.
makeEnumRule(values) == IF values = {} THEN Incorrect ELSE [values |-> {Trim(v) : v \in values}]
parseRuleExpr(e, tables) ==
  LET content == IF ~Is("ref", e) THEN e
                 ELSE IF e.ref \in DOMAIN tables THEN tables[e.ref] ELSE Incorrect
  IN  IF Broken(content) THEN Incorrect
      ELSE IF Is("values", content) THEN makeEnumRule(content.values) ELSE content

Accepts(r, t) == \/ Is("values", r) /\ t \in r.values
                 \/ Is("pattern", r) /\ Matches(r.pattern, t)
                 \/ Is("from", r) /\ Number(t) # NotANumber /\ Number(t) \in r.from..r.to

\* The first rule that accepts, or that is incorrect, settles it.
acceptRules(rules, t) ==
  LET final == {i \in DOMAIN rules : rules[i] = Incorrect \/ Accepts(rules[i], t)}
      first == {i \in final : \A j \in final : i <= j}
  IN  IF first = {} THEN "rejected"
      ELSE IF \E i \in first : rules[i] = Incorrect THEN "incorrect" ELSE "accepted"

\* The group's descriptor, ready for use.  Fields that are hashed in any of
\* the group's events are valid as hashes.
HashRule(g, f) == IF \E i \in DOMAIN g.anonymized : f \in g.anonymized[i].fields
                  THEN <<[pattern |-> "hash"]>> ELSE <<>>
compiledGroup(g, globals) ==
  LET tables == mergeRules(globals, g.tables)
      Parse(exprs) == [i \in DOMAIN exprs |-> parseRuleExpr(exprs[i], tables)]
      rules == [f \in DOMAIN g.eventData |-> Parse(g.eventData[f]) \o HashRule(g, f)]
  IN  [builds |-> g.builds, versions |-> g.versions, eventIDRules |-> Parse(g.eventIDs),
       eventDataRules |-> RestrictValues(rules, LAMBDA rs : rs # <<>>)]
NewValidator(s) == [id \in DOMAIN s.groups |-> compiledGroup(s.groups[id], Compiling(s.tables))]

-----------------------------------------------------------------------------
\* Borders of the group's version are whole numbers, or refuse everything.
Atoi(s) == IF Len(s) = 1 /\ s[1] \notin DOMAIN Padded THEN s[1] ELSE NotANumber
acceptsInVersion(ranges, version) ==
  \E r \in ranges : /\ r.from # <<>> => Atoi(r.from) # NotANumber /\ version >= Atoi(r.from)
                    /\ r.to # <<>> => Atoi(r.to) # NotANumber /\ version < Atoi(r.to)
acceptsBuildVersion(g, build, version) ==
  /\ g.builds # {} => acceptsIn(g.builds, build)
  /\ g.versions # {} => acceptsInVersion(g.versions, version)

\* %v of a container has the symbols ":" and "[", which no rule but a pattern
\* for anything accepts.
Printed(v) == CASE Is("text", v)   -> v.text
                [] Is("scalar", v) -> v.scalar
                [] Is("nil", v)    -> Plain("")
                [] OTHER           -> Text("map", ":")
valueToString(d, f) == IF <<f>> \in DOMAIN d THEN Printed(d[<<f>>]) ELSE Text("map", ":")

validateEventID(id, v, group) ==
  IF id \in Reserved THEN id
  ELSE IF group \notin DOMAIN v \/ v[group].eventIDRules = <<>> THEN undefined_rule
  ELSE IF acceptRules(v[group].eventIDRules, escapeEventIDOrFieldValue(id)) = "accepted" THEN id
  ELSE unmatched_rule

validateField(d, f, rules) ==
  IF IsText(d, f) /\ d[<<f>>].text \in Reserved THEN "accepted"
  ELSE acceptRules(rules, escapeEventIDOrFieldValue(valueToString(d, f)))

\* What a declared field has that is not accepted becomes one string.
validateKnown(d, rules) ==
  LET declared == Fields(d) \cap DOMAIN rules
      result == [f \in declared |-> validateField(d, f, rules[f])]
      rejected == {f \in declared : result[f] # "accepted"}
  IN  [p \in {q \in DOMAIN d : q[1] \in declared \ rejected} \cup {<<f>> : f \in rejected} |->
         IF p[1] \notin rejected THEN d[p]
         ELSE Str(IF result[p[1]] = "incorrect" THEN incorrect_rule ELSE unmatched_rule)]

\* All fields that the group does not declare become one entry; a declared
\* field of that name comes before or after them in the order of the map.
\* Mutant: they keep their names.
Undefined == [p \in {<<undefined_rule>>} |-> Str(undefined_rule)]
validateEventDataByName(d, v, group) ==
  IF group \notin DOMAIN v THEN {Undefined}
  ELSE LET rules == v[group].eventDataRules
       IN  {Over(validateKnown(d, rules), [p \in {<<f>> : f \in Fields(d) \ DOMAIN rules} |-> Str(undefined_rule)])}
validateEventData(d, v, group) ==
  IF group \notin DOMAIN v THEN {Undefined}
  ELSE LET rules == v[group].eventDataRules
           known == validateKnown(d, rules)
           stamped == With(known, undefined_rule, Str(undefined_rule))
       IN  IF Fields(d) \subseteq DOMAIN rules THEN {known}
           ELSE {stamped} \cup {k \in {known} : undefined_rule \in Fields(k)}

\* An event is dropped only when its group is known, and not for this build
\* or version.
Dropped(e, v) == e.group \in DOMAIN v /\ ~acceptsBuildVersion(v[e.group], e.build, e.version)
Validate(e, v) == {[e EXCEPT !.id = validateEventID(e.id, v, e.group), !.data = d] :
                     d \in validateEventData(e.data, v, e.group)}
=============================================================================
