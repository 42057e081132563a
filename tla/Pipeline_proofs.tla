-------------------------- MODULE Pipeline_proofs --------------------------
(***************************************************************************)
(* What Track makes of an event, for any schemes, event data of any depth  *)
(* and any calls.  Names and values are escaped once and for all; where    *)
(* names collide each field still comes from one field; what the validator *)
(* lets through it lets through again.                                     *)
(***************************************************************************)
EXTENDS Pipeline, FiniteSetTheorems, TLAPS

(***************************************************************************)
(* Escaping.                                                               *)
(***************************************************************************)

\* Which kinds of symbols escaping changes, and into which.
Affected(toReplace) == {"wide", "newline", "quote", "control"} \cup toReplace

LEMMA MarkKept ==
  ASSUME NEW toReplace, NEW whiteSpace, NEW mark, mark \notin Affected(toReplace)
  PROVE  escapedMark(mark, toReplace, whiteSpace) = mark
<1>1. mark # "wide" /\ mark # "newline" /\ mark # "quote" /\ mark \notin toReplace \cup {"control"}
  BY DEF Affected
<1>2. QED
  BY <1>1, Zenon DEF escapedMark

LEMMA MarkChanged ==
  ASSUME NEW toReplace, NEW whiteSpace, NEW mark \in Affected(toReplace),
         "wide" \notin toReplace, "newline" \notin toReplace, "quote" \notin toReplace
  PROVE  escapedMark(mark, toReplace, whiteSpace) \in {"?", "_", "plain", whiteSpace}
<1>1. "wide" \notin toReplace \cup {"control"} /\ "newline" \notin toReplace \cup {"control"}
      /\ "quote" \notin toReplace \cup {"control"}
      /\ "wide" # "newline" /\ "wide" # "quote" /\ "newline" # "quote"
  OBVIOUS
<1>2. mark = "wide" \/ mark = "newline" \/ mark = "quote" \/ mark \in toReplace \cup {"control"}
  BY DEF Affected
<1>3. CASE mark = "wide"
  BY <1>1, <1>3, Zenon DEF escapedMark
<1>4. CASE mark = "newline"
  BY <1>1, <1>4, Zenon DEF escapedMark
<1>5. CASE mark = "quote"
  BY <1>1, <1>5, Zenon DEF escapedMark
<1>6. CASE mark \in toReplace \cup {"control"}
  BY <1>1, <1>6, Zenon DEF escapedMark
<1>7. QED
  BY <1>2, <1>3, <1>4, <1>5, <1>6

LEMMA NewlineIs ==
  ASSUME NEW toReplace, NEW whiteSpace, "newline" \notin toReplace
  PROVE  escapedMark("newline", toReplace, whiteSpace) = whiteSpace
<1>1. "newline" \notin toReplace \cup {"control"} /\ "wide" # "newline" /\ "newline" # "quote"
  OBVIOUS
<1>2. QED
  BY <1>1, Zenon DEF escapedMark

\* Each way of escaping gives a text, keeps the word and the hash, and changes
\* nothing the second time.
LEMMA EscapeIs ==
  ASSUME NEW t \in Texts, NEW toReplace \in SUBSET {".", ":", ";", ",", "space", "gap"}, NEW whiteSpace \in {"_", "space"},
         whiteSpace \notin toReplace
  PROVE  LET e == escapeInternal(t, toReplace, whiteSpace)
         IN  /\ e \in Texts /\ e.word = t.word /\ e.hashed = t.hashed
             /\ t.mark \in {"plain", "?", "_"} => e = t
             /\ escapeInternal(e, toReplace, whiteSpace) = e
<1>1. PICK m : m = escapedMark(t.mark, toReplace, whiteSpace)
  OBVIOUS
<1>2. PICK k : k = t.mark
  OBVIOUS
<1>3. k \in Mark /\ whiteSpace \in Mark /\ {"?", "_", "plain"} \subseteq Mark
  BY <1>2 DEF Texts, Mark
<1>4. {"?", "_", "plain", whiteSpace} \cap Affected(toReplace) = {}
      /\ "wide" \notin toReplace /\ "newline" \notin toReplace /\ "quote" \notin toReplace
  BY DEF Affected
<1>6. m \in Mark /\ m \notin Affected(toReplace)
  <2>1. CASE k \in Affected(toReplace)
    <3>1. m \in {"?", "_", "plain", whiteSpace}
      BY <1>1, <1>2, <1>4, <2>1, MarkChanged
    <3>2. QED
      BY <1>3, <1>4, <3>1
  <2>2. CASE k \notin Affected(toReplace)
    BY <1>1, <1>2, <1>3, <2>2, MarkKept
  <2>3. QED
    BY <2>1, <2>2
<1>7. escapedMark(m, toReplace, whiteSpace) = m
  BY <1>6, MarkKept
<1>8. k \in {"plain", "?", "_"} => m = k
  BY <1>1, <1>2, <1>4, MarkKept
<1>9. PICK e : e = [t EXCEPT !.mark = m]
  OBVIOUS
<1>10. e = [word |-> t.word, mark |-> m, hashed |-> t.hashed] /\ e \in Texts
  BY <1>6, <1>9 DEF Texts
<1>11. m = k => e = t
  BY <1>2, <1>9 DEF Texts
<1>12. [e EXCEPT !.mark = m] = e
  <2>1. e.mark = m
    BY <1>10
  <2>2. QED
    BY <1>10, <2>1 DEF Texts
<1>13. CASE t.hashed > 0
  BY <1>13 DEF escapeInternal
<1>14. CASE ~(t.hashed > 0)
  <2>1. escapeInternal(t, toReplace, whiteSpace) = e
    BY <1>1, <1>9, <1>14 DEF escapeInternal
  <2>2. e.mark = m /\ e.word = t.word /\ e.hashed = t.hashed
    BY <1>10
  <2>3. escapeInternal(e, toReplace, whiteSpace) = e
    BY <1>7, <1>12, <1>14, <2>2 DEF escapeInternal
  <2>4. QED
    BY <1>2, <1>8, <1>10, <1>11, <2>1, <2>2, <2>3
<1>15. QED
  BY <1>13, <1>14

LEMMA TextEscaped ==
  ASSUME NEW t \in Texts
  PROVE  /\ escape(t) \in Texts /\ escape(escape(t)) = escape(t)
         /\ escapeEventIDOrFieldValue(t) \in Texts
         /\ escapeEventIDOrFieldValue(escapeEventIDOrFieldValue(t)) = escapeEventIDOrFieldValue(t)
         /\ escapeEventIDOrFieldValue(t).hashed = t.hashed
         /\ escapeEventIDOrFieldValue(t).word = t.word
<1>1. {":", ";", ",", "space", "gap"} \in SUBSET {".", ":", ";", ",", "space", "gap"} /\ {} \in SUBSET {".", ":", ";", ",", "space", "gap"}
  OBVIOUS
<1>2. QED
  BY <1>1, EscapeIs DEF escape, escapeEventIDOrFieldValue

\* The reserved words are as they are on the wire.
LEMMA ReservedStays ==
  /\ Reserved \subseteq Texts
  /\ \A t \in Reserved : escapeEventIDOrFieldValue(t) = t /\ t.hashed = 0
  /\ {undefined_rule, unmatched_rule, incorrect_rule} \subseteq Reserved
  /\ undefined_rule \in validationResultTypes
<1> USE DEF Reserved, validationResultTypes, fusSystemEvents, unmatched_rule, incorrect_rule, undefined_rule,
            Dotted, Plain, Text
<1>1. Reserved \subseteq Texts /\ \A t \in Reserved : t.mark \in {".", "plain"} /\ t.hashed = 0
  <2>1. SUFFICES ASSUME NEW t \in Reserved PROVE t \in Texts /\ t.mark \in {".", "plain"} /\ t.hashed = 0
    OBVIOUS
  <2>2. PICK w \in Word, m \in {".", "plain"} : t = [word |-> w, mark |-> m, hashed |-> 0]
    BY WordAssumption
  <2>3. QED
    BY <2>2 DEF Texts, Mark
<1>2. \A t \in Reserved : escapeEventIDOrFieldValue(t) = t
  <2>1. SUFFICES ASSUME NEW t \in Reserved PROVE escapeEventIDOrFieldValue(t) = t
    OBVIOUS
  <2>2. PICK m : m = t.mark
    OBVIOUS
  <2>3. m \in {".", "plain"}
    BY <1>1, <2>2
  <2>4. escapedMark(m, {}, "space") = m
    <3>1. m \notin Affected({})
      BY <2>3 DEF Affected
    <3>2. QED
      BY <3>1, MarkKept
  <2>5. [t EXCEPT !.mark = m] = t
    BY <1>1, <2>2 DEF Texts
  <2>6. t.hashed = 0
    BY <1>1
  <2> HIDE DEF Reserved
  <2>7. QED
    BY <2>2, <2>4, <2>5, <2>6 DEF escapeEventIDOrFieldValue, escapeInternal
<1>3. QED
  BY <1>1, <1>2

LEMMA NameEscaped ==
  ASSUME NEW t \in Texts
  PROVE  escapeFieldName(t) \in Texts /\ escapeFieldName(escapeFieldName(t)) = escapeFieldName(t)
<1>1. {".", ":", ";", ",", "space", "gap"} \in SUBSET {".", ":", ";", ",", "space", "gap"}
  OBVIOUS
<1>2. QED
  BY <1>1, EscapeIs DEF escapeFieldName

LEMMA BlankIs ==
  ASSUME NEW t \in Texts
  PROVE  Blank(t) <=> t.word = "" /\ t.hashed = 0 /\ t.mark \in {"plain", "newline", "space"}
<1>1. PICK none : none = Plain("")
  OBVIOUS
<1>2. none = [word |-> "", mark |-> "plain", hashed |-> 0]
  BY <1>1 DEF Plain, Text
<1>3. PICK w \in Word, m \in Mark, h \in Nat : t = [word |-> w, mark |-> m, hashed |-> h]
  BY DEF Texts
<1>4. CASE t.hashed = 0 /\ t.mark \in {"newline", "space"}
  <2>1. PICK u : u = [t EXCEPT !.mark = "plain"]
    OBVIOUS
  <2>2. u = [word |-> t.word, mark |-> "plain", hashed |-> t.hashed]
    BY <1>3, <2>1
  <2>3. Trim(t) = u
    BY <1>4, <2>1 DEF Trim
  <2>4. u = none <=> t.word = "" /\ t.hashed = 0
    BY <1>2, <2>2
  <2>5. QED
    BY <1>1, <1>4, <2>3, <2>4 DEF Blank
<1>5. CASE ~(t.hashed = 0 /\ t.mark \in {"newline", "space"})
  <2>1. Trim(t) = t
    BY <1>5 DEF Trim
  <2>2. t = none <=> t.word = "" /\ t.mark = "plain" /\ t.hashed = 0
    <3>1. ASSUME t.word = "", t.mark = "plain", t.hashed = 0 PROVE t = none
      <4>1. w = "" /\ m = "plain" /\ h = 0
        BY <1>3, <3>1
      <4>2. QED
        BY <1>2, <1>3, <4>1
    <3>2. ASSUME t = none PROVE t.word = "" /\ t.mark = "plain" /\ t.hashed = 0
      <4>1. none.word = "" /\ none.mark = "plain" /\ none.hashed = 0
        BY <1>2
      <4>2. QED
        BY <3>2, <4>1, Zenon
    <3>3. QED
      BY <3>1, <3>2
  <2>3. QED
    BY <1>1, <1>5, <2>1, <2>2 DEF Blank
<1>6. QED
  BY <1>4, <1>5

LEMMA BlankStays ==
  ASSUME NEW t \in Texts, Blank(t)
  PROVE  Blank(escapeEventIDOrFieldValue(t))
<1>1. PICK k : k = t.mark
  OBVIOUS
<1>8. t.word = "" /\ t.hashed = 0 /\ k \in {"plain", "newline", "space"}
  BY <1>1, BlankIs
<1>2. PICK m : m = escapedMark(k, {}, "space")
  OBVIOUS
<1>3. m = "plain" \/ m = "space"
  <2>1. k = "newline" \/ k \in {"plain", "space"}
    BY <1>8
  <2>2. CASE k = "newline"
    BY <1>2, <2>2, NewlineIs
  <2>3. CASE k \in {"plain", "space"}
    <3>1. k \notin Affected({})
      BY <2>3 DEF Affected
    <3>2. m = k
      BY <1>2, <3>1, MarkKept
    <3>3. QED
      BY <2>3, <3>2
  <2>4. QED
    BY <2>1, <2>2, <2>3
<1>4. PICK e : e = [t EXCEPT !.mark = m]
  OBVIOUS
<1>5. e.mark = m
  BY <1>4 DEF Texts
<1>6. escapeEventIDOrFieldValue(t) = e
  <2>1. ~(t.hashed > 0)
    <3>1. t.hashed = 0
      BY <1>8
    <3>2. QED
      BY <3>1
  <2>2. QED
    BY <1>1, <1>2, <1>4, <2>1 DEF escapeEventIDOrFieldValue, escapeInternal
<1>7. e \in Texts /\ e.word = "" /\ e.hashed = 0
  BY <1>6, <1>8, TextEscaped
<1>9. QED
  BY <1>3, <1>5, <1>6, <1>7, BlankIs

(***************************************************************************)
(* Values.                                                                 *)
(***************************************************************************)

LEMMA LeafIs ==
  ASSUME NEW v \in Leaf
  PROVE  /\ \/ v = [text |-> v.text] /\ v.text \in Texts
            \/ v = [scalar |-> v.scalar] /\ v.scalar \in Texts
            \/ v = Nil
            \/ v = Empty
         /\ Is("text", v) => v = Str(v.text) /\ v.text \in Texts
         /\ Is("scalar", v) => v.scalar \in Texts
         /\ v = Nil \/ v = Empty => ~Is("text", v) /\ ~Is("scalar", v)
         /\ Is("text", v) => ~Is("scalar", v)
BY DEF Leaf, Nil, Empty, Is, Str

LEMMA StrIs ==
  ASSUME NEW t
  PROVE  Is("text", Str(t)) /\ Str(t).text = t /\ (t \in Texts => Str(t) \in Leaf) /\ Str(t) # Nil /\ Str(t) # Empty
BY DEF Is, Str, Leaf, Nil, Empty

LEMMA TextIs ==
  ASSUME NEW w \in Word, NEW m \in Mark
  PROVE  Text(w, m) \in Texts /\ Text(w, m).hashed = 0 /\ Text(w, m).mark = m
BY DEF Text, Texts

LEMMA PrintedIs ==
  ASSUME NEW v \in Leaf
  PROVE  /\ Printed(v) \in Texts
         /\ Is("text", v) => Printed(v) = v.text
         /\ Printed(v).hashed > 0 => Is("text", v) \/ Is("scalar", v)
         /\ Is("scalar", v) => Printed(v) = v.scalar
<1>1. Printed(v) = IF Is("text", v) THEN v.text ELSE IF Is("scalar", v) THEN v.scalar
                   ELSE IF Is("nil", v) THEN Plain("") ELSE Text("map", ":")
  <2>1. CASE Is("text", v)
    <3>1. ~Is("scalar", v) /\ ~Is("nil", v)
      BY <2>1, LeafIs DEF Is, Str
    <3>2. QED
      BY <2>1, <3>1, Zenon DEF Printed
  <2>2. CASE Is("scalar", v)
    <3>1. ~Is("text", v) /\ ~Is("nil", v)
      BY <2>2, LeafIs DEF Is, Str, Nil, Empty
    <3>2. QED
      BY <2>2, <3>1, Zenon DEF Printed
  <2>3. CASE ~Is("text", v) /\ ~Is("scalar", v)
    BY <2>3, Zenon DEF Printed
  <2>4. QED
    BY <2>1, <2>2, <2>3
<1>2. Plain("") \in Texts /\ Text("map", ":") \in Texts /\ Plain("").hashed = 0 /\ Text("map", ":").hashed = 0
  <2>1. "" \in Word /\ "map" \in Word /\ "plain" \in Mark /\ ":" \in Mark
    BY WordAssumption DEF Mark
  <2>2. QED
    BY <2>1, TextIs DEF Plain
<1>3. CASE Is("text", v)
  BY <1>1, <1>3, LeafIs
<1>4. CASE Is("scalar", v)
  BY <1>1, <1>4, LeafIs
<1>5. CASE ~Is("text", v) /\ ~Is("scalar", v)
  <2>1. Printed(v) = Plain("") \/ Printed(v) = Text("map", ":")
    BY <1>1, <1>5, Zenon
  <2>2. Printed(v) \in Texts /\ Printed(v).hashed = 0
    BY <1>2, <2>1, Zenon
  <2>3. QED
    BY <1>5, <2>2
<1>6. QED
  BY <1>3, <1>4, <1>5

(***************************************************************************)
(* Event data.                                                             *)
(***************************************************************************)

\* The types of event data inside Track.
Path == Seq(Texts) \ {<<>>}
Sound(d) == \A p \in DOMAIN d : /\ p \in Path /\ d[p] \in Leaf
                                /\ Is("text", d[p]) => d[p].text.hashed \in 0..1
                                /\ Is("scalar", d[p]) => d[p].scalar.hashed = 0

LEMMA EscapedLeaf ==
  ASSUME NEW v \in Leaf
  PROVE  LET e == escapeEventDataValue(v)
         IN  /\ e \in Leaf
             /\ Is("text", e) <=> Is("text", v)
             /\ Is("text", v) => e.text = escapeEventIDOrFieldValue(v.text) /\ e.text.hashed = v.text.hashed
             /\ ~Is("text", v) => e = v
             /\ Printed(e) \in Texts
             /\ escapeEventIDOrFieldValue(Printed(e)) = escapeEventIDOrFieldValue(Printed(v))
<1>1. CASE Is("text", v)
  <2>1. v.text \in Texts /\ Printed(v) = v.text
    BY <1>1, LeafIs, PrintedIs
  <2>2. PICK t : t = escapeEventIDOrFieldValue(v.text)
    OBVIOUS
  <2>3. t \in Texts /\ escapeEventIDOrFieldValue(t) = t /\ t.hashed = v.text.hashed
    BY <2>1, <2>2, TextEscaped
  <2>4. escapeEventDataValue(v) = Str(t)
    BY <1>1, <2>2 DEF escapeEventDataValue
  <2>5. Is("text", Str(t)) /\ Str(t).text = t /\ Str(t) \in Leaf
    BY <2>3, StrIs
  <2>6. Printed(Str(t)) = t
    BY <2>5, PrintedIs
  <2>7. QED
    BY <1>1, <2>1, <2>2, <2>3, <2>4, <2>5, <2>6
<1>2. CASE ~Is("text", v)
  BY <1>2, PrintedIs DEF escapeEventDataValue
<1>3. QED
  BY <1>1, <1>2

LEMMA PathEscaped ==
  ASSUME NEW p \in Path
  PROVE  /\ p[1] \in Texts
         /\ escapePath(p) \in Path
         /\ escapePath(p)[1] = escapeFieldName(p[1])
         /\ \A f : p = <<f>> => escapePath(p) = <<escapeFieldName(f)>>
         /\ \A name : escapePath(p) = <<name>> => p = <<p[1]>>
<1>1. p \in Seq(Texts) /\ Len(p) \in Nat \ {0} /\ DOMAIN p = 1..Len(p)
  BY DEF Path
<1>2. \A i \in 1..Len(p) : p[i] \in Texts /\ escapeFieldName(p[i]) \in Texts
  BY <1>1, NameEscaped
<1>3. PICK e : e = [i \in 1..Len(p) |-> escapeFieldName(p[i])]
  OBVIOUS
<1>4. escapePath(p) = e
  BY <1>1, <1>3 DEF escapePath
<1>5. e \in Seq(Texts) /\ Len(e) = Len(p) /\ e # <<>> /\ e[1] = escapeFieldName(p[1])
  BY <1>1, <1>2, <1>3
<1>6. \A f : p = <<f>> => e = <<escapeFieldName(f)>>
  BY <1>1, <1>3
<1>7. \A name : e = <<name>> => p = <<p[1]>>
  <2>1. SUFFICES ASSUME NEW name, e = <<name>> PROVE p = <<p[1]>>
    OBVIOUS
  <2>2. Len(p) = 1
    BY <1>5, <2>1
  <2>3. QED
    BY <1>1, <2>2
<1>8. QED
  BY <1>1, <1>2, <1>4, <1>5, <1>6, <1>7 DEF Path

\* Every value on the wire is one of those that survive, escaped.
LEMMA EscapedData ==
  ASSUME NEW d, Sound(d), NEW kept \in Survivors(DOMAIN d)
  PROVE  LET w == Escaped(d, kept)
         IN  /\ Sound(w)
             /\ \A p \in DOMAIN w : \E q \in kept : /\ q \in DOMAIN d /\ escapePath(q) = p
                                                     /\ w[p] = escapeEventDataValue(d[q])
             /\ \A q \in kept : q \in DOMAIN d /\ escapePath(q) \in DOMAIN w
<1>1. PICK w : w = Escaped(d, kept)
  OBVIOUS
<1>2. kept \subseteq DOMAIN d
  BY DEF Survivors
<1>3. DOMAIN w = {escapePath(q) : q \in kept}
  BY <1>1 DEF Escaped
<1>4. ASSUME NEW p \in DOMAIN w
      PROVE  \E q \in kept : q \in DOMAIN d /\ escapePath(q) = p /\ w[p] = escapeEventDataValue(d[q])
  <2>1. PICK q : q = CHOOSE x \in kept : escapePath(x) = p
    OBVIOUS
  <2>2. q \in kept /\ escapePath(q) = p
    BY <1>3, <2>1
  <2>3. w[p] = escapeEventDataValue(d[q])
    BY <1>1, <1>3, <2>1 DEF Escaped
  <2>4. QED
    BY <1>2, <2>2, <2>3
<1>5. ASSUME NEW p \in DOMAIN w
      PROVE  /\ p \in Path /\ w[p] \in Leaf
             /\ Is("text", w[p]) => w[p].text.hashed \in 0..1
             /\ Is("scalar", w[p]) => w[p].scalar.hashed = 0
  <2>1. PICK q \in kept : q \in DOMAIN d /\ escapePath(q) = p /\ w[p] = escapeEventDataValue(d[q])
    BY <1>4
  <2>2. /\ q \in Path /\ d[q] \in Leaf
        /\ Is("text", d[q]) => d[q].text.hashed \in 0..1
        /\ Is("scalar", d[q]) => d[q].scalar.hashed = 0
    BY <2>1 DEF Sound
  <2>3. p \in Path
    BY <2>1, <2>2, PathEscaped
  <2>4. PICK e : e = escapeEventDataValue(d[q])
    OBVIOUS
  <2>5. /\ e \in Leaf /\ (Is("text", e) <=> Is("text", d[q]))
        /\ Is("text", d[q]) => e.text.hashed = d[q].text.hashed
        /\ ~Is("text", d[q]) => e = d[q]
    BY <2>2, <2>4, EscapedLeaf
  <2>6. Is("text", e) => ~Is("scalar", e)
    BY <2>5, LeafIs
  <2>7. QED
    BY <2>1, <2>2, <2>3, <2>4, <2>5, <2>6
<1>6. Sound(w)
  BY <1>5 DEF Sound
<1>7. QED
  BY <1>1, <1>2, <1>3, <1>4, <1>6

LEMMA RivalFields ==
  ASSUME NEW p \in Path, NEW q \in Path
  PROVE  /\ p[1] # q[1] /\ escapeFieldName(p[1]) = escapeFieldName(q[1]) => Rivals(p, q)
         /\ Rivals(p, q) /\ p = <<p[1]>> => p[1] # q[1] /\ escapeFieldName(p[1]) = escapeFieldName(q[1])
         /\ Rivals(p, q) /\ p[1] # q[1] => escapeFieldName(p[1]) = escapeFieldName(q[1])
<1>1. 1 \in DOMAIN p \cap DOMAIN q /\ DOMAIN p \subseteq Nat \ {0} /\ (p = <<p[1]>> => DOMAIN p = {1})
  BY DEF Path
<1>2. ASSUME p[1] # q[1], escapeFieldName(p[1]) = escapeFieldName(q[1])
      PROVE  Rivals(p, q)
  <2>1. \A j \in 1..1 - 1 : p[j] = q[j]
    OBVIOUS
  <2>2. QED
    BY <1>1, <1>2, <2>1 DEF Rivals
<1>3. ASSUME Rivals(p, q)
      PROVE  /\ p = <<p[1]>> => p[1] # q[1] /\ escapeFieldName(p[1]) = escapeFieldName(q[1])
             /\ p[1] # q[1] => escapeFieldName(p[1]) = escapeFieldName(q[1])
  <2>1. PICK i \in DOMAIN p \cap DOMAIN q : /\ \A j \in 1..i - 1 : p[j] = q[j]
                                            /\ p[i] # q[i] /\ escapeFieldName(p[i]) = escapeFieldName(q[i])
    BY <1>3 DEF Rivals
  <2>2. i \in Nat \ {0}
    BY <1>1
  <2>3. CASE i = 1
    BY <2>1, <2>3
  <2>4. CASE i # 1
    <3>1. 1 \in 1..i - 1
      BY <2>2, <2>4
    <3>2. p[1] = q[1] /\ p # <<p[1]>>
      BY <1>1, <2>1, <2>4, <3>1
    <3>3. QED
      BY <3>2
  <2>5. QED
    BY <2>3, <2>4
<1>4. QED
  BY <1>2, <1>3

\* All that is on the wire under one name comes from one field, whose own value
\* is on the wire when it has one.
LEMMA OneSource ==
  ASSUME NEW d, Sound(d), NEW kept \in Survivors(DOMAIN d), NEW name \in Fields(Escaped(d, kept))
  PROVE  LET w == Escaped(d, kept)
         IN  \E f \in Fields(d) :
               /\ f \in Texts /\ escapeFieldName(f) = name
               /\ <<name>> \in DOMAIN w <=> <<f>> \in DOMAIN d
               /\ <<f>> \in DOMAIN d => w[<<name>>] = escapeEventDataValue(d[<<f>>])
               /\ \A p \in DOMAIN w : p[1] = name =>
                    \E q \in DOMAIN d : q[1] = f /\ escapePath(q) = p /\ w[p] = escapeEventDataValue(d[q])
<1>1. PICK w : w = Escaped(d, kept)
  OBVIOUS
<1>2. /\ \A p \in DOMAIN w : \E q \in kept : /\ q \in DOMAIN d /\ escapePath(q) = p
                                             /\ w[p] = escapeEventDataValue(d[q])
      /\ \A q \in kept : q \in DOMAIN d /\ escapePath(q) \in DOMAIN w
  BY <1>1, EscapedData
<1>3. \A q \in DOMAIN d : q \in Path
  BY DEF Sound
<1>4. \A p, q \in kept : ~Rivals(p, q)
  BY DEF Survivors
<1>5. \A p \in DOMAIN d \ kept : \E q \in kept : Rivals(p, q)
  BY DEF Survivors
<1>6. PICK q0 \in kept : q0 \in DOMAIN d /\ escapeFieldName(q0[1]) = name
  <2>1. PICK p \in DOMAIN w : p[1] = name
    BY <1>1 DEF Fields
  <2>2. PICK q \in kept : q \in DOMAIN d /\ escapePath(q) = p
    BY <1>2
  <2>3. escapePath(q)[1] = escapeFieldName(q[1])
    BY <1>3, <2>2, PathEscaped
  <2>4. QED
    BY <2>1, <2>2, <2>3
<1>7. PICK f : f = q0[1]
  OBVIOUS
<1>8. f \in Texts /\ escapeFieldName(f) = name /\ f \in Fields(d)
  BY <1>3, <1>6, <1>7, PathEscaped DEF Fields
<1>9. ASSUME NEW q \in kept, escapeFieldName(q[1]) = name
      PROVE  q[1] = f
  <2>1. q \in Path /\ q0 \in Path /\ ~Rivals(q, q0)
    BY <1>2, <1>3, <1>4, <1>6
  <2>2. QED
    BY <1>6, <1>7, <1>9, <2>1, RivalFields
<1>10. ASSUME <<f>> \in DOMAIN d
       PROVE  <<f>> \in kept
  <2>1. SUFFICES ASSUME <<f>> \notin kept PROVE FALSE
    OBVIOUS
  <2>2. PICK q \in kept : Rivals(<<f>>, q)
    BY <1>5, <1>10, <2>1
  <2>3. PICK p : p = <<f>>
    OBVIOUS
  <2>4. p \in Path /\ q \in Path /\ p[1] = f /\ p = <<p[1]>>
    BY <1>2, <1>3, <1>10, <2>3
  <2>5. f # q[1] /\ escapeFieldName(f) = escapeFieldName(q[1])
    BY <2>2, <2>3, <2>4, RivalFields
  <2>6. QED
    BY <1>8, <1>9, <2>5
<1>11. ASSUME NEW p \in DOMAIN w, p[1] = name
       PROVE  \E q \in kept : /\ q \in DOMAIN d /\ q[1] = f /\ escapePath(q) = p
                              /\ w[p] = escapeEventDataValue(d[q])
  <2>1. PICK q \in kept : q \in DOMAIN d /\ escapePath(q) = p /\ w[p] = escapeEventDataValue(d[q])
    BY <1>2
  <2>2. escapeFieldName(q[1]) = name
    BY <1>3, <1>11, <2>1, PathEscaped
  <2>3. QED
    BY <1>9, <2>1, <2>2
<1>12. ASSUME <<name>> \in DOMAIN w
       PROVE  <<f>> \in DOMAIN d /\ w[<<name>>] = escapeEventDataValue(d[<<f>>])
  <2>1. PICK q \in kept : /\ q \in DOMAIN d /\ q[1] = f /\ escapePath(q) = <<name>>
                          /\ w[<<name>>] = escapeEventDataValue(d[q])
    BY <1>11, <1>12
  <2>2. q = <<f>>
    BY <1>3, <2>1, PathEscaped
  <2>3. QED
    BY <2>1, <2>2
<1>13. ASSUME <<f>> \in DOMAIN d
       PROVE  <<name>> \in DOMAIN w
  <2>1. escapePath(<<f>>) \in DOMAIN w
    BY <1>2, <1>10, <1>13
  <2>2. escapePath(<<f>>) = <<name>>
    BY <1>3, <1>8, <1>13, PathEscaped
  <2>3. QED
    BY <2>1, <2>2
<1>14. QED
  BY <1>1, <1>8, <1>11, <1>12, <1>13

\* Under the escaped name of a field, a field arrives.
LEMMA NameStays ==
  ASSUME NEW d, Sound(d), NEW kept \in Survivors(DOMAIN d), NEW f \in Fields(d)
  PROVE  escapeFieldName(f) \in Fields(Escaped(d, kept))
<1>1. PICK w : w = Escaped(d, kept)
  OBVIOUS
<1>2. \A q \in DOMAIN d : q \in Path
  BY DEF Sound
<1>3. PICK p \in DOMAIN d : p[1] = f
  BY DEF Fields
<1>4. PICK q \in kept : q \in DOMAIN d /\ escapeFieldName(q[1]) = escapeFieldName(f)
  <2>1. CASE p \in kept
    BY <1>3, <2>1
  <2>2. CASE p \notin kept
    <3>1. PICK q \in kept : Rivals(p, q)
      BY <1>3, <2>2 DEF Survivors
    <3>2. q \in DOMAIN d
      BY DEF Survivors
    <3>3. p[1] # q[1] => escapeFieldName(p[1]) = escapeFieldName(q[1])
      BY <1>2, <3>1, <3>2, RivalFields
    <3>4. QED
      BY <1>3, <3>2, <3>3
  <2>3. QED
    BY <2>1, <2>2
<1>5. escapePath(q) \in DOMAIN w
  BY <1>1, <1>4, EscapedData
<1>6. escapePath(q)[1] = escapeFieldName(f)
  BY <1>2, <1>4, PathEscaped
<1>7. QED
  BY <1>1, <1>5, <1>6 DEF Fields

\* No field is lost when the names of all are as they are on the wire.
LEMMA FieldsStay ==
  ASSUME NEW d, Sound(d), NEW kept \in Survivors(DOMAIN d),
         \A f \in Fields(d) : escapeFieldName(f) = f
  PROVE  Fields(Escaped(d, kept)) = Fields(d)
<1>1. PICK w : w = Escaped(d, kept)
  OBVIOUS
<1>2. \A q \in DOMAIN d : q \in Path
  BY DEF Sound
<1>3. Fields(w) \subseteq Fields(d)
  <2>1. SUFFICES ASSUME NEW name \in Fields(w) PROVE name \in Fields(d)
    OBVIOUS
  <2>2. PICK f \in Fields(d) : escapeFieldName(f) = name
    BY <1>1, OneSource
  <2>3. QED
    BY <2>2
<1>4. \A f \in Fields(d) : f \in Fields(w)
  BY <1>1, NameStays
<1>5. QED
  BY <1>1, <1>3, <1>4

(***************************************************************************)
(* Validation.  What a field has in k it has in d, or it is one string.    *)
(***************************************************************************)

From(k, d, f) == \A p \in DOMAIN k \cup DOMAIN d :
                   p[1] = f => p \in DOMAIN k /\ p \in DOMAIN d /\ k[p] = d[p]
Stamped(k, f, t) == /\ <<f>> \in DOMAIN k /\ k[<<f>>] = Str(t)
                    /\ \A p \in DOMAIN k : p[1] = f => p = <<f>>

\* The validator looks at a field alone.
LEMMA FieldAlone ==
  ASSUME NEW k, NEW d, NEW f, NEW rules, From(k, d, f)
  PROVE  validateField(k, f, rules) = validateField(d, f, rules)
<1>1. PICK p : p = <<f>>
  OBVIOUS
<1>2. p[1] = f
  BY <1>1
<1>3. (p \in DOMAIN k <=> p \in DOMAIN d) /\ (p \in DOMAIN d => k[p] = d[p])
  BY <1>2 DEF From
<1>4. IsText(k, f) <=> IsText(d, f)
  BY <1>1, <1>3 DEF IsText
<1>5. IsText(d, f) => k[<<f>>].text = d[<<f>>].text
  BY <1>1, <1>3 DEF IsText
<1>6. valueToString(k, f) = valueToString(d, f)
  BY <1>1, <1>3 DEF valueToString
<1>7. QED
  BY <1>4, <1>5, <1>6 DEF validateField

LEMMA StampedAccepted ==
  ASSUME NEW k, NEW f, NEW t \in Reserved, NEW rules, Stamped(k, f, t)
  PROVE  IsText(k, f) /\ k[<<f>>].text = t /\ validateField(k, f, rules) = "accepted"
<1>1. IsText(k, f) /\ k[<<f>>].text = t
  BY StrIs DEF Stamped, IsText
<1>2. QED
  BY <1>1 DEF validateField

LEMMA SoundStamp ==
  ASSUME NEW t \in Reserved
  PROVE  /\ Str(t) \in Leaf /\ Str(t).text.hashed \in 0..1 /\ ~Is("scalar", Str(t))
<1>1. t \in Texts /\ t.hashed = 0
  BY ReservedStays
<1>2. Str(t) \in Leaf /\ Str(t).text = t /\ Is("text", Str(t))
  BY <1>1, StrIs
<1>3. QED
  BY <1>1, <1>2, LeafIs

LEMMA OneStep ==
  ASSUME NEW f \in Texts
  PROVE  <<f>> \in Path /\ <<f>>[1] = f
BY DEF Path

LEMMA WithIs ==
  ASSUME NEW d, Sound(d), NEW f \in Texts, NEW t \in Reserved
  PROVE  LET w == With(d, f, Str(t))
         IN  /\ Sound(w) /\ Fields(w) = Fields(d) \cup {f} /\ Stamped(w, f, t)
             /\ \A g \in Fields(d) : g # f => From(w, d, g)
<1>1. PICK w : w = With(d, f, Str(t))
  OBVIOUS
<1>2. PICK o : o = <<f>>
  OBVIOUS
<1>3. o \in Path /\ o[1] = f
  BY <1>2, OneStep
<1>4. DOMAIN w = {q \in DOMAIN d : q[1] # f} \cup {o}
  BY <1>1, <1>2 DEF With
<1>5. w[o] = Str(t) /\ \A p \in DOMAIN w : p # o => w[p] = d[p]
  BY <1>1, <1>2 DEF With
<1>6. Sound(w)
  <2>1. SUFFICES ASSUME NEW p \in DOMAIN w
                 PROVE  /\ p \in Path /\ w[p] \in Leaf
                        /\ Is("text", w[p]) => w[p].text.hashed \in 0..1
                        /\ Is("scalar", w[p]) => w[p].scalar.hashed = 0
    BY DEF Sound
  <2>2. CASE p = o
    BY <1>3, <1>5, <2>2, SoundStamp
  <2>3. CASE p # o
    BY <1>4, <1>5, <2>3 DEF Sound
  <2>4. QED
    BY <2>2, <2>3
<1>7. Fields(w) = Fields(d) \cup {f}
  BY <1>3, <1>4 DEF Fields
<1>8. Stamped(w, f, t)
  BY <1>2, <1>4, <1>5 DEF Stamped
<1>9. ASSUME NEW g \in Fields(d), g # f
      PROVE  From(w, d, g)
  <2>1. SUFFICES ASSUME NEW p \in DOMAIN w \cup DOMAIN d, p[1] = g
                 PROVE  p \in DOMAIN w /\ p \in DOMAIN d /\ w[p] = d[p]
    BY DEF From
  <2>2. p # o
    BY <1>3, <1>9, <2>1
  <2>3. QED
    BY <1>4, <1>5, <1>9, <2>1, <2>2
<1>10. QED
  BY <1>1, <1>6, <1>7, <1>8, <1>9

\* Each declared field stays as it was if it is accepted; else it is a string
\* that says why.
LEMMA KnownIs ==
  ASSUME NEW d, Sound(d), NEW rules
  PROVE  LET k == validateKnown(d, rules)
         IN  /\ Sound(k) /\ Fields(k) = Fields(d) \cap DOMAIN rules
             /\ k = [p \in DOMAIN k |-> k[p]]
             /\ \A f \in Fields(k) :
                  \/ validateField(d, f, rules[f]) = "accepted" /\ From(k, d, f)
                  \/ /\ validateField(d, f, rules[f]) # "accepted"
                     /\ Stamped(k, f, incorrect_rule) \/ Stamped(k, f, unmatched_rule)
<1> DEFINE declared == Fields(d) \cap DOMAIN rules
           result == [f \in declared |-> validateField(d, f, rules[f])]
           rejected == {f \in declared : result[f] # "accepted"}
           Reason(f) == IF result[f] = "incorrect" THEN incorrect_rule ELSE unmatched_rule
<1>1. PICK k : k = validateKnown(d, rules)
  OBVIOUS
<1>2. k = [p \in {q \in DOMAIN d : q[1] \in declared \ rejected} \cup {<<f>> : f \in rejected} |->
             IF p[1] \notin rejected THEN d[p] ELSE Str(Reason(p[1]))]
  BY <1>1 DEF validateKnown
<1>3. /\ rejected \subseteq declared /\ declared \subseteq Texts /\ declared = Fields(d) \cap DOMAIN rules
      /\ \A f \in declared : f \in rejected <=> validateField(d, f, rules[f]) # "accepted"
  <2>1. Fields(d) \subseteq Texts
    BY PathEscaped DEF Fields, Sound
  <2>2. QED
    BY <2>1
<1>4. \A f : Reason(f) \in {incorrect_rule, unmatched_rule}
  OBVIOUS
<1> HIDE DEF declared, rejected, Reason
<1>5. \A f \in rejected : <<f>> \in Path /\ <<f>>[1] = f
  BY <1>3, OneStep
<1>6. /\ DOMAIN k = {q \in DOMAIN d : q[1] \in declared \ rejected} \cup {<<f>> : f \in rejected}
      /\ k = [p \in DOMAIN k |-> k[p]]
  BY <1>2
<1>7. \A p \in DOMAIN k : p[1] \in declared
  BY <1>3, <1>5, <1>6
<1>8. \A p \in DOMAIN k : p[1] \notin rejected => p \in DOMAIN d /\ k[p] = d[p]
  BY <1>2, <1>5, <1>6
<1>9. \A p \in DOMAIN k : p[1] \in rejected => p = <<p[1]>> /\ k[p] = Str(Reason(p[1]))
  BY <1>2, <1>5, <1>6
<1>10. Sound(k)
  <2>1. SUFFICES ASSUME NEW p \in DOMAIN k
                 PROVE  /\ p \in Path /\ k[p] \in Leaf
                        /\ Is("text", k[p]) => k[p].text.hashed \in 0..1
                        /\ Is("scalar", k[p]) => k[p].scalar.hashed = 0
    BY DEF Sound
  <2>2. CASE p[1] \notin rejected
    BY <1>8, <2>2 DEF Sound
  <2>3. CASE p[1] \in rejected
    <3>1. Reason(p[1]) \in Reserved
      BY <1>4, ReservedStays
    <3>2. QED
      BY <1>5, <1>9, <2>3, <3>1, SoundStamp
  <2>4. QED
    BY <2>2, <2>3
<1>11. Fields(k) = declared
  <2>1. Fields(k) \subseteq declared
    BY <1>7 DEF Fields
  <2>2. ASSUME NEW f \in declared
        PROVE  f \in Fields(k)
    <3>1. CASE f \in rejected
      <4>1. <<f>> \in DOMAIN k /\ <<f>>[1] = f
        BY <1>5, <1>6, <3>1
      <4>2. QED
        BY <4>1 DEF Fields
    <3>2. CASE f \notin rejected
      <4>1. PICK p \in DOMAIN d : p[1] = f
        BY <1>3 DEF Fields
      <4>2. p \in DOMAIN k
        BY <1>6, <3>2, <4>1
      <4>3. QED
        BY <4>1, <4>2 DEF Fields
    <3>3. QED
      BY <3>1, <3>2
  <2>3. QED
    BY <2>1, <2>2
<1>12. ASSUME NEW f \in declared
       PROVE  \/ validateField(d, f, rules[f]) = "accepted" /\ From(k, d, f)
              \/ /\ validateField(d, f, rules[f]) # "accepted"
                 /\ Stamped(k, f, incorrect_rule) \/ Stamped(k, f, unmatched_rule)
  <2>1. CASE f \in rejected
    <3>1. <<f>> \in DOMAIN k /\ <<f>>[1] = f /\ \A p \in DOMAIN k : p[1] = f => p = <<f>>
      BY <1>5, <1>6, <1>9, <2>1
    <3>2. k[<<f>>] = Str(Reason(f))
      BY <1>9, <2>1, <3>1
    <3>3. validateField(d, f, rules[f]) # "accepted"
      BY <1>3, <2>1
    <3>4. QED
      BY <1>4, <3>1, <3>2, <3>3 DEF Stamped
  <2>2. CASE f \notin rejected
    <3>1. validateField(d, f, rules[f]) = "accepted"
      BY <1>3, <2>2
    <3>2. \A p \in DOMAIN k \cup DOMAIN d : p[1] = f => p \in DOMAIN k /\ p \in DOMAIN d /\ k[p] = d[p]
      BY <1>6, <1>8, <2>2
    <3>3. QED
      BY <3>1, <3>2 DEF From
  <2>3. QED
    BY <2>1, <2>2
<1>13. QED
  BY <1>1, <1>3, <1>6, <1>10, <1>11, <1>12

\* What a field of the validated data is.
Valid(x, d, rules, f) ==
  \/ /\ f \in DOMAIN rules /\ f \in Fields(d)
     /\ From(x, d, f) /\ validateField(d, f, rules[f]) = "accepted"
  \/ f \in DOMAIN rules /\ (Stamped(x, f, incorrect_rule) \/ Stamped(x, f, unmatched_rule))
  \/ f = undefined_rule /\ Stamped(x, f, undefined_rule)

LEMMA ValidatedIs ==
  ASSUME NEW d, Sound(d), NEW v, NEW group \in DOMAIN v, NEW x \in validateEventData(d, v, group)
  PROVE  LET rules == v[group].eventDataRules
             declared == Fields(d) \cap DOMAIN rules
         IN  /\ Sound(x)
             /\ Fields(x) = declared \cup (IF declared = Fields(d) THEN {} ELSE {undefined_rule})
             /\ \A f \in Fields(x) : Valid(x, d, rules, f)
<1>1. PICK rules : rules = v[group].eventDataRules
  OBVIOUS
<1>2. PICK k : k = validateKnown(d, rules)
  OBVIOUS
<1>3. PICK stamped : stamped = With(k, undefined_rule, Str(undefined_rule))
  OBVIOUS
<1>4. PICK declared : declared = Fields(d) \cap DOMAIN rules
  OBVIOUS
<1>5. /\ Sound(k) /\ Fields(k) = declared
      /\ \A f \in Fields(k) : \/ validateField(d, f, rules[f]) = "accepted" /\ From(k, d, f)
                              \/ /\ validateField(d, f, rules[f]) # "accepted"
                                 /\ Stamped(k, f, incorrect_rule) \/ Stamped(k, f, unmatched_rule)
  BY <1>2, <1>4, KnownIs
<1>6. \A f \in Fields(k) : Valid(k, d, rules, f)
  BY <1>4, <1>5 DEF Valid
<1>7. IF Fields(d) \subseteq DOMAIN rules THEN x = k
      ELSE x = stamped \/ (x = k /\ undefined_rule \in Fields(k))
  <2>1. validateEventData(d, v, group) =
          IF Fields(d) \subseteq DOMAIN rules THEN {k}
          ELSE {stamped} \cup {m \in {k} : undefined_rule \in Fields(m)}
    BY <1>1, <1>2, <1>3 DEF validateEventData
  <2>2. CASE Fields(d) \subseteq DOMAIN rules
    <3>1. x \in {k}
      BY <2>1, <2>2
    <3>2. QED
      BY <2>2, <3>1
  <2>3. CASE ~(Fields(d) \subseteq DOMAIN rules)
    <3>1. x \in {stamped} \cup {m \in {k} : undefined_rule \in Fields(m)}
      BY <2>1, <2>3, Zenon
    <3>2. x = stamped \/ (x = k /\ undefined_rule \in Fields(k))
      BY <3>1, Zenon
    <3>3. QED
      BY <2>3, <3>2
  <2>4. QED
    BY <2>2, <2>3
<1>8. declared = Fields(d) <=> Fields(d) \subseteq DOMAIN rules
  BY <1>4
<1>9. CASE x = stamped /\ declared # Fields(d)
  <2>1. undefined_rule \in Reserved /\ undefined_rule \in Texts
    BY ReservedStays
  <2>2. /\ Sound(x) /\ Fields(x) = declared \cup {undefined_rule} /\ Stamped(x, undefined_rule, undefined_rule)
        /\ \A f \in declared : f # undefined_rule => From(x, k, f)
    BY <1>3, <1>5, <1>9, <2>1, WithIs
  <2>3. ASSUME NEW f \in declared, f # undefined_rule
        PROVE  Valid(x, d, rules, f)
    <3>1. From(x, k, f)
      BY <2>2, <2>3
    <3>2. ASSUME From(k, d, f) PROVE From(x, d, f)
      BY <3>1, <3>2 DEF From
    <3>3. ASSUME NEW t, Stamped(k, f, t) PROVE Stamped(x, f, t)
      <4>1. PICK p : p = <<f>>
        OBVIOUS
      <4>2. p[1] = f /\ p \in DOMAIN k
        BY <3>3, <4>1 DEF Stamped
      <4>3. p \in DOMAIN x /\ x[p] = k[p]
        BY <3>1, <4>2 DEF From
      <4>4. \A q \in DOMAIN x : q[1] = f => q \in DOMAIN k
        BY <3>1 DEF From
      <4>5. QED
        BY <3>3, <4>1, <4>3, <4>4 DEF Stamped
    <3>4. QED
      BY <1>4, <1>5, <3>2, <3>3 DEF Valid
  <2>4. Valid(x, d, rules, undefined_rule)
    BY <2>2 DEF Valid
  <2>5. QED
    BY <1>1, <1>4, <1>9, <2>2, <2>3, <2>4
<1>10. CASE x = k
  <2>1. declared # Fields(d) => undefined_rule \in declared \/ x = stamped
    BY <1>5, <1>7, <1>8
  <2>2. CASE declared = Fields(d) \/ undefined_rule \in declared
    <3>1. Fields(x) = declared \cup (IF declared = Fields(d) THEN {} ELSE {undefined_rule})
      BY <1>5, <1>10, <2>2
    <3>2. QED
      BY <1>1, <1>4, <1>5, <1>6, <1>10, <3>1
  <2>3. QED
    BY <1>9, <2>1, <2>2
<1>11. QED
  BY <1>7, <1>8, <1>9, <1>10

\* What passes as it is, and has no field but those declared and the stamp,
\* is all that the validator makes of it.
LEMMA SameAgain ==
  ASSUME NEW d, Sound(d), d = [p \in DOMAIN d |-> d[p]], NEW v, NEW group \in DOMAIN v,
         \A f \in Fields(d) :
           \/ f \in DOMAIN v[group].eventDataRules
              /\ validateField(d, f, v[group].eventDataRules[f]) = "accepted"
           \/ f = undefined_rule /\ Stamped(d, f, undefined_rule)
  PROVE  validateEventData(d, v, group) = {d}
<1>1. PICK rules : rules = v[group].eventDataRules
  OBVIOUS
<1>2. PICK k : k = validateKnown(d, rules)
  OBVIOUS
<1>3. PICK stamped : stamped = With(k, undefined_rule, Str(undefined_rule))
  OBVIOUS
<1>4. /\ Sound(k) /\ Fields(k) = Fields(d) \cap DOMAIN rules
      /\ k = [p \in DOMAIN k |-> k[p]]
      /\ \A f \in Fields(k) : \/ validateField(d, f, rules[f]) = "accepted" /\ From(k, d, f)
                              \/ /\ validateField(d, f, rules[f]) # "accepted"
                                 /\ Stamped(k, f, incorrect_rule) \/ Stamped(k, f, unmatched_rule)
  BY <1>2, KnownIs
<1>5. \A f \in Fields(d) : f \in DOMAIN rules => From(k, d, f)
  <2>1. SUFFICES ASSUME NEW f \in Fields(d), f \in DOMAIN rules PROVE From(k, d, f)
    OBVIOUS
  <2>2. f = undefined_rule /\ Stamped(d, f, undefined_rule) => validateField(d, f, rules[f]) = "accepted"
    BY ReservedStays, StampedAccepted
  <2>3. validateField(d, f, rules[f]) = "accepted"
    BY <1>1, <2>1, <2>2
  <2>4. f \in Fields(k)
    BY <1>4, <2>1
  <2>5. QED
    BY <1>4, <2>3, <2>4
<1>6. \A p \in DOMAIN k : p[1] \in DOMAIN rules /\ p \in DOMAIN d /\ k[p] = d[p]
  <2>1. SUFFICES ASSUME NEW p \in DOMAIN k PROVE p[1] \in DOMAIN rules /\ p \in DOMAIN d /\ k[p] = d[p]
    OBVIOUS
  <2>2. p[1] \in Fields(k)
    BY DEF Fields
  <2>3. p[1] \in DOMAIN rules /\ From(k, d, p[1])
    BY <1>4, <1>5, <2>2
  <2>4. QED
    BY <2>3 DEF From
<1>7. \A p \in DOMAIN d : p[1] \in DOMAIN rules => p \in DOMAIN k
  <2>1. SUFFICES ASSUME NEW p \in DOMAIN d, p[1] \in DOMAIN rules PROVE p \in DOMAIN k
    OBVIOUS
  <2>2. p[1] \in Fields(d)
    BY DEF Fields
  <2>3. QED
    BY <1>5, <2>1, <2>2 DEF From
<1>8. CASE Fields(d) \subseteq DOMAIN rules
  <2>1. DOMAIN k = DOMAIN d
    BY <1>6, <1>7, <1>8 DEF Fields
  <2>2. k = d
    BY <1>4, <1>6, <2>1
  <2>3. QED
    BY <1>1, <1>2, <1>8, <2>2 DEF validateEventData
<1>9. CASE ~(Fields(d) \subseteq DOMAIN rules)
  <2>1. undefined_rule \notin DOMAIN rules /\ Stamped(d, undefined_rule, undefined_rule)
        /\ \A f \in Fields(d) : f \notin DOMAIN rules => f = undefined_rule
    BY <1>1, <1>9
  <2>2. PICK o : o = <<undefined_rule>>
    OBVIOUS
  <2>3. o[1] = undefined_rule /\ o \in DOMAIN d /\ d[o] = Str(undefined_rule)
        /\ \A p \in DOMAIN d : p[1] = undefined_rule => p = o
    BY <2>1, <2>2 DEF Stamped
  <2>4. \A p \in DOMAIN d : p \in DOMAIN k \/ p = o
    BY <1>7, <2>1, <2>3 DEF Fields
  <2>5. DOMAIN stamped = {q \in DOMAIN k : q[1] # undefined_rule} \cup {o}
        /\ stamped = [p \in DOMAIN stamped |-> IF p = o THEN Str(undefined_rule) ELSE k[p]]
    BY <1>3, <2>2 DEF With
  <2>6. DOMAIN stamped = DOMAIN d
    BY <1>6, <2>1, <2>3, <2>4, <2>5
  <2>7. \A p \in DOMAIN d : stamped[p] = d[p]
    BY <1>6, <2>3, <2>4, <2>5, <2>6
  <2>8. stamped = d
    BY <2>5, <2>6, <2>7
  <2>9. undefined_rule \notin Fields(k)
    BY <1>4, <2>1
  <2>10. QED
    BY <1>1, <1>2, <1>3, <1>9, <2>8, <2>9 DEF validateEventData
<1>10. QED
  BY <1>8, <1>9

(***************************************************************************)
(* Anonymizing.                                                            *)
(***************************************************************************)

LEMMA AnonymizeIs ==
  ASSUME NEW t \in Texts, t.hashed = 0
  PROVE  /\ Anonymize(t) \in Texts /\ Anonymize(t).hashed \in 0..1
         /\ Anonymize(t).hashed > 0 \/ Blank(Anonymize(t))
<1>1. CASE Blank(t)
  BY <1>1 DEF Anonymize
<1>2. CASE ~Blank(t)
  <2>1. PICK h : h = t.hashed + 1
    OBVIOUS
  <2>2. PICK e : e = [t EXCEPT !.hashed = h]
    OBVIOUS
  <2>3. h = 1
    BY <2>1
  <2>4. e \in Texts /\ e.hashed = 1
    BY <2>2, <2>3 DEF Texts
  <2>5. Anonymize(t) = e
    BY <1>2, <2>1, <2>2 DEF Anonymize
  <2>6. QED
    BY <2>4, <2>5
<1>3. QED
  BY <1>1, <1>2

\* What a caller passes, with the given fields hashed.
Hashed(d, fields) == [p \in DOMAIN d |-> anonymizeValue(p, d[p], fields)]

LEMMA HashedIs ==
  ASSUME NEW d \in EventData, NEW fields
  PROVE  /\ Sound(Hashed(d, fields)) /\ Fields(Hashed(d, fields)) = Fields(d)
         /\ DOMAIN Hashed(d, fields) = DOMAIN d
         /\ \A p \in DOMAIN d : Key(p) \in fields =>
              LET v == Hashed(d, fields)[p]
              IN  \/ v \in {Nil, Empty}
                  \/ Is("text", v) /\ v.text \in Texts /\ (v.text.hashed > 0 \/ Blank(v.text))
<1>1. PICK x : x = Hashed(d, fields)
  OBVIOUS
<1>2. DOMAIN x = DOMAIN d /\ \A p \in DOMAIN d : x[p] = anonymizeValue(p, d[p], fields)
  BY <1>1 DEF Hashed
<1>3. ASSUME NEW p \in DOMAIN d
      PROVE  p \in Path /\ d[p] \in Leaf /\ Printed(d[p]).hashed = 0
  BY CallerAssumption DEF Path
<1>4. ASSUME NEW p \in DOMAIN d, x[p] = anonymizeScalar(d[p])
      PROVE  /\ x[p] \in Leaf /\ Is("text", x[p]) /\ x[p].text \in Texts /\ x[p].text.hashed \in 0..1
             /\ x[p].text.hashed > 0 \/ Blank(x[p].text)
  <2>1. PICK t : t = Anonymize(Printed(d[p]))
    OBVIOUS
  <2>2. t \in Texts /\ t.hashed \in 0..1 /\ (t.hashed > 0 \/ Blank(t))
    BY <1>3, <2>1, PrintedIs, AnonymizeIs
  <2>3. x[p] = Str(t)
    BY <1>4, <2>1 DEF anonymizeScalar
  <2>4. QED
    BY <2>2, <2>3, StrIs
<1>5. ASSUME NEW p \in DOMAIN d, x[p] = d[p]
      PROVE  /\ x[p] \in Leaf
             /\ Is("text", x[p]) => x[p].text.hashed \in 0..1
             /\ Is("scalar", x[p]) => x[p].scalar.hashed = 0
  BY <1>3, <1>5, PrintedIs
<1>6. Sound(x)
  <2>1. SUFFICES ASSUME NEW p \in DOMAIN x
                 PROVE  /\ p \in Path /\ x[p] \in Leaf
                        /\ Is("text", x[p]) => x[p].text.hashed \in 0..1
                        /\ Is("scalar", x[p]) => x[p].scalar.hashed = 0
    BY DEF Sound
  <2>2. x[p] = anonymizeScalar(d[p]) \/ x[p] = d[p]
    BY <1>2 DEF anonymizeValue
  <2>3. CASE x[p] = anonymizeScalar(d[p])
    BY <1>2, <1>3, <1>4, <2>3, LeafIs
  <2>4. CASE x[p] = d[p]
    BY <1>2, <1>3, <1>5, <2>4
  <2>5. QED
    BY <2>2, <2>3, <2>4
<1>7. Fields(x) = Fields(d)
  BY <1>2 DEF Fields
<1>8. ASSUME NEW p \in DOMAIN d, Key(p) \in fields
      PROVE  \/ x[p] \in {Nil, Empty}
             \/ Is("text", x[p]) /\ x[p].text \in Texts /\ (x[p].text.hashed > 0 \/ Blank(x[p].text))
  <2>1. CASE PassedOver(p, d[p])
    <3>1. x[p] = d[p]
      BY <1>2, <2>1 DEF anonymizeValue
    <3>2. QED
      BY <2>1, <3>1 DEF PassedOver
  <2>2. CASE ~PassedOver(p, d[p])
    <3>1. x[p] = anonymizeScalar(d[p])
      BY <1>2, <1>8, <2>2 DEF anonymizeValue
    <3>2. QED
      BY <1>4, <3>1
  <2>3. QED
    BY <2>1, <2>2
<1>9. QED
  BY <1>1, <1>2, <1>6, <1>7, <1>8

(***************************************************************************)
(* Rules.                                                                  *)
(***************************************************************************)

\* What settles it, when it is settled for a value, is a rule that accepts it.
LEMMA AcceptedByRule ==
  ASSUME NEW rules, NEW t, acceptRules(rules, t) = "accepted"
  PROVE  \E i \in DOMAIN rules : rules[i] # Incorrect /\ Accepts(rules[i], t)
<1>1. PICK final : final = {i \in DOMAIN rules : rules[i] = Incorrect \/ Accepts(rules[i], t)}
  OBVIOUS
<1>2. PICK first : first = {i \in final : \A j \in final : i <= j}
  OBVIOUS
<1>3. acceptRules(rules, t) = IF first = {} THEN "rejected"
                              ELSE IF \E i \in first : rules[i] = Incorrect THEN "incorrect" ELSE "accepted"
  BY <1>1, <1>2 DEF acceptRules
<1>4. first # {} /\ \A i \in first : rules[i] # Incorrect
  BY <1>3
<1>5. PICK i \in first : rules[i] # Incorrect
  BY <1>4
<1>6. i \in DOMAIN rules /\ (rules[i] = Incorrect \/ Accepts(rules[i], t))
  BY <1>1, <1>2
<1>7. QED
  BY <1>5, <1>6

\* The tables that the rules of a group are looked up in.
Tables(s, g) == mergeRules(Compiling(s.tables), g.tables)

LEMMA CompilingIs ==
  ASSUME NEW table
  PROVE  /\ \A x : x \in DOMAIN Compiling(table) <=> x \in DOMAIN table /\ ~Broken(table[x])
         /\ \A x \in DOMAIN Compiling(table) : Compiling(table)[x] = table[x]
BY DEF Compiling, RestrictValues, Restrict

LEMMA CompiledIs ==
  ASSUME NEW s, NEW group \in DOMAIN NewValidator(s)
  PROVE  LET g == s.groups[group]
             rules == NewValidator(s)[group].eventDataRules
         IN  /\ group \in DOMAIN s.groups
             /\ \A f \in DOMAIN rules :
                  /\ f \in DOMAIN g.eventData
                  /\ rules[f] = [i \in DOMAIN g.eventData[f] |-> parseRuleExpr(g.eventData[f][i], Tables(s, g))]
                                \o HashRule(g, f)
<1>1. PICK g : g = s.groups[group]
  OBVIOUS
<1>2. group \in DOMAIN s.groups /\ NewValidator(s)[group] = compiledGroup(g, Compiling(s.tables))
  BY <1>1 DEF NewValidator
<1>3. PICK all : all = [f \in DOMAIN g.eventData |->
                          [i \in DOMAIN g.eventData[f] |-> parseRuleExpr(g.eventData[f][i], Tables(s, g))]
                          \o HashRule(g, f)]
  OBVIOUS
<1>4. compiledGroup(g, Compiling(s.tables)).eventDataRules = RestrictValues(all, LAMBDA rs : rs # <<>>)
  BY <1>3 DEF compiledGroup, Tables
<1>5. \A f \in DOMAIN RestrictValues(all, LAMBDA rs : rs # <<>>) :
        f \in DOMAIN all /\ RestrictValues(all, LAMBDA rs : rs # <<>>)[f] = all[f]
  BY DEF RestrictValues, Restrict
<1>6. QED
  BY <1>1, <1>2, <1>3, <1>4, <1>5

\* What a rule becomes accepts what the rule admits.
LEMMA MadeIs ==
  ASSUME NEW content, NEW t
  PROVE  LET r == IF Broken(content) THEN Incorrect
                  ELSE IF Is("values", content) THEN makeEnumRule(content.values) ELSE content
         IN  r # Incorrect /\ Accepts(r, t) => ~Broken(content) /\ content # Incorrect /\ Admits(content, t)
<1>1. CASE Broken(content)
  BY <1>1
<1>2. CASE ~Broken(content) /\ Is("values", content)
  <2>1. content # Incorrect
    BY <1>2 DEF Is, Incorrect
  <2>2. CASE content.values = {}
    BY <1>2, <2>2 DEF makeEnumRule
  <2>3. CASE content.values # {}
    <3>1. PICK trimmed : trimmed = {Trim(v) : v \in content.values}
      OBVIOUS
    <3>2. makeEnumRule(content.values) = [values |-> trimmed]
      BY <2>3, <3>1 DEF makeEnumRule
    <3>3. Accepts([values |-> trimmed], t) => t \in trimmed
      BY DEF Accepts, Is
    <3>4. Admits(content, t) <=> t \in trimmed
      BY <1>2, <3>1 DEF Admits
    <3>5. QED
      BY <1>2, <2>1, <3>2, <3>3, <3>4
  <2>4. QED
    BY <2>2, <2>3
<1>3. CASE ~Broken(content) /\ ~Is("values", content)
  BY <1>3 DEF Admits
<1>4. QED
  BY <1>1, <1>2, <1>3

\* An expression accepts what it, or what it refers to, stands for.
LEMMA ParsedMeans ==
  ASSUME NEW g, NEW e, NEW t,
         parseRuleExpr(e, Tables(runtime, g)) # Incorrect, Accepts(parseRuleExpr(e, Tables(runtime, g)), t)
  PROVE  \E r \in Meaning(e, g) : ~Broken(r) /\ Admits(r, t)
<1>1. PICK tables : tables = Tables(runtime, g)
  OBVIOUS
<1>2. PICK content : content = IF ~Is("ref", e) THEN e
                               ELSE IF e.ref \in DOMAIN tables THEN tables[e.ref] ELSE Incorrect
  OBVIOUS
<1>3. parseRuleExpr(e, tables) =
        IF Broken(content) THEN Incorrect
        ELSE IF Is("values", content) THEN makeEnumRule(content.values) ELSE content
  BY <1>2 DEF parseRuleExpr
<1>4. ~Broken(content) /\ content # Incorrect /\ Admits(content, t)
  BY <1>1, <1>3, MadeIs
<1>5. CASE ~Is("ref", e)
  <2>1. content = e /\ Meaning(e, g) = {e}
    BY <1>2, <1>5 DEF Meaning
  <2>2. QED
    BY <1>4, <2>1
<1>6. CASE Is("ref", e)
  <2>1. PICK those : those = {m \in {g.tables, runtime.tables} : e.ref \in DOMAIN m /\ ~Broken(m[e.ref])}
    OBVIOUS
  <2>2. Meaning(e, g) = IF g.tables \in those THEN {g.tables[e.ref]} ELSE {m[e.ref] : m \in those}
    BY <1>6, <2>1 DEF Meaning
  <2>3. e.ref \in DOMAIN tables /\ content = tables[e.ref]
    BY <1>2, <1>4, <1>6
  <2>4. PICK mine : mine = Compiling(g.tables)
    OBVIOUS
  <2>5. PICK theirs : theirs = Compiling(runtime.tables)
    OBVIOUS
  <2>6. /\ DOMAIN tables = DOMAIN mine \cup DOMAIN theirs
        /\ \A x \in DOMAIN tables : tables[x] = IF x \in DOMAIN mine THEN mine[x] ELSE theirs[x]
    BY <1>1, <2>4, <2>5 DEF Tables, mergeRules, Over
  <2>7. CASE e.ref \in DOMAIN mine
    <3>1. content = g.tables[e.ref] /\ e.ref \in DOMAIN g.tables /\ ~Broken(g.tables[e.ref])
      BY <2>3, <2>4, <2>6, <2>7, CompilingIs
    <3>2. g.tables \in those
      BY <2>1, <3>1
    <3>3. QED
      BY <1>4, <2>2, <3>1, <3>2
  <2>8. CASE e.ref \notin DOMAIN mine
    <3>1. e.ref \in DOMAIN theirs /\ content = theirs[e.ref]
      BY <2>3, <2>6, <2>8
    <3>2. content = runtime.tables[e.ref] /\ e.ref \in DOMAIN runtime.tables /\ ~Broken(runtime.tables[e.ref])
      BY <2>5, <3>1, CompilingIs
    <3>3. g.tables \notin those
      BY <2>1, <2>4, <2>8, CompilingIs
    <3>4. runtime.tables \in those
      BY <2>1, <3>2
    <3>5. content \in Meaning(e, g)
      BY <2>2, <3>2, <3>3, <3>4
    <3>6. QED
      BY <1>4, <3>5
  <2>9. QED
    BY <2>7, <2>8
<1>7. QED
  BY <1>5, <1>6

\* A value that a field's rules accept is a hash, where the group has hashes,
\* or means one of the expressions the field is declared with.
LEMMA AcceptedMeans ==
  ASSUME NEW g, WellFormed(g), NEW f \in DOMAIN g.eventData, NEW t \in Texts,
         acceptRules([i \in DOMAIN g.eventData[f] |-> parseRuleExpr(g.eventData[f][i], Tables(runtime, g))]
                     \o HashRule(g, f), t) = "accepted"
  PROVE  \/ t.hashed > 0 /\ \E i \in DOMAIN g.anonymized : f \in g.anonymized[i].fields
         \/ \E e \in Range(g.eventData[f]) : \E r \in Meaning(e, g) : ~Broken(r) /\ Admits(r, t)
<1>1. PICK exprs : exprs = g.eventData[f]
  OBVIOUS
<1>2. PICK parsed : parsed = [i \in DOMAIN exprs |-> parseRuleExpr(exprs[i], Tables(runtime, g))]
  OBVIOUS
<1>3. PICK hash : hash = HashRule(g, f)
  OBVIOUS
<1>4. exprs \in Seq(Range(exprs))
  BY <1>1 DEF WellFormed
<1>5. Len(exprs) \in Nat /\ DOMAIN exprs = 1..Len(exprs)
  BY <1>4
<1>6. PICK some : some = {parseRuleExpr(exprs[i], Tables(runtime, g)) : i \in DOMAIN exprs}
  OBVIOUS
<1>7. parsed \in Seq(some) /\ Len(parsed) = Len(exprs) /\ DOMAIN parsed = DOMAIN exprs
  BY <1>2, <1>5, <1>6
<1>8. \/ hash = <<[pattern |-> "hash"]>> /\ \E i \in DOMAIN g.anonymized : f \in g.anonymized[i].fields
      \/ hash = <<>>
  BY <1>3 DEF HashRule
<1>9. PICK i \in DOMAIN (parsed \o hash) : (parsed \o hash)[i] # Incorrect /\ Accepts((parsed \o hash)[i], t)
  BY <1>1, <1>2, <1>3, AcceptedByRule
<1>10. PICK r : r = (parsed \o hash)[i]
  OBVIOUS
<1>11. \/ i \in DOMAIN exprs /\ r = parsed[i]
       \/ r = [pattern |-> "hash"] /\ hash = <<[pattern |-> "hash"]>>
  <2>1. hash \in Seq({[pattern |-> "hash"]})
    <3>1. PICK only : only = [pattern |-> "hash"]
      OBVIOUS
    <3>2. hash = <<only>> \/ hash = <<>>
      BY <1>8, <3>1, Zenon
    <3>3. <<only>> \in Seq({only}) /\ <<>> \in Seq({only})
      OBVIOUS
    <3>4. hash \in Seq({only})
      BY <3>2, <3>3
    <3>5. QED
      BY <3>1, <3>4, Zenon
  <2>2. i \in 1..Len(parsed) + Len(hash)
    BY <1>7, <1>9, <2>1
  <2>3. CASE i <= Len(parsed)
    BY <1>5, <1>7, <1>10, <2>1, <2>2, <2>3
  <2>4. CASE ~(i <= Len(parsed))
    <3>1. r = hash[i - Len(parsed)] /\ i - Len(parsed) \in 1..Len(hash)
      BY <1>7, <1>10, <2>1, <2>2, <2>4
    <3>2. QED
      BY <1>8, <3>1
  <2>5. QED
    BY <2>3, <2>4
<1>12. CASE i \in DOMAIN exprs /\ r = parsed[i]
  <2>1. r = parseRuleExpr(exprs[i], Tables(runtime, g)) /\ exprs[i] \in Range(exprs)
    BY <1>2, <1>12 DEF Range
  <2>2. \E m \in Meaning(exprs[i], g) : ~Broken(m) /\ Admits(m, t)
    BY <1>9, <1>10, <2>1, ParsedMeans
  <2>3. QED
    BY <1>1, <2>1, <2>2
<1>13. CASE r = [pattern |-> "hash"] /\ hash = <<[pattern |-> "hash"]>>
  <2>1. t.hashed > 0
    BY <1>9, <1>10, <1>13 DEF Accepts, Is, Matches
  <2>2. QED
    BY <1>8, <1>13, <2>1
<1>14. QED
  BY <1>11, <1>12, <1>13

(***************************************************************************)
(* A field on the wire says what the validated field said.                 *)
(***************************************************************************)

LEMMA ValueIs ==
  ASSUME NEW d, Sound(d), NEW f
  PROVE  /\ valueToString(d, f) \in Texts
         /\ escapeEventIDOrFieldValue(valueToString(d, f)).hashed > 0 => IsText(d, f) /\ d[<<f>>].text.hashed > 0
<1>1. PICK p : p = <<f>>
  OBVIOUS
<1>2. valueToString(d, f) = IF p \in DOMAIN d THEN Printed(d[p]) ELSE Text("map", ":")
  BY <1>1 DEF valueToString
<1>3. CASE p \in DOMAIN d
  <2>1. /\ d[p] \in Leaf /\ (Is("text", d[p]) => d[p].text.hashed \in 0..1)
        /\ Is("scalar", d[p]) => d[p].scalar.hashed = 0
    BY <1>3 DEF Sound
  <2>2. valueToString(d, f) = Printed(d[p]) /\ Printed(d[p]) \in Texts
    BY <1>2, <1>3, <2>1, PrintedIs
  <2>3. PICK h : h = Printed(d[p]).hashed
    OBVIOUS
  <2>4. escapeEventIDOrFieldValue(valueToString(d, f)).hashed = h
    BY <2>2, <2>3, TextEscaped
  <2>5. h > 0 => Is("text", d[p]) /\ d[p].text.hashed > 0
    <3>1. SUFFICES ASSUME h > 0 PROVE Is("text", d[p]) /\ d[p].text.hashed > 0
      OBVIOUS
    <3>2. Is("text", d[p]) \/ Is("scalar", d[p])
      BY <2>1, <2>3, <3>1, PrintedIs
    <3>3. Is("scalar", d[p]) => h = 0
      BY <2>1, <2>3, PrintedIs
    <3>4. Is("text", d[p]) => h = d[p].text.hashed
      BY <2>1, <2>3, PrintedIs
    <3>5. QED
      BY <3>1, <3>2, <3>3, <3>4
  <2>6. QED
    BY <1>1, <1>3, <2>2, <2>4, <2>5 DEF IsText
<1>4. CASE p \notin DOMAIN d
  <2>1. "map" \in Word /\ ":" \in Mark
    BY WordAssumption DEF Mark
  <2>2. PICK t : t = Text("map", ":")
    OBVIOUS
  <2>3. t \in Texts /\ t.hashed = 0
    BY <2>1, <2>2, TextIs
  <2>4. valueToString(d, f) = t
    BY <1>2, <1>4, <2>2
  <2>5. escapeEventIDOrFieldValue(t).hashed = 0
    BY <2>3, TextEscaped
  <2>6. QED
    BY <2>3, <2>4, <2>5
<1>5. QED
  BY <1>3, <1>4

\* Name is what a field f of d is called in w, and all that w has under it
\* comes from f.
Carries(w, name, d, f) ==
  /\ f \in Texts /\ f \in Fields(d) /\ escapeFieldName(f) = name
  /\ <<name>> \in DOMAIN w <=> <<f>> \in DOMAIN d
  /\ <<f>> \in DOMAIN d => w[<<name>>] = escapeEventDataValue(d[<<f>>])
  /\ \A p \in DOMAIN w : p[1] = name =>
       \E q \in DOMAIN d : q[1] = f /\ escapePath(q) = p /\ w[p] = escapeEventDataValue(d[q])

LEMMA CarriedPrints ==
  ASSUME NEW d, Sound(d), NEW w, NEW name, NEW f, Carries(w, name, d, f)
  PROVE  escapeEventIDOrFieldValue(valueToString(w, name)) = escapeEventIDOrFieldValue(valueToString(d, f))
<1>1. PICK p : p = <<f>>
  OBVIOUS
<1>2. PICK o : o = <<name>>
  OBVIOUS
<1>3. (o \in DOMAIN w <=> p \in DOMAIN d) /\ (p \in DOMAIN d => w[o] = escapeEventDataValue(d[p]) /\ d[p] \in Leaf)
  BY <1>1, <1>2 DEF Carries, Sound
<1>4. p \in DOMAIN d =>
        escapeEventIDOrFieldValue(Printed(w[o])) = escapeEventIDOrFieldValue(Printed(d[p]))
  BY <1>3, EscapedLeaf
<1>5. QED
  BY <1>1, <1>2, <1>3, <1>4 DEF valueToString

LEMMA CarriedIs ==
  ASSUME NEW d, Sound(d), NEW w, NEW name, NEW f, Carries(w, name, d, f)
  PROVE  /\ IsText(w, name) <=> IsText(d, f)
         /\ IsText(d, f) => w[<<name>>].text = escapeEventIDOrFieldValue(d[<<f>>].text)
         /\ IsText(d, f) /\ d[<<f>>].text \in Reserved => w[<<name>>].text = d[<<f>>].text
         /\ escapeEventIDOrFieldValue(valueToString(w, name)) = escapeEventIDOrFieldValue(valueToString(d, f))
<1>1. PICK p : p = <<f>>
  OBVIOUS
<1>2. PICK o : o = <<name>>
  OBVIOUS
<1>3. (o \in DOMAIN w <=> p \in DOMAIN d) /\ (p \in DOMAIN d => w[o] = escapeEventDataValue(d[p]) /\ d[p] \in Leaf)
  BY <1>1, <1>2 DEF Carries, Sound
<1>4. p \in DOMAIN d => (Is("text", w[o]) <=> Is("text", d[p]))
  BY <1>3, EscapedLeaf
<1>5. p \in DOMAIN d /\ Is("text", d[p]) => w[o].text = escapeEventIDOrFieldValue(d[p].text)
  BY <1>3, EscapedLeaf
<1>6. (IsText(w, name) <=> IsText(d, f)) /\ (IsText(d, f) <=> p \in DOMAIN d /\ Is("text", d[p]))
  BY <1>1, <1>2, <1>3, <1>4 DEF IsText
<1>7. escapeEventIDOrFieldValue(valueToString(w, name)) = escapeEventIDOrFieldValue(valueToString(d, f))
  BY CarriedPrints
<1>8. QED
  BY <1>1, <1>2, <1>5, <1>6, <1>7, ReservedStays

LEMMA CarriedValid ==
  ASSUME NEW d, Sound(d), NEW w, NEW name, NEW f, Carries(w, name, d, f), NEW rules,
         validateField(d, f, rules) = "accepted"
  PROVE  validateField(w, name, rules) = "accepted"
<1>1. CASE IsText(d, f) /\ d[<<f>>].text \in Reserved
  BY <1>1, CarriedIs DEF validateField
<1>2. CASE ~(IsText(d, f) /\ d[<<f>>].text \in Reserved)
  BY <1>2, CarriedIs DEF validateField
<1>3. QED
  BY <1>1, <1>2

LEMMA CarriedStamp ==
  ASSUME NEW d, Sound(d), NEW w, NEW name, NEW f, Carries(w, name, d, f), NEW t \in Reserved, Stamped(d, f, t)
  PROVE  Stamped(w, name, t) /\ IsText(w, name)
<1>1. PICK p : p = <<f>>
  OBVIOUS
<1>2. PICK o : o = <<name>>
  OBVIOUS
<1>3. p \in DOMAIN d /\ d[p] = Str(t) /\ \A q \in DOMAIN d : q[1] = f => q = p
  BY <1>1 DEF Stamped
<1>4. escapeEventDataValue(Str(t)) = Str(t)
  BY StrIs, ReservedStays DEF escapeEventDataValue
<1>5. o \in DOMAIN w /\ w[o] = Str(t)
  BY <1>1, <1>2, <1>3, <1>4 DEF Carries
<1>6. p \in Path
  BY <1>3 DEF Sound
<1>7. escapePath(p) = o
  BY <1>1, <1>2, <1>6, PathEscaped DEF Carries
<1>8. \A r \in DOMAIN w : r[1] = name => r = o
  BY <1>3, <1>7 DEF Carries
<1>9. Is("text", w[o])
  BY <1>5, StrIs
<1>10. QED
  BY <1>2, <1>5, <1>8, <1>9 DEF Stamped, IsText

LEMMA Carried ==
  ASSUME NEW d, Sound(d), NEW kept \in Survivors(DOMAIN d), NEW name \in Fields(Escaped(d, kept))
  PROVE  \E f \in Fields(d) : Carries(Escaped(d, kept), name, d, f)
BY OneSource DEF Carries

(***************************************************************************)
(* The inductive invariant: an event is dropped for its number of fields   *)
(* or because the validator drops it; what is on the wire is what escaping *)
(* and the validator can make of the last call and of data that are still  *)
(* those of the caller.                                                    *)
(***************************************************************************)

Anonymized == AnonymizeEvent(Event(asked))
Sent == /\ asked \in Calls /\ ~Dropped(Anonymized, Validators[setup])
        /\ \E e \in Validate(Anonymized, Validators[setup]) : wire \in escapeLogEvent(e)
Rejected == \/ wire = Drop("DropTooManyFields") /\ TooMany(data)
            \/ wire = Drop("DropValidation") /\ asked \in Calls /\ Dropped(Anonymized, Validators[setup])
IInv == /\ setup \in DOMAIN Setup /\ data \in EventData /\ asked \in Calls \cup {Nothing}
        /\ wire = Nothing \/ Rejected \/ Sent

LEMMA InitInv == Init => IInv
BY DEF Init, IInv

LEMMA DataStays ==
  ASSUME IInv, NEW call \in Calls, Track(call)
  PROVE  data' = data /\ setup' = setup /\ asked' = call
<1>1. data = [p \in DOMAIN data |-> data[p]]
  BY CallerAssumption DEF IInv
<1>2. CASE TooMany(data)
  BY <1>2 DEF Track
<1>3. CASE ~TooMany(data)
  <2>1. PICK event : event = AnonymizeEvent(Event(call))
    OBVIOUS
  <2>2. data' = [p \in DOMAIN data |-> IF p \in Shared(data) THEN event.data[p] ELSE data[p]]
    BY <1>3, <2>1 DEF Track
  <2>3. \A p : p \notin Shared(data)
    BY DEF Shared
  <2>4. data' = [p \in DOMAIN data |-> data[p]]
    BY <2>2, <2>3
  <2>5. QED
    BY <1>1, <2>4 DEF Track
<1>4. QED
  BY <1>2, <1>3

LEMMA StepInv ==
  ASSUME IInv, [Next]_vars
  PROVE  IInv'
<1>1. CASE UNCHANGED vars
  <2>1. setup' = setup /\ data' = data /\ asked' = asked /\ wire' = wire
    BY <1>1 DEF vars
  <2>2. PICK l : l = Setup[setup].local
    OBVIOUS
  <2>3. local = l /\ local' = l
    BY <2>1, <2>2 DEF local
  <2>4. Anonymized' = Anonymized
    BY <2>1, <2>3 DEF Anonymized, AnonymizeEvent, Event
  <2>5. Validators' = Validators
    BY DEF Validators
  <2>6. (Sent' <=> Sent) /\ (Rejected' <=> Rejected)
    BY <2>1, <2>4, <2>5 DEF Sent, Rejected, TooMany
  <2>7. QED
    BY <2>1, <2>6 DEF IInv
<1>2. ASSUME NEW call \in Calls, Track(call)
      PROVE  IInv'
  <2>1. data' = data /\ setup' = setup /\ asked' = call
    BY <1>2, DataStays
  <2>2. PICK event : event = AnonymizeEvent(Event(call))
    OBVIOUS
  <2>3. Anonymized' = event
    <3>1. PICK l : l = Setup[setup].local
      OBVIOUS
    <3>2. local = l /\ local' = l
      BY <2>1, <3>1 DEF local
    <3>3. QED
      BY <2>1, <2>2, <3>2 DEF Anonymized, AnonymizeEvent, Event
  <2>4. Validators' = Validators
    BY DEF Validators
  <2>5. CASE \/ wire' = Drop("DropTooManyFields") /\ TooMany(data)
             \/ wire' = Drop("DropValidation") /\ Dropped(event, Validators[setup])
    <3>1. Rejected'
      BY <2>1, <2>3, <2>4, <2>5 DEF Rejected, TooMany
    <3>2. QED
      BY <2>1, <3>1 DEF IInv
  <2>6. CASE /\ ~Dropped(event, Validators[setup])
             /\ wire' \in UNION {escapeLogEvent(e) : e \in Validate(event, Validators[setup])}
    <3>1. PICK e \in Validate(event, Validators[setup]) : wire' \in escapeLogEvent(e)
      BY <2>6
    <3>2. Sent'
      BY <2>1, <2>3, <2>4, <2>6, <3>1 DEF Sent
    <3>3. QED
      BY <2>1, <3>2 DEF IInv
  <2>7. QED
    BY <1>2, <2>2, <2>5, <2>6 DEF Track
<1>3. QED
  BY <1>1, <1>2 DEF Next

LEMMA Invariance == Spec => []IInv
<1>1. QED
  BY InitInv, StepInv, PTL DEF Spec

(***************************************************************************)
(* What is on the wire.                                                    *)
(***************************************************************************)

HashedFields == AnonymizedFields(local, asked.group, asked.id)
Compiled == NewValidator(runtime)

LEMMA UndefinedIs ==
  /\ Sound(Undefined) /\ Fields(Undefined) = {undefined_rule}
  /\ Stamped(Undefined, undefined_rule, undefined_rule)
<1>1. undefined_rule \in Reserved /\ undefined_rule \in Texts
  BY ReservedStays
<1>2. PICK p : p = <<undefined_rule>>
  OBVIOUS
<1>3. p \in Path /\ p[1] = undefined_rule
  BY <1>1, <1>2, OneStep
<1>4. DOMAIN Undefined = {p} /\ Undefined[p] = Str(undefined_rule)
  BY <1>2 DEF Undefined
<1>5. QED
  BY <1>1, <1>2, <1>3, <1>4, SoundStamp DEF Sound, Fields, Stamped

\* The event that Track hands to the validator, and what becomes of it.
LEMMA AnonymizedIs ==
  ASSUME asked \in Calls
  PROVE  Anonymized = [group |-> asked.group, version |-> asked.version, build |-> Build, id |-> asked.id,
                       data |-> Hashed(data, HashedFields)]
<1>1. PICK e : e = [group |-> asked.group, version |-> asked.version, build |-> Build, id |-> asked.id, data |-> data]
  OBVIOUS
<1>2. Event(asked) = e
  BY <1>1 DEF Event
<1>3. PICK h : h = Hashed(data, HashedFields)
  OBVIOUS
<1>4. Anonymized = [e EXCEPT !.data = h]
  BY <1>1, <1>2, <1>3 DEF Anonymized, AnonymizeEvent, Hashed, HashedFields
<1>5. QED
  BY <1>1, <1>3, <1>4

LEMMA SentIs ==
  ASSUME IInv, Kept
  PROVE  /\ asked \in Calls /\ data \in EventData /\ ~Dropped(Anonymized, Compiled)
         /\ Validators[setup] = Compiled /\ runtime # Nothing
         /\ \A g \in DOMAIN runtime.groups : WellFormed(runtime.groups[g])
         /\ local # Nothing => \A g \in DOMAIN local.groups : WellFormed(local.groups[g])
         /\ \E x \in validateEventData(Hashed(data, HashedFields), Compiled, asked.group) :
              \E kept \in Survivors(DOMAIN x) :
                wire = [group |-> escape(asked.group), version |-> asked.version, build |-> Build,
                        id |-> escapeEventIDOrFieldValue(validateEventID(asked.id, Compiled, asked.group)),
                        data |-> Escaped(x, kept)]
<1>1. setup \in DOMAIN Setup /\ data \in EventData
  BY DEF IInv
<1>2. /\ Setup[setup].runtime # Nothing
      /\ \A r \in {Setup[setup].local, Setup[setup].runtime} \ {Nothing} :
           \A g \in DOMAIN r.groups : WellFormed(r.groups[g])
  BY <1>1, SetupAssumption
<1>3. /\ runtime # Nothing /\ \A g \in DOMAIN runtime.groups : WellFormed(runtime.groups[g])
      /\ local # Nothing => \A g \in DOMAIN local.groups : WellFormed(local.groups[g])
  BY <1>2 DEF runtime, local
<1>4. Validators[setup] = Compiled
  BY <1>1 DEF Validators, Compiled, runtime
<1>5. Sent
  <2>1. ~Rejected
    BY DEF Kept, Drop, Rejected
  <2>2. QED
    BY <2>1 DEF IInv, Kept
<1>6. PICK h : h = Hashed(data, HashedFields)
  OBVIOUS
<1>7. asked \in Calls /\ ~Dropped(Anonymized, Compiled)
  BY <1>4, <1>5 DEF Sent
<1>8. PICK a : a = Anonymized
  OBVIOUS
<1>9. a = [group |-> asked.group, version |-> asked.version, build |-> Build, id |-> asked.id, data |-> h]
  BY <1>6, <1>7, <1>8, AnonymizedIs
<1>10. PICK e \in Validate(a, Compiled) : wire \in escapeLogEvent(e)
  BY <1>4, <1>5, <1>8 DEF Sent
<1>11. PICK id : id = validateEventID(asked.id, Compiled, asked.group)
  OBVIOUS
<1>12. PICK x \in validateEventData(h, Compiled, asked.group) : e = [a EXCEPT !.id = id, !.data = x]
  BY <1>9, <1>10, <1>11 DEF Validate
<1>13. e = [group |-> asked.group, version |-> asked.version, build |-> Build, id |-> id, data |-> x]
  BY <1>9, <1>12
<1>14. PICK y \in escapeEventData(e.data) :
         wire = [e EXCEPT !.group = escape(@), !.id = escapeEventIDOrFieldValue(@), !.data = y]
  BY <1>10 DEF escapeLogEvent
<1>15. PICK kept \in Survivors(DOMAIN x) : y = Escaped(x, kept)
  BY <1>13 DEF escapeEventData
<1>16. wire = [group |-> escape(asked.group), version |-> asked.version, build |-> Build,
               id |-> escapeEventIDOrFieldValue(id), data |-> Escaped(x, kept)]
  BY <1>13, <1>14, <1>15
<1>17. QED
  BY <1>1, <1>3, <1>4, <1>6, <1>7, <1>11, <1>16

\* The event's data, with what each field on the wire comes from.
LEMMA DataSent ==
  ASSUME IInv, Kept
  PROVE  LET d == Hashed(data, HashedFields)
             known == asked.group \in DOMAIN Compiled
             rules == Compiled[asked.group].eventDataRules
             declared == Fields(d) \cap DOMAIN rules
         IN  \E x, kept :
               /\ Sound(d) /\ Sound(x) /\ kept \in Survivors(DOMAIN x)
               /\ wire.data = Escaped(x, kept) /\ Sound(wire.data)
               /\ \A name \in Fields(wire.data) : \E f \in Fields(x) : Carries(wire.data, name, x, f)
               /\ known => /\ \A f \in Fields(x) : Valid(x, d, rules, f)
                           /\ Fields(x) = declared \cup (IF declared = Fields(d) THEN {} ELSE {undefined_rule})
               /\ ~known => x = Undefined
<1>1. PICK d : d = Hashed(data, HashedFields)
  OBVIOUS
<1>2. Sound(d)
  BY <1>1, SentIs, HashedIs
<1>3. PICK x \in validateEventData(d, Compiled, asked.group) :
        \E kept \in Survivors(DOMAIN x) : wire.data = Escaped(x, kept)
  BY <1>1, SentIs
<1>4. PICK kept \in Survivors(DOMAIN x) : wire.data = Escaped(x, kept)
  BY <1>3
<1>5. /\ asked.group \in DOMAIN Compiled =>
           LET rules == Compiled[asked.group].eventDataRules
               declared == Fields(d) \cap DOMAIN rules
           IN  /\ Sound(x) /\ \A f \in Fields(x) : Valid(x, d, rules, f)
               /\ Fields(x) = declared \cup (IF declared = Fields(d) THEN {} ELSE {undefined_rule})
      /\ asked.group \notin DOMAIN Compiled => x = Undefined /\ Sound(x)
  <2>1. CASE asked.group \in DOMAIN Compiled
    BY <1>2, <1>3, <2>1, ValidatedIs
  <2>2. CASE asked.group \notin DOMAIN Compiled
    BY <1>3, <2>2, UndefinedIs DEF validateEventData
  <2>3. QED
    BY <2>1, <2>2
<1>6. Sound(x)
  BY <1>5
<1>7. Sound(wire.data) /\ \A name \in Fields(wire.data) : \E f \in Fields(x) : Carries(wire.data, name, x, f)
  BY <1>4, <1>6, EscapedData, Carried
<1>8. QED
  BY <1>1, <1>2, <1>4, <1>5, <1>6, <1>7

LEMMA ApprovedSent ==
  ASSUME IInv
  PROVE  WireApproved
<1>1. SUFFICES ASSUME Known, NEW name \in Fields(wire.data)
               PROVE  LET g == runtime.groups[asked.group]
                      IN  \/ /\ name = undefined_rule /\ IsText(wire.data, name)
                             /\ wire.data[<<name>>] = Str(undefined_rule)
                          \/ \E f \in DOMAIN g.eventData : /\ escapeFieldName(f) = name
                                                           /\ Approved(wire.data, name, f, g)
  BY DEF WireApproved
<1>2. PICK g : g = runtime.groups[asked.group]
  OBVIOUS
<1>3. PICK w : w = wire.data
  OBVIOUS
<1>4. PICK rules : rules = Compiled[asked.group].eventDataRules
  OBVIOUS
<1>5. PICK d : d = Hashed(data, HashedFields)
  OBVIOUS
<1>6. Kept /\ asked.group \in DOMAIN Compiled /\ WellFormed(g)
  BY <1>1, <1>2, SentIs DEF Known, Compiled, NewValidator
<1>7. PICK x : /\ Sound(x) /\ Sound(w)
               /\ \A n \in Fields(w) : \E f \in Fields(x) : Carries(w, n, x, f)
               /\ \A f \in Fields(x) : Valid(x, d, rules, f)
  BY <1>3, <1>4, <1>5, <1>6, DataSent
<1>8. PICK f \in Fields(x) : Carries(w, name, x, f) /\ Valid(x, d, rules, f)
  BY <1>1, <1>3, <1>7
<1>9. escapeFieldName(f) = name
  BY <1>8 DEF Carries
<1>10. \A h \in DOMAIN rules :
         /\ h \in DOMAIN g.eventData
         /\ rules[h] = [i \in DOMAIN g.eventData[h] |-> parseRuleExpr(g.eventData[h][i], Tables(runtime, g))]
                       \o HashRule(g, h)
  BY <1>2, <1>4, <1>6, CompiledIs DEF Compiled
<1>11. CASE f = undefined_rule /\ Stamped(x, f, undefined_rule)
  <2>1. name = undefined_rule
    <3>1. escapeFieldName(undefined_rule) = undefined_rule
      BY ReservedStays DEF escapeFieldName
    <3>2. QED
      BY <1>9, <1>11, <3>1
  <2>2. Stamped(w, name, undefined_rule) /\ IsText(w, name)
    BY <1>7, <1>8, <1>11, CarriedStamp, ReservedStays
  <2>3. QED
    BY <1>3, <2>1, <2>2 DEF Stamped
<1>12. CASE f \in DOMAIN rules /\ (Stamped(x, f, incorrect_rule) \/ Stamped(x, f, unmatched_rule))
  <2>1. PICK t \in Reserved : Stamped(x, f, t)
    BY <1>12, ReservedStays
  <2>2. Stamped(w, name, t) /\ IsText(w, name)
    BY <1>7, <1>8, <2>1, CarriedStamp
  <2>3. w[<<name>>].text = t
    BY <2>2, StrIs DEF Stamped
  <2>4. Approved(w, name, f, g)
    BY <2>2, <2>3 DEF Approved
  <2>5. QED
    BY <1>2, <1>3, <1>9, <1>10, <1>12, <2>4
<1>13. CASE /\ f \in DOMAIN rules /\ f \in Fields(d)
            /\ From(x, d, f) /\ validateField(d, f, rules[f]) = "accepted"
  <2>1. validateField(x, f, rules[f]) = "accepted"
    <3>1. validateField(x, f, rules[f]) = validateField(d, f, rules[f])
      BY <1>13, FieldAlone
    <3>2. QED
      BY <1>13, <3>1
  <2>2. validateField(w, name, rules[f]) = "accepted"
    BY <1>7, <1>8, <2>1, CarriedValid
  <2>3. PICK t : t = escapeEventIDOrFieldValue(valueToString(w, name))
    OBVIOUS
  <2>4. t \in Texts /\ (t.hashed > 0 => IsText(w, name) /\ w[<<name>>].text.hashed > 0)
    BY <1>7, <2>3, ValueIs, TextEscaped
  <2>5. CASE IsText(w, name) /\ w[<<name>>].text \in Reserved
    <3>1. Approved(w, name, f, g)
      BY <2>5 DEF Approved
    <3>2. QED
      BY <1>2, <1>3, <1>9, <1>10, <1>13, <3>1
  <2>6. CASE acceptRules(rules[f], t) = "accepted"
    <3>1. f \in DOMAIN g.eventData
      BY <1>10, <1>13
    <3>2. \/ t.hashed > 0 /\ \E i \in DOMAIN g.anonymized : f \in g.anonymized[i].fields
          \/ \E e \in Range(g.eventData[f]) : \E r \in Meaning(e, g) : ~Broken(r) /\ Admits(r, t)
      BY <1>6, <1>10, <1>13, <2>4, <2>6, <3>1, AcceptedMeans
    <3>3. Approved(w, name, f, g)
      BY <2>3, <2>4, <3>2 DEF Approved
    <3>4. QED
      BY <1>2, <1>3, <1>9, <3>1, <3>3
  <2>7. QED
    BY <2>2, <2>3, <2>5, <2>6 DEF validateField
<1>14. QED
  BY <1>8, <1>11, <1>12, <1>13 DEF Valid

\* "only scheme-approved keys and values reach the wire" (README.md:81).
THEOREM OnlyApprovedOnWire == Spec => []WireApproved
<1>1. QED
  BY ApprovedSent, Invariance, PTL

LEMMA KeptSent ==
  ASSUME IInv
  PROVE  FieldsKept
<1>1. SUFFICES ASSUME Known, NamesEscaped
               PROVE  LET declared == Fields(data) \cap DOMAIN Rules
                      IN  Fields(wire.data) = declared \cup (IF declared = Fields(data) THEN {} ELSE {undefined_rule})
  BY DEF FieldsKept
<1>2. PICK d : d = Hashed(data, HashedFields)
  OBVIOUS
<1>3. PICK g : g = runtime.groups[asked.group]
  OBVIOUS
<1>4. PICK rules : rules = Compiled[asked.group].eventDataRules
  OBVIOUS
<1>5. /\ Kept /\ asked.group \in DOMAIN Compiled /\ rules = Rules
      /\ asked.group \in DOMAIN runtime.groups /\ Fields(d) = Fields(data)
  BY <1>1, <1>2, <1>4, SentIs, HashedIs DEF Known, Compiled, NewValidator, Rules
<1>6. PICK declared : declared = Fields(d) \cap DOMAIN rules
  OBVIOUS
<1>7. PICK x, kept : /\ Sound(x) /\ kept \in Survivors(DOMAIN x) /\ wire.data = Escaped(x, kept)
                     /\ Fields(x) = declared \cup (IF declared = Fields(d) THEN {} ELSE {undefined_rule})
  BY <1>2, <1>4, <1>5, <1>6, DataSent
<1>8. \A f \in DOMAIN rules : f \in DOMAIN g.eventData
  BY <1>3, <1>4, <1>5, CompiledIs DEF Compiled
<1>9. \A f \in DOMAIN rules : escapeFieldName(f) = f
  BY <1>1, <1>3, <1>5, <1>8 DEF NamesEscaped
<1>10. escapeFieldName(undefined_rule) = undefined_rule
  BY ReservedStays DEF escapeFieldName
<1>11. \A f \in Fields(x) : escapeFieldName(f) = f
  BY <1>6, <1>7, <1>9, <1>10
<1>12. Fields(wire.data) = Fields(x)
  BY <1>7, <1>11, FieldsStay
<1>13. QED
  BY <1>5, <1>6, <1>7, <1>12

\* No field takes the place of another: what the group declares arrives, and
\* all else is one entry.
THEOREM NoFieldLost == Spec => []FieldsKept
<1>1. QED
  BY KeptSent, Invariance, PTL

LEMMA EventIDIs ==
  ASSUME NEW id \in Texts, NEW v, NEW group
  PROVE  LET e == escapeEventIDOrFieldValue(validateEventID(id, v, group))
         IN  e \in Texts /\ validateEventID(e, v, group) = e
<1>1. PICK u : u = validateEventID(id, v, group)
  OBVIOUS
<1>2. PICK e : e = escapeEventIDOrFieldValue(u)
  OBVIOUS
<1>3. CASE u \in Reserved
  <2>1. e = u /\ u \in Texts
    BY <1>2, <1>3, ReservedStays
  <2>2. QED
    BY <1>1, <1>2, <1>3, <2>1 DEF validateEventID
<1>4. CASE u \notin Reserved
  <2>1. undefined_rule \in Reserved /\ unmatched_rule \in Reserved
    BY ReservedStays
  <2>2. /\ u = id /\ ~(group \notin DOMAIN v \/ v[group].eventIDRules = <<>>)
        /\ acceptRules(v[group].eventIDRules, escapeEventIDOrFieldValue(id)) = "accepted"
    BY <1>1, <1>4, <2>1 DEF validateEventID
  <2>3. e \in Texts /\ escapeEventIDOrFieldValue(e) = e
    BY <1>2, <2>2, TextEscaped
  <2>4. acceptRules(v[group].eventIDRules, escapeEventIDOrFieldValue(e)) = "accepted"
    BY <1>2, <2>2, <2>3
  <2>5. validateEventID(e, v, group) = e
    BY <2>2, <2>4 DEF validateEventID
  <2>6. QED
    BY <1>1, <1>2, <2>3, <2>5
<1>5. QED
  BY <1>3, <1>4

\* What the validator does not drop is kept.
LEMMA SentKept ==
  ASSUME Sent, wire # Nothing
  PROVE  Kept
<1>1. PICK e \in Validate(Anonymized, Validators[setup]) : wire \in escapeLogEvent(e)
  BY DEF Sent
<1>2. PICK a : a = [group |-> asked.group, version |-> asked.version, build |-> Build, id |-> asked.id,
                    data |-> Hashed(data, HashedFields)]
  OBVIOUS
<1>3. a = Anonymized
  BY <1>2, AnonymizedIs DEF Sent
<1>4. \E i, x : e = [a EXCEPT !.id = i, !.data = x]
  BY <1>1, <1>3 DEF Validate
<1>5. DOMAIN e = {"group", "version", "build", "id", "data"}
  BY <1>2, <1>4
<1>6. DOMAIN wire = {"group", "version", "build", "id", "data"}
  BY <1>1, <1>5 DEF escapeLogEvent
<1>7. QED
  BY <1>6 DEF Kept

LEMMA TypesHold ==
  ASSUME IInv
  PROVE  TypeOK
<1>1. /\ setup \in DOMAIN Setup /\ DOMAIN data \in {DOMAIN d : d \in EventData}
      /\ asked \in Calls \cup {Nothing}
  BY DEF IInv
<1>2. wire = Nothing \/ wire \in {Drop("DropTooManyFields"), Drop("DropValidation")} \/ Kept
  <2>1. SUFFICES ASSUME Sent, wire # Nothing PROVE Kept
    BY DEF IInv, Rejected
  <2>2. QED
    BY <2>1, SentKept
<1>3. ASSUME Kept
      PROVE  /\ wire.group \in Texts /\ wire.id \in Texts
             /\ \A p \in DOMAIN wire.data :
                  /\ p \in Seq(Texts) /\ p # <<>> /\ wire.data[p] \in Leaf
                  /\ Is("text", wire.data[p]) => wire.data[p].text.hashed \in 0..1
  <2>1. asked.group \in Texts /\ asked.id \in Texts
    BY <1>3, SentIs, CallerAssumption
  <2>2. wire.group = escape(asked.group)
        /\ wire.id = escapeEventIDOrFieldValue(validateEventID(asked.id, Compiled, asked.group))
    BY <1>3, SentIs
  <2>3. wire.group \in Texts /\ wire.id \in Texts
    BY <2>1, <2>2, TextEscaped, EventIDIs
  <2>4. Sound(wire.data)
    BY <1>3, DataSent
  <2>5. QED
    BY <2>3, <2>4 DEF Sound, Path
<1>4. QED
  BY <1>1, <1>2, <1>3 DEF TypeOK

\* Every event on the wire has an escaped group and ID, and values hashed once
\* at most.
THEOREM TypeCorrect == Spec => []TypeOK
<1>1. QED
  BY TypesHold, Invariance, PTL

LEMMA StableSent ==
  ASSUME IInv
  PROVE  RevalidationStable
<1>1. SUFFICES ASSUME Kept, NamesEscaped, escape(asked.group) = asked.group
               PROVE  ~Dropped(wire, Compiled) /\ Validate(wire, Compiled) = {wire}
  BY SentIs DEF RevalidationStable
<1>2. PICK w : w = wire.data
  OBVIOUS
<1>3. PICK group : group = asked.group
  OBVIOUS
<1>4. PICK d : d = Hashed(data, HashedFields)
  OBVIOUS
<1>5. asked \in Calls /\ group \in Texts /\ asked.id \in Texts
  BY <1>1, <1>3, SentIs, CallerAssumption
<1>6. PICK id : id = escapeEventIDOrFieldValue(validateEventID(asked.id, Compiled, group))
  OBVIOUS
<1>7. wire = [group |-> group, version |-> asked.version, build |-> Build, id |-> id, data |-> w]
  <2>1. \E x : wire = [group |-> group, version |-> asked.version, build |-> Build, id |-> id, data |-> x]
    BY <1>1, <1>3, <1>6, SentIs
  <2>2. QED
    BY <1>2, <2>1
<1>8. ~Dropped(wire, Compiled)
  <2>1. ~Dropped(Anonymized, Compiled)
    BY <1>1, SentIs
  <2>2. /\ Anonymized.group = group /\ Anonymized.version = asked.version /\ Anonymized.build = Build
    BY <1>3, <1>5, AnonymizedIs
  <2>3. QED
    BY <1>7, <2>1, <2>2 DEF Dropped
<1>9. validateEventID(id, Compiled, group) = id
  BY <1>5, <1>6, EventIDIs
<1>10. PICK x, kept : /\ Sound(x) /\ kept \in Survivors(DOMAIN x) /\ w = Escaped(x, kept) /\ Sound(w)
                      /\ \A name \in Fields(w) : \E f \in Fields(x) : Carries(w, name, x, f)
                      /\ group \in DOMAIN Compiled =>
                           \A f \in Fields(x) : Valid(x, d, Compiled[group].eventDataRules, f)
                      /\ group \notin DOMAIN Compiled => x = Undefined
  BY <1>1, <1>2, <1>3, <1>4, DataSent
<1>11. w = [p \in DOMAIN w |-> w[p]]
  BY <1>10 DEF Escaped
<1>12. undefined_rule \in Reserved /\ escapeFieldName(undefined_rule) = undefined_rule
  BY ReservedStays DEF escapeFieldName
<1>13. ASSUME validateEventData(w, Compiled, group) = {w}
       PROVE  Validate(wire, Compiled) = {wire}
  <2>1. Validate(wire, Compiled) =
          {[wire EXCEPT !.id = validateEventID(wire.id, Compiled, wire.group), !.data = m] :
             m \in validateEventData(wire.data, Compiled, wire.group)}
    BY DEF Validate
  <2>2. [wire EXCEPT !.id = id, !.data = w] = wire
    <3>1. PICK r : r = wire
      OBVIOUS
    <3>2. PICK m : m = [r EXCEPT !.id = id, !.data = w]
      OBVIOUS
    <3>3. r = [group |-> group, version |-> asked.version, build |-> Build, id |-> id, data |-> w]
      BY <1>7, <3>1
    <3>4. m = [group |-> group, version |-> asked.version, build |-> Build, id |-> id, data |-> w]
      BY <3>2, <3>3
    <3>5. QED
      BY <3>1, <3>2, <3>3, <3>4
  <2>3. wire.id = id /\ wire.group = group
    BY <1>7
  <2>4. QED
    BY <1>2, <1>9, <1>13, <2>1, <2>2, <2>3
<1>14. CASE group \in DOMAIN Compiled
  <2>1. PICK rules : rules = Compiled[group].eventDataRules
    OBVIOUS
  <2>2. group \in DOMAIN runtime.groups /\ \A f \in DOMAIN rules : f \in DOMAIN runtime.groups[group].eventData
    BY <1>14, <2>1, CompiledIs DEF Compiled
  <2>3. \A f \in DOMAIN rules : escapeFieldName(f) = f
    BY <1>1, <2>2 DEF NamesEscaped
  <2>4. ASSUME NEW name \in Fields(w)
        PROVE  \/ name \in DOMAIN rules /\ validateField(w, name, rules[name]) = "accepted"
               \/ name = undefined_rule /\ Stamped(w, name, undefined_rule)
    <3>1. PICK f \in Fields(x) : Carries(w, name, x, f) /\ Valid(x, d, rules, f)
      BY <1>10, <1>14, <2>1
    <3>2. escapeFieldName(f) = name
      BY <3>1 DEF Carries
    <3>3. CASE f = undefined_rule /\ Stamped(x, f, undefined_rule)
      <4>1. name = undefined_rule
        BY <1>12, <3>2, <3>3
      <4>2. Stamped(w, name, undefined_rule)
        BY <1>10, <1>12, <3>1, <3>3, CarriedStamp
      <4>3. QED
        BY <4>1, <4>2
    <3>4. CASE f \in DOMAIN rules /\ (Stamped(x, f, incorrect_rule) \/ Stamped(x, f, unmatched_rule))
      <4>1. name = f
        BY <2>3, <3>2, <3>4
      <4>2. PICK t \in Reserved : Stamped(x, f, t)
        BY <3>4, ReservedStays
      <4>3. Stamped(w, name, t)
        BY <1>10, <3>1, <4>2, CarriedStamp
      <4>4. validateField(w, name, rules[name]) = "accepted"
        BY <4>3, StampedAccepted
      <4>5. QED
        BY <3>4, <4>1, <4>4
    <3>5. CASE /\ f \in DOMAIN rules /\ f \in Fields(d)
               /\ From(x, d, f) /\ validateField(d, f, rules[f]) = "accepted"
      <4>1. name = f
        BY <2>3, <3>2, <3>5
      <4>2. validateField(x, f, rules[f]) = "accepted"
        BY <3>5, FieldAlone
      <4>3. validateField(w, name, rules[f]) = "accepted"
        BY <1>10, <3>1, <4>2, CarriedValid
      <4>4. QED
        BY <3>5, <4>1, <4>3
    <3>6. QED
      BY <3>1, <3>3, <3>4, <3>5 DEF Valid
  <2>5. validateEventData(w, Compiled, group) = {w}
    BY <1>10, <1>11, <1>14, <2>1, <2>4, SameAgain
  <2>6. QED
    BY <1>8, <1>13, <2>5
<1>15. CASE group \notin DOMAIN Compiled
  <2>1. PICK o : o = <<undefined_rule>>
    OBVIOUS
  <2>2. PICK u : u = Undefined
    OBVIOUS
  <2>3. x = u /\ Fields(u) = {undefined_rule} /\ Stamped(u, undefined_rule, undefined_rule)
    BY <1>10, <1>15, <2>2, UndefinedIs
  <2>4. Fields(w) = {undefined_rule}
    BY <1>10, <1>12, <2>3, FieldsStay
  <2>5. Stamped(w, undefined_rule, undefined_rule)
    <3>1. Carries(w, undefined_rule, x, undefined_rule)
      BY <1>10, <2>3, <2>4
    <3>2. QED
      BY <1>10, <1>12, <2>3, <3>1, CarriedStamp
  <2>6. o \in DOMAIN w /\ w[o] = Str(undefined_rule) /\ \A p \in DOMAIN w : p = o
    BY <2>1, <2>4, <2>5 DEF Stamped, Fields
  <2>7. u = [p \in {o} |-> Str(undefined_rule)]
    BY <2>1, <2>2 DEF Undefined
  <2>8. w = u
    <3>1. DOMAIN w = {o} /\ \A p \in {o} : w[p] = Str(undefined_rule)
      BY <2>6
    <3>2. QED
      BY <1>11, <2>7, <3>1
  <2>9. validateEventData(w, Compiled, group) = {w}
    BY <1>15, <2>2, <2>8 DEF validateEventData
  <2>10. QED
    BY <1>8, <1>13, <2>9
<1>16. QED
  BY <1>14, <1>15

\* "round-trips through server-side validation stay stable" (escaper.go:6).
THEOREM StableOnceSent == Spec => []RevalidationStable
<1>1. QED
  BY StableSent, Invariance, PTL

\* With one entry for the event, all fields declared for it are hashed.
LEMMA OneEntry ==
  ASSUME IInv, Kept, asked.group = wire.group, asked.id = wire.id,
         \A i, j \in Entries(local, asked.group, asked.id) : i = j
  PROVE  DeclaredFor(wire.id) \subseteq HashedFields
<1>1. PICK entries : entries = Entries(local, asked.group, asked.id)
  OBVIOUS
<1>2. SUFFICES ASSUME NEW f \in DeclaredFor(wire.id)
               PROVE  f \in HashedFields
  OBVIOUS
<1>3. PICK i \in entries : f \in local.groups[asked.group].anonymized[i].fields
  BY <1>1, <1>2 DEF DeclaredFor
<1>4. PICK anonymized : anonymized = local.groups[asked.group].anonymized
  OBVIOUS
<1>5. local # Nothing /\ asked.group \in DOMAIN local.groups /\ i \in DOMAIN anonymized
  BY <1>1, <1>3, <1>4 DEF Entries
<1>6. WellFormed(local.groups[asked.group])
  BY <1>5, SentIs
<1>7. anonymized \in Seq(Range(anonymized))
  BY <1>4, <1>6 DEF WellFormed
<1>8. i \in Int
  BY <1>5, <1>7
<1>9. entries = {i}
  BY <1>1, <1>3
<1>10. Max(entries) = i
  BY <1>8, <1>9 DEF Max
<1>11. HashedFields = anonymized[i].fields
  BY <1>1, <1>4, <1>9, <1>10 DEF HashedFields, AnonymizedFields
<1>12. QED
  BY <1>3, <1>4, <1>11

LEMMA HashedSent ==
  ASSUME IInv
  PROVE  HashedOnWire
<1>1. SUFFICES ASSUME Kept, asked.id = wire.id, asked.group = wire.group, NamesAsSent,
                      \A i, j \in Entries(local, asked.group, asked.id) : i = j,
                      NEW p \in DOMAIN wire.data, Key(p) \in DeclaredFor(wire.id)
               PROVE  LET v == wire.data[p]
                      IN  \/ v \in {Nil, Empty}
                          \/ Is("text", v) /\ (v.text.hashed > 0 \/ Blank(v.text) \/ v.text \in Reserved)
  BY DEF HashedOnWire, DeclaredIsHashed
<1>2. Key(p) \in HashedFields
  BY <1>1, OneEntry
<1>3. PICK d : d = Hashed(data, HashedFields)
  OBVIOUS
<1>4. PICK w : w = wire.data
  OBVIOUS
<1>5. PICK rules : rules = Compiled[asked.group].eventDataRules
  OBVIOUS
<1>6. PICK x : /\ Sound(x) /\ Sound(w)
               /\ \A name \in Fields(w) : \E f \in Fields(x) : Carries(w, name, x, f)
               /\ asked.group \in DOMAIN Compiled => \A f \in Fields(x) : Valid(x, d, rules, f)
               /\ asked.group \notin DOMAIN Compiled => x = Undefined
  BY <1>1, <1>3, <1>4, <1>5, DataSent
<1>7. p[1] \in Fields(w) /\ p \in DOMAIN w
  BY <1>1, <1>4 DEF Fields
<1>8. PICK f \in Fields(x) : Carries(w, p[1], x, f)
  BY <1>6, <1>7
<1>9. PICK q \in DOMAIN x : q[1] = f /\ escapePath(q) = p /\ w[p] = escapeEventDataValue(x[q])
  BY <1>7, <1>8 DEF Carries
<1>10. ASSUME NEW t \in Reserved, Stamped(x, f, t)
       PROVE  Is("text", w[p]) /\ w[p].text \in Reserved
  <2>1. PICK o : o = <<f>>
    OBVIOUS
  <2>2. q = o /\ x[o] = Str(t)
    BY <1>9, <1>10, <2>1 DEF Stamped
  <2>3. w[p] = escapeEventDataValue(Str(t))
    BY <1>9, <2>2
  <2>4. escapeEventDataValue(Str(t)) = Str(t)
    BY StrIs, ReservedStays DEF escapeEventDataValue
  <2>5. QED
    BY <2>3, <2>4, StrIs
<1>11. CASE asked.group \notin DOMAIN Compiled
  <2>1. f = undefined_rule /\ Stamped(x, f, undefined_rule)
    BY <1>6, <1>8, <1>11, UndefinedIs
  <2>2. QED
    BY <1>4, <1>10, <2>1, ReservedStays
<1>12. CASE asked.group \in DOMAIN Compiled /\ ~From(x, d, f)
  <2>1. \E t \in Reserved : Stamped(x, f, t)
    BY <1>6, <1>8, <1>12, ReservedStays DEF Valid
  <2>2. QED
    BY <1>4, <1>10, <2>1
<1>13. CASE asked.group \in DOMAIN Compiled /\ From(x, d, f) /\ f \in DOMAIN rules
  <2>1. q \in DOMAIN d /\ x[q] = d[q]
    BY <1>9, <1>13 DEF From
  <2>2. data \in EventData /\ Validators[setup] = Compiled
    BY <1>1, SentIs
  <2>3. q \in DOMAIN data
    BY <1>3, <2>1, <2>2, HashedIs
  <2>4. asked.group \in DOMAIN runtime.groups /\ q[1] \in DOMAIN Rules
    BY <1>5, <1>9, <1>13, <2>2 DEF Compiled, NewValidator, Rules
  <2>5. p = q
    BY <1>1, <1>9, <2>3, <2>4 DEF NamesAsSent
  <2>6. \/ d[q] \in {Nil, Empty}
        \/ Is("text", d[q]) /\ d[q].text \in Texts /\ (d[q].text.hashed > 0 \/ Blank(d[q].text))
    BY <1>2, <1>3, <2>2, <2>3, <2>5, HashedIs
  <2>7. CASE d[q] \in {Nil, Empty}
    <3>1. ~Is("text", d[q])
      BY <2>7 DEF Nil, Empty, Is
    <3>2. w[p] = d[q]
      BY <1>9, <2>1, <3>1 DEF escapeEventDataValue
    <3>3. QED
      BY <1>4, <2>7, <3>2
  <2>8. CASE Is("text", d[q]) /\ d[q].text \in Texts /\ (d[q].text.hashed > 0 \/ Blank(d[q].text))
    <3>1. PICK t : t = d[q].text
      OBVIOUS
    <3>2. PICK u : u = escapeEventIDOrFieldValue(t)
      OBVIOUS
    <3>3. w[p] = Str(u)
      BY <1>9, <2>1, <2>8, <3>1, <3>2 DEF escapeEventDataValue
    <3>4. u.hashed > 0 \/ Blank(u)
      BY <2>8, <3>1, <3>2, TextEscaped, BlankStays
    <3>5. QED
      BY <1>4, <3>3, <3>4, StrIs
  <2>9. QED
    BY <2>6, <2>7, <2>8
<1>14. CASE asked.group \in DOMAIN Compiled /\ From(x, d, f) /\ f \notin DOMAIN rules
  <2>1. \E t \in Reserved : Stamped(x, f, t)
    BY <1>6, <1>8, <1>14, ReservedStays DEF Valid
  <2>2. QED
    BY <1>4, <1>10, <2>1
<1>15. QED
  BY <1>11, <1>12, <1>13, <1>14

\* "Anonymize hashes declared fields before validation" (README.md:80): no
\* value of a field declared for the event is on the wire as it was.
THEOREM DeclaredAreHashed == Spec => []HashedOnWire
<1>1. QED
  BY HashedSent, Invariance, PTL

(***************************************************************************)
(* What a product declares it can send.  First, the order of the rules.    *)
(***************************************************************************)

\* Numbers: a set of them has a least, as the strict subsets of a finite set
\* do not descend for ever.
LEMMA LeastExists ==
  ASSUME NEW S \in SUBSET Nat, S # {}
  PROVE  \E x \in S : \A y \in S : x <= y
<1>1. PICK top \in S : TRUE
  OBVIOUS
<1> DEFINE Upto(x) == S \cap 0..x
           R == StrictSubsetOrdering(0..top)
<1>2. IsWellFoundedOn(R, SUBSET (0..top))
  <2>1. IsFiniteSet(0..top)
    BY FS_Interval
  <2>2. QED
    BY <2>1, FS_FiniteSubsetsOfFinite, FS_StrictSubsetOrderingWellFounded
<1>3. PICK x \in S : x <= top /\ \A y \in S : y <= top => ~(<<Upto(y), Upto(x)>> \in R)
  <2> DEFINE T == {Upto(y) : y \in {z \in S : z <= top}}
  <2>1. T \subseteq SUBSET (0..top) /\ T # {}
    <3>1. top \in {z \in S : z <= top} /\ \A y \in {z \in S : z <= top} : Upto(y) \subseteq 0..top
      OBVIOUS
    <3>2. QED
      BY <3>1
  <2> HIDE DEF R, T
  <2>2. PICK b \in T : \A a \in T : ~(<<a, b>> \in R)
    BY <1>2, <2>1, WFMin
  <2>3. QED
    BY <2>2 DEF T
<1>4. \A y \in S : x <= y
  <2>1. SUFFICES ASSUME NEW y \in S, y < x PROVE FALSE
    OBVIOUS
  <2>2. Upto(y) \subseteq Upto(x) /\ Upto(x) \subseteq 0..top /\ x \in Upto(x) /\ x \notin Upto(y)
    BY <1>3, <2>1
  <2>3. <<Upto(y), Upto(x)>> \in R
    BY <2>2 DEF StrictSubsetOrdering
  <2>4. QED
    BY <1>3, <2>1, <2>3
<1>5. QED
  BY <1>4

\* Of several places in the loops one comes first.
LEMMA FirstPlace ==
  ASSUME NEW S \in SUBSET (Nat \X Nat), S # {}
  PROVE  \E b \in S : \A a \in S : ~Before(a, b)
<1>1. PICK outer : outer = {a[1] : a \in S}
  OBVIOUS
<1>2. outer \in SUBSET Nat /\ outer # {}
  BY <1>1
<1>3. PICK i \in outer : \A j \in outer : i <= j
  BY <1>2, LeastExists
<1>4. PICK inner : inner = {a[2] : a \in {c \in S : c[1] = i}}
  OBVIOUS
<1>5. inner \in SUBSET Nat /\ inner # {}
  BY <1>1, <1>4
<1>6. PICK k \in inner : \A l \in inner : k <= l
  BY <1>5, LeastExists
<1>7. PICK b \in S : b[1] = i /\ b[2] = k
  BY <1>4
<1>8. ASSUME NEW a \in S PROVE ~Before(a, b)
  <2>1. i \in Nat /\ k \in Nat /\ a[1] \in Nat /\ a[2] \in Nat /\ i <= a[1]
    BY <1>1, <1>2, <1>3, <1>5
  <2>2. a[1] = i => k <= a[2]
    BY <1>4, <1>6
  <2>3. QED
    BY <1>7, <2>1, <2>2 DEF Before
<1>9. QED
  BY <1>8

\* Each place is as many places after the first as there are before it.
LEMMA InOrderHasAll ==
  ASSUME NEW S \in SUBSET (Nat \X Nat), IsFiniteSet(S), NEW p \in S
  PROVE  \E m \in DOMAIN InOrder(S) : InOrder(S)[m] = p
<1> DEFINE Below(q) == {a \in S : Before(a, q)}
           Rank(q) == Cardinality(Below(q))
<1>1. \A q \in S : /\ IsFiniteSet(Below(q)) /\ Rank(q) \in Nat /\ Rank(q) < Cardinality(S)
                   /\ q \notin Below(q)
  <2>1. SUFFICES ASSUME NEW q \in S
                 PROVE  /\ IsFiniteSet(Below(q)) /\ Rank(q) \in Nat /\ Rank(q) < Cardinality(S)
                        /\ q \notin Below(q)
    OBVIOUS
  <2>2. q \notin Below(q)
    BY DEF Before
  <2>3. Below(q) \in SUBSET S /\ Below(q) # S
    BY <2>2
  <2>4. QED
    BY <2>2, <2>3, FS_Subset, FS_CardinalityType
<1>2. \A q, r \in S : Before(q, r) => Rank(q) < Rank(r)
  <2>1. SUFFICES ASSUME NEW q \in S, NEW r \in S, Before(q, r) PROVE Rank(q) < Rank(r)
    OBVIOUS
  <2>2. \A a \in S : Before(a, q) => Before(a, r)
    BY <2>1 DEF Before
  <2>3. PICK less : less = Below(q)
    OBVIOUS
  <2>4. PICK more : more = Below(r)
    OBVIOUS
  <2>5. less \in SUBSET more /\ less # more /\ IsFiniteSet(more)
    BY <1>1, <2>1, <2>2, <2>3, <2>4
  <2>6. Cardinality(less) < Cardinality(more)
    BY <2>5, FS_Subset, FS_CardinalityType
  <2>7. QED
    BY <2>3, <2>4, <2>6
<1>3. \A q \in S : Rank(q) = Rank(p) => q = p
  <2>1. SUFFICES ASSUME NEW q \in S, q # p PROVE Rank(q) # Rank(p)
    OBVIOUS
  <2>2. q = <<q[1], q[2]>> /\ p = <<p[1], p[2]>> /\ q[1] \in Nat /\ q[2] \in Nat /\ p[1] \in Nat /\ p[2] \in Nat
    OBVIOUS
  <2>3. q[1] # p[1] \/ q[2] # p[2]
    BY <2>1, <2>2
  <2>4. Before(q, p) \/ Before(p, q)
    BY <2>2, <2>3 DEF Before
  <2>5. Rank(q) < Rank(p) \/ Rank(p) < Rank(q)
    BY <1>2, <2>4
  <2>6. QED
    BY <1>1, <2>5
<1>4. PICK m : m = Rank(p) + 1
  OBVIOUS
<1>5. m \in 1..Cardinality(S) /\ m - 1 = Rank(p)
  <2>1. Rank(p) \in Nat /\ Rank(p) < Cardinality(S) /\ Cardinality(S) \in Nat
    BY <1>1, FS_CardinalityType
  <2> HIDE DEF Rank
  <2>2. QED
    BY <1>4, <2>1
<1>6. (CHOOSE b \in S : Rank(b) = m - 1) = p
  BY <1>3, <1>5
<1>7. InOrder(S) = [n \in 1..Cardinality(S) |-> CHOOSE b \in S : Rank(b) = n - 1]
  BY DEF InOrder
<1>8. QED
  BY <1>5, <1>6, <1>7

LEMMA FieldIs ==
  ASSUME NEW e, NEW name \in Names(e)
  PROVE  \E k \in DOMAIN e.fields : FieldOf(e, name) = e.fields[k] /\ Joined(e.fields[k].path) = name
<1>1. \E k \in DOMAIN e.fields : Joined(e.fields[k].path) = name
  BY DEF Names
<1>2. PICK k : k = CHOOSE l \in DOMAIN e.fields : Joined(e.fields[l].path) = name
  OBVIOUS
<1>3. k \in DOMAIN e.fields /\ Joined(e.fields[k].path) = name
  BY <1>1, <1>2
<1>4. QED
  BY <1>2, <1>3 DEF FieldOf

\* The rules of a group are stated in finitely many places.
LEMMA StatedIs ==
  ASSUME NEW d, WellOrdered(d), NEW g \in DOMAIN d.groups, NEW name
  PROVE  LET S == Stated(d.groups[g].events, name)
         IN  S \in SUBSET (Nat \X Nat) /\ IsFiniteSet(S)
<1>1. PICK events : events = d.groups[g].events
  OBVIOUS
<1>2. /\ events \in Seq(Range(events))
      /\ \A i \in DOMAIN events : \A f \in Range(events[i].fields) : f.rules \in Seq(Range(f.rules))
  BY <1>1 DEF WellOrdered
<1>3. PICK having : having = {j \in DOMAIN events : name \in Names(events[j])}
  OBVIOUS
<1>4. PICK rules : rules = [i \in having |-> FieldOf(events[i], name).rules]
  OBVIOUS
<1>5. \A i \in having : rules[i] \in Seq(Range(rules[i]))
  <2>1. SUFFICES ASSUME NEW i \in having PROVE rules[i] \in Seq(Range(rules[i]))
    OBVIOUS
  <2>2. i \in DOMAIN events /\ name \in Names(events[i])
    BY <1>3
  <2>3. FieldOf(events[i], name) \in Range(events[i].fields)
    BY <2>2, FieldIs DEF Range
  <2>4. QED
    BY <1>2, <1>4, <2>2, <2>3
<1>6. \A i \in having : Len(rules[i]) \in Nat /\ DOMAIN rules[i] = 1..Len(rules[i])
  BY <1>5
<1>7. PICK at : at = [i \in having |-> {<<i, k>> : k \in DOMAIN rules[i]}]
  OBVIOUS
<1>8. Stated(events, name) = UNION {at[i] : i \in having}
  BY <1>3, <1>4, <1>7 DEF Stated
<1>9. having \in SUBSET (1..Len(events)) /\ Len(events) \in Nat
  BY <1>2, <1>3
<1>10. Stated(events, name) \in SUBSET (Nat \X Nat)
  BY <1>6, <1>7, <1>8, <1>9
<1>11. \A i \in having : IsFiniteSet(at[i])
  <2>1. SUFFICES ASSUME NEW i \in having PROVE IsFiniteSet(at[i])
    OBVIOUS
  <2>2. PICK ks : ks = DOMAIN rules[i]
    OBVIOUS
  <2>3. ks = 1..Len(rules[i]) /\ Len(rules[i]) \in Nat
    BY <1>6, <2>2
  <2>4. IsFiniteSet(ks)
    BY <2>3, FS_Interval
  <2>5. PICK only : only = {i}
    OBVIOUS
  <2>6. IsFiniteSet(only)
    BY <2>5, FS_Singleton
  <2>7. at[i] \in SUBSET (only \X ks)
    BY <1>7, <2>2, <2>5
  <2>8. IsFiniteSet(only \X ks)
    BY <2>4, <2>6, FS_Product
  <2>9. QED
    BY <2>7, <2>8, FS_Subset
<1>12. IsFiniteSet({at[i] : i \in having})
  <2>1. IsFiniteSet(1..Len(events))
    BY <1>9, FS_Interval
  <2>2. IsFiniteSet(having)
    BY <1>9, <2>1, FS_Subset
  <2>3. at \in Surjection(having, {at[i] : i \in having})
    BY <1>7 DEF Surjection
  <2>4. QED
    BY <2>2, <2>3, FS_Surjection
<1>13. QED
  BY <1>1, <1>8, <1>10, <1>11, <1>12, FS_UNION

\* Whatever an event states is among the rules that are joined.
LEMMA UnionHasAll ==
  ASSUME NEW d, WellOrdered(d), NEW g \in DOMAIN d.groups, NEW name, NEW at \in Stated(d.groups[g].events, name)
  PROVE  LET events == d.groups[g].events
         IN  \E m \in DOMAIN Union(events, name) : Union(events, name)[m] = RuleAt(events, name, at)
<1>1. PICK events : events = d.groups[g].events
  OBVIOUS
<1>2. PICK stated : stated = Stated(events, name)
  OBVIOUS
<1>3. stated \in SUBSET (Nat \X Nat) /\ IsFiniteSet(stated) /\ at \in stated
  BY <1>1, <1>2, StatedIs
<1>4. PICK rule : rule = [b \in stated |-> RuleAt(events, name, b)]
  OBVIOUS
<1>5. PICK new : new = NewOnes(events, name)
  OBVIOUS
<1>6. new = {b \in stated : \A a \in stated : Before(a, b) => rule[a] # rule[b]}
  BY <1>2, <1>4, <1>5 DEF NewOnes
<1>7. PICK same : same = {b \in stated : rule[b] = rule[at]}
  OBVIOUS
<1>8. same \in SUBSET (Nat \X Nat) /\ same # {}
  BY <1>3, <1>7
<1>9. PICK b \in same : \A a \in same : ~Before(a, b)
  BY <1>8, FirstPlace
<1>10. b \in new /\ rule[b] = rule[at]
  BY <1>6, <1>7, <1>9
<1>11. new \in SUBSET (Nat \X Nat) /\ IsFiniteSet(new)
  BY <1>3, <1>6, FS_Subset
<1>12. PICK order : order = InOrder(new)
  OBVIOUS
<1>13. PICK m \in DOMAIN order : order[m] = b
  BY <1>10, <1>11, <1>12, InOrderHasAll
<1>14. Union(events, name) = [n \in DOMAIN order |-> RuleAt(events, name, order[n])]
  BY <1>5, <1>12 DEF Union
<1>15. Union(events, name)[m] = RuleAt(events, name, b) /\ m \in DOMAIN Union(events, name)
  BY <1>13, <1>14
<1>16. RuleAt(events, name, b) = RuleAt(events, name, at)
  BY <1>3, <1>4, <1>7, <1>9
<1>17. QED
  BY <1>1, <1>15, <1>16

(***************************************************************************)
(* What the rules make of a value.                                         *)
(***************************************************************************)

\* A value that a rule accepts is accepted if all the rules can be resolved.
LEMMA Settled ==
  ASSUME NEW rules, DOMAIN rules \in SUBSET Nat, NEW t, \A j \in DOMAIN rules : rules[j] # Incorrect,
         NEW i \in DOMAIN rules, Accepts(rules[i], t)
  PROVE  acceptRules(rules, t) = "accepted"
<1>1. PICK final : final = {j \in DOMAIN rules : rules[j] = Incorrect \/ Accepts(rules[j], t)}
  OBVIOUS
<1>2. PICK first : first = {j \in final : \A k \in final : j <= k}
  OBVIOUS
<1>3. acceptRules(rules, t) = IF first = {} THEN "rejected"
                              ELSE IF \E j \in first : rules[j] = Incorrect THEN "incorrect" ELSE "accepted"
  BY <1>1, <1>2 DEF acceptRules
<1>4. final \in SUBSET Nat /\ final # {}
  BY <1>1
<1>5. first # {}
  BY <1>2, <1>4, LeastExists
<1>6. \A j \in first : rules[j] # Incorrect
  BY <1>1, <1>2
<1>7. QED
  BY <1>3, <1>5, <1>6

\* A rule of a definition that accepts what nobody has hashed accepts it in the
\* scheme generated from the definition too, if it can be resolved there.
LEMMA OwnRuleMeans ==
  ASSUME NEW d, NEW r, NEW t, ~(t.hashed > 0),
         parseRuleExpr(r, MetadataTables(d)) # Incorrect, Accepts(parseRuleExpr(r, MetadataTables(d)), t),
         parseRuleExpr(r, mergeRules(Compiling(d.tables), <<>>)) # Incorrect
  PROVE  Accepts(parseRuleExpr(r, mergeRules(Compiling(d.tables), <<>>)), t)
<1>1. PICK theirs : theirs = MetadataTables(d)
  OBVIOUS
<1>2. PICK ours : ours = mergeRules(Compiling(d.tables), <<>>)
  OBVIOUS
<1> DEFINE Content(T) == IF ~Is("ref", r) THEN r ELSE IF r.ref \in DOMAIN T THEN T[r.ref] ELSE Incorrect
<1>3. \A T : parseRuleExpr(r, T) =
               IF Broken(Content(T)) THEN Incorrect
               ELSE IF Is("values", Content(T)) THEN makeEnumRule(Content(T).values) ELSE Content(T)
  BY DEF parseRuleExpr
<1>4. Content(theirs) # Incorrect /\ Admits(Content(theirs), t)
  BY <1>1, <1>3, MadeIs
<1>5. Content(ours) # Incorrect
  <2>1. ~Broken(Incorrect) /\ ~Is("values", Incorrect)
    BY DEF Broken, Is, Incorrect
  <2>2. QED
    BY <1>2, <1>3, <2>1
<1>9. Content(ours) = Content(theirs) => parseRuleExpr(r, ours) = parseRuleExpr(r, theirs)
  BY <1>3
<1>6. CASE ~Is("ref", r)
  BY <1>1, <1>2, <1>6, <1>9
<1>7. CASE Is("ref", r)
  <2>1. PICK ref : ref = r.ref
    OBVIOUS
  <2>2. ref \in DOMAIN ours /\ Content(ours) = ours[ref]
    BY <1>5, <1>7, <2>1
  <2>3. ref \in DOMAIN theirs /\ Content(theirs) = theirs[ref]
    BY <1>4, <1>7, <2>1
  <2>4. PICK none : none = Compiling(<<>>)
    OBVIOUS
  <2>5. \A x : x \notin DOMAIN none
    BY <2>4, CompilingIs
  <2>6. PICK table : table = Compiling(d.tables)
    OBVIOUS
  <2>7. ours = Over(none, table)
    BY <1>2, <2>4, <2>6 DEF mergeRules
  <2>8. ref \in DOMAIN table /\ ours[ref] = table[ref]
    BY <2>2, <2>5, <2>7 DEF Over
  <2>9. ours[ref] = d.tables[ref]
    BY <2>6, <2>8, CompilingIs
  <2>10. theirs[ref] = IF ref = HashRuleRef THEN [pattern |-> "hash"] ELSE d.tables[ref]
    <3>1. theirs = Over([x \in {HashRuleRef} |-> [pattern |-> "hash"]], d.tables)
      BY <1>1 DEF MetadataTables
    <3>2. QED
      BY <2>3, <3>1 DEF Over
  <2>11. ref # HashRuleRef
    <3>1. ~Admits([pattern |-> "hash"], t)
      BY DEF Admits, Accepts, Is, Matches
    <3>2. QED
      BY <1>4, <2>3, <2>10, <3>1
  <2>12. QED
    BY <1>1, <1>2, <1>9, <2>2, <2>3, <2>9, <2>10, <2>11
<1>8. QED
  BY <1>6, <1>7

(***************************************************************************)
(* The event that is tracked, as its definition declares it.               *)
(***************************************************************************)

definition == Setup[setup].definition
OwnGroup == definition.groups[asked.group]
OwnEvent == OwnGroup.events[DeclaredEvent(definition)]
ByDefinition == /\ IInv /\ asked \in Calls /\ definition # Nothing /\ runtime = local
                /\ asked.group \in DOMAIN definition.groups /\ AsDeclared(definition)

LEMMA GeneratedIs ==
  ASSUME ByDefinition
  PROVE  /\ WellOrdered(definition) /\ HasFallback(definition) /\ ValidDefinition(definition)
         /\ local # Nothing /\ runtime.tables = definition.tables
         /\ asked.group \in DOMAIN runtime.groups
         /\ runtime.groups[asked.group] = GroupScheme(OwnGroup) /\ WellFormed(GroupScheme(OwnGroup))
<1>1. setup \in DOMAIN Setup
  BY DEF ByDefinition, IInv
<1>2. /\ Setup[setup].runtime # Nothing
      /\ WellOrdered(definition) /\ HasFallback(definition)
      /\ Setup[setup].local = BuildValidationScheme(definition)
      /\ \A r \in {Setup[setup].local, Setup[setup].runtime} \ {Nothing} :
           \A g \in DOMAIN r.groups : WellFormed(r.groups[g])
  BY <1>1, SetupAssumption DEF ByDefinition, definition
<1>3. runtime = BuildValidationScheme(definition) /\ runtime = local /\ runtime # Nothing
  BY <1>2 DEF ByDefinition, runtime, local
<1>4. /\ runtime.tables = definition.tables
      /\ runtime.groups = [g \in DOMAIN definition.groups |-> GroupScheme(definition.groups[g])]
  BY <1>3 DEF BuildValidationScheme
<1>5. asked.group \in DOMAIN runtime.groups /\ runtime.groups[asked.group] = GroupScheme(OwnGroup)
  BY <1>4 DEF ByDefinition, OwnGroup
<1>6. WellFormed(runtime.groups[asked.group])
  BY <1>2, <1>3, <1>5 DEF runtime
<1>7. QED
  BY <1>2, <1>3, <1>4, <1>5, <1>6 DEF HasFallback

\* One event of the group has the ID.
LEMMA EventIs ==
  ASSUME ByDefinition
  PROVE  LET events == OwnGroup.events
             i == DeclaredEvent(definition)
         IN  /\ i \in DOMAIN events /\ DOMAIN events \in SUBSET Nat
             /\ events[i].id = asked.id /\ asked.id # Plain("")
             /\ \A j \in DOMAIN events : events[j].id = asked.id => j = i
<1>1. PICK events : events = OwnGroup.events
  OBVIOUS
<1>2. PICK i : i = DeclaredEvent(definition)
  OBVIOUS
<1>3. \E j \in DOMAIN events : events[j].id = asked.id
  BY <1>1 DEF ByDefinition, AsDeclared, OwnGroup
<1>4. i = CHOOSE j \in DOMAIN events : events[j].id = asked.id
  BY <1>1, <1>2 DEF DeclaredEvent, OwnGroup
<1>5. i \in DOMAIN events /\ events[i].id = asked.id
  BY <1>3, <1>4
<1>6. events \in Seq(Range(events))
  BY <1>1, GeneratedIs DEF WellOrdered, OwnGroup, ByDefinition
<1>7. IsInjective([j \in DOMAIN events |-> events[j].id]) /\ ValidEvent(events[i])
  BY <1>1, <1>5, GeneratedIs DEF ValidDefinition, OwnGroup, ByDefinition
<1>8. \A j \in DOMAIN events : events[j].id = asked.id => j = i
  BY <1>5, <1>7 DEF IsInjective
<1>9. asked.id # Plain("")
  BY <1>5, <1>7 DEF ValidEvent
<1>10. DOMAIN events \in SUBSET Nat
  BY <1>6
<1>11. QED
  BY <1>1, <1>2, <1>5, <1>8, <1>9, <1>10

\* A field of it has rules of its own.
LEMMA OwnFieldIs ==
  ASSUME ByDefinition, NEW f \in Names(OwnEvent), f \in Texts
  PROVE  LET own == FieldOf(OwnEvent, f)
         IN  /\ own.rules \in Seq(Range(own.rules)) /\ own.rules # <<>>
             /\ f \in AnonymizedNames(OwnEvent) => own.anonymized
             /\ own.anonymized => f \in AnonymizedNames(OwnEvent)
             /\ f.mark # "position"
<1>1. PICK e : e = OwnEvent
  OBVIOUS
<1>2. PICK k \in DOMAIN e.fields : FieldOf(e, f) = e.fields[k] /\ Joined(e.fields[k].path) = f
  BY <1>1, FieldIs
<1>3. PICK i : i = DeclaredEvent(definition)
  OBVIOUS
<1>4. i \in DOMAIN OwnGroup.events /\ e = OwnGroup.events[i]
  BY <1>1, <1>3, EventIs DEF OwnEvent
<1>5. \A l \in DOMAIN e.fields : /\ e.fields[l].path \in Seq(PathPart) /\ Len(e.fields[l].path) = 1
                                 /\ e.fields[l].rules \in Seq(Range(e.fields[l].rules)) /\ e.fields[l].rules # <<>>
  <2>1. SUFFICES ASSUME NEW l \in DOMAIN e.fields
                 PROVE  /\ e.fields[l].path \in Seq(PathPart) /\ Len(e.fields[l].path) = 1
                        /\ e.fields[l].rules \in Seq(Range(e.fields[l].rules)) /\ e.fields[l].rules # <<>>
    OBVIOUS
  <2>2. asked.group \in DOMAIN definition.groups /\ e.fields[l] \in Range(e.fields)
    BY DEF ByDefinition, Range
  <2>3. e.fields[l].path \in Seq(PathPart) /\ e.fields[l].rules \in Seq(Range(e.fields[l].rules))
    BY <1>4, <2>2, GeneratedIs DEF WellOrdered, OwnGroup
  <2>4. Len(e.fields[l].path) = 1
    BY <1>4, <2>2, GeneratedIs DEF HasFallback, OwnGroup
  <2>5. ValidEvent(e)
    BY <1>4, <2>2, GeneratedIs DEF ValidDefinition, OwnGroup
  <2>6. e.fields[l].rules # <<>>
    BY <2>5 DEF ValidEvent
  <2>7. QED
    BY <2>3, <2>4, <2>6
<1>6. \A l \in DOMAIN e.fields : /\ e.fields[l].path = <<e.fields[l].path[1]>>
                                 /\ Joined(e.fields[l].path) = e.fields[l].path[1]
                                 /\ e.fields[l].path[1] \in PathPart
  <2>1. SUFFICES ASSUME NEW l \in DOMAIN e.fields
                 PROVE  /\ e.fields[l].path = <<e.fields[l].path[1]>>
                        /\ Joined(e.fields[l].path) = e.fields[l].path[1]
                        /\ e.fields[l].path[1] \in PathPart
    OBVIOUS
  <2>2. PICK path : path = e.fields[l].path
    OBVIOUS
  <2>3. path \in Seq(PathPart) /\ Len(path) = 1
    BY <1>5, <2>2
  <2>4. path = <<path[1]>> /\ path[1] \in PathPart
    <3>1. path = <<path[1]>>
      BY <2>3
    <3>2. PICK parts : parts = PathPart
      OBVIOUS
    <3>5. path \in Seq(parts) /\ 1 \in 1..Len(path)
      BY <2>3, <3>2
    <3>6. path[1] \in parts
      BY <3>5
    <3>3. path[1] \in PathPart
      BY <3>2, <3>6
    <3>4. QED
      BY <3>1, <3>3
  <2>5. Joined(path) = path[1]
    BY <2>3 DEF Joined
  <2>6. QED
    BY <2>2, <2>4, <2>5
<1>7. \A l \in DOMAIN e.fields : Joined(e.fields[l].path) = f => l = k
  <2>1. IsInjective([l \in DOMAIN e.fields |-> e.fields[l].path])
    BY <1>4, GeneratedIs DEF ValidDefinition, ValidEvent, OwnGroup, ByDefinition
  <2>2. SUFFICES ASSUME NEW l \in DOMAIN e.fields, Joined(e.fields[l].path) = f PROVE l = k
    OBVIOUS
  <2>4. e.fields[l].path[1] = e.fields[k].path[1]
    BY <1>2, <1>6, <2>2
  <2>5. e.fields[l].path = e.fields[k].path
    BY <1>6, <2>4
  <2>6. QED
    BY <2>1, <2>5 DEF IsInjective
<1>8. (f \in AnonymizedNames(e) => e.fields[k].anonymized) /\ (e.fields[k].anonymized => f \in AnonymizedNames(e))
  BY <1>2, <1>7 DEF AnonymizedNames
<1>9. f.mark # "position"
  <2>1. f \in PathPart
    BY <1>2, <1>6
  <2>2. QED
    BY <2>1 DEF PathPart
<1>10. QED
  BY <1>1, <1>2, <1>5, <1>8, <1>9

\* What its definition has hashed is what the anonymizer hashes.
LEMMA HashedFieldsAre ==
  ASSUME ByDefinition
  PROVE  HashedFields = AnonymizedNames(OwnEvent)
<1>1. PICK i : i = DeclaredEvent(definition)
  OBVIOUS
<1>2. PICK events : events = OwnGroup.events
  OBVIOUS
<1>3. PICK anonymized : anonymized = local.groups[asked.group].anonymized
  OBVIOUS
<1>4. anonymized = [j \in DOMAIN events |-> [event |-> events[j].id, fields |-> AnonymizedNames(events[j])]]
  BY <1>2, <1>3, GeneratedIs DEF GroupScheme, ByDefinition
<1>5. PICK entries : entries = Entries(local, asked.group, asked.id)
  OBVIOUS
<1>6. /\ i \in DOMAIN events /\ i \in Nat /\ events[i].id = asked.id /\ OwnEvent = events[i]
      /\ \A j \in DOMAIN events : events[j].id = asked.id => j = i
      /\ asked.id # Plain("") /\ local # Nothing /\ asked.group \in DOMAIN local.groups
  BY <1>1, <1>2, EventIs, GeneratedIs DEF OwnEvent, ByDefinition
<1>7. entries = {j \in DOMAIN anonymized : anonymized[j].event = asked.id /\ anonymized[j].fields # {}}
  BY <1>3, <1>5, <1>6 DEF Entries
<1>8. \A j \in DOMAIN anonymized : anonymized[j].event = events[j].id /\ anonymized[j].fields = AnonymizedNames(events[j])
  BY <1>4
<1>9. DOMAIN anonymized = DOMAIN events
  BY <1>4
<1>10. CASE AnonymizedNames(OwnEvent) = {}
  <2>1. entries = {}
    BY <1>6, <1>7, <1>8, <1>9, <1>10
  <2>2. QED
    BY <1>5, <1>10, <2>1 DEF HashedFields, AnonymizedFields
<1>11. CASE AnonymizedNames(OwnEvent) # {}
  <2>1. entries = {i}
    <3>1. \A j : j \in entries => j = i
      BY <1>6, <1>7, <1>8, <1>9
    <3>2. i \in entries
      <4>1. anonymized[i].event = asked.id /\ i \in DOMAIN anonymized
        BY <1>6, <1>8, <1>9
      <4>2. anonymized[i].fields # {}
        BY <1>6, <1>8, <1>9, <1>11
      <4>3. QED
        BY <1>7, <4>1, <4>2
    <3>3. QED
      BY <3>1, <3>2
  <2>2. i \in Int
    <3>1. i \in Nat
      BY <1>6
    <3>2. QED
      BY <3>1
  <2>3. Max(entries) = i
    BY <2>1, <2>2 DEF Max
  <2>4. HashedFields = anonymized[i].fields
    BY <1>3, <1>5, <2>1, <2>3 DEF HashedFields, AnonymizedFields
  <2>5. QED
    BY <1>6, <1>8, <1>9, <2>4
<1>12. QED
  BY <1>10, <1>11

\* The validator it runs with, in the generated scheme's own terms.
LEMMA OwnRulesAre ==
  ASSUME ByDefinition
  PROVE  LET g == GroupScheme(OwnGroup)
             v == Compiled[asked.group]
         IN  /\ Validators[setup] = Compiled /\ asked.group \in DOMAIN Compiled
             /\ v = compiledGroup(g, Compiling(definition.tables))
             /\ v.builds = {} /\ v.versions = g.versions
             /\ v.eventIDRules = [i \in DOMAIN g.eventIDs |->
                                    parseRuleExpr(g.eventIDs[i], mergeRules(Compiling(definition.tables), <<>>))]
<1>1. PICK g : g = GroupScheme(OwnGroup)
  OBVIOUS
<1>2. Validators[setup] = Compiled
  BY DEF Validators, Compiled, runtime, ByDefinition, IInv
<1>3. asked.group \in DOMAIN Compiled /\ Compiled[asked.group] = compiledGroup(g, Compiling(definition.tables))
  BY <1>1, GeneratedIs DEF Compiled, NewValidator
<1>4. g.builds = {} /\ g.tables = <<>>
  BY <1>1 DEF GroupScheme
<1>5. PICK globals : globals = Compiling(definition.tables)
  OBVIOUS
<1>6. /\ compiledGroup(g, globals).builds = g.builds /\ compiledGroup(g, globals).versions = g.versions
      /\ compiledGroup(g, globals).eventIDRules =
           [i \in DOMAIN g.eventIDs |-> parseRuleExpr(g.eventIDs[i], mergeRules(globals, g.tables))]
  BY DEF compiledGroup
<1>7. QED
  BY <1>1, <1>2, <1>3, <1>4, <1>5, <1>6

\* The version that the definition states is the one that is accepted.
LEMMA OwnVersionAccepted ==
  ASSUME ByDefinition
  PROVE  ~Dropped(Anonymized, Compiled)
<1>1. PICK n : n = OwnGroup.version
  OBVIOUS
<1>2. asked.version = n /\ n \in Nat
  BY <1>1, CallerAssumption DEF ByDefinition, AsDeclared, OwnGroup
<1>3. PICK r : r = [from |-> <<n>>, to |-> <<n + 1>>]
  OBVIOUS
<1>4. GroupScheme(OwnGroup).versions = {r}
  BY <1>1, <1>3 DEF GroupScheme
<1>5. Atoi(<<n>>) = n /\ Atoi(<<n + 1>>) = n + 1
  <2>1. ASSUME NEW k \in Int PROVE Atoi(<<k>>) = k
    <3>1. k \notin DOMAIN Padded
      BY AtoiAssumption
    <3>2. Len(<<k>>) = 1 /\ <<k>>[1] = k
      OBVIOUS
    <3>3. QED
      BY <3>1, <3>2 DEF Atoi
  <2>2. n \in Int /\ n + 1 \in Int
    BY <1>2
  <2>3. QED
    BY <2>1, <2>2
<1>6. n # NotANumber /\ n + 1 # NotANumber
  BY <1>2, AtoiAssumption
<1>7. acceptsInVersion({r}, n)
  BY <1>2, <1>3, <1>5, <1>6 DEF acceptsInVersion
<1>8. acceptsBuildVersion(Compiled[asked.group], Build, n)
  BY <1>4, <1>7, OwnRulesAre DEF acceptsBuildVersion
<1>9. PICK a : a = Anonymized
  OBVIOUS
<1>10. a.group = asked.group /\ a.version = n /\ a.build = Build
  BY <1>2, <1>9, AnonymizedIs DEF ByDefinition
<1>11. QED
  BY <1>8, <1>9, <1>10 DEF Dropped

\* So is the ID.
LEMMA OwnIDAccepted ==
  ASSUME ByDefinition
  PROVE  validateEventID(asked.id, Compiled, asked.group) = asked.id
<1>1. PICK events : events = OwnGroup.events
  OBVIOUS
<1>2. PICK i : i = DeclaredEvent(definition)
  OBVIOUS
<1>3. PICK ids : ids = GroupScheme(OwnGroup).eventIDs
  OBVIOUS
<1>4. ids = [j \in DOMAIN events |-> [values |-> {events[j].id}]]
  BY <1>1, <1>3 DEF GroupScheme
<1>5. PICK tables : tables = mergeRules(Compiling(definition.tables), <<>>)
  OBVIOUS
<1>6. PICK rules : rules = Compiled[asked.group].eventIDRules
  OBVIOUS
<1>7. rules = [j \in DOMAIN ids |-> parseRuleExpr(ids[j], tables)] /\ asked.group \in DOMAIN Compiled
  BY <1>3, <1>5, <1>6, OwnRulesAre
<1>8. \A x : /\ parseRuleExpr([values |-> {x}], tables) = [values |-> {Trim(x)}]
             /\ [values |-> {Trim(x)}] # Incorrect /\ Accepts([values |-> {Trim(x)}], Trim(x))
  <2>1. TAKE x
  <2>2. PICK e : e = [values |-> {x}]
    OBVIOUS
  <2>3. PICK r : r = [values |-> {Trim(x)}]
    OBVIOUS
  <2>4. ~Is("ref", e) /\ ~Broken(e) /\ Is("values", e) /\ e.values = {x}
    BY <2>2 DEF Is, Broken
  <2>5. Is("values", r) /\ r.values = {Trim(x)} /\ r # Incorrect
    BY <2>3 DEF Is, Incorrect
  <2>6. makeEnumRule({x}) = r
    <3>1. {Trim(v) : v \in {x}} = {Trim(x)} /\ {x} # {}
      OBVIOUS
    <3>2. QED
      BY <2>3, <3>1 DEF makeEnumRule
  <2>7. parseRuleExpr(e, tables) = r
    BY <2>4, <2>6 DEF parseRuleExpr
  <2>8. Accepts(r, Trim(x))
    BY <2>5 DEF Accepts
  <2>9. QED
    BY <2>2, <2>3, <2>5, <2>7, <2>8
<1>9. DOMAIN rules = DOMAIN events /\ \A j \in DOMAIN events : rules[j] = [values |-> {Trim(events[j].id)}]
  BY <1>4, <1>7, <1>8
<1>15. Trim(asked.id) = asked.id
  BY DEF ByDefinition, AsDeclared
<1>10. i \in DOMAIN events /\ events[i].id = asked.id /\ DOMAIN events \in SUBSET Nat
  BY <1>1, <1>2, EventIs
<1>11. acceptRules(rules, asked.id) = "accepted"
  <2>1. DOMAIN rules \in SUBSET Nat /\ i \in DOMAIN rules
    BY <1>9, <1>10
  <2>2. \A j \in DOMAIN rules : rules[j] # Incorrect
    BY <1>8, <1>9
  <2>3. Accepts(rules[i], asked.id)
    BY <1>8, <1>9, <1>10, <1>15
  <2>4. QED
    BY <2>1, <2>2, <2>3, Settled
<1>12. rules # <<>>
  BY <1>9, <1>10
<1>13. escapeEventIDOrFieldValue(asked.id) = asked.id
  BY DEF ByDefinition, AsDeclared
<1>14. QED
  BY <1>6, <1>7, <1>11, <1>12, <1>13 DEF validateEventID

\* A list of rules, and where in it each of them is.
RuleList(g, f, tables) ==
  [i \in DOMAIN g.eventData[f] |-> parseRuleExpr(g.eventData[f][i], tables)] \o HashRule(g, f)

LEMMA RuleListIs ==
  ASSUME NEW g, WellFormed(g), NEW f \in DOMAIN g.eventData, NEW tables,
         NEW exprs, exprs = g.eventData[f], NEW all, all = RuleList(g, f, tables)
  PROVE  /\ DOMAIN all \in SUBSET Nat
         /\ \A m \in DOMAIN exprs : m \in DOMAIN all /\ all[m] = parseRuleExpr(exprs[m], tables)
         /\ (\E i \in DOMAIN g.anonymized : f \in g.anonymized[i].fields) =>
              \E m \in DOMAIN all : all[m] = [pattern |-> "hash"]
<1>1. PICK parsed : parsed = [i \in DOMAIN exprs |-> parseRuleExpr(exprs[i], tables)]
  OBVIOUS
<1>2. PICK only : only = [pattern |-> "hash"]
  OBVIOUS
<1>3. PICK hash : hash = HashRule(g, f)
  OBVIOUS
<1>4. hash = <<only>> \/ hash = <<>>
  BY <1>2, <1>3 DEF HashRule
<1>5. (\E i \in DOMAIN g.anonymized : f \in g.anonymized[i].fields) => hash = <<only>>
  BY <1>2, <1>3 DEF HashRule
<1>6. exprs \in Seq(Range(exprs))
  BY DEF WellFormed
<1>7. PICK n : n = Len(exprs)
  OBVIOUS
<1>8. n \in Nat /\ DOMAIN exprs = 1..n
  BY <1>6, <1>7
<1>9. PICK some : some = {parsed[i] : i \in 1..n} \cup {only}
  OBVIOUS
<1>10. parsed \in Seq(some) /\ Len(parsed) = n
  <2>1. parsed = [i \in 1..n |-> parsed[i]]
    BY <1>1, <1>8
  <2>2. \A i \in 1..n : parsed[i] \in some
    BY <1>9
  <2>3. QED
    BY <1>8, <2>1, <2>2
<1>11. <<only>> \in Seq(some) /\ <<>> \in Seq(some)
  BY <1>9
<1>12. hash \in Seq(some)
  BY <1>4, <1>11
<1>13. all = parsed \o hash
  BY <1>1, <1>3 DEF RuleList
<1>14. DOMAIN all = 1..n + Len(hash) /\ Len(hash) \in Nat
  BY <1>10, <1>12, <1>13
<1>15. \A m \in 1..n : m \in DOMAIN all /\ all[m] = parsed[m]
  BY <1>8, <1>10, <1>12, <1>13, <1>14
<1>16. \A m \in DOMAIN exprs : all[m] = parseRuleExpr(exprs[m], tables)
  BY <1>1, <1>8, <1>15
<1>17. ASSUME hash = <<only>> PROVE n + 1 \in DOMAIN all /\ all[n + 1] = only
  <2>1. Len(hash) = 1 /\ hash[1] = only
    BY <1>17
  <2>2. n + 1 \in DOMAIN all
    BY <1>8, <1>14, <2>1
  <2>3. PICK whole : whole = parsed \o hash
    OBVIOUS
  <2>4. whole[n + 1] = hash[1]
    <3>1. n + 1 \in Len(parsed) + 1..Len(parsed) + Len(hash)
      BY <1>8, <1>10, <2>1
    <3>2. \A m \in 1..Len(parsed) + Len(hash) :
            whole[m] = IF m <= Len(parsed) THEN parsed[m] ELSE hash[m - Len(parsed)]
      BY <1>10, <1>12, <2>3
    <3>3. QED
      BY <1>8, <1>10, <3>1, <3>2
  <2>5. QED
    BY <1>13, <2>1, <2>2, <2>3, <2>4
<1>18. DOMAIN all \in SUBSET Nat
  BY <1>8, <1>14
<1>19. QED
  BY <1>2, <1>3, <1>5, <1>8, <1>15, <1>16, <1>17, <1>18

\* A field with rules has them in the compiled group.
LEMMA CompiledHas ==
  ASSUME NEW s, NEW group \in DOMAIN s.groups, NEW f \in DOMAIN s.groups[group].eventData,
         RuleList(s.groups[group], f, Tables(s, s.groups[group])) # <<>>
  PROVE  f \in DOMAIN NewValidator(s)[group].eventDataRules
<1>1. PICK g : g = s.groups[group]
  OBVIOUS
<1>2. NewValidator(s)[group] = compiledGroup(g, Compiling(s.tables))
  BY <1>1 DEF NewValidator
<1>3. PICK all : all = [h \in DOMAIN g.eventData |-> RuleList(g, h, Tables(s, g))]
  OBVIOUS
<1>4. compiledGroup(g, Compiling(s.tables)).eventDataRules = RestrictValues(all, LAMBDA rs : rs # <<>>)
  BY <1>3 DEF compiledGroup, Tables, RuleList
<1>5. f \in DOMAIN all /\ all[f] # <<>>
  BY <1>1, <1>3
<1>6. f \in DOMAIN RestrictValues(all, LAMBDA rs : rs # <<>>)
  BY <1>5 DEF RestrictValues, Restrict
<1>7. QED
  BY <1>2, <1>4, <1>6

\* What the hash rule and the declared rules are given to decide upon.
LEMMA HashedValue ==
  ASSUME ByDefinition, NEW f \in Fields(data), f \in AnonymizedNames(OwnEvent)
  PROVE  escapeEventIDOrFieldValue(valueToString(Hashed(data, HashedFields), f)).hashed > 0
<1>1. PICK o : o = <<f>>
  OBVIOUS
<1>2. data \in EventData /\ Fields(data) \subseteq Names(OwnEvent) /\ f \in Texts
  <2>1. data \in EventData /\ Fields(data) \subseteq Names(OwnEvent)
    BY DEF ByDefinition, IInv, AsDeclared, OwnEvent, OwnGroup
  <2>2. f \in Texts
    BY <2>1, CallerAssumption DEF Fields
  <2>3. QED
    BY <2>1, <2>2
<1>3. FieldOf(OwnEvent, f).anonymized /\ f.mark # "position"
  BY <1>2, OwnFieldIs
<1>4. Hashable(f)
  BY <1>3 DEF ByDefinition, AsDeclared, OwnEvent, OwnGroup
<1>5. o \in DOMAIN data /\ data[o] # Empty /\ ~Blank(Printed(data[o]))
  BY <1>1, <1>4 DEF Hashable, valueToString
<1>6. o[Len(o)].mark # "position" /\ Len(o) = 1 /\ o[1] = f
  BY <1>1, <1>3
<1>7. Key(o) = f /\ ~PassedOver(o, data[o])
  BY <1>5, <1>6 DEF Key, PassedOver
<1>8. PICK t : t = Anonymize(Printed(data[o]))
  OBVIOUS
<1>9. Printed(data[o]) \in Texts /\ Printed(data[o]).hashed = 0
  BY <1>2, <1>5, CallerAssumption, PrintedIs
<1>10. t \in Texts /\ t.hashed > 0
  <2>1. t = [Printed(data[o]) EXCEPT !.hashed = @ + 1]
    BY <1>5, <1>8 DEF Anonymize
  <2>2. PICK s : s = Printed(data[o])
    OBVIOUS
  <2>3. s \in Texts /\ s.hashed = 0 /\ t = [s EXCEPT !.hashed = s.hashed + 1]
    BY <1>9, <2>1, <2>2
  <2>4. QED
    BY <2>3 DEF Texts
<1>11. PICK h : h = Hashed(data, HashedFields)
  OBVIOUS
<1>12. o \in DOMAIN h /\ h[o] = Str(t)
  BY <1>5, <1>7, <1>8, <1>11, HashedFieldsAre DEF Hashed, anonymizeValue, anonymizeScalar
<1>13. Str(t) \in Leaf /\ Is("text", Str(t)) /\ Str(t).text = t
  BY <1>10, StrIs
<1>14. valueToString(h, f) = t
  BY <1>1, <1>12, <1>13, PrintedIs DEF valueToString
<1>15. QED
  BY <1>10, <1>11, <1>14, TextEscaped

LEMMA UnhashedValue ==
  ASSUME ByDefinition, NEW f \in Fields(data), f \notin AnonymizedNames(OwnEvent)
  PROVE  /\ valueToString(Hashed(data, HashedFields), f) = valueToString(data, f)
         /\ ~(escapeEventIDOrFieldValue(valueToString(data, f)).hashed > 0)
<1>1. PICK o : o = <<f>>
  OBVIOUS
<1>2. data \in EventData
  BY DEF ByDefinition, IInv
<1>3. Key(o) = f
  BY <1>1 DEF Key
<1>4. PICK h : h = Hashed(data, HashedFields)
  OBVIOUS
<1>5. DOMAIN h = DOMAIN data /\ (o \in DOMAIN data => h[o] = data[o])
  BY <1>3, <1>4, HashedFieldsAre DEF Hashed, anonymizeValue
<1>6. valueToString(h, f) = valueToString(data, f)
  BY <1>1, <1>5 DEF valueToString
<1>7. valueToString(data, f) \in Texts /\ valueToString(data, f).hashed = 0
  <2>1. CASE o \in DOMAIN data
    BY <1>1, <1>2, <2>1, CallerAssumption, PrintedIs DEF valueToString
  <2>2. CASE o \notin DOMAIN data
    <3>1. PICK t : t = Text("map", ":")
      OBVIOUS
    <3>2. "map" \in Word /\ ":" \in Mark
      BY WordAssumption DEF Mark
    <3>3. t \in Texts /\ t.hashed = 0
      BY <3>1, <3>2, TextIs
    <3>4. QED
      BY <1>1, <2>2, <3>1, <3>3 DEF valueToString
  <2>3. QED
    BY <2>1, <2>2
<1>8. escapeEventIDOrFieldValue(valueToString(data, f)).hashed = 0
  BY <1>7, TextEscaped
<1>9. QED
  BY <1>4, <1>6, <1>8

\* The generated scheme has the rules that the event's own field has.
LEMMA OwnRuleThere ==
  ASSUME ByDefinition, NEW f \in Names(OwnEvent), NEW k \in DOMAIN FieldOf(OwnEvent, f).rules
  PROVE  LET exprs == GroupScheme(OwnGroup).eventData[f]
         IN  /\ f \in DOMAIN GroupScheme(OwnGroup).eventData
             /\ \E m \in DOMAIN exprs : exprs[m] = FieldOf(OwnEvent, f).rules[k]
<1>1. PICK events : events = OwnGroup.events
  OBVIOUS
<1>2. PICK i : i = DeclaredEvent(definition)
  OBVIOUS
<1>3. i \in DOMAIN events /\ OwnEvent = events[i]
  BY <1>1, <1>2, EventIs DEF OwnEvent
<1>4. PICK declaring : declaring = {j \in DOMAIN events : f \in Names(events[j])}
  OBVIOUS
<1>5. i \in declaring
  BY <1>3, <1>4
<1>6. GroupScheme(OwnGroup).eventData = [n \in UNION {Names(events[j]) : j \in DOMAIN events} |-> Union(events, n)]
  BY <1>1 DEF GroupScheme
<1>7. f \in UNION {Names(events[j]) : j \in DOMAIN events}
  BY <1>3
<1>8. f \in DOMAIN GroupScheme(OwnGroup).eventData /\ GroupScheme(OwnGroup).eventData[f] = Union(events, f)
  BY <1>6, <1>7
<1>9. PICK at : at = <<i, k>>
  OBVIOUS
<1>10. Stated(events, f) = UNION {{<<j, l>> : l \in DOMAIN FieldOf(events[j], f).rules} : j \in declaring}
  BY <1>4 DEF Stated
<1>11. at \in {<<i, l>> : l \in DOMAIN FieldOf(events[i], f).rules}
  BY <1>3, <1>9
<1>12. at \in Stated(events, f)
  BY <1>5, <1>10, <1>11
<1>13. RuleAt(events, f, at) = FieldOf(OwnEvent, f).rules[k]
  BY <1>3, <1>9 DEF RuleAt
<1>14. WellOrdered(definition) /\ asked.group \in DOMAIN definition.groups
  BY GeneratedIs DEF ByDefinition
<1>15. \E m \in DOMAIN Union(events, f) : Union(events, f)[m] = RuleAt(events, f, at)
  BY <1>1, <1>12, <1>14, UnionHasAll DEF OwnGroup
<1>16. QED
  BY <1>8, <1>13, <1>15

\* Each field passes the validator as it is.
LEMMA FieldAccepted ==
  ASSUME ByDefinition, NEW f \in Fields(data)
  PROVE  LET rules == Compiled[asked.group].eventDataRules
         IN  f \in DOMAIN rules /\ validateField(Hashed(data, HashedFields), f, rules[f]) = "accepted"
<1>1. PICK g : g = GroupScheme(OwnGroup)
  OBVIOUS
<1>2. PICK own : own = FieldOf(OwnEvent, f)
  OBVIOUS
<1>3. PICK tables : tables = mergeRules(Compiling(definition.tables), <<>>)
  OBVIOUS
<1>4. data \in EventData /\ f \in Names(OwnEvent)
  BY DEF ByDefinition, IInv, AsDeclared, OwnEvent, OwnGroup
<1>5. f \in Texts
  BY <1>4, CallerAssumption DEF Fields
<1>6. /\ asked.group \in DOMAIN runtime.groups /\ runtime.groups[asked.group] = g /\ WellFormed(g)
      /\ runtime.tables = definition.tables
  BY <1>1, GeneratedIs
<1>7. g.tables = <<>> /\ Tables(runtime, g) = tables
  BY <1>1, <1>3, <1>6 DEF GroupScheme, Tables
<1>8. own.rules \in Seq(Range(own.rules)) /\ own.rules # <<>>
  BY <1>2, <1>4, <1>5, OwnFieldIs
<1>9. PICK exprs : exprs = g.eventData[f]
  OBVIOUS
<1>10. \A k \in DOMAIN own.rules : f \in DOMAIN g.eventData /\ \E m \in DOMAIN exprs : exprs[m] = own.rules[k]
  BY <1>1, <1>2, <1>4, <1>9, OwnRuleThere
<1>11. 1 \in DOMAIN own.rules
  BY <1>8
<1>12. f \in DOMAIN g.eventData /\ DOMAIN exprs # {}
  BY <1>10, <1>11
<1>13. PICK all : all = RuleList(g, f, tables)
  OBVIOUS
<1>14. /\ DOMAIN all \in SUBSET Nat
       /\ \A m \in DOMAIN exprs : m \in DOMAIN all /\ all[m] = parseRuleExpr(exprs[m], tables)
       /\ (\E i \in DOMAIN g.anonymized : f \in g.anonymized[i].fields) =>
            \E m \in DOMAIN all : all[m] = [pattern |-> "hash"]
  BY <1>6, <1>9, <1>12, <1>13, RuleListIs
<1>15. all # <<>>
  BY <1>12, <1>14
<1>16. PICK rules : rules = Compiled[asked.group].eventDataRules
  OBVIOUS
<1>17. f \in DOMAIN rules
  BY <1>6, <1>7, <1>9, <1>12, <1>13, <1>15, <1>16, CompiledHas DEF Compiled
<1>18. asked.group \in DOMAIN Compiled /\ Validators[setup] = Compiled
  BY OwnRulesAre
<1>19. rules[f] = all
  <2>1. rules[f] = RuleList(g, f, Tables(runtime, g))
    BY <1>6, <1>16, <1>17, <1>18, CompiledIs DEF Compiled, RuleList
  <2>2. QED
    BY <1>7, <1>13, <2>1
<1>20. /\ Incorrect \notin Range(Rules[f])
       /\ Satisfied(own.rules, data, f, definition)
  BY <1>2 DEF ByDefinition, AsDeclared, OwnEvent, OwnGroup
<1>21. \A j \in DOMAIN all : all[j] # Incorrect
  BY <1>16, <1>18, <1>19, <1>20 DEF Rules, Range
<1>22. PICK d : d = Hashed(data, HashedFields)
  OBVIOUS
<1>23. PICK t : t = escapeEventIDOrFieldValue(valueToString(d, f))
  OBVIOUS
<1>24. CASE f \in AnonymizedNames(OwnEvent)
  <2>1. t.hashed > 0
    BY <1>22, <1>23, <1>24, HashedValue
  <2>2. \E i \in DOMAIN g.anonymized : f \in g.anonymized[i].fields
    <3>1. PICK events : events = OwnGroup.events
      OBVIOUS
    <3>2. PICK i : i = DeclaredEvent(definition)
      OBVIOUS
    <3>3. i \in DOMAIN events /\ OwnEvent = events[i]
      BY <3>1, <3>2, EventIs DEF OwnEvent
    <3>4. g.anonymized = [j \in DOMAIN events |-> [event |-> events[j].id, fields |-> AnonymizedNames(events[j])]]
      BY <1>1, <3>1 DEF GroupScheme
    <3>5. i \in DOMAIN g.anonymized /\ g.anonymized[i].fields = AnonymizedNames(OwnEvent)
      BY <3>3, <3>4
    <3>6. QED
      BY <1>24, <3>5
  <2>3. PICK m \in DOMAIN all : all[m] = [pattern |-> "hash"]
    BY <1>14, <2>2
  <2>4. Accepts([pattern |-> "hash"], t)
    BY <2>1 DEF Accepts, Is, Matches
  <2>5. acceptRules(all, t) = "accepted"
    BY <1>14, <1>21, <2>3, <2>4, Settled
  <2>6. QED
    BY <1>16, <1>17, <1>19, <1>22, <1>23, <2>5 DEF validateField
<1>25. CASE f \notin AnonymizedNames(OwnEvent)
  <2>1. t = escapeEventIDOrFieldValue(valueToString(data, f)) /\ ~(t.hashed > 0)
    BY <1>22, <1>23, <1>25, UnhashedValue
  <2>2. PICK theirs : theirs = Resolved(own.rules, definition)
    OBVIOUS
  <2>3. acceptRules(theirs, t) = "accepted"
    BY <1>20, <2>1, <2>2 DEF Satisfied
  <2>4. PICK k \in DOMAIN theirs : theirs[k] # Incorrect /\ Accepts(theirs[k], t)
    BY <2>3, AcceptedByRule
  <2>5. PICK r : r = own.rules[k]
    OBVIOUS
  <2>6. k \in DOMAIN own.rules /\ theirs[k] = parseRuleExpr(r, MetadataTables(definition))
    BY <2>2, <2>5 DEF Resolved
  <2>7. PICK m \in DOMAIN exprs : exprs[m] = r
    BY <1>10, <2>5, <2>6
  <2>8. m \in DOMAIN all /\ all[m] = parseRuleExpr(r, tables) /\ all[m] # Incorrect
    BY <1>14, <1>21, <2>7
  <2>9. Accepts(all[m], t)
    BY <1>3, <2>1, <2>4, <2>6, <2>8, OwnRuleMeans
  <2>10. acceptRules(all, t) = "accepted"
    BY <1>14, <1>21, <2>8, <2>9, Settled
  <2>11. QED
    BY <1>16, <1>17, <1>19, <1>22, <1>23, <2>10 DEF validateField
<1>26. QED
  BY <1>24, <1>25

\* So the event's data pass as they are.
LEMMA DeclaredSent ==
  ASSUME ByDefinition, Kept
  PROVE  LET h == Hashed(data, HashedFields)
         IN  wire.id = asked.id /\ \E kept \in Survivors(DOMAIN h) : wire.data = Escaped(h, kept)
<1>1. PICK h : h = Hashed(data, HashedFields)
  OBVIOUS
<1>2. IInv /\ data \in EventData
  BY DEF ByDefinition, IInv
<1>3. Sound(h) /\ Fields(h) = Fields(data)
  BY <1>1, <1>2, HashedIs
<1>4. h = [p \in DOMAIN h |-> h[p]]
  BY <1>1 DEF Hashed
<1>5. PICK x \in validateEventData(h, Compiled, asked.group) :
        \E kept \in Survivors(DOMAIN x) :
          wire = [group |-> escape(asked.group), version |-> asked.version, build |-> Build,
                  id |-> escapeEventIDOrFieldValue(validateEventID(asked.id, Compiled, asked.group)),
                  data |-> Escaped(x, kept)]
  BY <1>1, <1>2, SentIs
<1>6. PICK rules : rules = Compiled[asked.group].eventDataRules
  OBVIOUS
<1>7. \A f \in Fields(h) : f \in DOMAIN rules /\ validateField(h, f, rules[f]) = "accepted"
  BY <1>1, <1>3, <1>6, FieldAccepted
<1>8. asked.group \in DOMAIN Compiled
  BY OwnRulesAre
<1>9. validateEventData(h, Compiled, asked.group) = {h}
  BY <1>3, <1>4, <1>6, <1>7, <1>8, SameAgain
<1>10. x = h
  BY <1>5, <1>9
<1>11. validateEventID(asked.id, Compiled, asked.group) = asked.id
  BY OwnIDAccepted
<1>12. escapeEventIDOrFieldValue(asked.id) = asked.id
  BY DEF ByDefinition, AsDeclared
<1>13. PICK kept \in Survivors(DOMAIN h) :
         wire = [group |-> escape(asked.group), version |-> asked.version, build |-> Build,
                 id |-> asked.id, data |-> Escaped(h, kept)]
  BY <1>5, <1>10, <1>11, <1>12
<1>14. wire.id = asked.id /\ wire.data = Escaped(h, kept)
  BY <1>13
<1>15. QED
  BY <1>1, <1>14

\* Each field arrives under its escaped name, with a value that it, or another
\* of that name, is registered for.
LEMMA FieldsArrive ==
  ASSUME ByDefinition, Kept
  PROVE  /\ Fields(wire.data) = {escapeFieldName(f) : f \in Fields(data)}
         /\ \A name \in Fields(wire.data) : \E f \in Fields(data) :
              escapeFieldName(f) = name /\ Satisfied(RegisteredRules(FieldOf(OwnEvent, f)), wire.data, name, definition)
<1>1. PICK h : h = Hashed(data, HashedFields)
  OBVIOUS
<1>2. PICK w : w = wire.data
  OBVIOUS
<1>3. data \in EventData /\ Fields(data) \subseteq Names(OwnEvent)
  BY DEF ByDefinition, IInv, AsDeclared, OwnEvent, OwnGroup
<1>4. Sound(h) /\ Fields(h) = Fields(data)
  BY <1>1, <1>3, HashedIs
<1>5. \A f \in Fields(data) : f \in Texts /\ f \in Names(OwnEvent)
  BY <1>3, CallerAssumption DEF Fields
<1>7. PICK kept \in Survivors(DOMAIN h) : w = Escaped(h, kept)
  BY <1>1, <1>2, DeclaredSent
<1>6. \A name \in Fields(w) : \E f \in Fields(data) : Carries(w, name, h, f)
  BY <1>4, <1>7, Carried
<1>8. Fields(w) = {escapeFieldName(f) : f \in Fields(data)}
  <2>1. \A name \in Fields(w) : \E f \in Fields(data) : escapeFieldName(f) = name
    BY <1>6 DEF Carries
  <2>2. \A f \in Fields(data) : escapeFieldName(f) \in Fields(w)
    BY <1>4, <1>7, NameStays
  <2>3. QED
    BY <2>1, <2>2
<1>9. ASSUME NEW name \in Fields(w), NEW f \in Fields(data), Carries(w, name, h, f)
      PROVE  Satisfied(RegisteredRules(FieldOf(OwnEvent, f)), w, name, definition)
  <2>1. PICK own : own = FieldOf(OwnEvent, f)
    OBVIOUS
  <2>3. PICK t : t = escapeEventIDOrFieldValue(valueToString(w, name))
    OBVIOUS
  <2>2. Sound(h) /\ Carries(w, name, h, f)
    BY <1>4, <1>9
  <2>9. escapeEventIDOrFieldValue(valueToString(w, name)) = escapeEventIDOrFieldValue(valueToString(h, f))
    BY <2>2, CarriedPrints
  <2>4. t = escapeEventIDOrFieldValue(valueToString(h, f))
    BY <2>3, <2>9
  <2>5. (f \in AnonymizedNames(OwnEvent) => own.anonymized) /\ (own.anonymized => f \in AnonymizedNames(OwnEvent))
    BY <1>5, <2>1, OwnFieldIs
  <2>6. CASE f \in AnonymizedNames(OwnEvent)
    <3>1. t.hashed > 0
      BY <1>1, <2>4, <2>6, HashedValue
    <3>2. PICK tables : tables = MetadataTables(definition)
      OBVIOUS
    <3>3. PICK only : only = [pattern |-> "hash"]
      OBVIOUS
    <3>4. HashRuleRef \in DOMAIN tables /\ tables[HashRuleRef] = only
      BY <3>2, <3>3 DEF MetadataTables, Over
    <3>5. ~Broken(only) /\ ~Is("values", only) /\ only # Incorrect /\ Accepts(only, t)
      BY <3>1, <3>3 DEF Broken, Is, Incorrect, Accepts, Matches
    <3>6. PICK e : e = [ref |-> HashRuleRef]
      OBVIOUS
    <3>7. Is("ref", e) /\ e.ref = HashRuleRef
      BY <3>6 DEF Is
    <3>8. parseRuleExpr(e, tables) = only
      BY <3>4, <3>5, <3>7 DEF parseRuleExpr
    <3>9. RegisteredRules(own) = <<e>>
      BY <2>5, <2>6, <3>6 DEF RegisteredRules
    <3>10. PICK rules : rules = Resolved(<<e>>, definition)
      OBVIOUS
    <3>11. DOMAIN rules = {1} /\ rules[1] = only
      BY <3>2, <3>8, <3>10 DEF Resolved
    <3>12. acceptRules(rules, t) = "accepted"
      <4>1. DOMAIN rules \in SUBSET Nat /\ 1 \in DOMAIN rules
        BY <3>11
      <4>2. (\A j \in DOMAIN rules : rules[j] # Incorrect) /\ Accepts(rules[1], t)
        BY <3>5, <3>11
      <4>3. QED
        BY <4>1, <4>2, Settled
    <3>13. QED
      BY <2>1, <2>3, <3>9, <3>10, <3>12 DEF Satisfied
  <2>7. CASE f \notin AnonymizedNames(OwnEvent)
    <3>1. valueToString(h, f) = valueToString(data, f)
      BY <1>1, <2>7, UnhashedValue
    <3>2. Satisfied(own.rules, data, f, definition)
      BY <2>1 DEF ByDefinition, AsDeclared, OwnEvent, OwnGroup
    <3>3. RegisteredRules(own) = own.rules
      BY <2>5, <2>7 DEF RegisteredRules
    <3>4. QED
      BY <2>1, <2>3, <2>4, <3>1, <3>2, <3>3 DEF Satisfied
  <2>8. QED
    BY <2>6, <2>7
<1>10. \A name \in Fields(w) : \E f \in Fields(data) :
         escapeFieldName(f) = name /\ Satisfied(RegisteredRules(FieldOf(OwnEvent, f)), w, name, definition)
  BY <1>6, <1>9 DEF Carries
<1>11. QED
  BY <1>2, <1>8, <1>10

LEMMA GetsThrough ==
  ASSUME IInv
  PROVE  DeclaredGetsThrough
<1>1. SUFFICES ASSUME wire # Nothing, definition # Nothing, runtime = local, ~TooMany(data),
                      asked.group \in DOMAIN definition.groups, AsDeclared(definition)
               PROVE  /\ Kept /\ wire.id = asked.id
                      /\ Fields(wire.data) = {escapeFieldName(f) : f \in Fields(data)}
                      /\ \A name \in Fields(wire.data) : \E f \in Fields(data) :
                           /\ escapeFieldName(f) = name
                           /\ Satisfied(RegisteredRules(FieldOf(OwnEvent, f)), wire.data, name, definition)
  BY DEF DeclaredGetsThrough, definition, OwnEvent, OwnGroup
<1>2. asked \in Calls
  BY <1>1 DEF IInv, Rejected, Sent
<1>3. ByDefinition
  BY <1>1, <1>2 DEF ByDefinition
<1>4. ~Rejected
  <2>1. ~Dropped(Anonymized, Validators[setup])
    BY <1>3, OwnVersionAccepted, OwnRulesAre
  <2>2. QED
    BY <1>1, <2>1 DEF Rejected
<1>5. Kept
  BY <1>1, <1>4, SentKept DEF IInv
<1>6. wire.id = asked.id
  BY <1>3, <1>5, DeclaredSent
<1>7. QED
  BY <1>3, <1>5, <1>6, FieldsArrive

\* What a product declares it can send gets through, field by field, with the
\* scheme generated from its definition (BuildValidationScheme, definition.go),
\* whatever else is declared for the group.
THEOREM DeclaredAlwaysGetsThrough == Spec => []DeclaredGetsThrough
<1>1. QED
  BY GetsThrough, Invariance, PTL
=============================================================================
