------------------------------ MODULE Escaper ------------------------------
(***************************************************************************)
(* Strings, as escaper.go and Anonymize (device.go) tell them apart: a     *)
(* text is a word, the kind of the symbols in it that escaping looks at    *)
(* ("plain" when there are none; a text has symbols of one kind), and how  *)
(* often it has been hashed.  A hash is hex digits and "#C": it remembers  *)
(* what it is the hash of, and no symbol of it is ever escaped.            *)
(***************************************************************************)
EXTENDS Naturals

CONSTANT Word \* the words of texts
ASSUME WordAssumption ==
  {"", "map", "validation.unmatched_rule", "validation.incorrect_rule", "validation.undefined_rule",
   "third.party", "accepted", "registered", "invoked"} \subseteq Word

\* "space" and "newline" (CR, LF and TAB) are white space at an end of the text,
\* "gap" is a space inside; runes over 127 are "wide", other control characters
\* "control", the two quotation marks "quote"; a text with the mark "position" is
\* not one, but the number of an element of a slice.
Mark == {"plain", "wide", "newline", "control", "quote", "space", "gap",
         ".", ":", ";", ",", "_", "?", "|", "position"}

Texts == [word : Word, mark : Mark, hashed : Nat]
Text(word, mark) == [word |-> word, mark |-> mark, hashed |-> 0]
Plain(word) == Text(word, "plain")
Dotted(word) == Text(word, ".")

\* What the validator writes in place of what it rejects, and, for all the
\* others of the JVM's list, the two that it only lets through.
unmatched_rule == Dotted("validation.unmatched_rule")
incorrect_rule == Dotted("validation.incorrect_rule")
undefined_rule == Dotted("validation.undefined_rule")
validationResultTypes ==
  {unmatched_rule, incorrect_rule, undefined_rule, Dotted("third.party"), Plain("accepted")}

-----------------------------------------------------------------------------
\* What becomes of the symbols; allowSpaces decides what white space becomes.
escapedMark(mark, toReplace, whiteSpace) ==
  CASE mark = "wide"                       -> "?"
    [] mark = "newline"                    -> whiteSpace
    [] mark \in toReplace \cup {"control"} -> "_"
    [] mark = "quote"                      -> "plain"
    [] OTHER                               -> mark
escapeInternal(t, toReplace, whiteSpace) ==
  IF t.hashed > 0 THEN t ELSE [t EXCEPT !.mark = escapedMark(@, toReplace, whiteSpace)]

\* Group, build, product and recorder; event IDs and values; field names.
escape(t) == escapeInternal(t, {":", ";", ",", "space", "gap"}, "_")
escapeEventIDOrFieldValue(t) == escapeInternal(t, {}, "space")

\* Mutant: the sentinels are escaped like any other name.
escapeEveryName(t) == escapeInternal(t, {".", ":", ";", ",", "space", "gap"}, "_")
escapeFieldName(t) ==
  IF t \in validationResultTypes THEN t
  ELSE escapeInternal(t, {".", ":", ";", ",", "space", "gap"}, "_")

\* strings.TrimSpace; a text of which it leaves nothing is not hashed.
Trim(t) == IF t.hashed = 0 /\ t.mark \in {"newline", "space"} THEN [t EXCEPT !.mark = "plain"] ELSE t
Blank(t) == Trim(t) = Plain("")
Anonymize(t) == IF Blank(t) THEN t ELSE [t EXCEPT !.hashed = @ + 1]
=============================================================================
