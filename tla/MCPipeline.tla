----------------------------- MODULE MCPipeline -----------------------------
(* Pipeline with two definitions, a scheme written by hand and one from the  *)
(* remote, and with event data of up to three fields.                        *)
EXTENDS Pipeline, TLC

Words == STRING
NoPadding == <<>> \* no number in a version or a build has white space around it
Numbers0to9 == ("3" :> 3) @@ ("7" :> 7)
cli == Plain("cli")
click == Plain("click")
open == Plain("open")
user == Plain("user")
mode == Plain("mode")
size == Plain("size")
userQuoted == Text("user", "quote")
webSite == Text("web", ":")
otherSpace == Text("other", "space")
OnOff == {Plain("on"), Plain("off")}
Refer(kind, name) == [ref |-> <<kind, name>>]
Field(name, rules, anonymized) ==
  [path |-> <<name>>, rules |-> rules, anonymized |-> anonymized, array |-> FALSE]

\* The same field has other rules in another event, and is hashed in one; a
\* value and an event ID have white space around them.
Definition(userInClick, modeInOpen, inClick, inOpen) ==
  [tables |-> <<"ranges", "size">> :> [from |-> 1, to |-> 5],
   groups |-> cli :> [version |-> 2, events |-> <<
     [id |-> click, fields |-> <<Field(user, <<[pattern |-> userInClick]>>, TRUE),
                                 Field(mode, <<[values |-> OnOff]>>, FALSE)>> \o inClick],
     [id |-> open, fields |-> <<Field(user, <<[values |-> {Plain("anyone"), Plain("bob")}]>>, FALSE),
                                Field(size, <<Refer("ranges", "size")>>, FALSE),
                                Field(mode, modeInOpen, FALSE)>> \o inOpen],
     [id |-> otherSpace, fields |-> <<>>]>>]]
AutoOnOff == <<[values |-> {Text("auto", "space")}], [values |-> OnOff]>>
Declared == Definition("letters", AutoOnOff, <<>>, <<>>)
Unresolved == Definition("anything", <<Refer("enums", "missing")>>, <<>>, <<>>)
\* Names that escaping changes, one of them to that of another field.
Changed == Definition("letters", AutoOnOff, <<Field(webSite, <<[values |-> OnOff]>>, FALSE)>>,
                      <<Field(userQuoted, <<[pattern |-> "anything"]>>, FALSE)>>)

\* By hand: names that escaping changes, local tables over global ones, two
\* entries for one event.
ByHand ==
  [tables |-> (<<"enums", "mode">> :> [values |-> OnOff]) @@ (<<"regexps", "user">> :> [pattern |-> "letters"]),
   groups |-> cli :> [builds |-> {[from |-> <<1>>, to |-> <<2>>]}, versions |-> {},
     tables |-> (<<"enums", "mode">> :> [values |-> {Plain("off")}]) @@ (<<"regexps", "user">> :> [pattern |-> "broken"]),
     eventIDs |-> <<[values |-> {click, open}]>>,
     eventData |-> (user :> <<Refer("regexps", "user")>>) @@ (mode :> <<Refer("enums", "mode")>>) @@
                   (Dotted("user.name") :> <<[pattern |-> "letters"]>>) @@
                   (Text("user.name", "_") :> <<[pattern |-> "anything"]>>),
     anonymized |-> <<[event |-> click, fields |-> {user}], [event |-> click, fields |-> {mode}],
                      [event |-> open, fields |-> {user, Dotted("user.name")}]>>]]

Remote(builds) ==
  [tables |-> HashRuleRef :> [pattern |-> "hash"],
   groups |-> cli :> [builds |-> builds, versions |-> {[from |-> <<1>>, to |-> <<3>>], [from |-> <<5>>, to |-> <<>>]},
     tables |-> <<>>,
     eventIDs |-> <<[values |-> {click}], [pattern |-> "letters"]>>,
     eventData |-> (user :> <<Refer("regexps", "hash"), [pattern |-> "anything"]>>) @@ (mode :> <<[values |-> OnOff]>>) @@
                   (size :> <<[from |-> 1, to |-> 5], Refer("enums", "size")>>) @@
                   (undefined_rule :> <<[values |-> OnOff]>>),
     anonymized |-> <<>>]]

Of(d, s, r) == [definition |-> d, local |-> s, runtime |-> r]
Fallback(d) == BuildValidationScheme(d)
Setups == <<Of(Declared, Fallback(Declared), Fallback(Declared)),
            Of(Unresolved, Fallback(Unresolved), Fallback(Unresolved)),
            Of(Changed, Fallback(Changed), Fallback(Changed)),
            Of(Declared, Fallback(Declared), Remote({[from |-> <<>>, to |-> <<2>>]})),
            Of(Declared, Fallback(Declared), Remote({[from |-> <<2>>, to |-> <<>>]})),
            Of(Nothing, ByHand, ByHand), Of(Nothing, ByHand, Remote({})), Of(Nothing, Nothing, Remote({}))>>
FallbackOnly == <<Of(Declared, Fallback(Declared), Fallback(Declared))>>
Version == <<1, 1>>

\* What a field has: what is at the end of every path in it.
At(leaf) == <<>> :> leaf
Scalars == {At([scalar |-> Plain("3")]), At([scalar |-> Plain("7")]), At(Nil), At(Empty)}
Strings == {At(Str(t)) : t \in OnOff \cup {Plain(""), Plain("bob"), Text("bob", "wide"), Text("on", "quote"),
                                           Text("off", "newline"), undefined_rule, Plain("registered"),
                                           Plain("anyone"), Plain("auto")}}
name(mark) == <<Text("name", mark)>>
item(number) == <<Position(number)>>
Items == (item("0") :> Str(Text("bob", "quote"))) @@ (item("1") :> Nil) @@ (item("2") :> [scalar |-> Plain("7")])
Containers == {name("plain") :> Str(Plain("bob")), Items,
               (name("_") :> Str(Plain("bob"))) @@ (name("space") :> [scalar |-> Plain("3")]),
               (name("plain") \o item("0") :> Str(Plain("on"))) @@ (name("quote") :> Nil)}
Few == {At(Str(Plain("bob"))), At(Str(Plain("off"))), At([scalar |-> Plain("3")]), Items}
FieldNames == {user, mode, size, userQuoted, Text("user.name", "_"), Dotted("user.name"), webSite, undefined_rule}

Whole(m) == [p \in UNION {{<<f>> \o q : q \in DOMAIN m[f]} : f \in DOMAIN m} |-> m[p[1]][Tail(p)]]
Maps == {<<>>} \cup {f :> v : f \in FieldNames, v \in Scalars \cup Strings \cup Containers} \cup
        (UNION {[pair -> Few] : pair \in {p \in SUBSET FieldNames : Cardinality(p) = 2}}) \cup
        {[f \in triple |-> At(Str(Plain("on")))] : triple \in {t \in SUBSET FieldNames : Cardinality(t) = 3}}
Data == {Whole(m) : m \in Maps}

Call(group, version, id) == [group |-> group, version |-> version, id |-> id]
Tracked == {Call(cli, 2, click), Call(cli, 2, open), Call(cli, 4, click), Call(cli, 2, Text("click", "quote")),
            Call(cli, 2, Plain("invoked")), Call(cli, 2, otherSpace),
            Call(Text("cli", "quote"), 2, click), Call(Plain("web"), 2, click)}
=============================================================================
