----------------------------- MODULE MCVersions -----------------------------
(* Versions of up to three parts, some with a part that is not a number or   *)
(* white space at an end, and published lists of up to two entries, some     *)
(* overlapping, some with a gap, or of three that cover all versions.        *)
EXTENDS Versions

CONSTANTS bad, pad1, pad2
PaddedParts == [p \in {pad1, pad2} |-> IF p = pad1 THEN 1 ELSE 2]

Strings == {<<>>, <<bad>>, <<bad, 2>>, <<0, 1>>, <<1>>, <<1, 0>>, <<1, 0, 1>>, <<1, 1>>, <<1, bad, 1>>,
            <<1, 2, 1>>, <<2>>, <<2, 0>>, <<2, 1>>, <<3, 0, 0>>,
            <<pad1>>, <<pad1, 2>>, <<1, pad2>>, <<2, pad1>>}
Entry(froms, tos) == [from : froms, to : tos] \cup {NoBorders}
Singles == Entry({<<>>, <<bad>>, <<1>>, <<1, 0, 1>>}, {<<>>, <<bad>>, <<1, 1>>, <<2, 0>>})
Several == Entry({<<>>, <<pad1>>}, {<<>>, <<1, 0>>, <<2>>})
Lists == {<<>>} \cup {<<e>> : e \in Singles} \cup {<<e, f>> : e, f \in Several} \cup
         {<<[from |-> <<>>, to |-> <<1, 0>>], [from |-> <<pad1>>, to |-> <<2>>], [from |-> <<2, 0>>, to |-> <<>>]>>}
=============================================================================
