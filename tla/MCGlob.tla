------------------------------- MODULE MCGlob -------------------------------
(***************************************************************************)
(* Patterns the parser makes of up to three segments over the letters a    *)
(* (whose uppercase is A) and b.                                           *)
(***************************************************************************)
EXTENDS Glob

Posix == INSTANCE Parser WITH dialect <- "posix", Letters <- <<>>

Characters == {"a", "b", "A"}
Upper(cp) == IF cp = "a" THEN "A" ELSE cp

SegmentTexts == {<<"a">>, <<"a", "?">>, <<"*", "b">>, <<"{", "a", "*", ",", "b", "}", "b">>,
                 <<"*", "*">>}
Joined(texts) == {s \o <<"/">> \o t : s \in SegmentTexts, t \in texts}
Texts == {<<>>} \cup SegmentTexts \cup Joined(SegmentTexts) \cup Joined(Joined(SegmentTexts))
SmallPatterns == {Posix!Parsed(text).segments : text \in Texts}

BothCases == {Sensitive, Insensitive}
SmallNames == {<<"a">>, <<"A">>, <<"b">>, <<"a", "b">>}
=============================================================================
