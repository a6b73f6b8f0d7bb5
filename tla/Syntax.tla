------------------------------- MODULE Syntax -------------------------------
(***************************************************************************)
(* The parsed form of a pattern (src/crates/globazog/src/syntax.rs): a     *)
(* sequence of segments, each DoubleStar or One(tokens).  What the parser  *)
(* makes and the matcher takes.                                            *)
(***************************************************************************)
EXTENDS Naturals, Sequences

Literal(cp) == [token |-> "literal", cp |-> cp]
AnyChar == [token |-> "any"]
Star == [token |-> "star"]
Alt(arms) == [token |-> "alt", arms |-> arms]

DoubleStar == [segment |-> "doublestar"]
One(tokens) == [segment |-> "match", tokens |-> tokens]

\* What the parser makes, over a set of code points: an arm of an alternation holds none.
SimpleTokens(cps) == {Literal(cp) : cp \in cps} \cup {AnyChar, Star}
Tokens(cps) == SimpleTokens(cps) \cup [token : {"alt"}, arms : Seq(Seq(SimpleTokens(cps)))]
PatternSegments(cps) == {DoubleStar} \cup [segment : {"match"}, tokens : Seq(Tokens(cps))]

\* A segment that is a name, and that name.
IsLiteral(segment) ==
    /\ segment # DoubleStar
    /\ \A i \in DOMAIN segment.tokens : segment.tokens[i].token = "literal"
LiteralOf(segment) == [i \in DOMAIN segment.tokens |-> segment.tokens[i].cp]

From(seq, k) == SubSeq(seq, k + 1, Len(seq))
UpTo(seq, k) == SubSeq(seq, 1, k)
=============================================================================
