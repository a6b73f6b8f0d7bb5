------------------------------ MODULE Matcher ------------------------------
(***************************************************************************)
(* The matcher of globazog (src/crates/globazog/src/syntax/matcher.rs,     *)
(* set.rs, anchor.rs) and the lowering of an anchored pattern to a root    *)
(* (builder.rs), as operators on parsed patterns.                          *)
(***************************************************************************)
EXTENDS Syntax, FiniteSetsExt

CONSTANT Upcase(_)  \* the uppercase table

Sensitive == "sensitive"
Insensitive == "insensitive"

-----------------------------------------------------------------------------
(* Matching *)

Fold(cp) == Upcase(cp)

CpEq(a, b, case) == IF case = Sensitive THEN a = b ELSE Fold(a) = Fold(b)

(* The matcher tries a token, or a segment, at a place of the input and the rest of the    *)
(* pattern behind what it took. Here `behind` is the set of the places the rest matches    *)
(* from, and a place is the number of the code points, or names, that lie before it.       *)

\* One token that holds no others.
SimpleThen(tok, behind, input, case) ==
    CASE tok.token = "literal" ->
             {p \in 0..(Len(input) - 1) : CpEq(tok.cp, input[p + 1], case) /\ p + 1 \in behind}
      [] tok.token = "any" -> {p \in 0..(Len(input) - 1) : p + 1 \in behind}
      [] tok.token = "star" -> {p \in 0..Len(input) : \E k \in p..Len(input) : k \in behind}

\* match_segment on the tokens of an arm: the parser nests no alternations.
MatchArm(arm, input, case) ==
    LET matching[n \in 0..Len(arm)] ==   \* the places that the tokens after the n-th match from
            IF n = Len(arm) THEN {Len(input)}
                            ELSE SimpleThen(arm[n + 1], matching[n + 1], input, case)
    IN 0 \in matching[0]

\* Mutant: an arm must take the whole input.
MatchArmWhole(arm, behind, input, case) ==
    {p \in 0..Len(input) : MatchArm(arm, From(input, p), case) /\ Len(input) \in behind}

\* An arm against a prefix of the input, the rest of the tokens against the remainder.
MatchArmThen(arm, behind, input, case) ==
    {p \in 0..Len(input) :
        \E k \in p..Len(input) : MatchArm(arm, SubSeq(input, p + 1, k), case) /\ k \in behind}

TokenThen(tok, behind, input, case) ==
    IF tok.token = "alt"
    THEN UNION {MatchArmThen(tok.arms[i], behind, input, case) : i \in DOMAIN tok.arms}
    ELSE SimpleThen(tok, behind, input, case)

MatchSegment(tokens, input, case) ==
    LET matching[n \in 0..Len(tokens)] ==
            IF n = Len(tokens) THEN {Len(input)}
                               ELSE TokenThen(tokens[n + 1], matching[n + 1], input, case)
    IN 0 \in matching[0]

NameFits(segment, name, case) ==
    segment # DoubleStar /\ MatchSegment(segment.tokens, name, case)

SegmentThen(segment, behind, path, case) ==
    IF segment = DoubleStar
    THEN {p \in 0..Len(path) : \E k \in p..Len(path) : k \in behind}
    ELSE {p \in 0..(Len(path) - 1) : NameFits(segment, path[p + 1], case) /\ p + 1 \in behind}

MatchPath(pattern, path, case) ==
    LET matching[n \in 0..Len(pattern)] ==
            IF n = Len(pattern) THEN {Len(path)}
                                ELSE SegmentThen(pattern[n + 1], matching[n + 1], path, case)
    IN 0 \in matching[0]

\* The loop of descend_viable takes a segment and a name at a time; it goes on after n of them.
TakesNames(pattern, dir, n, case) ==
    n <= Len(dir) /\ \A i \in 1..n : NameFits(pattern[i], dir[i], case)

\* Mutant: `**` is viable only where the pattern begins with it.
DescendViableByName(pattern, dir, case) ==
    \E n \in 0..(Len(pattern) - 1) :
        /\ TakesNames(pattern, dir, n, case)
        /\ (n = 0 /\ pattern[1] = DoubleStar) \/ n = Len(dir)

\* Mutant: a directory that completes the pattern is entered.
DescendViableToTheEnd(pattern, dir, case) ==
    \E n \in 0..Len(pattern) :
        /\ TakesNames(pattern, dir, n, case)
        /\ (n < Len(pattern) /\ pattern[n + 1] = DoubleStar) \/ n = Len(dir)

\* And it ends well with a segment left that is `**` or has a name below to match.
DescendViable(pattern, dir, case) ==
    \E n \in 0..(Len(pattern) - 1) :
        /\ TakesNames(pattern, dir, n, case)
        /\ pattern[n + 1] = DoubleStar \/ n = Len(dir)

-----------------------------------------------------------------------------
(* Anchors: a leading separator roots the pattern at the file system's root; the literal   *)
(* segments before the last are peeled into the root that is opened.                       *)

\* Mutant: the last segment is peeled too.
PeelCountToTheEnd(pattern) ==
    Max({n \in 0..Len(pattern) : \A i \in 1..n : IsLiteral(pattern[i])})

\* How many leading segments lower_self_rooting peels: literals, and never the last one.
PeelCount(pattern) ==
    Max({n \in 0..Len(pattern) : /\ n > 0 => n < Len(pattern)
                                 /\ \A i \in 1..n : IsLiteral(pattern[i])})

PeeledRoot(pattern) == [i \in 1..PeelCount(pattern) |-> LiteralOf(pattern[i])]
PeeledRest(pattern) == From(pattern, PeelCount(pattern))
=============================================================================
