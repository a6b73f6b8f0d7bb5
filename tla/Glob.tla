-------------------------------- MODULE Glob --------------------------------
(***************************************************************************)
(* The walk that the matcher steers: from the root, one name at a time,    *)
(* into the directories the viability test admits, and what a pattern      *)
(* means, told without the matcher.                                        *)
(***************************************************************************)
EXTENDS Matcher

CONSTANTS
    CodePoints, \* the code points of patterns and names
    Patterns,   \* the patterns walked with
    Cases,      \* the case rules walked with
    FileNames,  \* the names in every directory, as sequences of code points
    MaxDepth    \* bound on the depth of a path

\* As the parser leaves them: a run of `**` is one (D-24).
ASSUME PatternsAssumption ==
    \A pattern \in Patterns :
        /\ pattern \in Seq(PatternSegments(CodePoints))
        /\ \A i \in 1..(Len(pattern) - 1) :
               ~(pattern[i] = DoubleStar /\ pattern[i + 1] = DoubleStar)
ASSUME NamesAssumption == FileNames \subseteq Seq(CodePoints)
ASSUME BoundAssumption == MaxDepth \in Nat

-----------------------------------------------------------------------------
(* The walk: every directory of the path was admitted by should_descend. *)

VARIABLES glob, case, path

vars == <<glob, case, path>>

Init == glob \in Patterns /\ case \in Cases /\ path = <<>>

\* The engine takes a directory's entry and descends when the pattern may match below it.
Descend ==
    \E name \in {n \in FileNames : DescendViable(glob, Append(path, n), case)} :
        /\ Len(path) < MaxDepth
        /\ path' = Append(path, name)
        /\ UNCHANGED <<glob, case>>

Next == Descend

Spec == Init /\ [][Next]_vars

-----------------------------------------------------------------------------
(* What a pattern means: a way to cut the text into one piece per part of the pattern. *)

Cuts(text, parts, Fits(_, _)) ==
    \E cut \in [0..Len(parts) -> 0..Len(text)] :
        /\ cut[0] = 0 /\ cut[Len(parts)] = Len(text)
        /\ \A i \in 1..Len(parts) :
             /\ cut[i - 1] <= cut[i]
             /\ Fits(parts[i], SubSeq(text, cut[i - 1] + 1, cut[i]))

\* The text one token stands for; an arm of an alternation holds simple tokens only.
SimpleFits(tok, text) ==
    \/ tok.token = "literal" /\ Len(text) = 1 /\ CpEq(tok.cp, text[1], case)
    \/ tok.token = "any" /\ Len(text) = 1
    \/ tok.token = "star"
TokenFits(tok, text) ==
    IF tok.token = "alt" THEN \E i \in DOMAIN tok.arms : Cuts(text, tok.arms[i], SimpleFits)
                         ELSE SimpleFits(tok, text)

\* The names one segment stands for.
SegmentFits(segment, names) ==
    segment = DoubleStar \/ (Len(names) = 1 /\ Cuts(names[1], segment.tokens, TokenFits))

Means(names) == Cuts(names, glob, SegmentFits)

\* The paths of one to three more names below a directory.
Entries == {Append(path, name) : name \in FileNames}
Below(p) == {Append(p, n) : n \in FileNames}
Deeper(p) == Below(p) \cup UNION {Below(q) : q \in Below(p)}

\* The backtracking matcher accepts exactly the paths that can be cut to fit the pattern
\* (D-24, D-44).
MatcherIsTheMeaning == \A p \in Entries : MatchPath(glob, p, case) <=> Means(p)

\* Pruning never drops a match: below a directory the walk reached, a directory that leads
\* to a match is entered (D-19, D-34 "sound mid-pattern viability").
NoMatchIsPruned ==
    \A p \in Entries : (\E q \in Deeper(p) : MatchPath(glob, q, case)) =>
                           DescendViable(glob, p, case)

\* And the walk enters nothing in vain: some name below could still complete a match.
ViableIsTight == path # <<>> => \E q \in Deeper(path) : MatchPath(glob, q, case)

\* Whether the lowered query reports p: its root is opened by exact name on a
\* case-sensitive file system, and the rest of the pattern is matched below it.
LoweredMatches(p) ==
    LET n == PeelCount(glob) IN
    /\ Len(p) > n
    /\ UpTo(p, n) = PeeledRoot(glob)
    /\ MatchPath(PeeledRest(glob), From(p, n), case)

\* The opened root is no entry of any directory read: `/a/**` does not report `/a`.
IsOpenedRoot(p) == p = PeeledRoot(glob) /\ PeeledRest(glob) = <<DoubleStar>>

\* Under case-sensitive matching peeling literals into the root changes no result but that of
\* the root itself (D-37).
PeelKeepsMatches ==
    case = Sensitive =>
        \A p \in Entries : LoweredMatches(p) <=> MatchPath(glob, p, case) /\ ~IsOpenedRoot(p)

\* "Pattern is gospel": under an overridden case rule, too, pushing literals down to the file
\* system may only accelerate, and drops no true match below the root (D-19, D-23).
PatternIsGospel ==
    case = Insensitive =>
        \A p \in Entries : Len(p) > PeelCount(glob) =>
                               (MatchPath(glob, p, case) => LoweredMatches(p))
=============================================================================
