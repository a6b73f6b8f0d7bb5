---------------------------- MODULE BuilderChecks ----------------------------
(***************************************************************************)
(* What build() must get right, whatever the order of the calls.           *)
(***************************************************************************)
EXTENDS Builder

\* Type correctness of the builder's state, and every root a pattern names exists: the engine
\* indexes its roots with these numbers and would panic otherwise.
TypeOK ==
    /\ supplied \in Seq(Paths) /\ base \in Seq(Bases)
    /\ \A i \in DOMAIN pending : Written(i).parses \in BOOLEAN
    /\ options \in OptionSets \cup {DefaultOptions}
    /\ phase \in {"calls", "roots", "patterns", "built", "failed"}
    /\ Len(keys) = Len(roots)
    /\ explicit \in Nat
    /\ \A i \in DOMAIN lowered : lowered[i].roots \subseteq DOMAIN roots
    /\ phase = "failed" <=> error # "none"

\* No directory is opened as two roots, however the caller or a pattern spells it (D-35).
RootsAreDistinct == \A i, j \in DOMAIN roots : Fold(roots[i]) = Fold(roots[j]) => i = j

\* A pattern applies at a directory through one root only: roots are distinct, and those it is
\* bound to never nest, in whatever order they were supplied (D-73).
OneRootPerDirectory ==
    /\ RootsAreDistinct
    /\ phase = "built" =>
           \A n \in DOMAIN lowered : \A r, s \in lowered[n].roots :
               (SubSeq(keys[s], 1, Min({Len(keys[r]), Len(keys[s])})) = keys[r]) => r = s

\* A relative pattern applies at the supplied roots, all of them and no other (D-38), whatever
\* roots other patterns add before or after it.
RelativeBindsToSupplied ==
    phase = "built" =>
        \A n \in DOMAIN lowered : Written(n).anchor = "relative" =>
            {keys[r] : r \in lowered[n].roots} = {Fold(supplied[i]) : i \in DOMAIN supplied}

\* No literal begins with a drive: pushed onto a path on Windows, one that does replaces it.
NamesNoDrive(p) ==
    \A i \in DOMAIN p.segments : IsLiteral(p.segments[i]) =>
        LET spelled == Components(LiteralOf(p.segments[i]))
        IN spelled # <<>> => spelled[1].kind # "prefix"

\* Patterns bind as they were written: a relative one to the supplied roots; an anchored one to
\* one root, its anchor or a directory below, whether another pattern or the caller named it
\* before or after. Its case rule is its own, or the query's whenever that was set, or its
\* dialect's (D-23).
BindsAsWritten ==
    /\ RelativeBindsToSupplied
    /\ phase = "built" =>
        \A n \in DOMAIN lowered :
            LET p == Written(n)
                usual == IF p.dialect = "win" THEN "insensitive" ELSE "sensitive"
                rules == <<p.case, options.case, usual>>
                anchor == Fold(AnchorRoot(p))
            IN /\ lowered[n].case = rules[Min({i \in 1..3 : rules[i] # Unset})]
               /\ p.anchor # "relative" =>
                      \E r \in lowered[n].roots :
                          /\ lowered[n].roots = {r}
                          /\ NamesNoDrive(p) => keys[r] = anchor \/ IsAncestor(anchor, keys[r])

\* A literal that is one name.
IsPlain(p) ==
    \A i \in DOMAIN p.segments : IsLiteral(p.segments[i]) =>
        LET name == LiteralOf(p.segments[i]) IN Components(name) = <<Name(name)>>

\* The segments as components: a literal is a name, any other stands for one.
AsName(segment) == Name(IF IsLiteral(segment) THEN LiteralOf(segment) ELSE <<"*">>)
Spelled(segments) == [i \in DOMAIN segments |-> AsName(segments[i])]

\* The opened root and the rest of pattern n, read as one path, are the anchor and the segments
\* that were written, and the last segment is left to match (D-37).
RootAndRestSpell(n) ==
    LET p == Written(n)
        written == SubSeq(p.segments, RestStart(p) + 1, Len(p.segments))
    IN \A r \in lowered[n].roots :
           /\ keys[r] \o Fold(Spelled(lowered[n].segments))
                  = Fold(AnchorRoot(p)) \o Fold(Spelled(written))
           /\ written # <<>> => lowered[n].segments # <<>>

\* Peeling moves literals into the root and neither drops nor adds a segment, as long as each
\* literal is one file name.
PeelingSpellsThePattern ==
    phase = "built" =>
        \A n \in DOMAIN lowered :
            Written(n).anchor # "relative" /\ IsPlain(Written(n)) => RootAndRestSpell(n)

\* What a query must be for build() to accept it, told without the order of the calls.
Acceptable ==
    LET given == {supplied[i] : i \in DOMAIN supplied}
        wanted == {Written(i) : i \in DOMAIN pending}
    IN /\ options.ring > 0 /\ wanted # {}
       /\ \A path \in given : CanonError(path) = "none"
       /\ \A a, b \in given : ~IsAncestor(Fold(a), Fold(b))
       /\ \A p \in wanted : PatternError(p) = "none"
       /\ (\E p \in wanted : p.anchor = "relative") => given # {}

\* build() accepts exactly the acceptable queries, and stops at the first fault otherwise.
AcceptsExactly ==
    /\ phase = "built" => Acceptable
    /\ phase = "failed" => ~Acceptable
=============================================================================
