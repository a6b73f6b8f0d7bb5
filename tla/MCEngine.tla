------------------------------ MODULE MCEngine ------------------------------
(***************************************************************************)
(* Small file systems and queries for the walking engine, with the parser  *)
(* and the matcher it runs on: a name is one letter, a pattern stands for  *)
(* its text.                                                               *)
(***************************************************************************)
EXTENDS EngineChecks, TLC

CONSTANTS
    w1, w2,                     \* workers
    home, top, sub, side, out,      \* directories
    s, t, u, x, y,                  \* names: x of files, the others of directories and links
    deep, shallow,                  \* patterns: **/x and */x
    i, k, none                      \* two identities, and no identity

-----------------------------------------------------------------------------
(* The matcher on the patterns as parsed *)

Grammar == INSTANCE Parser WITH dialect <- "posix", Letters <- <<>>
Globs == INSTANCE Matcher WITH Upcase <- LAMBDA c : c

AllNames == {s, t, u, x, y}
Text == (deep :> <<"*", "*", "/", x>>) @@ (shallow :> <<"*", "/", x>>)
Segments == [p \in {deep, shallow} |-> Grammar!Parsed(Text[p]).segments]

\* What the matcher says of every path a walk can meet.
Paths == UNION {[1..n -> AllNames] : n \in 1..(MaxDepth + 1)}
Spelled(path) == [n \in DOMAIN path |-> <<path[n]>>]
PathsMatched == [p \in DOMAIN Text |->
    {path \in Paths : Globs!MatchPath(Segments[p], Spelled(path), "sensitive")}]
PathsEntered == [p \in DOMAIN Text |->
    {path \in Paths : Globs!DescendViable(Segments[p], Spelled(path), "sensitive")}]

GlobHit(p, path, e) == path \in PathsMatched[p]
GlobViable(p, path) == path \in PathsEntered[p]

AdmitAll(e) == TRUE

-----------------------------------------------------------------------------
(* Directory trees *)

File(n) == [name |-> n, kind |-> "file", target |-> top, id |-> none]
Dir(n, d) == [name |-> n, kind |-> "dir", target |-> d, id |-> none]
Link(n, d, id) == [name |-> n, kind |-> "link", target |-> d, id |-> id]

AllDirs == {home, top, sub, side, out}
Nothing == {}
OneRoot == <<top>>
TwoRoots == <<top, sub>>
AtFirst == [p \in Patterns |-> {1}]
AtBoth == [p \in Patterns |-> {1, 2}]
\* `deep` is relative and applies to the supplied root, `shallow` to a derived root.
OneEach == (deep :> {1}) @@ (shallow :> {2})

Tree(entriesOf) == entriesOf @@ [d \in AllDirs |-> {}]

\* A root with two subdirectories, so that two scans race for its count, one with a file. The
\* root, possibly of two, and that one may refuse to open, and the file's metadata be unreadable.
Fork == Tree((top :> {Dir(s, sub), Dir(t, out)}) @@ (sub :> {File(x)}))
TopAndSide == <<top, side>>
BadDirs == {top, sub}
BadEntries == {File(x)}

\* Three levels, the match at the bottom.
Tower == Tree((top :> {Dir(s, sub)}) @@ (sub :> {Dir(t, side)}) @@ (side :> {File(x)}))

\* A root and its sibling in one home. The root has a dangling link and one to the home, its
\* subdirectory a link to itself, which makes an endless tree of paths, and one to the sibling,
\* which is met on two of them with the same identity.
Tangle == Tree((home :> {Dir(s, top), Dir(y, out)})
                 @@ (top :> {Dir(s, sub), Link(y, side, none), Link(u, home, none)})
                 @@ (sub :> {Link(t, sub, i), Link(y, out, k), File(x)})
                 @@ (out :> {File(x)}))
HomePaths == (home :> <<s>>) @@ (top :> <<s, s>>) @@ (sub :> <<s, s, s>>) @@ (out :> <<s, y>>)

\* The first root reaches the second by name; below both lies one link to a match.
Nested == Tree((top :> {Dir(y, sub)}) @@ (sub :> {Link(s, side, i)}) @@ (side :> {File(x)}))

NoPaths == <<>>
WorkerSymmetry == Permutations(Workers)

=============================================================================
