------------------------------- MODULE Builder -------------------------------
(***************************************************************************)
(* QueryBuilder (src/crates/globazog/src/builder.rs): the calls that       *)
(* collect roots, a base and patterns, and build(), which lowers them to   *)
(* the roots the engine opens and, per pattern, the roots it applies at.   *)
(*                                                                         *)
(* A path is the sequence of its components, as std's Path::components     *)
(* yields them. A pattern is what the parser made of it, [dialect, case,   *)
(* parses, anchor, drive, segments]; its case is Unset unless it was added *)
(* by pattern_cased().                                                     *)
(***************************************************************************)
EXTENDS Syntax, SequencesExt

CONSTANTS
    Upcase(_),   \* the uppercase of a character (Windows keys are upcased, D-28)
    Drives,      \* the characters that may name a drive
    Host,        \* the platform the crate is compiled for: cfg!(windows)
    Paths,       \* the paths a caller supplies as roots
    Bases,       \* the paths a caller supplies as the base
    OptionSets,  \* the options a caller sets, [ring, case], with the capacity of the ring
    Patterns,    \* the patterns a caller adds
    MaxRoots,    \* bound on the calls of root()
    MaxPatterns  \* bound on the calls of pattern() and pattern_cased()

ASSUME HostAssumption == Host \in {"posix", "windows"}

\* s is a sequence, of whatever its entries are.
IsSequence(s) == s \in Seq({s[i] : i \in DOMAIN s})

ASSUME CallsAssumption ==
    /\ \A path \in Paths \cup Bases : IsSequence(path)
    /\ \A p \in Patterns :
        /\ p.parses \in BOOLEAN /\ p.dialect \in {"posix", "win"}
        /\ p.anchor \in {"relative", "root", "drive", "unc"}
        /\ p.anchor \in {"drive", "unc"} => p.dialect = "win"
        /\ IsSequence(p.segments)
        /\ \A i \in DOMAIN p.segments :
               IsLiteral(p.segments[i]) => IsSequence(LiteralOf(p.segments[i]))
    /\ \A o \in OptionSets : o.ring \in Nat
ASSUME BoundsAssumption == MaxRoots \in Nat /\ MaxPatterns \in Nat

VARIABLES
    supplied,  \* QueryBuilder.roots
    base,      \* QueryBuilder.base, a sequence of at most one path
    pending,   \* QueryBuilder.patterns
    options,   \* QueryBuilder.options: [ring, case]
    phase,     \* where build() is
    roots,     \* the lowered roots
    keys,      \* their canonical keys
    explicit,  \* how many of them were supplied
    lowered,   \* the patterns lowered so far
    error      \* why build() failed, or "none"

\* The n-th pattern.
Written(n) == pending[n]

calls == <<supplied, base, pending, options>>
vars == <<calls, phase, roots, keys, explicit, lowered, error>>

-----------------------------------------------------------------------------
(* Paths *)

\* A text is a sequence of characters. A drive prefix has one text, a UNC prefix the server's and
\* the share's.
Name(n) == [kind |-> "name", text |-> <<n>>]
Prefix(texts) == [kind |-> "prefix", text |-> texts]
RootDir == [kind |-> "root", text |-> <<>>]
ParentDir == [kind |-> "parent", text |-> <<>>]

\* Path::is_absolute: Windows wants a drive or share, and the separator after it.
IsAbsolute(path) ==
    \/ Host = "posix" /\ path # <<>> /\ path[1] = RootDir
    \/ Host = "windows" /\ Len(path) >= 2 /\ path[1].kind = "prefix" /\ path[2] = RootDir

IsHostSep(c) == c = "/" \/ (Host = "windows" /\ c = "\\")

\* The part of a text from its i-th character on: a separator, or a name up to the next one.
PartEnd(text, i) ==
    IF IsHostSep(text[i]) THEN i
    ELSE Max({k \in i..Len(text) : \A j \in i..k : ~IsHostSep(text[j])})

\* Separators and `.` make no component.
Component(part) ==
    IF IsHostSep(part[1]) \/ part = <<".">> THEN <<>>
    ELSE IF part = <<".", ".">> THEN <<ParentDir>> ELSE <<Name(part)>>

\* Path::components: a drive prefix, a root, the names. (A text that begins with two separators,
\* a share on Windows, is left out.)
Components(text) ==
    LET hasDrive == Host = "windows" /\ Len(text) >= 2 /\ text[1] \in Drives /\ text[2] = ":"
        rest == IF hasDrive THEN From(text, 2) ELSE text
        named[i \in 1..(Len(rest) + 1)] ==   \* from the i-th character on
            IF i > Len(rest) THEN <<>>
            ELSE Component(SubSeq(rest, i, PartEnd(rest, i))) \o named[PartEnd(rest, i) + 1]
    IN (IF hasDrive THEN <<Prefix(<<UpTo(text, 2)>>)>> ELSE <<>>)
       \o (IF rest # <<>> /\ IsHostSep(rest[1]) THEN <<RootDir>> ELSE <<>>)
       \o named[1]

\* PathBuf::push: a path with a prefix replaces everything, one that begins with a separator all
\* but the prefix.
PushPath(path, more) ==
    IF more # <<>> /\ more[1].kind = "prefix" THEN more
    ELSE IF more = <<>> \/ more[1] # RootDir THEN path \o more
    ELSE IF Host = "windows" /\ path # <<>> /\ path[1].kind = "prefix" THEN <<path[1]>> \o more
    ELSE more

FoldComponent(c) ==
    IF Host = "windows"
    THEN [c EXCEPT !.text = [i \in DOMAIN @ |-> [k \in DOMAIN @[i] |-> Upcase(@[i][k])]]]
    ELSE c

Fold(path) == [i \in DOMAIN path |-> FoldComponent(path[i])]

\* canon_key refuses what is not absolute and what has a `..`; else the key is the folded path.
CanonError(path) ==
    IF ~IsAbsolute(path) THEN "relative root"
    ELSE IF \E i \in DOMAIN path : path[i] = ParentDir THEN "parent in root"
    ELSE "none"

\* Mutant: roots are told apart by their spelling.
SpellingAsKey(path) == path

CanonKey(path) == Fold(path)

IsAncestor(a, b) == Len(a) < Len(b) /\ SubSeq(b, 1, Len(a)) = a

-----------------------------------------------------------------------------
(* Self-rooting patterns *)

\* The leading prefix and separator of an absolute path.
RootOf(path) == SubSeq(path, 1, IF Host = "windows" THEN 2 ELSE 1)

\* literal_segment(i)
HasLiteral(segments, i) == i \in DOMAIN segments /\ IsLiteral(segments[i])

\* What root_of, the drive and the UNC arms of lower_self_rooting reject.
AnchorError(p) ==
    CASE p.anchor = "root" /\ base # <<>> ->
             IF IsAbsolute(base[1]) THEN "none" ELSE "relative base"
      [] p.anchor = "root" /\ base = <<>> -> IF Host = "windows" THEN "no base" ELSE "none"
      [] p.anchor = "unc" ->
             IF HasLiteral(p.segments, 1) /\ HasLiteral(p.segments, 2) THEN "none" ELSE "no share"
      [] OTHER -> "none"

\* `win` patterns, which alone have drives and shares, are lowered on Windows only (D-47).
AnchorRoot(p) ==
    CASE p.anchor = "root" -> IF base # <<>> THEN RootOf(base[1]) ELSE <<RootDir>>
      [] p.anchor = "drive" -> <<Prefix(<<<<p.drive, ":">>>>), RootDir>>
      [] p.anchor = "unc" ->
             <<Prefix(<<LiteralOf(p.segments[1]), LiteralOf(p.segments[2])>>), RootDir>>

RestStart(p) == IF p.anchor = "unc" THEN 2 ELSE 0

\* Mutant: the last segment is peeled too.
PeelsToTheEnd(p, n) ==
    /\ n \in RestStart(p)..Len(p.segments)
    /\ \A i \in (RestStart(p) + 1)..n : HasLiteral(p.segments, i)
    /\ n < Len(p.segments) => ~HasLiteral(p.segments, n + 1)

\* The peeling loop stops after n segments: at one that is no literal, or the last.
Peels(p, n) ==
    /\ n \in RestStart(p)..Len(p.segments)
    /\ \A i \in (RestStart(p) + 1)..n : i < Len(p.segments) /\ HasLiteral(p.segments, i)
    /\ n + 1 < Len(p.segments) => ~HasLiteral(p.segments, n + 1)

PeelCount(p) == CHOOSE n \in RestStart(p)..Len(p.segments) : Peels(p, n)

\* The path after the first n segments were pushed onto the root of the anchor.
PeeledFrom(anchor, p) ==
    LET pushed[n \in RestStart(p)..PeelCount(p)] ==
            IF n = RestStart(p) THEN anchor
                                ELSE PushPath(pushed[n - 1], Components(LiteralOf(p.segments[n])))
    IN pushed[PeelCount(p)]

PeeledRoot(p) == PeeledFrom(AnchorRoot(p), p)

Rest(p) == SubSeq(p.segments, PeelCount(p) + 1, Len(p.segments))

-----------------------------------------------------------------------------
(* The calls that collect a query *)

Unset == "unset"
DefaultOptions == [ring |-> 1024, case |-> Unset]

Init ==
    /\ supplied = <<>> /\ base = <<>> /\ pending = <<>>
    /\ options = DefaultOptions
    /\ phase = "calls"
    /\ roots = <<>> /\ keys = <<>> /\ explicit = 0
    /\ lowered = <<>>
    /\ error = "none"

AddRoot(path) ==
    /\ phase = "calls" /\ Len(supplied) < MaxRoots
    /\ supplied' = Append(supplied, path)
    /\ UNCHANGED <<base, pending, options, phase, roots, keys, explicit, lowered, error>>

SetBase(path) ==
    /\ phase = "calls"
    /\ base' = <<path>>
    /\ UNCHANGED <<supplied, pending, options, phase, roots, keys, explicit, lowered, error>>

AddPattern(p) ==
    /\ phase = "calls" /\ Len(pending) < MaxPatterns
    /\ pending' = Append(pending, p)
    /\ UNCHANGED <<supplied, base, options, phase, roots, keys, explicit, lowered, error>>

SetOptions(o) ==
    /\ phase = "calls"
    /\ options' = o
    /\ UNCHANGED <<supplied, base, pending, phase, roots, keys, explicit, lowered, error>>

-----------------------------------------------------------------------------
(* build() *)

Fail(why) ==
    /\ phase' = "failed" /\ error' = why
    /\ UNCHANGED <<calls, roots, keys, explicit, lowered>>

Build ==
    /\ phase = "calls"
    /\ IF pending = <<>> THEN Fail("no patterns")
       ELSE IF options.ring = 0 THEN Fail("zero ring")
       ELSE /\ phase' = "roots"
            /\ UNCHANGED <<calls, roots, keys, explicit, lowered, error>>

\* intern_root: the index of the root with this key, after it was added if it is new.
InternedAt(path) ==
    LET known == {i \in DOMAIN keys : keys[i] = CanonKey(path)}
    IN IF known = {} THEN Len(keys) + 1 ELSE CHOOSE i \in known : TRUE

Intern(path) ==
    IF InternedAt(path) \in DOMAIN keys THEN UNCHANGED <<roots, keys>>
    ELSE /\ keys' = Append(keys, CanonKey(path))
         /\ roots' = Append(roots, path)

\* One turn of the loop over the supplied roots; `explicit` counts the turns until the loop ends.
InternSupplied ==
    /\ phase = "roots" /\ explicit < Len(supplied)
    /\ LET path == supplied[explicit + 1] IN
       IF CanonError(path) # "none" THEN Fail(CanonError(path))
       ELSE /\ Intern(path)
            /\ explicit' = explicit + 1
            /\ UNCHANGED <<calls, phase, lowered, error>>

\* Mutant: only a root supplied after the one it lies in is found.
NestedInOrder == \E i, j \in DOMAIN keys : i < j /\ IsAncestor(keys[i], keys[j])

Nested == \E i, j \in DOMAIN keys : i # j /\ IsAncestor(keys[i], keys[j])

\* explicit_roots is fixed, and the supplied roots checked for overlap, once all are interned.
RejectNested ==
    /\ phase = "roots" /\ explicit = Len(supplied)
    /\ IF Nested THEN Fail("nested roots")
       ELSE /\ explicit' = Len(roots) /\ phase' = "patterns"
            /\ UNCHANGED <<calls, roots, keys, lowered, error>>

IsSupported(p) == p.dialect = "posix" \/ Host = "windows"

PatternError(p) ==
    IF ~IsSupported(p) THEN "unsupported dialect"
    ELSE IF ~p.parses THEN "parse error"
    ELSE IF p.anchor = "relative" THEN "none"
    ELSE IF AnchorError(p) # "none" THEN AnchorError(p)
    ELSE CanonError(PeeledRoot(p))

\* Mutant: a relative pattern binds to every root there is so far.
RelativeRootsSoFar == DOMAIN roots

\* Mutant: the supplied roots are counted before duplicates are dropped.
RelativeRootsSupplied == DOMAIN supplied

RelativeRoots == 1..explicit

DefaultCase(dialect) == IF dialect = "posix" THEN "sensitive" ELSE "insensitive"

\* The pattern's own case rule, else the query's, else the dialect's (D-23).
CaseOf(p) ==
    IF p.case # Unset THEN p.case
    ELSE IF options.case # Unset THEN options.case
    ELSE DefaultCase(p.dialect)

LowerPattern ==
    /\ phase = "patterns" /\ Len(lowered) < Len(pending)
    /\ LET p == Written(Len(lowered) + 1) IN
       IF PatternError(p) # "none" THEN Fail(PatternError(p))
       ELSE /\ IF p.anchor = "relative"
               THEN /\ lowered' = Append(lowered, [segments |-> p.segments, case |-> CaseOf(p),
                                                   roots |-> RelativeRoots])
                    /\ UNCHANGED <<roots, keys>>
               ELSE /\ lowered' = Append(lowered, [segments |-> Rest(p), case |-> CaseOf(p),
                                                   roots |-> {InternedAt(PeeledRoot(p))}])
                    /\ Intern(PeeledRoot(p))
            /\ UNCHANGED <<calls, phase, explicit, error>>

\* Mutant: any root will do for a relative pattern.
LacksAnyRoot == roots = <<>>

\* has_relative && explicit_roots == 0
LacksRoot == explicit = 0 /\ \E i \in DOMAIN pending : Written(i).anchor = "relative"

Conclude ==
    /\ phase = "patterns" /\ Len(lowered) = Len(pending)
    /\ IF LacksRoot THEN Fail("needs a root")
       ELSE IF roots = <<>> THEN Fail("no roots")
       ELSE phase' = "built" /\ UNCHANGED <<calls, roots, keys, explicit, lowered, error>>

Next ==
    \/ \E path \in Paths : AddRoot(path)
    \/ \E path \in Bases : SetBase(path)
    \/ \E p \in Patterns : AddPattern(p)
    \/ \E o \in OptionSets : SetOptions(o)
    \/ Build
    \/ InternSupplied
    \/ RejectNested
    \/ LowerPattern
    \/ Conclude

Spec == Init /\ [][Next]_vars
=============================================================================
