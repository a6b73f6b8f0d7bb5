---------------------------- MODULE BuilderProofs ----------------------------
(***************************************************************************)
(* Proofs about the query builder (builder.rs), for all paths, patterns    *)
(* and options and any number of calls, on either platform.                *)
(***************************************************************************)
EXTENDS BuilderChecks, TLAPS

Lists == INSTANCE MatcherProofs

\* What the calls collected; build() works on nothing else and lowers nothing before.
Calls ==
    /\ supplied \in Seq(Paths) /\ base \in Seq(Bases) /\ pending \in Seq(Patterns)
    /\ options \in OptionSets \cup {DefaultOptions}
    /\ phase \in {"calls", "roots", "patterns", "built", "failed"}
    /\ phase = "failed" <=> error # "none"
    /\ phase = "calls" => roots = <<>> /\ keys = <<>> /\ explicit = 0
    /\ phase \in {"calls", "roots"} => lowered = <<>>
    /\ phase \in {"roots", "patterns", "built"} => options.ring # 0 /\ pending # <<>>

\* The roots and their keys go together, one for one.
Keyed ==
    /\ IsSequence(roots) /\ IsSequence(keys)
    /\ Len(keys) = Len(roots)
    /\ \A i \in DOMAIN keys : keys[i] = Fold(roots[i])
    /\ \A i, j \in DOMAIN keys : keys[i] = keys[j] => i = j

\* How many supplied roots were interned, and how many keys came of them: the first ones.
Interned == IF phase = "roots" THEN explicit ELSE Len(supplied)
Known == IF phase = "roots" THEN Len(keys) ELSE explicit

\* The first keys are those of the supplied roots, each of them valid.
SuppliedFirst ==
    phase \in {"roots", "patterns", "built"} =>
        /\ explicit \in Nat /\ Interned <= Len(supplied) /\ Known <= Len(keys)
        /\ \A i \in 1..Interned : /\ CanonError(supplied[i]) = "none"
                                  /\ \E k \in 1..Known : keys[k] = Fold(supplied[i])
        /\ \A k \in 1..Known : \E i \in 1..Interned : keys[k] = Fold(supplied[i])

\* None of them lies in another once they were checked.
SuppliedApart ==
    phase \in {"patterns", "built"} =>
        \A i, j \in 1..explicit : i # j => ~IsAncestor(keys[i], keys[j])

\* Each pattern lowered so far had no fault, and is bound to the supplied roots or to one of its
\* own, which then exists.
Bound ==
    /\ explicit \in Nat
    /\ IsSequence(lowered)
    /\ \A n \in DOMAIN lowered : lowered[n].roots \subseteq DOMAIN roots
    /\ phase \in {"patterns", "built"} =>
        /\ Len(lowered) <= Len(pending)
        /\ \A n \in DOMAIN lowered :
            /\ PatternError(pending[n]) = "none"
            /\ IF pending[n].anchor = "relative" THEN lowered[n].roots = 1..explicit
               ELSE \E r \in DOMAIN roots : lowered[n].roots = {r}

\* build() succeeds when every pattern is lowered, and no relative one lacks a root.
Built == phase = "built" => Len(lowered) = Len(pending) /\ ~LacksRoot

\* build() does not fail without a fault in the query.
Faulted == phase = "failed" => ~Acceptable

BuilderInv == Calls /\ Keyed /\ SuppliedFirst /\ SuppliedApart /\ Bound /\ Built /\ Faulted

-----------------------------------------------------------------------------
(* Sequences and paths *)

\* What appending to a sequence does.
LEMMA Appended ==
    ASSUME NEW s, IsSequence(s), NEW e
    PROVE  /\ IsSequence(Append(s, e)) /\ Append(s, e) # <<>>
           /\ Len(Append(s, e)) = Len(s) + 1 /\ Len(s) \in Nat
           /\ DOMAIN s = 1..Len(s) /\ DOMAIN Append(s, e) = 1..(Len(s) + 1)
           /\ \A i \in 1..Len(s) : Append(s, e)[i] = s[i]
           /\ Append(s, e)[Len(s) + 1] = e
<1> DEFINE t == Append(s, e)
<1>1. PICK S : s \in Seq(S)
  BY DEF IsSequence
<1>2. t \in Seq(S \cup {e}) /\ Len(t) = Len(s) + 1 /\ Len(s) \in Nat
  BY <1>1
<1>3. t \in Seq({t[i] : i \in DOMAIN t})
  <2>1. \A i \in 1..Len(t) : t[i] \in {t[k] : k \in DOMAIN t}
    BY <1>2
  <2>. QED
    BY <1>2, <2>1
<1>. QED
  BY <1>1, <1>2, <1>3 DEF IsSequence

\* The empty sequence.
LEMMA Nothing == IsSequence(<<>>) /\ DOMAIN <<>> = {} /\ Len(<<>>) = 0
BY DEF IsSequence

\* The facts about a sequence that the proofs use.
LEMMA Entries ==
    ASSUME NEW s, IsSequence(s)
    PROVE  /\ Len(s) \in Nat /\ DOMAIN s = 1..Len(s)
           /\ s = <<>> <=> Len(s) = 0
BY DEF IsSequence

\* A path the caller supplies and its key are sequences, the one as long as the other.
LEMMA KeysOfPaths ==
    ASSUME NEW path \in Paths \cup Bases
    PROVE  IsSequence(path) /\ IsSequence(Fold(path)) /\ Len(Fold(path)) = Len(path)
<1>1. IsSequence(path)
  BY CallsAssumption DEF IsSequence
<1>2. Len(path) \in Nat /\ DOMAIN path = 1..Len(path)
  BY <1>1, Entries
<1>3. Fold(path) = [i \in 1..Len(path) |-> FoldComponent(path[i])]
  BY <1>2 DEF Fold
<1> HIDE DEF Fold
<1>4. Len(Fold(path)) = Len(path) /\ DOMAIN Fold(path) = 1..Len(path)
  BY <1>2, <1>3
<1>5. IsSequence(Fold(path))
  <2> DEFINE t == Fold(path)
  <2>1. t = [i \in 1..Len(path) |-> t[i]]
    BY <1>3
  <2>2. \A i \in 1..Len(path) : t[i] \in {t[k] : k \in DOMAIN t}
    BY <1>4
  <2> HIDE DEF t
  <2>3. t \in Seq({t[k] : k \in DOMAIN t})
    BY <1>2, <2>1, <2>2
  <2>. QED
    BY <2>3 DEF IsSequence, t
<1>. QED
  BY <1>1, <1>4, <1>5

\* Whatever its entries are.
LEMMA OfEntries ==
    ASSUME NEW U, NEW s \in Seq(U)
    PROVE  IsSequence(s)
<1>1. Len(s) \in Nat /\ s \in [1..Len(s) -> U] /\ DOMAIN s = 1..Len(s)
  OBVIOUS
<1>2. \A i \in 1..Len(s) : s[i] \in {s[k] : k \in DOMAIN s}
  BY <1>1
<1>. QED
  BY <1>1, <1>2 DEF IsSequence

\* One sequence after another.
LEMMA Joined ==
    ASSUME NEW s, IsSequence(s), NEW t, IsSequence(t)
    PROVE  /\ IsSequence(s \o t) /\ Len(s \o t) = Len(s) + Len(t)
           /\ \A i \in 1..Len(s) : (s \o t)[i] = s[i]
           /\ \A i \in 1..Len(t) : (s \o t)[Len(s) + i] = t[i]
<1>1. PICK U : s \in Seq(U) /\ t \in Seq(U)
  <2>1. PICK S, T : S = {s[i] : i \in DOMAIN s} /\ T = {t[i] : i \in DOMAIN t}
    OBVIOUS
  <2>2. s \in Seq(S) /\ t \in Seq(T)
    BY <2>1 DEF IsSequence
  <2>3. s \in Seq(S \cup T) /\ t \in Seq(S \cup T)
    BY <2>2
  <2>. QED
    BY <2>3
<1>2. s \o t \in Seq(U) /\ Len(s \o t) = Len(s) + Len(t)
  BY <1>1
<1>3. \A i \in 1..Len(s) : (s \o t)[i] = s[i]
  BY <1>1
<1>4. \A i \in 1..Len(t) : (s \o t)[Len(s) + i] = t[i]
  BY <1>1
<1>. QED
  BY <1>2, <1>3, <1>4, OfEntries

\* What follows the k-th entry.
LEMMA Behind ==
    ASSUME NEW s, IsSequence(s), NEW k \in 0..Len(s)
    PROVE  /\ IsSequence(SubSeq(s, k + 1, Len(s))) /\ Len(SubSeq(s, k + 1, Len(s))) = Len(s) - k
           /\ \A i \in 1..(Len(s) - k) : SubSeq(s, k + 1, Len(s))[i] = s[k + i]
<1>1. PICK U : s \in Seq(U)
  BY DEF IsSequence
<1>2. Len(s) \in Nat /\ k \in Nat /\ k <= Len(s)
  BY <1>1
<1>3. PICK t : t = SubSeq(s, k + 1, Len(s))
  OBVIOUS
<1>4. t \in Seq(U) /\ Len(t) = Len(s) - k /\ \A i \in 1..(Len(s) - k) : t[i] = s[k + i]
  BY <1>1, <1>2, <1>3
<1>. QED
  BY <1>3, <1>4, OfEntries

\* A path and its key go together, entry by entry.
LEMMA Folding ==
    ASSUME NEW path, IsSequence(path)
    PROVE  /\ IsSequence(Fold(path)) /\ Len(Fold(path)) = Len(path)
           /\ \A i \in 1..Len(path) : Fold(path)[i] = FoldComponent(path[i])
<1>2. Len(path) \in Nat /\ DOMAIN path = 1..Len(path)
  BY Entries
<1>3. Fold(path) = [i \in 1..Len(path) |-> FoldComponent(path[i])]
  BY <1>2 DEF Fold
<1> HIDE DEF Fold
<1>4. Len(Fold(path)) = Len(path) /\ \A i \in 1..Len(path) : Fold(path)[i] = FoldComponent(path[i])
  BY <1>2, <1>3
<1>5. IsSequence(Fold(path))
  <2>1. PICK U : U = {FoldComponent(path[i]) : i \in 1..Len(path)}
    OBVIOUS
  <2>2. Fold(path) \in Seq(U)
    BY <1>2, <1>3, <2>1
  <2>. QED
    BY <2>2, OfEntries
<1>. QED
  BY <1>4, <1>5

\* Two sequences with the same entries.
LEMMA SameEntries ==
    ASSUME NEW s, IsSequence(s), NEW t, IsSequence(t), Len(s) = Len(t),
           \A i \in 1..Len(s) : s[i] = t[i]
    PROVE  s = t
<1>1. s = [i \in 1..Len(s) |-> s[i]] /\ t = [i \in 1..Len(t) |-> t[i]]
  BY DEF IsSequence
<1>. QED
  BY <1>1

\* A part of a text ends where it begins or behind.
LEMMA PartsEnd ==
    ASSUME NEW text, IsSequence(text), NEW i \in 1..Len(text)
    PROVE  PartEnd(text, i) \in i..Len(text)
<1>. DEFINE T == {k \in i..Len(text) : \A j \in i..k : ~IsHostSep(text[j])}
<1>1. Len(text) \in Nat
  BY Entries
<1>2. CASE IsHostSep(text[i])
  BY <1>1, <1>2 DEF PartEnd
<1>3. CASE ~IsHostSep(text[i])
  <2>1. T \subseteq 0..Len(text)
    BY <1>1
  <2>2. i \in T
    <3>1. \A j \in i..i : j = i
      OBVIOUS
    <3>2. i \in i..Len(text)
      BY <1>1
    <3>. QED
      BY <1>3, <3>1, <3>2
  <2>3. PICK m \in T : \A k \in T : k <= m
    <3>. HIDE DEF T
    <3>. QED
      BY <1>1, <2>1, <2>2, Lists!Greatest
  <2>4. \A k \in T : m >= k
    BY <1>1, <2>3
  <2>5. Max(T) \in T
    <3>. HIDE DEF T
    <3>. QED
      BY <2>4 DEF Max
  <2>6. PartEnd(text, i) = Max(T)
    BY <1>3 DEF PartEnd
  <2>. QED
    BY <2>5, <2>6
<1>. QED
  BY <1>2, <1>3

\* What a text's components are: a sequence, without a prefix on POSIX.
LEMMA ComponentsOfText ==
    ASSUME NEW text, IsSequence(text)
    PROVE  /\ IsSequence(Components(text))
           /\ Host = "posix" /\ Components(text) # <<>> => Components(text)[1].kind # "prefix"
<1>. DEFINE hasDrive == Host = "windows" /\ Len(text) >= 2 /\ text[1] \in Drives /\ text[2] = ":"
            rest == IF hasDrive THEN From(text, 2) ELSE text
<1>1. PICK r : r = rest
  OBVIOUS
<1>2. IsSequence(r) /\ Len(r) \in Nat
  <2>1. CASE hasDrive
    <3>1. 2 \in 0..Len(text) /\ r = SubSeq(text, 2 + 1, Len(text))
      <4>1. Len(text) \in Nat
        BY Entries
      <4>. QED
        BY <1>1, <2>1, <4>1 DEF From
    <3>. QED
      BY <3>1, Behind, Entries
  <2>2. CASE ~hasDrive
    BY <1>1, <2>2, Entries
  <2>. QED
    BY <2>1, <2>2
<1>. DEFINE n == Len(r)
            Is(d) == d = [i \in 1..(n + 1) |->
                              IF i > n THEN <<>>
                              ELSE Component(SubSeq(r, i, PartEnd(r, i))) \o d[PartEnd(r, i) + 1]]
            named == CHOOSE d : Is(d)
            drive == IF hasDrive THEN <<Prefix(<<UpTo(text, 2)>>)>> ELSE <<>>
            root == IF r # <<>> /\ IsHostSep(r[1]) THEN <<RootDir>> ELSE <<>>
<1>3. Components(text) = drive \o root \o named[1]
  BY <1>1 DEF Components
<1>. DEFINE piece == [i \in 1..n |-> Component(SubSeq(r, i, PartEnd(r, i)))]
            next == [i \in 1..n |-> PartEnd(r, i) + 1]
            Parts == {ParentDir} \cup {Name(SubSeq(r, i, PartEnd(r, i))) : i \in 1..n}
<1>4. Lists!Onward(next, n)
  <2>1. ASSUME NEW k \in 1..n PROVE next[k] \in (k + 1)..(n + 1)
    <3>1. PartEnd(r, k) \in k..n
      BY <1>2, PartsEnd
    <3>. QED
      BY <1>2, <3>1
  <2>. QED
    BY <2>1 DEF Lists!Onward
<1>5. \A d : Is(d) <=> Lists!Pieced(d, n, piece, next)
  <2>1. TAKE d
  <2>2. ASSUME NEW k \in 1..(n + 1), ~(k > n)
        PROVE  piece[k] = Component(SubSeq(r, k, PartEnd(r, k))) /\ next[k] = PartEnd(r, k) + 1
    <3>1. k \in 1..n
      BY <1>2, <2>2
    <3>. QED
      BY <3>1
  <2>3. [i \in 1..(n + 1) |-> IF i > n THEN <<>>
                              ELSE Component(SubSeq(r, i, PartEnd(r, i))) \o d[PartEnd(r, i) + 1]]
            = [i \in 1..(n + 1) |-> IF i > n THEN <<>> ELSE piece[i] \o d[next[i]]]
    <3>. HIDE DEF piece, next
    <3>. QED
      BY <2>2
  <2>. QED
    BY <2>3 DEF Lists!Pieced
<1>6. Is(named) /\ Lists!Pieced(named, n, piece, next)
  <2>1. \E d : Lists!Pieced(d, n, piece, next)
    <3>. HIDE DEF piece, next, n
    <3>. QED
      BY <1>2, <1>4, Lists!PiecesExist DEF n
  <2>2. \E d : Is(d)
    BY <1>5, <2>1
  <2>3. Is(named)
    <3>. HIDE DEF Is
    <3>. QED
      BY <2>2
  <2>. QED
    BY <1>5, <2>3
<1>7. ASSUME NEW k \in 1..n PROVE piece[k] \in Seq(Parts)
  <2>1. PICK part : part = SubSeq(r, k, PartEnd(r, k))
    OBVIOUS
  <2>2. Name(part) \in Parts /\ ParentDir \in Parts
    BY <2>1
  <2>3. Component(part) \in {<<>>, <<ParentDir>>, <<Name(part)>>}
    BY DEF Component
  <2>4. piece[k] = Component(part)
    BY <2>1
  <2>5. \A e \in Parts : <<e>> \in Seq(Parts)
    <3>. HIDE DEF Parts
    <3>. QED
      OBVIOUS
  <2>6. <<>> \in Seq(Parts)
    <3>. HIDE DEF Parts
    <3>. QED
      OBVIOUS
  <2>. HIDE DEF Parts, piece
  <2>. QED
    BY <2>2, <2>3, <2>4, <2>5, <2>6
<1>8. named[1] \in Seq(Parts)
  <2>1. 1 \in 1..(n + 1)
    BY <1>2
  <2>2. \A k \in 1..(n + 1) : named[k] \in Seq(Parts)
    <3>. HIDE DEF piece, next, n, Parts, named
    <3>. QED
      BY <1>2, <1>4, <1>6, <1>7, Lists!PiecesJoin DEF n
  <2>. QED
    BY <2>1, <2>2
<1>9. ASSUME NEW c \in Parts PROVE c.kind # "prefix"
  BY DEF Name, ParentDir
<1>10. PICK more : more = named[1]
  OBVIOUS
<1>. HIDE DEF named, Parts
<1>11. more \in Seq(Parts) /\ (more # <<>> => more[1] \in Parts)
  BY <1>8, <1>10
<1>12. IsSequence(more) /\ IsSequence(root) /\ IsSequence(drive)
  <2>1. IsSequence(more)
    BY <1>11, OfEntries
  <2>2. \A e : <<e>> \in Seq({e}) /\ <<>> \in Seq({e})
    OBVIOUS
  <2>3. \A e : IsSequence(<<e>>)
    BY <2>2, OfEntries
  <2>4. IsSequence(root) /\ IsSequence(drive)
    BY <2>3, Nothing
  <2>. QED
    BY <2>1, <2>4
<1>13. IsSequence(Components(text))
  <2>. HIDE DEF drive, root
  <2>1. IsSequence(drive \o root)
    BY <1>12, Joined
  <2>2. IsSequence((drive \o root) \o more)
    BY <1>12, <2>1, Joined
  <2>. QED
    BY <1>3, <1>10, <2>2
<1>14. ASSUME Host = "posix", Components(text) # <<>>
       PROVE  Components(text)[1].kind # "prefix"
  <2>1. drive = <<>>
    BY <1>14
  <2>2. Components(text) = root \o more
    <3>1. <<>> \o root = root
      <4>1. root \in Seq({RootDir})
        <5>1. <<RootDir>> \in Seq({RootDir}) /\ <<>> \in Seq({RootDir})
          OBVIOUS
        <5>. QED
          BY <5>1
      <4>. HIDE DEF root
      <4>. QED
        BY <4>1
    <3>. QED
      BY <1>3, <1>10, <2>1, <3>1
  <2>3. CASE root = <<>>
    <3>1. Components(text) = more
      BY <1>12, <2>2, <2>3 DEF IsSequence
    <3>. QED
      BY <1>9, <1>11, <1>14, <3>1
  <2>4. CASE root = <<RootDir>>
    <3>1. Components(text)[1] = RootDir
      BY <1>11, <2>2, <2>4
    <3>. QED
      BY <3>1 DEF RootDir
  <2>. QED
    BY <2>3, <2>4
<1>. QED
  BY <1>13, <1>14

\* Sequences of one entry and of two.
LEMMA Short ==
    ASSUME NEW U, NEW s \in Seq(U)
    PROVE  (Len(s) = 1 => s = <<s[1]>>) /\ (Len(s) = 2 => s = <<s[1], s[2]>>)
<1>1. ASSUME Len(s) = 1 PROVE s = <<s[1]>>
  <2>1. s = [i \in 1..1 |-> s[i]] /\ <<s[1]>> = [i \in 1..1 |-> s[1]]
    BY <1>1
  <2>2. \A i \in 1..1 : s[i] = s[1]
    OBVIOUS
  <2>. QED
    BY <2>1, <2>2
<1>2. ASSUME Len(s) = 2 PROVE s = <<s[1], s[2]>>
  <2>1. s = [i \in 1..2 |-> s[i]] /\ <<s[1], s[2]>> \in [1..2 -> {s[1], s[2]}]
    BY <1>2
  <2>2. \A i \in 1..2 : s[i] = <<s[1], s[2]>>[i]
    OBVIOUS
  <2>3. <<s[1], s[2]>> = [i \in 1..2 |-> <<s[1], s[2]>>[i]]
    BY <2>1
  <2>. QED
    BY <2>1, <2>2, <2>3
<1>. QED
  BY <1>1, <1>2

\* The smaller of two lengths.
LEMMA MinOfTwo ==
    ASSUME NEW a \in Nat, NEW b \in Nat
    PROVE  Min({a, b}) = IF a <= b THEN a ELSE b
<1>1. CASE a <= b
  <2>1. \A x \in {a, b} : (\A y \in {a, b} : x <= y) => x = a
    BY <1>1
  <2>. QED
    BY <1>1, <2>1 DEF Min
<1>2. CASE ~(a <= b)
  <2>1. \A x \in {a, b} : (\A y \in {a, b} : x <= y) => x = b
    BY <1>2
  <2>. QED
    BY <1>2, <2>1 DEF Min
<1>. QED
  BY <1>1, <1>2

\* Two keys of which one begins with the other are equal or one is the other's ancestor.
LEMMA PrefixOfKeys ==
    ASSUME NEW a, NEW b, IsSequence(a), IsSequence(b),
           SubSeq(b, 1, Min({Len(a), Len(b)})) = a
    PROVE  a = b \/ IsAncestor(a, b)
<1>1. Len(a) \in Nat /\ Len(b) \in Nat
  BY Entries
<1>2. \A n \in 0..Len(b) : Len(SubSeq(b, 1, n)) = n
  BY <1>1 DEF IsSequence
<1>3. SubSeq(b, 1, Len(b)) = b
  BY <1>1 DEF IsSequence
<1>4. CASE Len(a) < Len(b)
  <2>1. Min({Len(a), Len(b)}) = Len(a)
    BY <1>1, <1>4, MinOfTwo
  <2>2. SubSeq(b, 1, Len(a)) = a
    BY <2>1
  <2>. QED
    BY <1>4, <2>2 DEF IsAncestor
<1>5. CASE Len(b) <= Len(a)
  <2>1. Min({Len(a), Len(b)}) = Len(b)
    BY <1>1, <1>5, MinOfTwo
  <2>2. a = b
    BY <1>3, <2>1
  <2>. QED
    BY <2>2
<1>. QED
  BY <1>1, <1>4, <1>5

-----------------------------------------------------------------------------
(* Peeling *)

\* A pattern that is lowered below an anchor.
IsAnchored(p) == p \in Patterns /\ p.anchor # "relative" /\ PatternError(p) = "none"

\* The anchor of a pattern: on POSIX the root; on Windows the prefix and the root behind it.
Anchors(path) ==
    IF Host = "posix" THEN path = <<RootDir>>
    ELSE \E c : c.kind = "prefix" /\ path = <<c, RootDir>>

LEMMA AnchorOfPattern ==
    ASSUME base \in Seq(Bases), NEW p, IsAnchored(p)
    PROVE  Anchors(AnchorRoot(p))
<1>1. /\ IsSupported(p) /\ AnchorError(p) = "none"
      /\ p.anchor \in {"root", "drive", "unc"} /\ p.dialect \in {"posix", "win"}
      /\ p.anchor \in {"drive", "unc"} => p.dialect = "win"
  <2>1. IsSupported(p) /\ AnchorError(p) = "none"
    BY DEF IsAnchored, PatternError
  <2>. QED
    BY <2>1, CallsAssumption DEF IsAnchored
<1>2. ASSUME NEW texts PROVE Host = "windows" => Anchors(<<Prefix(texts), RootDir>>)
  BY DEF Anchors, Prefix
<1>3. CASE p.anchor \in {"drive", "unc"}
  <2>1. Host = "windows"
    BY <1>1, <1>3 DEF IsSupported
  <2>2. CASE p.anchor = "drive"
    BY <1>2, <2>1, <2>2 DEF AnchorRoot
  <2>3. CASE p.anchor = "unc"
    BY <1>2, <2>1, <2>3 DEF AnchorRoot
  <2>. QED
    BY <1>3, <2>2, <2>3
<1>4. CASE p.anchor = "root" /\ base = <<>>
  <2>1. Host = "posix"
    BY <1>1, <1>4, HostAssumption DEF AnchorError
  <2>. QED
    BY <1>4, <2>1 DEF AnchorRoot, Anchors
<1>5. CASE p.anchor = "root" /\ base # <<>>
  <2>1. PICK b : b = base[1]
    OBVIOUS
  <2>2. b \in Bases
    BY <1>5, <2>1
  <2>3. IsAbsolute(b) /\ AnchorRoot(p) = RootOf(b)
    BY <1>1, <1>5, <2>1 DEF AnchorError, AnchorRoot
  <2>4. IsSequence(b)
    BY <2>2, CallsAssumption
  <2>5. PICK U : b \in Seq(U)
    BY <2>4 DEF IsSequence
  <2>6. CASE Host = "posix"
    <3>1. b # <<>> /\ b[1] = RootDir
      BY <2>3, <2>6 DEF IsAbsolute
    <3>2. SubSeq(b, 1, 1) = <<RootDir>>
      <4>1. PICK t : t = SubSeq(b, 1, 1)
        OBVIOUS
      <4>2. t \in Seq(U) /\ Len(t) = 1 /\ t[1] = RootDir
        BY <2>5, <3>1, <4>1
      <4>. QED
        BY <4>1, <4>2, Short
    <3>. QED
      BY <2>3, <2>6, <3>2 DEF RootOf, Anchors
  <2>7. CASE Host = "windows"
    <3>1. Len(b) >= 2 /\ b[1].kind = "prefix" /\ b[2] = RootDir
      BY <2>3, <2>7 DEF IsAbsolute
    <3>2. SubSeq(b, 1, 2) = <<b[1], RootDir>>
      <4>1. PICK t : t = SubSeq(b, 1, 2)
        OBVIOUS
      <4>2. t \in Seq(U) /\ Len(t) = 2 /\ t[1] = b[1] /\ t[2] = RootDir
        BY <2>5, <3>1, <4>1
      <4>. QED
        BY <4>1, <4>2, Short
    <3>. QED
      BY <2>3, <2>7, <3>1, <3>2 DEF RootOf, Anchors
  <2>. QED
    BY <2>6, <2>7, HostAssumption
<1>. QED
  BY <1>1, <1>3, <1>4, <1>5

\* The peeling loop stops somewhere, and there alone.
LEMMA PeelingStops ==
    ASSUME NEW p, IsAnchored(p)
    PROVE  /\ RestStart(p) \in Nat /\ PeelCount(p) \in Nat
           /\ RestStart(p) <= PeelCount(p) /\ PeelCount(p) <= Len(p.segments)
           /\ Peels(p, PeelCount(p))
           /\ IsSequence(p.segments) /\ Len(p.segments) \in Nat
<1>1. PICK from, segments, len : from = RestStart(p) /\ segments = p.segments /\ len = Len(segments)
  OBVIOUS
<1>2. IsSequence(segments) /\ len \in Nat /\ DOMAIN segments = 1..len
  BY <1>1, CallsAssumption, Entries DEF IsAnchored
<1>3. from \in 0..len
  <2>1. CASE p.anchor = "unc"
    <3>1. AnchorError(p) = "none"
      BY DEF IsAnchored, PatternError
    <3>2. HasLiteral(segments, 2)
      BY <1>1, <2>1, <3>1 DEF AnchorError
    <3>. QED
      BY <1>1, <1>2, <2>1, <3>2 DEF HasLiteral, RestStart
  <2>2. CASE p.anchor # "unc"
    BY <1>1, <1>2, <2>2 DEF RestStart
  <2>. QED
    BY <2>1, <2>2
<1>. DEFINE T == {n \in from..len : \A i \in (from + 1)..n : i < len /\ HasLiteral(segments, i)}
<1>4. from \in T
  BY <1>2, <1>3
<1>5. T \subseteq 0..len
  BY <1>2, <1>3
<1>6. PICK m \in T : \A n \in T : n <= m
  <2>. HIDE DEF T
  <2>. QED
    BY <1>2, <1>4, <1>5, Lists!Greatest
<1>7. m + 1 < len => ~HasLiteral(segments, m + 1)
  <2>. SUFFICES ASSUME m + 1 < len, HasLiteral(segments, m + 1) PROVE FALSE
    OBVIOUS
  <2>1. m \in from..len /\ m + 1 \in from..len
    BY <1>2, <1>3, <1>6
  <2>2. ASSUME NEW i \in (from + 1)..(m + 1) PROVE i < len /\ HasLiteral(segments, i)
    <3>1. CASE i = m + 1
      BY <3>1
    <3>2. CASE i # m + 1
      <4>1. i \in (from + 1)..m
        BY <1>3, <2>1, <3>2
      <4>. QED
        BY <1>6, <4>1
    <3>. QED
      BY <3>1, <3>2
  <2>3. PICK k : k = m + 1
    OBVIOUS
  <2>4. k <= m
    <3>1. k \in from..len /\ \A i \in (from + 1)..k : i < len /\ HasLiteral(segments, i)
      BY <2>1, <2>2, <2>3
    <3>2. k \in T
      BY <3>1
    <3>. HIDE DEF T
    <3>. QED
      BY <1>6, <3>2
  <2>. QED
    BY <1>2, <1>3, <2>1, <2>3, <2>4
<1>8. m \in from..len /\ Peels(p, m)
  BY <1>1, <1>6, <1>7 DEF Peels
<1>9. PeelCount(p) \in from..len /\ Peels(p, PeelCount(p))
  BY <1>1, <1>8 DEF PeelCount
<1>. QED
  BY <1>1, <1>2, <1>3, <1>9

\* The path after each segment that is peeled.
Pushes(pushed, p, anchor) ==
    /\ pushed[RestStart(p)] = anchor
    /\ \A n \in (RestStart(p) + 1)..PeelCount(p) :
           pushed[n] = PushPath(pushed[n - 1], Components(LiteralOf(p.segments[n])))

LEMMA PushesExist ==
    ASSUME NEW p, IsAnchored(p), NEW anchor
    PROVE  \E pushed : Pushes(pushed, p, anchor) /\ PeeledFrom(anchor, p) = pushed[PeelCount(p)]
<1>1. PICK a, b : a = RestStart(p) /\ b = PeelCount(p)
  OBVIOUS
<1>2. a \in Nat /\ b \in Nat /\ a <= b
  BY <1>1, PeelingStops
<1>. DEFINE Body(d, n) == IF n = a THEN anchor
                          ELSE PushPath(d[n - 1], Components(LiteralOf(p.segments[n])))
            Is(d, m) == d = [n \in a..(a + m) |-> Body(d, n)]
            T == {m \in Nat : \E d : Is(d, m)}
<1>3. 0 \in T
  <2>. DEFINE d == [n \in a..(a + 0) |-> anchor]
  <2>1. \A n \in a..(a + 0) : n = a
    BY <1>2
  <2>2. Is(d, 0)
    BY <2>1
  <2>. QED
    BY <2>2
<1>4. ASSUME NEW m \in Nat, m \in T PROVE m + 1 \in T
  <2>1. PICK c : Is(c, m)
    BY <1>4
  <2>. DEFINE d == [n \in a..(a + (m + 1)) |-> IF n = a + (m + 1) THEN Body(c, n) ELSE c[n]]
  <2>2. ASSUME NEW n \in a..(a + (m + 1)) PROVE d[n] = Body(d, n)
    <3>1. CASE n = a + (m + 1)
      <4>1. n # a /\ n - 1 \in a..(a + (m + 1)) /\ n - 1 # a + (m + 1)
        BY <1>2, <3>1
      <4>2. d[n - 1] = c[n - 1] /\ d[n] = Body(c, n)
        BY <3>1, <4>1
      <4>. QED
        BY <4>1, <4>2
    <3>2. CASE n # a + (m + 1)
      <4>1. n \in a..(a + m)
        BY <1>2, <3>2
      <4>2. c[n] = Body(c, n) /\ d[n] = c[n]
        BY <2>1, <3>2, <4>1
      <4>3. n # a => n - 1 \in a..(a + (m + 1)) /\ n - 1 # a + (m + 1)
        BY <1>2, <4>1
      <4>4. n # a => d[n - 1] = c[n - 1]
        BY <4>3
      <4>. QED
        BY <4>2, <4>4
    <3>. QED
      BY <3>1, <3>2
  <2>3. d = [n \in a..(a + (m + 1)) |-> d[n]]
    OBVIOUS
  <2>4. Is(d, m + 1)
    <3>. HIDE DEF d, Body
    <3>. QED
      BY <2>2, <2>3
  <2>. QED
    <3>. HIDE DEF d, Is
    <3>. QED
      BY <2>4
<1>5. b - a \in T
  <2>. HIDE DEF T
  <2>1. Nat \subseteq T
    BY <1>3, <1>4, Lists!SetInduction
  <2>. QED
    BY <1>2, <2>1
<1>6. \E d : d = [n \in a..b |-> Body(d, n)]
  <2>1. a + (b - a) = b
    BY <1>2
  <2>2. PICK d : Is(d, b - a)
    BY <1>5
  <2>3. d = [n \in a..b |-> Body(d, n)]
    <3>. HIDE DEF Body
    <3>. QED
      BY <2>1, <2>2
  <2>. QED
    BY <2>3
<1>. DEFINE chosen == CHOOSE d : d = [n \in a..b |-> Body(d, n)]
<1>7. chosen = [n \in a..b |-> Body(chosen, n)]
  <2>. HIDE DEF Body
  <2>. QED
    BY <1>6
<1>8. PeeledFrom(anchor, p) = chosen[b]
  BY <1>1 DEF PeeledFrom
<1>. HIDE DEF chosen
<1>9. chosen[a] = anchor
  <2>1. a \in a..b
    BY <1>2
  <2>. QED
    BY <1>7, <2>1
<1>10. ASSUME NEW n \in (a + 1)..b
       PROVE  chosen[n] = PushPath(chosen[n - 1], Components(LiteralOf(p.segments[n])))
  <2>1. n \in a..b /\ n # a
    BY <1>2
  <2>. QED
    BY <1>7, <2>1
<1>. QED
  BY <1>1, <1>8, <1>9, <1>10 DEF Pushes

\* A path begins with another.
Below(path, anchor) ==
    /\ IsSequence(path) /\ Len(anchor) <= Len(path)
    /\ \A i \in 1..Len(anchor) : path[i] = anchor[i]

\* An anchor is a sequence, of one component or two.
LEMMA AnchorLengths ==
    ASSUME NEW anchor, Anchors(anchor)
    PROVE  /\ IsSequence(anchor) /\ Below(anchor, anchor)
           /\ Len(anchor) = IF Host = "posix" THEN 1 ELSE 2
           /\ anchor[Len(anchor)] = RootDir
           /\ Host # "posix" => anchor[1].kind = "prefix"
<1>1. ASSUME NEW c, NEW e
      PROVE  /\ IsSequence(<<c>>) /\ Len(<<c>>) = 1 /\ <<c>>[1] = c
             /\ IsSequence(<<c, e>>) /\ Len(<<c, e>>) = 2 /\ <<c, e>>[1] = c /\ <<c, e>>[2] = e
  <2>1. <<c>> \in Seq({c, e}) /\ <<c, e>> \in Seq({c, e})
    OBVIOUS
  <2>2. IsSequence(<<c>>) /\ IsSequence(<<c, e>>)
    BY <2>1, OfEntries
  <2>. QED
    BY <2>2
<1>2. CASE Host = "posix"
  <2>1. anchor = <<RootDir>>
    BY <1>2 DEF Anchors
  <2>2. IsSequence(anchor) /\ Len(anchor) = 1 /\ anchor[1] = RootDir
    BY <1>1, <2>1
  <2>3. Below(anchor, anchor)
    BY <2>2 DEF Below
  <2>. QED
    BY <1>2, <2>2, <2>3
<1>3. CASE Host # "posix"
  <2>1. PICK c : c.kind = "prefix" /\ anchor = <<c, RootDir>>
    BY <1>3 DEF Anchors
  <2>2. IsSequence(anchor) /\ Len(anchor) = 2 /\ anchor[1] = c /\ anchor[2] = RootDir
    BY <1>1, <2>1
  <2>3. Below(anchor, anchor)
    BY <2>2 DEF Below
  <2>. QED
    BY <1>3, <2>1, <2>2, <2>3
<1>. QED
  BY <1>2, <1>3

\* Pushing more components, of which none is a prefix, leaves a path below its anchor.
LEMMA PushingStaysBelow ==
    ASSUME NEW anchor, Anchors(anchor), NEW path, Below(path, anchor),
           NEW more, IsSequence(more), more # <<>> => more[1].kind # "prefix"
    PROVE  Below(PushPath(path, more), anchor)
<1>1. /\ IsSequence(anchor) /\ Len(anchor) = IF Host = "posix" THEN 1 ELSE 2
      /\ anchor[Len(anchor)] = RootDir /\ (Host # "posix" => anchor[1].kind = "prefix")
  BY AnchorLengths
<1>2. IsSequence(path) /\ Len(path) \in Nat /\ Len(more) \in Nat /\ Len(anchor) \in Nat
      /\ Len(anchor) <= Len(path) /\ \A i \in 1..Len(anchor) : path[i] = anchor[i]
  BY <1>1, Entries DEF Below
<1>3. CASE more = <<>> \/ more[1] # RootDir
  <2>1. PushPath(path, more) = path \o more
    BY <1>3 DEF PushPath
  <2>2. IsSequence(path \o more) /\ Len(path \o more) = Len(path) + Len(more)
        /\ \A i \in 1..Len(path) : (path \o more)[i] = path[i]
    BY <1>2, Joined
  <2>3. \A i \in 1..Len(anchor) : i \in 1..Len(path)
    BY <1>2
  <2>. QED
    BY <1>2, <2>1, <2>2, <2>3 DEF Below
<1>4. CASE more # <<>> /\ more[1] = RootDir
  <2>1. Len(more) >= 1
    BY <1>2, <1>4, Entries
  <2>2. CASE Host = "posix"
    <3>1. PushPath(path, more) = more
      BY <1>4, <2>2 DEF PushPath
    <3>2. \A i \in 1..Len(anchor) : i = 1
      BY <1>1, <2>2
    <3>3. \A i \in 1..Len(anchor) : more[i] = anchor[i]
      BY <1>1, <1>4, <2>2, <3>2
    <3>. QED
      BY <1>1, <2>1, <2>2, <3>1, <3>3 DEF Below
  <2>3. CASE Host # "posix"
    <3>1. Host = "windows"
      BY <2>3, HostAssumption
    <3>2. 1 \in 1..Len(anchor) /\ Len(anchor) = 2
      BY <1>1, <2>3
    <3>3. path[1] = anchor[1] /\ path # <<>> /\ path[1].kind = "prefix"
      BY <1>1, <1>2, <2>3, <3>2, Nothing
    <3>4. PushPath(path, more) = <<path[1]>> \o more
      BY <1>4, <3>1, <3>3 DEF PushPath
    <3>5. IsSequence(<<path[1]>>) /\ Len(<<path[1]>>) = 1 /\ <<path[1]>>[1] = path[1]
      <4>1. PICK e : e = path[1]
        OBVIOUS
      <4>2. <<e>> \in Seq({e}) /\ Len(<<e>>) = 1
        OBVIOUS
      <4>. QED
        BY <4>1, <4>2, OfEntries
    <3>6. PICK one : one = <<path[1]>>
      OBVIOUS
    <3>7. /\ IsSequence(one \o more) /\ Len(one \o more) = 1 + Len(more)
          /\ \A i \in 1..1 : (one \o more)[i] = one[i]
          /\ \A i \in 1..Len(more) : (one \o more)[1 + i] = more[i]
      BY <3>5, <3>6, Joined
    <3>8. 1 \in 1..1 /\ 1 \in 1..Len(more) /\ 1 + 1 = 2
      BY <1>2, <2>1
    <3>9. (one \o more)[1] = anchor[1] /\ (one \o more)[2] = anchor[2]
      BY <1>1, <1>4, <2>3, <3>3, <3>5, <3>6, <3>7, <3>8
    <3>10. \A i \in 1..Len(anchor) : i = 1 \/ i = 2
      BY <3>2
    <3>. QED
      BY <1>2, <2>1, <3>2, <3>4, <3>6, <3>7, <3>9, <3>10 DEF Below
  <2>. QED
    BY <2>2, <2>3
<1>. QED
  BY <1>3, <1>4

\* A segment that is peeled is a literal, and its text a sequence.
LEMMA PeeledSegments ==
    ASSUME NEW p, IsAnchored(p), NEW n \in (RestStart(p) + 1)..PeelCount(p)
    PROVE  /\ n \in DOMAIN p.segments /\ IsLiteral(p.segments[n])
           /\ IsSequence(LiteralOf(p.segments[n]))
<1>1. HasLiteral(p.segments, n)
  BY PeelingStops DEF Peels
<1>2. n \in DOMAIN p.segments /\ IsLiteral(p.segments[n])
  BY <1>1 DEF HasLiteral
<1>. QED
  BY <1>2, CallsAssumption DEF IsAnchored

\* What holds of the anchor and of a path with one more segment pushed holds of the peeled root.
LEMMA PeelingInduction ==
    ASSUME NEW p, IsAnchored(p), NEW anchor, NEW pushed, Pushes(pushed, p, anchor),
           NEW Good, RestStart(p) \in Good,
           \A n \in (RestStart(p) + 1)..PeelCount(p) : n - 1 \in Good => n \in Good
    PROVE  PeelCount(p) \in Good
<1>1. PICK a, b : a = RestStart(p) /\ b = PeelCount(p)
  OBVIOUS
<1>2. a \in Nat /\ b \in Nat /\ a <= b
  BY <1>1, PeelingStops
<1>. DEFINE T == {m \in Nat : a + m <= b => a + m \in Good}
<1>3. 0 \in T
  BY <1>1, <1>2
<1>4. ASSUME NEW m \in Nat, m \in T PROVE m + 1 \in T
  <2>. SUFFICES ASSUME a + (m + 1) <= b PROVE a + (m + 1) \in Good
    OBVIOUS
  <2>1. a + m \in Good /\ a + (m + 1) \in (a + 1)..b /\ (a + (m + 1)) - 1 = a + m
    BY <1>2, <1>4
  <2>. QED
    BY <1>1, <2>1
<1>5. Nat \subseteq T
  <2>. HIDE DEF T
  <2>. QED
    BY <1>3, <1>4, Lists!SetInduction
<1>6. b - a \in T /\ a + (b - a) = b
  BY <1>2, <1>5
<1>. QED
  BY <1>1, <1>2, <1>6

\* The peeled root lies below the anchor, as long as no literal begins with a drive.
LEMMA PeeledStaysBelow ==
    ASSUME base \in Seq(Bases), NEW p, IsAnchored(p), NamesNoDrive(p)
    PROVE  Below(PeeledRoot(p), AnchorRoot(p))
<1>1. PICK anchor : anchor = AnchorRoot(p)
  OBVIOUS
<1>2. Anchors(anchor)
  BY <1>1, AnchorOfPattern
<1>3. PICK pushed : Pushes(pushed, p, anchor) /\ PeeledFrom(anchor, p) = pushed[PeelCount(p)]
  BY PushesExist
<1>. DEFINE Good == {n \in RestStart(p)..PeelCount(p) : Below(pushed[n], anchor)}
<1>4. RestStart(p) \in Good
  BY <1>2, <1>3, AnchorLengths, PeelingStops DEF Pushes
<1>5. ASSUME NEW n \in (RestStart(p) + 1)..PeelCount(p), n - 1 \in Good PROVE n \in Good
  <2>1. PICK more : more = Components(LiteralOf(p.segments[n]))
    OBVIOUS
  <2>2. IsSequence(more) /\ (more # <<>> => more[1].kind # "prefix")
    BY <2>1, PeeledSegments, ComponentsOfText DEF NamesNoDrive
  <2>3. pushed[n] = PushPath(pushed[n - 1], more)
    BY <1>3, <2>1 DEF Pushes
  <2>4. Below(pushed[n], anchor)
    BY <1>2, <1>5, <2>2, <2>3, PushingStaysBelow
  <2>5. n \in RestStart(p)..PeelCount(p)
    BY PeelingStops
  <2>. QED
    BY <2>4, <2>5
<1>6. PeelCount(p) \in Good
  <2>. HIDE DEF Good
  <2>. QED
    BY <1>3, <1>4, <1>5, PeelingInduction
<1>. QED
  BY <1>1, <1>3, <1>6 DEF PeeledRoot

\* So its key is the anchor's or lies below it.
LEMMA KeysStayBelow ==
    ASSUME base \in Seq(Bases), NEW p, IsAnchored(p), NamesNoDrive(p)
    PROVE  \/ Fold(PeeledRoot(p)) = Fold(AnchorRoot(p))
           \/ IsAncestor(Fold(AnchorRoot(p)), Fold(PeeledRoot(p)))
<1>1. PICK a, path : a = AnchorRoot(p) /\ path = PeeledRoot(p)
  OBVIOUS
<1>2. /\ IsSequence(a) /\ IsSequence(path) /\ Len(a) <= Len(path)
      /\ \A i \in 1..Len(a) : path[i] = a[i]
  BY <1>1, AnchorOfPattern, AnchorLengths, PeeledStaysBelow DEF Below
<1>3. PICK f, g : f = Fold(a) /\ g = Fold(path)
  OBVIOUS
<1>4. /\ IsSequence(f) /\ IsSequence(g) /\ Len(f) = Len(a) /\ Len(g) = Len(path)
      /\ Len(a) \in Nat /\ Len(path) \in Nat
  BY <1>2, <1>3, Folding, Entries
<1>5. \A i \in 1..Len(f) : g[i] = f[i]
  <2>1. TAKE i \in 1..Len(f)
  <2>2. i \in 1..Len(a) /\ i \in 1..Len(path)
    BY <1>2, <1>4
  <2>. QED
    BY <1>2, <1>3, <2>2, Folding
<1>6. CASE Len(f) = Len(g)
  <2>1. f = g
    BY <1>4, <1>5, <1>6, SameEntries
  <2>. QED
    BY <1>1, <1>3, <2>1
<1>7. CASE Len(f) # Len(g)
  <2>1. Len(f) < Len(g)
    BY <1>2, <1>4, <1>7
  <2>2. PICK U : g \in Seq(U)
    BY <1>4 DEF IsSequence
  <2>3. PICK h : h = SubSeq(g, 1, Len(f))
    OBVIOUS
  <2>4. h \in Seq(U) /\ Len(h) = Len(f) /\ \A i \in 1..Len(f) : h[i] = g[i]
    BY <1>4, <2>1, <2>2, <2>3
  <2>5. IsSequence(h)
    BY <2>4, OfEntries
  <2>6. \A i \in 1..Len(f) : f[i] = h[i]
    BY <1>5, <2>4
  <2>7. f = h
    BY <1>4, <2>4, <2>5, <2>6, SameEntries
  <2>. QED
    BY <1>1, <1>3, <2>1, <2>3, <2>7 DEF IsAncestor
<1>. QED
  BY <1>6, <1>7

\* The components that segments spell, one for each.
LEMMA Spelling ==
    ASSUME NEW segments, IsSequence(segments)
    PROVE  /\ IsSequence(Spelled(segments)) /\ Len(Spelled(segments)) = Len(segments)
           /\ \A i \in 1..Len(segments) : Spelled(segments)[i] = AsName(segments[i])
<1>1. Len(segments) \in Nat /\ DOMAIN segments = 1..Len(segments)
  BY Entries
<1>2. Spelled(segments) = [i \in 1..Len(segments) |-> AsName(segments[i])]
  BY <1>1 DEF Spelled
<1> HIDE DEF Spelled
<1>3. /\ Len(Spelled(segments)) = Len(segments)
      /\ \A i \in 1..Len(segments) : Spelled(segments)[i] = AsName(segments[i])
  BY <1>1, <1>2
<1>4. PICK U : U = {AsName(segments[i]) : i \in 1..Len(segments)}
  OBVIOUS
<1>5. Spelled(segments) \in Seq(U)
  BY <1>1, <1>2, <1>4
<1>. QED
  BY <1>3, <1>5, OfEntries

\* A plain name that is pushed becomes the last component.
LEMMA PushingAName ==
    ASSUME NEW path, IsSequence(path), NEW n
    PROVE  /\ IsSequence(PushPath(path, <<Name(n)>>))
           /\ Len(PushPath(path, <<Name(n)>>)) = Len(path) + 1
           /\ \A i \in 1..Len(path) : PushPath(path, <<Name(n)>>)[i] = path[i]
           /\ PushPath(path, <<Name(n)>>)[Len(path) + 1] = Name(n)
<1>1. PICK e : e = Name(n)
  OBVIOUS
<1>2. e.kind # "prefix" /\ e # RootDir
  <2>1. e.kind = "name" /\ RootDir.kind = "root"
    BY <1>1 DEF Name, RootDir
  <2>. QED
    BY <2>1
<1>3. PICK one : one = <<e>>
  OBVIOUS
<1>4. one \in Seq({e}) /\ Len(one) = 1 /\ one[1] = e /\ 1 \in 1..1
  BY <1>3
<1>5. IsSequence(one)
  BY <1>4, OfEntries
<1>6. PushPath(path, one) = path \o one
  BY <1>2, <1>4 DEF PushPath
<1>7. PICK pushed : pushed = path \o one
  OBVIOUS
<1>8. /\ IsSequence(pushed) /\ Len(pushed) = Len(path) + 1
      /\ \A i \in 1..Len(path) : pushed[i] = path[i]
      /\ pushed[Len(path) + 1] = e
  <2>1. /\ IsSequence(path \o one) /\ Len(path \o one) = Len(path) + Len(one)
        /\ \A i \in 1..Len(path) : (path \o one)[i] = path[i]
        /\ \A i \in 1..Len(one) : (path \o one)[Len(path) + i] = one[i]
    BY <1>5, Joined
  <2>2. 1 \in 1..Len(one)
    BY <1>4
  <2>. QED
    BY <1>4, <1>7, <2>1, <2>2
<1>9. PushPath(path, <<Name(n)>>) = pushed
  BY <1>1, <1>3, <1>6, <1>7
<1>. QED
  BY <1>1, <1>8, <1>9

\* Peeling a plain pattern appends the names of the segments that it peels, each once, in order.
LEMMA PlainPeeling ==
    ASSUME base \in Seq(Bases), NEW p, IsAnchored(p), IsPlain(p)
    PROVE  /\ IsSequence(AnchorRoot(p)) /\ IsSequence(PeeledRoot(p))
           /\ Len(PeeledRoot(p)) = Len(AnchorRoot(p)) + (PeelCount(p) - RestStart(p))
           /\ \A i \in 1..Len(AnchorRoot(p)) : PeeledRoot(p)[i] = AnchorRoot(p)[i]
           /\ \A k \in 1..(PeelCount(p) - RestStart(p)) :
                  PeeledRoot(p)[Len(AnchorRoot(p)) + k] = AsName(p.segments[RestStart(p) + k])
<1>1. PICK anchor, a, b : anchor = AnchorRoot(p) /\ a = RestStart(p) /\ b = PeelCount(p)
  OBVIOUS
<1>2. IsSequence(anchor) /\ Len(anchor) \in Nat
  BY <1>1, AnchorOfPattern, AnchorLengths, Entries
<1>3. PICK pushed : Pushes(pushed, p, anchor) /\ PeeledFrom(anchor, p) = pushed[b]
  BY <1>1, PushesExist
<1>4. a \in Nat /\ b \in Nat /\ a <= b
  BY <1>1, PeelingStops
<1>. DEFINE Spells(n) ==
              /\ IsSequence(pushed[n]) /\ Len(pushed[n]) = Len(anchor) + (n - a)
              /\ \A i \in 1..Len(anchor) : pushed[n][i] = anchor[i]
              /\ \A k \in 1..(n - a) : pushed[n][Len(anchor) + k] = AsName(p.segments[a + k])
            Good == {n \in a..b : Spells(n)}
<1>5. a \in Good
  <2>1. pushed[a] = anchor /\ 1..(a - a) = {} /\ Len(anchor) = Len(anchor) + (a - a) /\ a \in a..b
    BY <1>1, <1>2, <1>3, <1>4 DEF Pushes
  <2>. QED
    BY <1>2, <2>1
<1>6. ASSUME NEW n \in (a + 1)..b, n - 1 \in Good PROVE n \in Good
  <2>1. PICK name : name = LiteralOf(p.segments[n])
    OBVIOUS
  <2>2. n \in DOMAIN p.segments /\ IsLiteral(p.segments[n])
    BY <1>1, PeeledSegments
  <2>3. Components(name) = <<Name(name)>> /\ Name(name) = AsName(p.segments[n])
    BY <2>1, <2>2 DEF IsPlain, AsName
  <2>4. pushed[n] = PushPath(pushed[n - 1], <<Name(name)>>)
    BY <1>1, <1>3, <2>1, <2>3 DEF Pushes
  <2>5. PICK before, after : before = pushed[n - 1] /\ after = pushed[n]
    OBVIOUS
  <2>6. /\ IsSequence(before) /\ Len(before) = Len(anchor) + ((n - 1) - a)
        /\ \A i \in 1..Len(anchor) : before[i] = anchor[i]
        /\ \A k \in 1..((n - 1) - a) : before[Len(anchor) + k] = AsName(p.segments[a + k])
    BY <1>6, <2>5
  <2>7. /\ IsSequence(after) /\ Len(after) = Len(before) + 1
        /\ \A i \in 1..Len(before) : after[i] = before[i]
        /\ after[Len(before) + 1] = AsName(p.segments[n])
    <3>1. after = PushPath(before, <<Name(name)>>) /\ IsSequence(before)
      BY <2>4, <2>5, <2>6
    <3>2. PICK pth : pth = PushPath(before, <<Name(name)>>)
      OBVIOUS
    <3>3. /\ IsSequence(pth) /\ Len(pth) = Len(before) + 1
          /\ \A i \in 1..Len(before) : pth[i] = before[i]
          /\ pth[Len(before) + 1] = Name(name)
      BY <3>1, <3>2, PushingAName
    <3>. QED
      BY <2>3, <3>1, <3>2, <3>3
  <2>8. n \in Nat /\ n - 1 >= a /\ Len(after) = Len(anchor) + (n - a)
    BY <1>2, <1>4, <2>6, <2>7
  <2>9. \A i \in 1..Len(anchor) : after[i] = anchor[i]
    <3>1. TAKE i \in 1..Len(anchor)
    <3>2. i \in 1..Len(before)
      BY <1>2, <1>4, <2>6, <2>8
    <3>. QED
      BY <2>6, <2>7, <3>2
  <2>10. \A k \in 1..(n - a) : after[Len(anchor) + k] = AsName(p.segments[a + k])
    <3>1. TAKE k \in 1..(n - a)
    <3>2. CASE k = n - a
      <4>1. Len(anchor) + k = Len(before) + 1 /\ a + k = n
        BY <1>2, <1>4, <2>6, <2>8, <3>2
      <4>. QED
        BY <2>7, <4>1
    <3>3. CASE k # n - a
      <4>1. k \in 1..((n - 1) - a)
        BY <1>4, <2>8, <3>3
      <4>2. Len(before) = Len(anchor) + ((n - 1) - a)
        BY <2>6
      <4>3. Len(anchor) + k \in 1..Len(before)
        BY <1>2, <1>4, <2>8, <4>1, <4>2
      <4>. QED
        BY <2>6, <2>7, <4>1, <4>3
    <3>. QED
      BY <3>2, <3>3
  <2>11. n \in a..b
    BY <1>4
  <2>. QED
    BY <2>5, <2>7, <2>8, <2>9, <2>10, <2>11
<1>7. b \in Good
  <2>. HIDE DEF Good
  <2>. QED
    BY <1>1, <1>3, <1>5, <1>6, PeelingInduction
<1>8. PeeledRoot(p) = pushed[b]
  BY <1>1, <1>3 DEF PeeledRoot
<1>9. Spells(b)
  BY <1>7
<1>. QED
  BY <1>1, <1>2, <1>8, <1>9

\* The peeled root and the rest spell what the anchor and the segments below it spell.
LEMMA PeelingSpells ==
    ASSUME base \in Seq(Bases), NEW p, IsAnchored(p), IsPlain(p)
    PROVE  LET written == SubSeq(p.segments, RestStart(p) + 1, Len(p.segments))
           IN /\ Fold(PeeledRoot(p)) \o Fold(Spelled(Rest(p)))
                     = Fold(AnchorRoot(p)) \o Fold(Spelled(written))
              /\ written # <<>> => Rest(p) # <<>>
<1>. DEFINE from == RestStart(p)
            n == PeelCount(p)
            segments == p.segments
            len == Len(segments)
            written == SubSeq(segments, from + 1, len)
<1>1. PICK anchor, path, rest, all :
          anchor = AnchorRoot(p) /\ path = PeeledRoot(p) /\ rest = Rest(p) /\ all = written
  OBVIOUS
<1>2. /\ from \in Nat /\ n \in Nat /\ len \in Nat /\ from <= n /\ n <= len
      /\ IsSequence(segments) /\ Peels(p, n)
  BY PeelingStops
<1>3. /\ IsSequence(anchor) /\ IsSequence(path) /\ Len(anchor) \in Nat /\ Len(path) \in Nat
      /\ Len(path) = Len(anchor) + (n - from)
      /\ \A i \in 1..Len(anchor) : path[i] = anchor[i]
      /\ \A k \in 1..(n - from) : path[Len(anchor) + k] = AsName(segments[from + k])
  BY <1>1, PlainPeeling, Entries
<1>. HIDE DEF from, n, segments
<1>4. /\ IsSequence(rest) /\ Len(rest) = len - n
      /\ \A k \in 1..(len - n) : rest[k] = segments[n + k]
  <2>1. n \in 0..len /\ rest = SubSeq(segments, n + 1, len)
    BY <1>1, <1>2 DEF Rest, n, segments
  <2>. QED
    BY <1>2, <2>1, Behind
<1>5. /\ IsSequence(all) /\ Len(all) = len - from
      /\ \A k \in 1..(len - from) : all[k] = segments[from + k]
  <2>1. from \in 0..len
    BY <1>2
  <2>. QED
    BY <1>1, <1>2, <2>1, Behind
<1>6. all # <<>> => rest # <<>>
  <2>. SUFFICES ASSUME Len(all) # 0 PROVE Len(rest) # 0
    BY <1>4, <1>5, Entries
  <2>1. from < len
    BY <1>2, <1>5
  <2>2. CASE n = from
    BY <1>2, <1>4, <2>1, <2>2
  <2>3. CASE n # from
    <3>1. n \in (from + 1)..n
      BY <1>2, <2>3
    <3>2. n < len
      BY <1>2, <3>1 DEF Peels, from, segments
    <3>. QED
      BY <1>2, <1>4, <3>2
  <2>. QED
    BY <2>2, <2>3
<1>7. PICK fa, fp, fr, fw : /\ fa = Fold(anchor) /\ fp = Fold(path)
                            /\ fr = Fold(Spelled(rest)) /\ fw = Fold(Spelled(all))
  OBVIOUS
<1>8. /\ IsSequence(fa) /\ Len(fa) = Len(anchor)
      /\ \A i \in 1..Len(anchor) : fa[i] = FoldComponent(anchor[i])
      /\ IsSequence(fp) /\ Len(fp) = Len(path)
      /\ \A i \in 1..Len(path) : fp[i] = FoldComponent(path[i])
  BY <1>3, <1>7, Folding
<1>9. /\ IsSequence(fr) /\ Len(fr) = len - n
      /\ \A k \in 1..(len - n) : fr[k] = FoldComponent(AsName(segments[n + k]))
  <2>1. /\ IsSequence(Spelled(rest)) /\ Len(Spelled(rest)) = len - n
        /\ \A k \in 1..(len - n) : Spelled(rest)[k] = AsName(rest[k])
    BY <1>4, Spelling
  <2>2. /\ IsSequence(fr) /\ Len(fr) = len - n
        /\ \A k \in 1..(len - n) : fr[k] = FoldComponent(Spelled(rest)[k])
    BY <1>7, <2>1, Folding
  <2>. QED
    BY <1>4, <2>1, <2>2
<1>10. /\ IsSequence(fw) /\ Len(fw) = len - from
       /\ \A k \in 1..(len - from) : fw[k] = FoldComponent(AsName(segments[from + k]))
  <2>1. /\ IsSequence(Spelled(all)) /\ Len(Spelled(all)) = len - from
        /\ \A k \in 1..(len - from) : Spelled(all)[k] = AsName(all[k])
    BY <1>5, Spelling
  <2>2. /\ IsSequence(fw) /\ Len(fw) = len - from
        /\ \A k \in 1..(len - from) : fw[k] = FoldComponent(Spelled(all)[k])
    BY <1>7, <2>1, Folding
  <2>. QED
    BY <1>5, <2>1, <2>2
<1>11. PICK left, right : left = fp \o fr /\ right = fa \o fw
  OBVIOUS
<1>12. /\ IsSequence(left) /\ Len(left) = Len(anchor) + (len - from)
       /\ \A i \in 1..Len(path) : left[i] = fp[i]
       /\ \A k \in 1..(len - n) : left[Len(path) + k] = fr[k]
  <2>1. /\ IsSequence(fp \o fr) /\ Len(fp \o fr) = Len(fp) + Len(fr)
        /\ \A i \in 1..Len(fp) : (fp \o fr)[i] = fp[i]
        /\ \A k \in 1..Len(fr) : (fp \o fr)[Len(fp) + k] = fr[k]
    <3>1. IsSequence(fp) /\ IsSequence(fr)
      BY <1>8, <1>9
    <3>. QED
      BY <3>1, Joined
  <2>2. Len(fp) = Len(path) /\ Len(fr) = len - n
        /\ Len(path) + (len - n) = Len(anchor) + (len - from)
    BY <1>2, <1>3, <1>8, <1>9
  <2>. QED
    BY <1>11, <2>1, <2>2
<1>13. /\ IsSequence(right) /\ Len(right) = Len(anchor) + (len - from)
       /\ \A i \in 1..Len(anchor) : right[i] = fa[i]
       /\ \A k \in 1..(len - from) : right[Len(anchor) + k] = fw[k]
  <2>1. /\ IsSequence(fa \o fw) /\ Len(fa \o fw) = Len(fa) + Len(fw)
        /\ \A i \in 1..Len(fa) : (fa \o fw)[i] = fa[i]
        /\ \A k \in 1..Len(fw) : (fa \o fw)[Len(fa) + k] = fw[k]
    <3>1. IsSequence(fa) /\ IsSequence(fw)
      BY <1>8, <1>10
    <3>. QED
      BY <3>1, Joined
  <2>. QED
    BY <1>8, <1>10, <1>11, <2>1
<1>14. ASSUME NEW i \in 1..Len(left) PROVE left[i] = right[i]
  <2>1. i \in Nat /\ i >= 1 /\ i <= Len(anchor) + (len - from)
    BY <1>2, <1>3, <1>12
  <2>2. CASE i <= Len(anchor)
    <3>1. i \in 1..Len(anchor) /\ i \in 1..Len(path)
      BY <1>2, <1>3, <2>1, <2>2
    <3>. QED
      BY <1>3, <1>8, <1>12, <1>13, <3>1
  <2>3. CASE i > Len(anchor) /\ i <= Len(path)
    <3>1. PICK k : k = i - Len(anchor)
      OBVIOUS
    <3>2. /\ k \in 1..(n - from) /\ k \in 1..(len - from) /\ i = Len(anchor) + k
          /\ i \in 1..Len(path)
      BY <1>2, <1>3, <2>1, <2>3, <3>1
    <3>3. left[i] = FoldComponent(AsName(segments[from + k]))
      BY <1>3, <1>8, <1>12, <3>2
    <3>4. right[i] = FoldComponent(AsName(segments[from + k]))
      BY <1>10, <1>13, <3>2
    <3>. QED
      BY <3>3, <3>4
  <2>4. CASE i > Len(path)
    <3>1. PICK k, l : k = i - Len(path) /\ l = i - Len(anchor)
      OBVIOUS
    <3>2. /\ k \in 1..(len - n) /\ i = Len(path) + k
          /\ l \in 1..(len - from) /\ i = Len(anchor) + l /\ n + k = from + l
      BY <1>2, <1>3, <2>1, <2>4, <3>1
    <3>3. left[i] = FoldComponent(AsName(segments[n + k]))
      BY <1>9, <1>12, <3>2
    <3>4. right[i] = FoldComponent(AsName(segments[from + l]))
      BY <1>10, <1>13, <3>2
    <3>. QED
      BY <3>2, <3>3, <3>4
  <2>. QED
    BY <1>3, <2>1, <2>2, <2>3, <2>4
<1>15. left = right
  BY <1>12, <1>13, <1>14, SameEntries
<1>. QED
  BY <1>1, <1>6, <1>7, <1>11, <1>15 DEF from, segments

-----------------------------------------------------------------------------
(* Interning *)

\* intern_root adds a root with a new key at the end, and answers with the one that has the key.
LEMMA Interning ==
    ASSUME Keyed, NEW path, Intern(path)
    PROVE  /\ Keyed'
           /\ Len(keys) \in Nat /\ Len(keys') \in Nat
           /\ Len(keys) <= Len(keys') /\ Len(keys') <= Len(keys) + 1
           /\ DOMAIN keys = 1..Len(keys) /\ DOMAIN keys' = 1..Len(keys')
           /\ DOMAIN roots = DOMAIN keys /\ DOMAIN roots' = DOMAIN keys'
           /\ \A i \in DOMAIN keys : keys'[i] = keys[i]
           /\ InternedAt(path) \in DOMAIN keys' /\ keys'[InternedAt(path)] = Fold(path)
           /\ \A i \in DOMAIN keys' \ DOMAIN keys : keys'[i] = Fold(path)
<1> DEFINE known == {i \in DOMAIN keys : keys[i] = Fold(path)}
<1>1. /\ Len(keys) \in Nat /\ Len(roots) = Len(keys)
      /\ DOMAIN keys = 1..Len(keys) /\ DOMAIN roots = 1..Len(keys)
  BY Entries DEF Keyed
<1>2. InternedAt(path) = IF known = {} THEN Len(keys) + 1 ELSE CHOOSE i \in known : TRUE
  BY DEF InternedAt, CanonKey
<1>3. CASE known = {}
  <2>1. InternedAt(path) = Len(keys) + 1 /\ InternedAt(path) \notin DOMAIN keys
    BY <1>1, <1>2, <1>3
  <2>2. keys' = Append(keys, Fold(path)) /\ roots' = Append(roots, path)
    BY <2>1 DEF Intern, CanonKey
  <2>3. /\ IsSequence(keys') /\ Len(keys') = Len(keys) + 1 /\ DOMAIN keys' = 1..(Len(keys) + 1)
        /\ \A i \in 1..Len(keys) : keys'[i] = keys[i]
        /\ keys'[Len(keys) + 1] = Fold(path)
    BY <2>2, Appended DEF Keyed
  <2>4. /\ IsSequence(roots') /\ Len(roots') = Len(keys) + 1 /\ DOMAIN roots' = 1..(Len(keys) + 1)
        /\ \A i \in 1..Len(keys) : roots'[i] = roots[i]
        /\ roots'[Len(keys) + 1] = path
    BY <1>1, <2>2, Appended DEF Keyed
  <2>5. \A i \in 1..Len(keys) : keys[i] # Fold(path)
    BY <1>1, <1>3
  <2>6. \A i \in DOMAIN keys' : keys'[i] = Fold(roots'[i])
    BY <1>1, <2>3, <2>4 DEF Keyed
  <2>7. \A i, j \in DOMAIN keys' : keys'[i] = keys'[j] => i = j
    <3>. SUFFICES ASSUME NEW i \in DOMAIN keys', NEW j \in DOMAIN keys', keys'[i] = keys'[j]
                  PROVE  i = j
      OBVIOUS
    <3>1. i \in 1..(Len(keys) + 1) /\ j \in 1..(Len(keys) + 1)
      BY <2>3
    <3>2. CASE i \in 1..Len(keys) /\ j \in 1..Len(keys)
      BY <1>1, <2>3, <3>2 DEF Keyed
    <3>3. CASE i = Len(keys) + 1 \/ j = Len(keys) + 1
      BY <1>1, <2>3, <2>5, <3>1, <3>3
    <3>. QED
      BY <1>1, <3>1, <3>2, <3>3
  <2>8. Keyed'
    BY <2>3, <2>4, <2>6, <2>7 DEF Keyed, IsSequence
  <2>. QED
    BY <1>1, <2>1, <2>3, <2>4, <2>8
<1>4. CASE known # {}
  <2>1. InternedAt(path) \in known
    BY <1>2, <1>4
  <2>2. UNCHANGED <<roots, keys>>
    BY <2>1 DEF Intern
  <2>3. Keyed'
    BY <2>2 DEF Keyed, IsSequence
  <2>. QED
    BY <1>1, <2>1, <2>2, <2>3
<1>. QED
  BY <1>3, <1>4

\* What a fault in a pattern is depends on the base alone.
LEMMA SameFaults ==
    ASSUME UNCHANGED base, NEW p
    PROVE  PatternError(p)' = PatternError(p)
BY DEF PatternError, AnchorError, PeeledRoot, AnchorRoot

\* Whether a query is acceptable depends on the calls alone.
LEMMA SameQuery ==
    ASSUME UNCHANGED calls
    PROVE  Acceptable' <=> Acceptable
<1>1. UNCHANGED <<supplied, base, pending, options>>
  BY DEF calls
<1>2. \A p : PatternError(p)' = PatternError(p)
  BY <1>1, SameFaults
<1>. QED
  BY <1>1, <1>2 DEF Acceptable, Written

\* What an acceptable query is, call by call.
LEMMA Demands ==
    ASSUME supplied \in Seq(Paths), pending \in Seq(Patterns)
    PROVE  Acceptable <=>
               /\ options.ring > 0 /\ pending # <<>>
               /\ \A i \in DOMAIN supplied : CanonError(supplied[i]) = "none"
               /\ \A i, j \in DOMAIN supplied : ~IsAncestor(Fold(supplied[i]), Fold(supplied[j]))
               /\ \A n \in DOMAIN pending : PatternError(pending[n]) = "none"
               /\ (\E n \in DOMAIN pending : pending[n].anchor = "relative") => supplied # <<>>
<1> DEFINE given == {supplied[i] : i \in DOMAIN supplied}
           wanted == {pending[n] : n \in DOMAIN pending}
<1>1. (given = {} <=> supplied = <<>>) /\ (wanted = {} <=> pending = <<>>)
  <2>1. (DOMAIN supplied = {} <=> supplied = <<>>) /\ (DOMAIN pending = {} <=> pending = <<>>)
    OBVIOUS
  <2>. QED
    BY <2>1
<1>2. Acceptable <=> /\ options.ring > 0 /\ wanted # {}
                     /\ \A path \in given : CanonError(path) = "none"
                     /\ \A a, b \in given : ~IsAncestor(Fold(a), Fold(b))
                     /\ \A p \in wanted : PatternError(p) = "none"
                     /\ (\E p \in wanted : p.anchor = "relative") => given # {}
  BY DEF Acceptable, Written
<1>. QED
  BY <1>1, <1>2

-----------------------------------------------------------------------------
(* The steps *)

\* A new builder.
LEMMA Empty == Init => BuilderInv
<1> SUFFICES ASSUME Init PROVE BuilderInv
  OBVIOUS
<1> USE DEF Init
<1>. QED
  BY Nothing DEF BuilderInv, Calls, Keyed, SuppliedFirst, SuppliedApart, Bound, Built, Faulted

\* The calls touch nothing that build() makes.
LEMMA CallsKeep ==
    ASSUME BuilderInv, phase = "calls",
           UNCHANGED <<phase, roots, keys, explicit, lowered, error>>,
           supplied' \in Seq(Paths), base' \in Seq(Bases), pending' \in Seq(Patterns),
           options' \in OptionSets \cup {DefaultOptions}
    PROVE  BuilderInv'
<1>. QED
  BY Nothing DEF BuilderInv, Calls, Keyed, SuppliedFirst, SuppliedApart, Bound, Built, Faulted,
              IsSequence

\* Every call that collects a query.
LEMMA CollectingKeeps ==
    ASSUME BuilderInv,
           \/ \E path \in Paths : AddRoot(path)
           \/ \E path \in Bases : SetBase(path)
           \/ \E p \in Patterns : AddPattern(p)
           \/ \E o \in OptionSets : SetOptions(o)
    PROVE  BuilderInv'
<1>1. supplied \in Seq(Paths) /\ base \in Seq(Bases) /\ pending \in Seq(Patterns)
      /\ options \in OptionSets \cup {DefaultOptions}
  BY DEF BuilderInv, Calls
<1>2. phase = "calls" /\ UNCHANGED <<phase, roots, keys, explicit, lowered, error>>
  BY DEF AddRoot, SetBase, AddPattern, SetOptions
<1>3. supplied' \in Seq(Paths) /\ base' \in Seq(Bases) /\ pending' \in Seq(Patterns)
      /\ options' \in OptionSets \cup {DefaultOptions}
  <2>1. ASSUME NEW path \in Paths, AddRoot(path)
        PROVE  supplied' \in Seq(Paths) /\ UNCHANGED <<base, pending, options>>
    BY <1>1, <2>1 DEF AddRoot
  <2>2. ASSUME NEW path \in Bases, SetBase(path)
        PROVE  base' \in Seq(Bases) /\ UNCHANGED <<supplied, pending, options>>
    BY <1>1, <2>2 DEF SetBase
  <2>3. ASSUME NEW p \in Patterns, AddPattern(p)
        PROVE  pending' \in Seq(Patterns) /\ UNCHANGED <<supplied, base, options>>
    BY <1>1, <2>3 DEF AddPattern
  <2>4. ASSUME NEW o \in OptionSets, SetOptions(o)
        PROVE  options' = o /\ UNCHANGED <<supplied, base, pending>>
    BY <2>4 DEF SetOptions
  <2>. QED
    BY <1>1, <2>1, <2>2, <2>3, <2>4
<1>. QED
  BY <1>2, <1>3, CallsKeep

\* Failing needs a fault, and leaves everything as it is.
LEMMA FailingKeeps ==
    ASSUME BuilderInv, NEW why, why # "none", Fail(why), ~Acceptable
    PROVE  BuilderInv'
<1>1. /\ UNCHANGED <<calls, supplied, base, pending, options, roots, keys, explicit, lowered>>
      /\ phase' = "failed" /\ error' = why
  BY DEF Fail, calls
<1>2. Calls'
  BY <1>1 DEF BuilderInv, Calls
<1>3. Keyed'
  BY <1>1 DEF BuilderInv, Keyed, IsSequence
<1>4. Bound'
  BY <1>1 DEF BuilderInv, Bound, IsSequence
<1>5. Faulted'
  BY <1>1, SameQuery DEF Faulted
<1>6. SuppliedFirst' /\ SuppliedApart' /\ Built'
  BY <1>1 DEF SuppliedFirst, SuppliedApart, Built
<1>. QED
  BY <1>2, <1>3, <1>4, <1>5, <1>6 DEF BuilderInv

\* build() begins.
LEMMA BuildKeeps ==
    ASSUME BuilderInv, Build
    PROVE  BuilderInv'
<1>1. CASE pending = <<>>
  <2>1. ~Acceptable
    BY <1>1, Demands DEF BuilderInv, Calls
  <2>. QED
    BY <1>1, <2>1, FailingKeeps DEF Build
<1>2. CASE pending # <<>> /\ options.ring = 0
  <2>1. ~Acceptable
    <3>1. ~(options.ring > 0)
      BY <1>2
    <3>. QED
      BY <3>1, Demands DEF BuilderInv, Calls
  <2>. QED
    BY <1>2, <2>1, FailingKeeps DEF Build
<1>3. CASE pending # <<>> /\ options.ring # 0
  <2>1. /\ phase = "calls" /\ phase' = "roots"
        /\ UNCHANGED <<supplied, base, pending, options, roots, keys, explicit, lowered, error>>
    BY <1>3 DEF calls, Build
  <2>2. roots = <<>> /\ keys = <<>> /\ explicit = 0 /\ lowered = <<>> /\ supplied \in Seq(Paths)
    BY <2>1 DEF BuilderInv, Calls
  <2>4. Calls'
    BY <1>3, <2>1, <2>2 DEF BuilderInv, Calls
  <2>5. Keyed' /\ Bound'
    BY <2>1, <2>2, Nothing DEF Keyed, Bound
  <2>6. SuppliedFirst'
    <3>1. Interned' = 0 /\ Known' = Len(<<>>)
      BY <2>1, <2>2 DEF Interned, Known
    <3>2. 1..Interned' = {} /\ 1..Known' = {} /\ Interned' <= Len(supplied) /\ Known' = 0
      BY <2>2, <3>1, Nothing
    <3>3. keys' = <<>> /\ supplied' = supplied /\ explicit' \in Nat
      BY <2>1, <2>2
    <3>4. Interned' <= Len(supplied') /\ Known' <= Len(keys')
      BY <3>2, <3>3, Nothing
    <3>. QED
      BY <3>2, <3>3, <3>4 DEF SuppliedFirst
  <2>7. SuppliedApart' /\ Built' /\ Faulted'
    BY <2>1 DEF SuppliedApart, Built, Faulted
  <2>. QED
    BY <2>4, <2>5, <2>6, <2>7 DEF BuilderInv
<1>. QED
  BY <1>1, <1>2, <1>3 DEF Build

\* One more supplied root interned.
LEMMA InternSuppliedKeeps ==
    ASSUME BuilderInv, InternSupplied
    PROVE  BuilderInv'
<1>1. PICK path : path = supplied[explicit + 1]
  OBVIOUS
<1>2. /\ supplied \in Seq(Paths) /\ pending \in Seq(Patterns)
      /\ explicit \in Nat /\ explicit < Len(supplied) /\ phase = "roots" /\ lowered = <<>>
      /\ Len(supplied) \in Nat /\ DOMAIN supplied = 1..Len(supplied)
      /\ Keyed /\ Calls /\ SuppliedFirst
  BY DEF BuilderInv, Calls, SuppliedFirst, InternSupplied
<1>3. explicit + 1 \in DOMAIN supplied
  BY <1>2
<1>4. CASE CanonError(path) # "none"
  <2>1. ~Acceptable
    BY <1>1, <1>2, <1>3, <1>4, Demands
  <2>2. Fail(CanonError(path))
    BY <1>1, <1>4 DEF InternSupplied
  <2>. QED
    BY <1>2, <1>4, <2>1, <2>2, FailingKeeps
<1>5. CASE CanonError(path) = "none"
  <2>1. /\ Intern(path) /\ explicit' = explicit + 1
        /\ UNCHANGED <<supplied, base, pending, options, phase, lowered, error>>
    BY <1>1, <1>5 DEF InternSupplied, calls
  <2>2. /\ Keyed' /\ Len(keys) \in Nat /\ Len(keys') \in Nat /\ Len(keys) <= Len(keys')
        /\ DOMAIN keys = 1..Len(keys) /\ DOMAIN keys' = 1..Len(keys')
        /\ \A i \in DOMAIN keys : keys'[i] = keys[i]
        /\ \E k \in DOMAIN keys' : keys'[k] = Fold(path)
        /\ \A k \in DOMAIN keys' \ DOMAIN keys : keys'[k] = Fold(path)
    BY <1>2, <2>1, Interning
  <2>3. SuppliedFirst'
    <3>1. /\ \A i \in 1..explicit : /\ CanonError(supplied[i]) = "none"
                                    /\ \E k \in DOMAIN keys : keys[k] = Fold(supplied[i])
          /\ \A k \in DOMAIN keys : \E i \in 1..explicit : keys[k] = Fold(supplied[i])
      BY <1>2, <2>2 DEF SuppliedFirst, Interned, Known
    <3>2. /\ phase' = "roots" /\ Interned' = explicit + 1 /\ Known' = Len(keys')
          /\ supplied' = supplied
      BY <1>2, <2>1 DEF Interned, Known
    <3>3. ASSUME NEW i \in 1..(explicit + 1)
          PROVE  /\ CanonError(supplied[i]) = "none"
                 /\ \E k \in DOMAIN keys' : keys'[k] = Fold(supplied[i])
      <4>1. CASE i \in 1..explicit
        <5>1. PICK k \in DOMAIN keys : keys[k] = Fold(supplied[i])
          BY <3>1, <4>1
        <5>2. k \in DOMAIN keys' /\ keys'[k] = keys[k]
          BY <2>2
        <5>. QED
          BY <3>1, <4>1, <5>1, <5>2
      <4>2. CASE i = explicit + 1
        BY <1>1, <1>5, <2>2, <4>2
      <4>. QED
        BY <1>2, <4>1, <4>2
    <3>4. ASSUME NEW k \in DOMAIN keys'
          PROVE  \E i \in 1..(explicit + 1) : keys'[k] = Fold(supplied[i])
      <4>1. CASE k \in DOMAIN keys
        <5>1. PICK i \in 1..explicit : keys[k] = Fold(supplied[i])
          BY <3>1, <4>1
        <5>2. i \in 1..(explicit + 1)
          BY <1>2
        <5>. QED
          BY <2>2, <4>1, <5>1, <5>2
      <4>2. CASE k \notin DOMAIN keys
        <5>1. keys'[k] = Fold(supplied[explicit + 1])
          BY <1>1, <2>2, <4>2
        <5>2. explicit + 1 \in 1..(explicit + 1)
          BY <1>2
        <5>. QED
          BY <5>1, <5>2
      <4>. QED
        BY <4>1, <4>2
    <3>5. explicit' \in Nat /\ Interned' <= Len(supplied') /\ Known' <= Len(keys')
      BY <1>2, <2>1, <2>2, <3>2
    <3>6. \A i \in 1..Interned' : /\ CanonError(supplied'[i]) = "none"
                                  /\ \E k \in 1..Known' : keys'[k] = Fold(supplied'[i])
      BY <2>2, <3>2, <3>3
    <3>7. \A k \in 1..Known' : \E i \in 1..Interned' : keys'[k] = Fold(supplied'[i])
      BY <2>2, <3>2, <3>4
    <3>. QED
      BY <3>5, <3>6, <3>7 DEF SuppliedFirst
  <2>4. Calls'
    BY <1>2, <2>1 DEF Calls
  <2>5. Bound'
    BY <1>2, <2>1, Nothing DEF Bound
  <2>6. SuppliedApart' /\ Built' /\ Faulted'
    BY <1>2, <2>1 DEF SuppliedApart, Built, Faulted
  <2>. QED
    BY <2>2, <2>3, <2>4, <2>5, <2>6 DEF BuilderInv
<1>. QED
  BY <1>4, <1>5

\* The supplied roots are checked for overlap.
LEMMA RejectNestedKeeps ==
    ASSUME BuilderInv, RejectNested
    PROVE  BuilderInv'
<1>1. /\ supplied \in Seq(Paths) /\ pending \in Seq(Patterns)
      /\ explicit = Len(supplied) /\ phase = "roots" /\ lowered = <<>>
      /\ Len(supplied) \in Nat /\ DOMAIN supplied = 1..Len(supplied)
      /\ Len(keys) \in Nat /\ DOMAIN keys = 1..Len(keys) /\ Len(roots) = Len(keys)
      /\ Keyed /\ Calls
  <2>1. /\ supplied \in Seq(Paths) /\ pending \in Seq(Patterns)
        /\ explicit = Len(supplied) /\ phase = "roots" /\ lowered = <<>> /\ Keyed /\ Calls
    BY DEF BuilderInv, Calls, RejectNested
  <2>2. Len(supplied) \in Nat /\ DOMAIN supplied = 1..Len(supplied)
    BY <2>1
  <2>3. Len(keys) \in Nat /\ DOMAIN keys = 1..Len(keys) /\ Len(roots) = Len(keys)
    BY <2>1, Entries DEF Keyed
  <2>. QED
    BY <2>1, <2>2, <2>3
<1>2. /\ \A i \in DOMAIN supplied : /\ CanonError(supplied[i]) = "none"
                                    /\ \E k \in DOMAIN keys : keys[k] = Fold(supplied[i])
      /\ \A k \in DOMAIN keys : \E i \in DOMAIN supplied : keys[k] = Fold(supplied[i])
  BY <1>1 DEF BuilderInv, SuppliedFirst, Interned, Known
<1>3. CASE Nested
  <2>1. PICK i \in DOMAIN keys, j \in DOMAIN keys : IsAncestor(keys[i], keys[j])
    BY <1>3 DEF Nested
  <2>2. ~Acceptable
    BY <1>1, <1>2, <2>1, Demands
  <2>3. Fail("nested roots")
    BY <1>3 DEF RejectNested
  <2>. QED
    BY <1>1, <2>2, <2>3, FailingKeeps
<1>4. CASE ~Nested
  <2>1. /\ explicit' = Len(keys) /\ phase' = "patterns"
        /\ UNCHANGED <<supplied, base, pending, options, roots, keys, lowered, error>>
    BY <1>1, <1>4 DEF RejectNested, calls
  <2>2. Calls'
    BY <1>1, <2>1 DEF Calls
  <2>3. Keyed'
    BY <1>1, <2>1 DEF Keyed, IsSequence
  <2>4. SuppliedFirst'
    <3>1. Interned' = Len(supplied) /\ Known' = Len(keys)
      BY <2>1 DEF Interned, Known
    <3>2. explicit' \in Nat /\ Interned' <= Len(supplied') /\ Known' <= Len(keys')
      BY <1>1, <2>1, <3>1
    <3>. QED
      BY <1>1, <1>2, <2>1, <3>1, <3>2 DEF SuppliedFirst
  <2>5. SuppliedApart'
    BY <1>1, <1>4, <2>1 DEF SuppliedApart, Nested
  <2>6. Bound'
    BY <1>1, <2>1, Nothing DEF Bound
  <2>7. Built' /\ Faulted'
    BY <2>1 DEF Built, Faulted
  <2>. QED
    BY <2>2, <2>3, <2>4, <2>5, <2>6, <2>7 DEF BuilderInv
<1>. QED
  BY <1>3, <1>4

\* One more pattern lowered.
LEMMA LowerPatternKeeps ==
    ASSUME BuilderInv, LowerPattern
    PROVE  BuilderInv'
<1>1. PICK p : p = pending[Len(lowered) + 1]
  OBVIOUS
<1>2. PICK path : path = PeeledRoot(p)
  OBVIOUS
<1>3. /\ supplied \in Seq(Paths) /\ pending \in Seq(Patterns)
      /\ explicit \in Nat /\ phase = "patterns" /\ Len(lowered) < Len(pending)
      /\ Len(lowered) \in Nat /\ DOMAIN lowered = 1..Len(lowered) /\ IsSequence(lowered)
      /\ Len(pending) \in Nat /\ DOMAIN pending = 1..Len(pending)
      /\ Keyed /\ Calls /\ SuppliedFirst /\ SuppliedApart /\ Bound
  BY Entries DEF BuilderInv, Calls, Bound, LowerPattern
<1>4. Len(lowered) + 1 \in DOMAIN pending
  BY <1>3
<1>5. CASE PatternError(p) # "none"
  <2>1. ~Acceptable
    BY <1>1, <1>3, <1>4, <1>5, Demands
  <2>2. Fail(PatternError(p))
    BY <1>1, <1>5 DEF LowerPattern, Written
  <2>3. PICK why : why = PatternError(p)
    OBVIOUS
  <2>. QED
    BY <1>3, <1>5, <2>1, <2>2, <2>3, FailingKeeps
<1>6. CASE PatternError(p) = "none"
  <2>1. UNCHANGED <<supplied, base, pending, options, phase, explicit, error>>
    BY <1>1, <1>6 DEF LowerPattern, Written, calls
  <2>2. /\ Keyed' /\ Len(keys) \in Nat /\ Len(keys') \in Nat /\ Len(keys) <= Len(keys')
        /\ DOMAIN keys = 1..Len(keys) /\ DOMAIN keys' = 1..Len(keys')
        /\ DOMAIN roots = DOMAIN keys /\ DOMAIN roots' = DOMAIN keys'
        /\ \A i \in DOMAIN keys : keys'[i] = keys[i]
    <3>1. CASE p.anchor = "relative"
      <4>1. UNCHANGED <<roots, keys>>
        BY <1>1, <1>6, <3>1 DEF LowerPattern, Written
      <4>2. Len(roots) = Len(keys) /\ IsSequence(roots) /\ IsSequence(keys)
        BY <1>3 DEF Keyed
      <4>. QED
        BY <1>3, <4>1, <4>2, Entries DEF Keyed, IsSequence
    <3>2. CASE p.anchor # "relative"
      <4>1. Intern(path)
        BY <1>1, <1>2, <1>6, <3>2 DEF LowerPattern, Written
      <4>. QED
        BY <1>3, <4>1, Interning
    <3>. QED
      BY <3>1, <3>2
  <2>3. PICK new : /\ lowered' = Append(lowered, new)
                   /\ IF p.anchor = "relative" THEN new.roots = 1..explicit
                      ELSE \E r \in DOMAIN roots' : new.roots = {r}
    <3>1. CASE p.anchor = "relative"
      <4>1. lowered' = Append(lowered, [segments |-> p.segments, case |-> CaseOf(p),
                                        roots |-> 1..explicit])
        BY <1>1, <1>6, <3>1 DEF LowerPattern, Written, RelativeRoots
      <4>. QED
        BY <3>1, <4>1
    <3>2. CASE p.anchor # "relative"
      <4>1. /\ Intern(path)
            /\ lowered' = Append(lowered, [segments |-> Rest(p), case |-> CaseOf(p),
                                           roots |-> {InternedAt(path)}])
        BY <1>1, <1>2, <1>6, <3>2 DEF LowerPattern, Written
      <4>2. InternedAt(path) \in DOMAIN roots'
        BY <1>3, <4>1, Interning
      <4>. QED
        BY <3>2, <4>1, <4>2
    <3>. QED
      BY <3>1, <3>2
  <2>4. /\ IsSequence(lowered') /\ Len(lowered') = Len(lowered) + 1
        /\ DOMAIN lowered' = 1..(Len(lowered) + 1)
        /\ \A n \in 1..Len(lowered) : lowered'[n] = lowered[n]
        /\ lowered'[Len(lowered) + 1] = new
    BY <1>3, <2>3, Appended
  <2>5. explicit <= Len(keys) /\ 1..explicit \subseteq DOMAIN keys
    <3>1. Known = explicit /\ Known <= Len(keys)
      BY <1>3 DEF SuppliedFirst, Known
    <3>. QED
      BY <1>3, <2>2, <3>1
  <2>6. Calls'
    BY <1>3, <2>1 DEF Calls
  <2>7. SuppliedFirst'
    <3>1. /\ Interned' = Len(supplied) /\ Known' = explicit
          /\ Interned = Len(supplied) /\ Known = explicit
      BY <1>3, <2>1 DEF Interned, Known
    <3>2. Interned' <= Len(supplied') /\ Known' <= Len(keys') /\ explicit' \in Nat
      BY <1>3, <2>1, <2>2, <2>5, <3>1 DEF SuppliedFirst
    <3>3. \A k \in 1..explicit : keys'[k] = keys[k]
      BY <2>2, <2>5
    <3>4. /\ \A i \in 1..Len(supplied) : /\ CanonError(supplied[i]) = "none"
                                         /\ \E k \in 1..explicit : keys[k] = Fold(supplied[i])
          /\ \A k \in 1..explicit : \E i \in 1..Len(supplied) : keys[k] = Fold(supplied[i])
      BY <1>3, <3>1 DEF SuppliedFirst
    <3>5. \A i \in 1..Interned' : /\ CanonError(supplied'[i]) = "none"
                                  /\ \E k \in 1..Known' : keys'[k] = Fold(supplied'[i])
      BY <2>1, <3>1, <3>3, <3>4
    <3>6. \A k \in 1..Known' : \E i \in 1..Interned' : keys'[k] = Fold(supplied'[i])
      BY <2>1, <3>1, <3>3, <3>4
    <3>. QED
      BY <3>2, <3>5, <3>6 DEF SuppliedFirst
  <2>8. SuppliedApart'
    BY <1>3, <2>1, <2>2, <2>5 DEF SuppliedApart
  <2>9. Bound'
    <3>1. Len(lowered') <= Len(pending')
      BY <1>3, <2>1, <2>4
    <3>2. DOMAIN roots \subseteq DOMAIN roots' /\ 1..explicit \subseteq DOMAIN roots'
      BY <2>2, <2>5
    <3>3. \A q : PatternError(q)' = PatternError(q)
      BY <2>1, SameFaults
    <3>4. ASSUME NEW n \in DOMAIN lowered'
          PROVE  /\ lowered'[n].roots \subseteq DOMAIN roots'
                 /\ PatternError(pending[n])' = "none"
                 /\ IF pending'[n].anchor = "relative" THEN lowered'[n].roots = 1..explicit'
                    ELSE \E r \in DOMAIN roots' : lowered'[n].roots = {r}
      <4>1. CASE n \in 1..Len(lowered)
        <5>1. /\ lowered'[n] = lowered[n] /\ PatternError(pending[n]) = "none"
              /\ lowered[n].roots \subseteq DOMAIN roots
              /\ IF pending[n].anchor = "relative" THEN lowered[n].roots = 1..explicit
                 ELSE \E r \in DOMAIN roots : lowered[n].roots = {r}
          BY <1>3, <2>4, <4>1 DEF Bound
        <5>2. PatternError(pending[n])' = "none"
          <6>1. PICK q : q = pending[n]
            OBVIOUS
          <6>2. PatternError(pending[n])' = PatternError(q)'
            BY <2>1, <6>1
          <6>. QED
            BY <3>3, <5>1, <6>1, <6>2
        <5>. QED
          BY <2>1, <3>2, <5>1, <5>2
      <4>2. CASE n = Len(lowered) + 1
        <5>1. pending'[n] = p /\ lowered'[n] = new
          BY <1>1, <2>1, <2>4, <4>2
        <5>2. PatternError(pending[n])' = PatternError(p)'
          BY <5>1
        <5>3. PatternError(pending[n])' = "none"
          BY <1>6, <3>3, <5>2
        <5>. QED
          BY <2>1, <2>3, <3>2, <5>1, <5>3
      <4>. QED
        BY <1>3, <2>4, <4>1, <4>2
    <3>. QED
      BY <1>3, <2>1, <2>4, <3>1, <3>4 DEF Bound
  <2>10. Built' /\ Faulted'
    BY <1>3, <2>1 DEF Built, Faulted
  <2>. QED
    BY <2>2, <2>6, <2>7, <2>8, <2>9, <2>10 DEF BuilderInv
<1>. QED
  BY <1>5, <1>6

\* The last checks. With every pattern lowered, no roots means no supplied ones and only relative
\* patterns, so the first of the two checks is the one that fails.
LEMMA ConcludeKeeps ==
    ASSUME BuilderInv, Conclude
    PROVE  BuilderInv'
<1>1. /\ supplied \in Seq(Paths) /\ pending \in Seq(Patterns) /\ pending # <<>>
      /\ phase = "patterns" /\ Len(lowered) = Len(pending)
      /\ Keyed /\ Calls /\ SuppliedFirst /\ SuppliedApart /\ Bound
  BY DEF BuilderInv, Calls, Conclude
<1>2. /\ Len(supplied) \in Nat /\ DOMAIN supplied = 1..Len(supplied) /\ Len(pending) \in Nat
      /\ DOMAIN pending = 1..Len(pending) /\ 1 \in DOMAIN pending
  BY <1>1
<1>3. CASE LacksRoot
  <2>1. explicit = 0 /\ \E n \in DOMAIN pending : pending[n].anchor = "relative"
    BY <1>3 DEF LacksRoot, Written
  <2>2. \A i \in 1..Len(supplied) : \E k \in 1..explicit : keys[k] = Fold(supplied[i])
    BY <1>1 DEF SuppliedFirst, Interned, Known
  <2>3. 1..explicit = {}
    BY <2>1
  <2>4. supplied = <<>>
    BY <1>1, <1>2, <2>2, <2>3
  <2>5. ~Acceptable
    BY <1>1, <2>1, <2>4, Demands
  <2>6. Fail("needs a root")
    BY <1>3 DEF Conclude
  <2>. QED
    BY <1>1, <2>5, <2>6, FailingKeeps
<1>4. CASE ~LacksRoot
  <2>1. roots # <<>>
    <3>1. SUFFICES ASSUME roots = <<>> PROVE FALSE
      OBVIOUS
    <3>2. DOMAIN roots = {} /\ Len(keys) = 0
      BY <1>1, <3>1, Nothing DEF Keyed
    <3>3. explicit = 0
      BY <1>1, <3>2 DEF SuppliedFirst, Known
    <3>4. DOMAIN lowered = 1..Len(lowered)
      BY <1>1, Entries DEF Bound
    <3>5. pending[1].anchor = "relative"
      BY <1>1, <1>2, <3>2, <3>4 DEF Bound
    <3>. QED
      BY <1>2, <1>4, <3>3, <3>5 DEF LacksRoot, Written
  <2>2. /\ phase' = "built"
        /\ UNCHANGED <<supplied, base, pending, options, roots, keys, explicit, lowered, error>>
    BY <1>4, <2>1 DEF Conclude, calls
  <2>3. Calls'
    BY <1>1, <2>2 DEF Calls
  <2>4. Keyed'
    BY <1>1, <2>2 DEF Keyed, IsSequence
  <2>5. SuppliedFirst' /\ SuppliedApart'
    BY <1>1, <2>2 DEF SuppliedFirst, SuppliedApart, Interned, Known
  <2>6. Bound'
    <3>1. \A q : PatternError(q)' = PatternError(q)
      BY <2>2, SameFaults
    <3>2. \A n \in DOMAIN lowered : PatternError(pending[n])' = "none"
      <4>1. TAKE n \in DOMAIN lowered
      <4>2. PICK q : q = pending[n]
        OBVIOUS
      <4>3. PatternError(pending[n])' = PatternError(q)' /\ PatternError(q) = "none"
        BY <1>1, <2>2, <4>2 DEF Bound
      <4>. QED
        BY <3>1, <4>3
    <3>. QED
      BY <1>1, <2>2, <3>2 DEF Bound, IsSequence
  <2>7. Built' /\ Faulted'
    BY <1>1, <1>4, <2>2 DEF Built, Faulted, LacksRoot, Written
  <2>. QED
    BY <2>3, <2>4, <2>5, <2>6, <2>7 DEF BuilderInv
<1>. QED
  BY <1>3, <1>4

-----------------------------------------------------------------------------
(* What follows *)

\* The invariant holds whatever is called and in whatever order.
THEOREM BuilderInvariance == Spec => []BuilderInv
<1>1. Init => BuilderInv
  BY Empty
<1>2. BuilderInv /\ [Next]_vars => BuilderInv'
  <2> SUFFICES ASSUME BuilderInv, [Next]_vars PROVE BuilderInv'
    OBVIOUS
  <2>1. CASE \/ \E path \in Paths : AddRoot(path)
             \/ \E path \in Bases : SetBase(path)
             \/ \E p \in Patterns : AddPattern(p)
             \/ \E o \in OptionSets : SetOptions(o)
    BY <2>1, CollectingKeeps
  <2>2. CASE Build
    BY <2>2, BuildKeeps
  <2>3. CASE InternSupplied
    BY <2>3, InternSuppliedKeeps
  <2>4. CASE RejectNested
    BY <2>4, RejectNestedKeeps
  <2>5. CASE LowerPattern
    BY <2>5, LowerPatternKeeps
  <2>6. CASE Conclude
    BY <2>6, ConcludeKeeps
  <2>7. CASE UNCHANGED vars
    <3>1. /\ UNCHANGED <<supplied, base, pending, options, phase, roots, keys, explicit, lowered,
                         error, calls>>
      BY <2>7 DEF vars, calls
    <3>2. Bound'
      <4>1. \A n \in DOMAIN lowered : PatternError(pending[n])' = PatternError(pending[n])
        <5>1. TAKE n \in DOMAIN lowered
        <5>2. PICK q : q = pending[n]
          OBVIOUS
        <5>3. PatternError(pending[n])' = PatternError(q)'
          BY <3>1, <5>2
        <5>. QED
          BY <3>1, <5>2, <5>3, SameFaults
      <4>. QED
        BY <3>1, <4>1 DEF BuilderInv, Bound, IsSequence
    <3>3. Faulted'
      BY <3>1, SameQuery DEF BuilderInv, Faulted
    <3>4. Calls' /\ Keyed'
      BY <3>1 DEF BuilderInv, Calls, Keyed, IsSequence
    <3>5. SuppliedFirst' /\ SuppliedApart' /\ Built'
      BY <3>1 DEF BuilderInv, SuppliedFirst, SuppliedApart, Built, Interned, Known, LacksRoot,
                  Written
    <3>. QED
      BY <3>2, <3>3, <3>4, <3>5 DEF BuilderInv
  <2>. QED
    BY <2>1, <2>2, <2>3, <2>4, <2>5, <2>6, <2>7 DEF Next
<1>. QED
  BY <1>1, <1>2, PTL DEF Spec

\* The roots that a pattern names exist, so the engine never indexes beyond them (builder.rs:331).
THEOREM BuilderTypeCorrect == Spec => []TypeOK
<1>1. BuilderInv => TypeOK
  <2> SUFFICES ASSUME BuilderInv PROVE TypeOK
    OBVIOUS
  <2>1. \A n \in DOMAIN pending : Written(n).parses \in BOOLEAN
    <3>1. \A n \in DOMAIN pending : pending[n] \in Patterns
      BY DEF BuilderInv, Calls
    <3>. QED
      BY <3>1, CallsAssumption DEF Written
  <2>. QED
    BY <2>1 DEF BuilderInv, Calls, Keyed, Bound, TypeOK
<1>. QED
  BY <1>1, BuilderInvariance, PTL

\* build() accepts exactly the queries that are acceptable in any order of their calls: it never
\* fails without a fault, its last two checks included (builder.rs:376), and lets none pass.
THEOREM AcceptanceCorrect == Spec => []AcceptsExactly
<1>1. BuilderInv => AcceptsExactly
  <2> SUFFICES ASSUME BuilderInv, phase = "built" PROVE Acceptable
    BY DEF BuilderInv, Faulted, AcceptsExactly
  <2>1. /\ supplied \in Seq(Paths) /\ pending \in Seq(Patterns) /\ pending # <<>>
        /\ options \in OptionSets \cup {DefaultOptions} /\ options.ring # 0
        /\ Len(lowered) = Len(pending) /\ ~LacksRoot
        /\ Keyed /\ SuppliedFirst /\ SuppliedApart /\ Bound
    BY DEF BuilderInv, Calls, Built
  <2>2. /\ Len(supplied) \in Nat /\ DOMAIN supplied = 1..Len(supplied)
        /\ DOMAIN pending = 1..Len(pending) /\ DOMAIN lowered = 1..Len(lowered)
    BY <2>1, Entries DEF Bound
  <2>3. options.ring > 0
    <3>1. options.ring \in Nat
      BY <2>1, CallsAssumption DEF DefaultOptions
    <3>. QED
      BY <2>1, <3>1
  <2>4. /\ explicit \in Nat
        /\ \A i \in 1..Len(supplied) : /\ CanonError(supplied[i]) = "none"
                                       /\ \E k \in 1..explicit : keys[k] = Fold(supplied[i])
        /\ \A k \in 1..explicit : \E i \in 1..Len(supplied) : keys[k] = Fold(supplied[i])
    BY <2>1 DEF SuppliedFirst, Interned, Known
  <2>5. \A i, j \in DOMAIN supplied : ~IsAncestor(Fold(supplied[i]), Fold(supplied[j]))
    <3>1. TAKE i, j \in DOMAIN supplied
    <3>2. PICK k \in 1..explicit : keys[k] = Fold(supplied[i])
      BY <2>2, <2>4
    <3>3. PICK l \in 1..explicit : keys[l] = Fold(supplied[j])
      BY <2>2, <2>4
    <3>4. CASE k # l
      BY <2>1, <3>2, <3>3, <3>4 DEF SuppliedApart
    <3>5. CASE k = l
      <4>1. Len(Fold(supplied[i])) \in Nat /\ Fold(supplied[i]) = Fold(supplied[j])
        BY <2>1, <3>2, <3>3, <3>5, KeysOfPaths, Entries
      <4>. QED
        BY <4>1 DEF IsAncestor
    <3>. QED
      BY <3>4, <3>5
  <2>6. \A n \in DOMAIN pending : PatternError(pending[n]) = "none"
    BY <2>1, <2>2 DEF Bound
  <2>7. (\E n \in DOMAIN pending : pending[n].anchor = "relative") => supplied # <<>>
    <3>1. SUFFICES ASSUME NEW n \in DOMAIN pending, pending[n].anchor = "relative",
                          supplied = <<>>
                   PROVE  FALSE
      OBVIOUS
    <3>2. explicit # 0
      BY <2>1, <3>1 DEF LacksRoot, Written
    <3>3. 1 \in 1..explicit
      BY <2>4, <3>2
    <3>4. PICK i \in 1..Len(supplied) : TRUE
      BY <2>4, <3>3
    <3>. QED
      BY <2>2, <3>1, <3>4, Nothing
  <2>. QED
    BY <2>1, <2>2, <2>3, <2>4, <2>5, <2>6, <2>7, Demands
<1>. QED
  BY <1>1, BuilderInvariance, PTL

\* The keys of the supplied roots are sequences.
LEMMA SuppliedKeys ==
    ASSUME BuilderInv, phase = "built"
    PROVE  \A r \in 1..explicit : IsSequence(keys[r]) /\ r \in DOMAIN keys
<1>1. supplied \in Seq(Paths) /\ SuppliedFirst /\ Keyed
  BY DEF BuilderInv, Calls
<1>2. /\ explicit \in Nat /\ explicit <= Len(keys)
      /\ \A k \in 1..explicit : \E i \in 1..Len(supplied) : keys[k] = Fold(supplied[i])
  BY <1>1 DEF SuppliedFirst, Interned, Known
<1>3. Len(keys) \in Nat /\ DOMAIN keys = 1..Len(keys)
  BY <1>1, Entries DEF Keyed
<1>. TAKE r \in 1..explicit
<1>4. PICK i \in 1..Len(supplied) : keys[r] = Fold(supplied[i])
  BY <1>2
<1>5. supplied[i] \in Paths
  BY <1>1
<1>. QED
  BY <1>2, <1>3, <1>4, <1>5, KeysOfPaths

\* A pattern reaches a directory through one root only (builder.rs:312, 412): roots differ by
\* their keys, and of the roots that one pattern is bound to, none lies in another.
THEOREM RootsCorrect == Spec => []OneRootPerDirectory
<1>1. BuilderInv => OneRootPerDirectory
  <2> SUFFICES ASSUME BuilderInv PROVE OneRootPerDirectory
    OBVIOUS
  <2>1. Keyed /\ SuppliedApart /\ Bound /\ Calls
    BY DEF BuilderInv
  <2>2. RootsAreDistinct
    <3>1. DOMAIN roots = DOMAIN keys
      BY <2>1, Entries DEF Keyed
    <3>. QED
      BY <2>1, <3>1 DEF Keyed, RootsAreDistinct
  <2>3. ASSUME phase = "built", NEW n \in DOMAIN lowered,
               NEW r \in lowered[n].roots, NEW s \in lowered[n].roots,
               SubSeq(keys[s], 1, Min({Len(keys[r]), Len(keys[s])})) = keys[r]
        PROVE  r = s
    <3>1. CASE pending[n].anchor = "relative"
      <4>1. r \in 1..explicit /\ s \in 1..explicit
        BY <2>1, <2>3, <3>1 DEF Bound
      <4>2. IsSequence(keys[r]) /\ IsSequence(keys[s]) /\ r \in DOMAIN keys /\ s \in DOMAIN keys
        BY <2>3, <4>1, SuppliedKeys
      <4>3. keys[r] = keys[s] \/ IsAncestor(keys[r], keys[s])
        BY <2>3, <4>2, PrefixOfKeys
      <4>4. CASE keys[r] = keys[s]
        BY <2>1, <4>2, <4>4 DEF Keyed
      <4>5. CASE IsAncestor(keys[r], keys[s])
        BY <2>1, <2>3, <4>1, <4>5 DEF SuppliedApart
      <4>. QED
        BY <4>3, <4>4, <4>5
    <3>2. CASE pending[n].anchor # "relative"
      BY <2>1, <2>3, <3>2 DEF Bound
    <3>. QED
      BY <3>1, <3>2
  <2>. QED
    BY <2>2, <2>3 DEF OneRootPerDirectory
<1>. QED
  BY <1>1, BuilderInvariance, PTL

\* A relative pattern is bound to the roots that were supplied, all of them and no other, whatever
\* roots the patterns before and after it brought along (builder.rs:345).
THEOREM RelativeBindingsCorrect == Spec => []RelativeBindsToSupplied
<1>1. BuilderInv => RelativeBindsToSupplied
  <2> SUFFICES ASSUME BuilderInv, phase = "built",
                      NEW n \in DOMAIN lowered, pending[n].anchor = "relative"
               PROVE  {keys[r] : r \in lowered[n].roots}
                          = {Fold(supplied[i]) : i \in DOMAIN supplied}
    BY DEF RelativeBindsToSupplied, Written
  <2>1. lowered[n].roots = 1..explicit
    BY DEF BuilderInv, Bound
  <2>2. DOMAIN supplied = 1..Len(supplied)
    BY DEF BuilderInv, Calls
  <2>3. /\ \A i \in 1..Len(supplied) : \E k \in 1..explicit : keys[k] = Fold(supplied[i])
        /\ \A k \in 1..explicit : \E i \in 1..Len(supplied) : keys[k] = Fold(supplied[i])
    BY DEF BuilderInv, SuppliedFirst, Interned, Known
  <2>4. {keys[r] : r \in 1..explicit} = {Fold(supplied[i]) : i \in 1..Len(supplied)}
    <3>1. ASSUME NEW k \in 1..explicit
          PROVE  keys[k] \in {Fold(supplied[i]) : i \in 1..Len(supplied)}
      <4>1. PICK i \in 1..Len(supplied) : keys[k] = Fold(supplied[i])
        BY <2>3
      <4>. QED
        BY <4>1
    <3>2. ASSUME NEW i \in 1..Len(supplied)
          PROVE  Fold(supplied[i]) \in {keys[r] : r \in 1..explicit}
      <4>1. PICK k \in 1..explicit : keys[k] = Fold(supplied[i])
        BY <2>3
      <4>. QED
        BY <4>1
    <3>. QED
      BY <3>1, <3>2
  <2>. QED
    BY <2>1, <2>2, <2>4
<1>. QED
  BY <1>1, BuilderInvariance, PTL

-----------------------------------------------------------------------------
(* How a pattern is bound *)

\* Each pattern lowered so far has its case rule; an anchored one has what peeling left, and its
\* root the key of what peeling made.
Lowered ==
    phase \in {"patterns", "built"} =>
        \A n \in DOMAIN lowered :
            /\ lowered[n].case = CaseOf(pending[n])
            /\ pending[n].anchor # "relative" =>
                   /\ lowered[n].segments = Rest(pending[n])
                   /\ \A r \in lowered[n].roots : keys[r] = Fold(PeeledRoot(pending[n]))

\* The peeled root and the case rule depend on the calls alone.
LEMMA SameLowering ==
    ASSUME UNCHANGED <<base, options>>, NEW p
    PROVE  CaseOf(p)' = CaseOf(p) /\ PeeledRoot(p)' = PeeledRoot(p)
BY DEF CaseOf, PeeledRoot, AnchorRoot

\* What is lowered stays.
LEMMA LoweredStays ==
    ASSUME Lowered, BuilderInv, phase \in {"patterns", "built"},
           UNCHANGED <<base, options, pending>>,
           \A i \in DOMAIN keys : keys'[i] = keys[i],
           NEW n \in DOMAIN lowered, lowered'[n] = lowered[n]
    PROVE  /\ lowered'[n].case = CaseOf(pending[n])'
           /\ pending'[n].anchor # "relative" =>
                  /\ lowered'[n].segments = Rest(pending[n])
                  /\ \A r \in lowered'[n].roots : keys'[r] = Fold(PeeledRoot(pending[n])')
<1>1. PICK p : p = pending[n]
  OBVIOUS
<1>2. /\ CaseOf(pending[n])' = CaseOf(p) /\ PeeledRoot(pending[n])' = PeeledRoot(p)
  <2>1. CaseOf(pending[n])' = CaseOf(p)' /\ PeeledRoot(pending[n])' = PeeledRoot(p)'
    BY <1>1
  <2>. QED
    BY <2>1, SameLowering
<1>3. lowered[n].roots \subseteq DOMAIN keys
  BY Entries DEF BuilderInv, Bound, Keyed
<1>4. /\ lowered[n].case = CaseOf(p)
      /\ p.anchor # "relative" =>
             /\ lowered[n].segments = Rest(p)
             /\ \A r \in lowered[n].roots : keys[r] = Fold(PeeledRoot(p))
  BY <1>1 DEF Lowered
<1>. QED
  BY <1>1, <1>2, <1>3, <1>4

\* Lowering a pattern.
LEMMA LowerPatternLowers ==
    ASSUME Lowered, BuilderInv, LowerPattern
    PROVE  Lowered'
<1>1. PICK m, p, path : m = Len(lowered) + 1 /\ p = pending[m] /\ path = PeeledRoot(p)
  OBVIOUS
<1>2. Keyed /\ IsSequence(lowered) /\ phase = "patterns"
  BY DEF BuilderInv, Bound, LowerPattern
<1>3. CASE PatternError(p) # "none"
  <2>1. phase' = "failed"
    BY <1>1, <1>3 DEF LowerPattern, Written, Fail
  <2>. QED
    BY <2>1 DEF Lowered
<1>4. CASE PatternError(p) = "none"
  <2>1. UNCHANGED <<supplied, base, pending, options, phase, explicit, error>>
    BY <1>1, <1>4 DEF LowerPattern, Written, calls
  <2>2. PICK new : /\ lowered' = Append(lowered, new) /\ new.case = CaseOf(p)
                   /\ \A i \in DOMAIN keys : keys'[i] = keys[i]
                   /\ p.anchor # "relative" => /\ new.segments = Rest(p)
                                               /\ \A r \in new.roots : keys'[r] = Fold(path)
    <3>1. CASE p.anchor = "relative"
      <4>1. PICK new : new = [segments |-> p.segments, case |-> CaseOf(p), roots |-> RelativeRoots]
        OBVIOUS
      <4>2. new.case = CaseOf(p)
        BY <4>1
      <4>3. lowered' = Append(lowered, new) /\ UNCHANGED keys
        BY <1>1, <1>4, <3>1, <4>1 DEF LowerPattern, Written
      <4>. QED
        BY <3>1, <4>2, <4>3
    <3>2. CASE p.anchor # "relative"
      <4>1. PICK new : new = [segments |-> Rest(p), case |-> CaseOf(p),
                              roots |-> {InternedAt(path)}]
        OBVIOUS
      <4>2. new.case = CaseOf(p) /\ new.segments = Rest(p) /\ new.roots = {InternedAt(path)}
        BY <4>1
      <4>3. lowered' = Append(lowered, new) /\ Intern(path)
        BY <1>1, <1>4, <3>2, <4>1 DEF LowerPattern, Written
      <4>4. (\A i \in DOMAIN keys : keys'[i] = keys[i]) /\ keys'[InternedAt(path)] = Fold(path)
        BY <1>2, <4>3, Interning
      <4>. QED
        BY <4>2, <4>3, <4>4
    <3>. QED
      BY <3>1, <3>2
  <2>3. /\ DOMAIN lowered = 1..Len(lowered) /\ DOMAIN lowered' = 1..(Len(lowered) + 1)
        /\ \A n \in 1..Len(lowered) : lowered'[n] = lowered[n]
        /\ lowered'[m] = new /\ Len(lowered) \in Nat
    BY <1>1, <1>2, <2>2, Appended
  <2>4. ASSUME NEW n \in DOMAIN lowered'
        PROVE  /\ lowered'[n].case = CaseOf(pending[n])'
               /\ pending'[n].anchor # "relative" =>
                      /\ lowered'[n].segments = Rest(pending[n])
                      /\ \A r \in lowered'[n].roots : keys'[r] = Fold(PeeledRoot(pending[n])')
    <3>1. CASE n \in DOMAIN lowered
      <4>1. lowered'[n] = lowered[n]
        BY <2>3, <3>1
      <4>. QED
        BY <1>2, <2>1, <2>2, <3>1, <4>1, LoweredStays
    <3>2. CASE n \notin DOMAIN lowered
      <4>1. n = m /\ pending[n] = p /\ pending' = pending
        BY <1>1, <2>1, <2>3, <3>2
      <4>2. CaseOf(pending[n])' = CaseOf(p)' /\ PeeledRoot(pending[n])' = PeeledRoot(p)'
        BY <4>1
      <4>3. CaseOf(pending[n])' = CaseOf(p) /\ PeeledRoot(pending[n])' = path
        BY <1>1, <2>1, <4>2, SameLowering
      <4>. QED
        BY <2>2, <2>3, <4>1, <4>3
    <3>. QED
      BY <3>1, <3>2
  <2>5. \A n \in DOMAIN lowered' : Rest(pending[n])' = Rest(pending[n])
    BY <2>1
  <2>6. \A n \in DOMAIN lowered' : Fold(PeeledRoot(pending[n]))' = Fold(PeeledRoot(pending[n])')
    OBVIOUS
  <2>. QED
    BY <2>4, <2>5, <2>6 DEF Lowered
<1>. QED
  BY <1>3, <1>4

\* Patterns are lowered to what they say, at every step of build().
THEOREM LoweringInvariance == Spec => []Lowered
<1>1. Init => Lowered
  BY DEF Init, Lowered
<1>2. Lowered /\ BuilderInv /\ [Next]_vars => Lowered'
  <2> SUFFICES ASSUME Lowered, BuilderInv, [Next]_vars PROVE Lowered'
    OBVIOUS
  <2>1. CASE LowerPattern
    BY <2>1, LowerPatternLowers
  <2>2. CASE phase' \notin {"patterns", "built"}
    BY <2>2 DEF Lowered
  <2>3. CASE RejectNested /\ phase' = "patterns"
    <3>1. lowered' = <<>>
      BY <2>3 DEF RejectNested, Fail, BuilderInv, Calls
    <3>. QED
      BY <3>1, Nothing DEF Lowered
  <2>4. CASE /\ phase \in {"patterns", "built"}
             /\ UNCHANGED <<base, options, pending, keys, lowered>>
    <3>1. ASSUME NEW n \in DOMAIN lowered'
          PROVE  /\ lowered'[n].case = CaseOf(pending[n])'
                 /\ pending'[n].anchor # "relative" =>
                        /\ lowered'[n].segments = Rest(pending[n])
                        /\ \A r \in lowered'[n].roots : keys'[r] = Fold(PeeledRoot(pending[n])')
      BY <2>4, LoweredStays
    <3>2. \A n \in DOMAIN lowered' : Rest(pending[n])' = Rest(pending[n])
      BY <2>4
    <3>3. \A n \in DOMAIN lowered' : Fold(PeeledRoot(pending[n]))' = Fold(PeeledRoot(pending[n])')
      OBVIOUS
    <3>. QED
      BY <3>1, <3>2, <3>3 DEF Lowered
  <2>5. CASE Conclude /\ phase' = "built"
    <3>1. /\ phase \in {"patterns", "built"}
          /\ UNCHANGED <<base, options, pending, keys, lowered>>
      BY <2>5 DEF Conclude, Fail, calls
    <3>. QED
      BY <2>4, <3>1
  <2>6. CASE UNCHANGED vars
    <3>1. UNCHANGED <<phase, base, options, pending, keys, lowered>>
      BY <2>6 DEF vars, calls
    <3>. QED
      BY <2>2, <2>4, <3>1
  <2>7. CASE \/ \E path \in Paths : AddRoot(path)
             \/ \E path \in Bases : SetBase(path)
             \/ \E p \in Patterns : AddPattern(p)
             \/ \E o \in OptionSets : SetOptions(o)
             \/ Build \/ InternSupplied
    <3>1. phase' \notin {"patterns", "built"}
      BY <2>7 DEF AddRoot, SetBase, AddPattern, SetOptions, Build, InternSupplied, Fail
    <3>. QED
      BY <2>2, <3>1
  <2>8. CASE RejectNested
    BY <2>2, <2>3, <2>8 DEF RejectNested, Fail
  <2>9. CASE Conclude
    BY <2>2, <2>5, <2>9 DEF Conclude, Fail
  <2>. QED
    BY <2>1, <2>6, <2>7, <2>8, <2>9 DEF Next
<1>. QED
  BY <1>1, <1>2, BuilderInvariance, PTL DEF Spec

\* A lowered pattern is anchored, or relative.
LEMMA LoweredAreAnchored ==
    ASSUME BuilderInv, phase \in {"patterns", "built"}, NEW n \in DOMAIN lowered,
           pending[n].anchor # "relative"
    PROVE  IsAnchored(pending[n]) /\ \E r : lowered[n].roots = {r}
<1>1. Len(lowered) <= Len(pending) /\ pending \in Seq(Patterns) /\ IsSequence(lowered)
      /\ PatternError(pending[n]) = "none" /\ \E r \in DOMAIN roots : lowered[n].roots = {r}
  BY DEF BuilderInv, Bound, Calls
<1>2. n \in 1..Len(pending)
  BY <1>1, Entries
<1>3. pending[n] \in Patterns
  BY <1>1, <1>2
<1>. QED
  BY <1>1, <1>3 DEF IsAnchored

\* Of the case rules of a pattern and of the query, the first that is set wins, and the dialect's
\* where none is.
LEMMA FirstRuleSet ==
    ASSUME NEW p \in Patterns
    PROVE  LET usual == IF p.dialect = "win" THEN "insensitive" ELSE "sensitive"
               rules == <<p.case, options.case, usual>>
           IN CaseOf(p) = rules[Min({i \in 1..3 : rules[i] # Unset})]
<1>1. PICK own, query, usual : /\ own = p.case /\ query = options.case
                               /\ usual = IF p.dialect = "win" THEN "insensitive" ELSE "sensitive"
  OBVIOUS
<1>2. usual # Unset /\ DefaultCase(p.dialect) = usual
  BY <1>1, CallsAssumption DEF DefaultCase, Unset
<1>3. PICK rules : rules = <<own, query, usual>>
  OBVIOUS
<1>4. rules[1] = own /\ rules[2] = query /\ rules[3] = usual
  BY <1>3
<1>5. PICK S : S = {i \in 1..3 : rules[i] # Unset}
  OBVIOUS
<1>6. 3 \in S /\ \A i \in S : i \in {1, 2, 3}
  BY <1>2, <1>4, <1>5
<1>7. ASSUME NEW m \in S, \A i \in S : m <= i PROVE Min(S) = m
  <2>1. \A i \in S : (\A j \in S : i <= j) => i = m
    <3>1. TAKE i \in S
    <3>. SUFFICES ASSUME \A j \in S : i <= j PROVE i = m
      OBVIOUS
    <3>2. i <= m /\ m <= i /\ i \in {1, 2, 3} /\ m \in {1, 2, 3}
      BY <1>6, <1>7
    <3>. QED
      BY <3>2
  <2>. QED
    BY <1>7, <2>1 DEF Min
<1>8. rules[Min(S)] = IF own # Unset THEN own ELSE IF query # Unset THEN query ELSE usual
  <2>1. CASE own # Unset
    <3>1. 1 \in S /\ \A i \in S : 1 <= i
      BY <1>4, <1>5, <1>6, <2>1
    <3>2. Min(S) = 1
      BY <1>7, <3>1
    <3>. QED
      BY <1>4, <2>1, <3>2
  <2>2. CASE own = Unset /\ query # Unset
    <3>1. 2 \in S /\ \A i \in S : 2 <= i
      BY <1>4, <1>5, <1>6, <2>2
    <3>2. Min(S) = 2
      BY <1>7, <3>1
    <3>. QED
      BY <1>4, <2>2, <3>2
  <2>3. CASE own = Unset /\ query = Unset
    <3>1. \A i \in S : 3 <= i
      BY <1>4, <1>5, <1>6, <2>3
    <3>2. Min(S) = 3
      BY <1>6, <1>7, <3>1
    <3>. QED
      BY <1>4, <2>3, <3>2
  <2>. QED
    BY <2>1, <2>2, <2>3
<1>9. CaseOf(p) = rules[Min(S)]
  BY <1>1, <1>2, <1>8 DEF CaseOf
<1>. QED
  BY <1>1, <1>3, <1>5, <1>9

\* Patterns bind as they were written (builder.rs:331, 345): a relative one to the supplied roots,
\* an anchored one to one root, its anchor or a directory below it, with the case rule it asked
\* for, whatever was called before and in between.
THEOREM BindingsCorrect == Spec => []BindsAsWritten
<1>1. BuilderInv /\ Lowered /\ RelativeBindsToSupplied => BindsAsWritten
  <2>. SUFFICES ASSUME BuilderInv, Lowered, phase = "built", NEW n \in DOMAIN lowered
                PROVE  LET p == Written(n)
                           usual == IF p.dialect = "win" THEN "insensitive" ELSE "sensitive"
                           rules == <<p.case, options.case, usual>>
                           anchor == Fold(AnchorRoot(p))
                       IN /\ lowered[n].case = rules[Min({i \in 1..3 : rules[i] # Unset})]
                          /\ p.anchor # "relative" =>
                                 \E r \in lowered[n].roots :
                                     /\ lowered[n].roots = {r}
                                     /\ NamesNoDrive(p) =>
                                            keys[r] = anchor \/ IsAncestor(anchor, keys[r])
    BY DEF BindsAsWritten
  <2>1. PICK p : p = pending[n]
    OBVIOUS
  <2>2. base \in Seq(Bases) /\ pending \in Seq(Patterns) /\ Len(lowered) = Len(pending)
        /\ IsSequence(lowered)
    BY DEF BuilderInv, Calls, Built, Bound
  <2>3. p \in Patterns
    <3>1. n \in 1..Len(pending)
      BY <2>2, Entries
    <3>. QED
      BY <2>1, <2>2, <3>1
  <2>4. lowered[n].case = CaseOf(p)
    BY <2>1 DEF Lowered
  <2>5. ASSUME p.anchor # "relative"
        PROVE  \E r \in lowered[n].roots :
                   /\ lowered[n].roots = {r}
                   /\ NamesNoDrive(p) => \/ keys[r] = Fold(AnchorRoot(p))
                                         \/ IsAncestor(Fold(AnchorRoot(p)), keys[r])
    <3>1. IsAnchored(p) /\ \E r : lowered[n].roots = {r}
      BY <2>1, <2>5, LoweredAreAnchored
    <3>2. PICK r : lowered[n].roots = {r}
      BY <3>1
    <3>3. keys[r] = Fold(PeeledRoot(p))
      BY <2>1, <2>5, <3>2 DEF Lowered
    <3>4. NamesNoDrive(p) => \/ keys[r] = Fold(AnchorRoot(p))
                             \/ IsAncestor(Fold(AnchorRoot(p)), keys[r])
      BY <2>2, <3>1, <3>3, KeysStayBelow
    <3>. QED
      BY <3>2, <3>4
  <2>6. Written(n) = p
    BY <2>1 DEF Written
  <2>. QED
    BY <2>3, <2>4, <2>5, <2>6, FirstRuleSet
<1>. QED
  BY <1>1, BuilderInvariance, LoweringInvariance, RelativeBindingsCorrect, PTL

\* Peeling neither drops a segment nor adds one (builder.rs:412): the root that a pattern opens
\* and the segments left to match spell what was written, for any number of segments, and one is
\* always left.
THEOREM PeelingCorrect == Spec => []PeelingSpellsThePattern
<1>1. BuilderInv /\ Lowered => PeelingSpellsThePattern
  <2>. SUFFICES ASSUME BuilderInv, Lowered, phase = "built", NEW n \in DOMAIN lowered,
                       Written(n).anchor # "relative", IsPlain(Written(n))
                PROVE  RootAndRestSpell(n)
    BY DEF PeelingSpellsThePattern
  <2>1. PICK p : p = pending[n] /\ Written(n) = p
    BY DEF Written
  <2>2. base \in Seq(Bases)
    BY DEF BuilderInv, Calls
  <2>3. IsAnchored(p) /\ IsPlain(p)
    BY <2>1, LoweredAreAnchored
  <2>4. lowered[n].segments = Rest(p) /\ \A r \in lowered[n].roots : keys[r] = Fold(PeeledRoot(p))
    BY <2>1 DEF Lowered
  <2>5. PICK written : written = SubSeq(p.segments, RestStart(p) + 1, Len(p.segments))
    OBVIOUS
  <2>6. /\ Fold(PeeledRoot(p)) \o Fold(Spelled(Rest(p)))
               = Fold(AnchorRoot(p)) \o Fold(Spelled(written))
        /\ written # <<>> => Rest(p) # <<>>
    BY <2>2, <2>3, <2>5, PeelingSpells
  <2>7. \A r \in lowered[n].roots :
            /\ keys[r] \o Fold(Spelled(lowered[n].segments))
                   = Fold(AnchorRoot(p)) \o Fold(Spelled(written))
            /\ written # <<>> => lowered[n].segments # <<>>
    BY <2>4, <2>6
  <2>. QED
    BY <2>1, <2>5, <2>7 DEF RootAndRestSpell
<1>. QED
  BY <1>1, BuilderInvariance, LoweringInvariance, PTL
=============================================================================
