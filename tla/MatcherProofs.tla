---------------------------- MODULE MatcherProofs ----------------------------
(***************************************************************************)
(* Proofs about the matcher's operators (syntax/matcher.rs,                *)
(* syntax/set.rs): what its recursion computes, as a list of sets of       *)
(* places, and that pruning loses no match, for every pattern and path.    *)
(***************************************************************************)
EXTENDS Matcher, WellFoundedInduction, SequenceTheorems, TLAPS

-----------------------------------------------------------------------------
(* Induction over sets of numbers *)

Smaller == OpToRel(<, Nat)

\* A set of naturals that is not empty has a least member.
LEMMA Least ==
    ASSUME NEW T, T \subseteq Nat, T # {}
    PROVE  \E m \in T : \A n \in T : m <= n
<1>1. PICK m \in T : \A n \in T : ~(<<n, m>> \in Smaller)
  <2>1. PICK R : R = Smaller
    OBVIOUS
  <2>2. IsWellFoundedOn(R, Nat)
    BY <2>1, NatLessThanWellFounded DEF Smaller
  <2>. QED
    BY <2>1, <2>2, WFMin
<1>2. ASSUME NEW n \in T, n < m PROVE FALSE
  <2>1. n \in Nat /\ m \in Nat /\ <<n, m>> \in Nat \X Nat
    OBVIOUS
  <2>2. <<n, m>> \in Smaller
    BY <1>2, <2>1 DEF Smaller, OpToRel
  <2>. QED
    BY <1>1, <2>2
<1>. QED
  BY <1>2

\* A set of naturals that is not empty and has a bound has a greatest member.
LEMMA Greatest ==
    ASSUME NEW b \in Nat, NEW T, T \subseteq 0..b, T # {}
    PROVE  \E m \in T : \A n \in T : n <= m
<1>1. PICK S : S = {b - n : n \in T}
  OBVIOUS
<1>2. S \subseteq Nat /\ S # {}
  <2>1. ASSUME NEW n \in T PROVE b - n \in Nat
    <3>1. n \in 0..b
      OBVIOUS
    <3>. QED
      BY <3>1
  <2>. QED
    BY <1>1, <2>1
<1>3. PICK k \in S : \A l \in S : k <= l
  BY <1>2, Least
<1>4. PICK m \in T : k = b - m
  BY <1>1, <1>3
<1>5. ASSUME NEW n \in T PROVE n <= m
  <2>1. b - n \in S
    BY <1>1
  <2>2. b - m <= b - n /\ m \in Nat /\ n \in Nat
    BY <1>3, <1>4, <2>1
  <2>. QED
    BY <2>2
<1>. QED
  BY <1>5

\* A set that holds 0, and with each natural the next, holds them all.
LEMMA SetInduction ==
    ASSUME NEW T, 0 \in T, \A n \in Nat : n \in T => n + 1 \in T
    PROVE  Nat \subseteq T
<1>. SUFFICES ASSUME Nat \ T # {} PROVE FALSE
  OBVIOUS
<1>1. PICK m \in Nat \ T : \A n \in Nat \ T : m <= n
  <2>1. PICK S : S = Nat \ T
    OBVIOUS
  <2>. QED
    BY <2>1, Least
<1>2. m # 0 /\ m - 1 \in Nat
  BY <1>1
<1>3. m - 1 \in T
  BY <1>1, <1>2
<1>. QED
  BY <1>1, <1>2, <1>3

-----------------------------------------------------------------------------
(* Backtracking: a list of sets of places, each computed from the next *)

Steps(n, S) == [1..n -> [S -> S]]

IsList(list, n, S, last, step) ==
    /\ list \in [0..n -> S] /\ list[n] = last
    /\ \A i \in 0..(n - 1) : list[i] = step[i + 1][list[i + 1]]

\* Such a list exists, whatever the steps are.
LEMMA ListExists ==
    ASSUME NEW n \in Nat, NEW S, NEW last \in S, NEW step \in Steps(n, S)
    PROVE  \E list : IsList(list, n, S, last, step)
<1> USE DEF Steps, IsList
<1> DEFINE Ends(d, list) ==
      /\ list \in [(n - d)..n -> S] /\ list[n] = last
      /\ \A i \in (n - d)..(n - 1) : list[i] = step[i + 1][list[i + 1]]
<1> DEFINE T == {d \in Nat : d <= n => \E list : Ends(d, list)}
<1>1. 0 \in T
  <2>1. Ends(0, [i \in n..n |-> last])
    OBVIOUS
  <2>. QED
    BY <2>1
<1>2. ASSUME NEW d \in Nat, d \in T
      PROVE  d + 1 \in T
  <2> SUFFICES ASSUME d + 1 <= n
               PROVE  \E list : Ends(d + 1, list)
    BY <1>2
  <2>1. PICK list : Ends(d, list)
    BY <1>2
  <2> DEFINE m == n - d
             longer == [i \in (m - 1)..n |-> IF i = m - 1 THEN step[m][list[m]] ELSE list[i]]
  <2>2. m \in 1..n /\ list[m] \in S /\ n - (d + 1) = m - 1
    BY <2>1
  <2>3. step[m][list[m]] \in S
    BY <2>2
  <2>4. longer \in [(m - 1)..n -> S] /\ longer[n] = last
    BY <2>1, <2>2, <2>3
  <2>5. ASSUME NEW i \in (m - 1)..(n - 1)
        PROVE  longer[i] = step[i + 1][longer[i + 1]]
    <3>1. CASE i = m - 1
      <4>1. i + 1 = m /\ longer[m] = list[m]
        BY <2>2, <3>1
      <4>. QED
        BY <2>2, <3>1, <4>1
    <3>2. CASE i # m - 1
      <4>1. longer[i] = list[i] /\ longer[i + 1] = list[i + 1] /\ i \in (n - d)..(n - 1)
        BY <2>2, <3>2
      <4>. QED
        BY <2>1, <4>1
    <3>. QED
      BY <3>1, <3>2
  <2>6. Ends(d + 1, longer)
    BY <2>2, <2>4, <2>5
  <2>. QED
    BY <2>6
<1>3. n \in T
  <2> HIDE DEF T
  <2>. QED
    BY <1>1, <1>2, SetInduction
<1>4. PICK list : Ends(n, list)
  BY <1>3
<1>. QED
  BY <1>4

-----------------------------------------------------------------------------
(* Scanning: what a text yields piece by piece, from each place on *)

\* Each place is followed by a later one.
Onward(next, n) == \A k \in 1..n : next[k] \in (k + 1)..(n + 1)

\* d joins the pieces from each place on.
Pieced(d, n, piece, next) ==
    d = [k \in 1..(n + 1) |-> IF k > n THEN <<>> ELSE piece[k] \o d[next[k]]]

\* So does the list that a scan of pieces makes, whatever they are and where each ends.
LEMMA PiecesExist ==
    ASSUME NEW n \in Nat, NEW piece, NEW next, Onward(next, n)
    PROVE  \E d : Pieced(d, n, piece, next)
<1>. DEFINE Body(d, k) == IF k > n THEN <<>> ELSE piece[k] \o d[next[k]]
            Behind(m) == (n + 1 - m)..(n + 1)
            T == {m \in Nat : m <= n => \E d : d = [k \in Behind(m) |-> Body(d, k)]}
<1>1. 0 \in T
  <2>. DEFINE d == [k \in Behind(0) |-> <<>>]
  <2>1. \A k \in Behind(0) : k > n
    OBVIOUS
  <2>2. d = [k \in Behind(0) |-> Body(d, k)]
    BY <2>1
  <2>. QED
    BY <2>2
<1>2. ASSUME NEW m \in Nat, m \in T PROVE m + 1 \in T
  <2>. SUFFICES ASSUME m + 1 <= n PROVE \E d : d = [k \in Behind(m + 1) |-> Body(d, k)]
    <3>. HIDE DEF Behind, Body
    <3>. QED
      OBVIOUS
  <2>0. m <= n
    OBVIOUS
  <2>1. PICK c : c = [k \in Behind(m) |-> Body(c, k)]
    <3>. HIDE DEF Behind, Body
    <3>. QED
      BY <1>2, <2>0
  <2>. DEFINE d == [k \in Behind(m + 1) |-> IF k = n - m THEN Body(c, k) ELSE c[k]]
  <2>2. ASSUME NEW k \in Behind(m + 1) PROVE d[k] = Body(d, k)
    <3>1. CASE k > n
      <4>1. k \in Behind(m) /\ k # n - m
        BY <3>1
      <4>2. c[k] = <<>>
        BY <2>1, <3>1, <4>1
      <4>. QED
        BY <3>1, <4>1, <4>2
    <3>2. CASE ~(k > n)
      <4>1. k \in 1..n /\ next[k] \in Behind(m) /\ next[k] # n - m /\ next[k] \in Behind(m + 1)
        <5>1. k \in 1..n /\ k >= n - m
          BY <3>2
        <5>2. next[k] \in (k + 1)..(n + 1)
          BY <5>1 DEF Onward
        <5>. QED
          BY <5>1, <5>2
      <4>2. d[next[k]] = c[next[k]]
        BY <4>1
      <4>3. d[k] = Body(c, k)
        <5>1. CASE k = n - m
          BY <5>1
        <5>2. CASE k # n - m
          <6>1. k \in Behind(m)
            BY <5>2
          <6>2. c[k] = Body(c, k)
            BY <2>1, <6>1
          <6>. QED
            BY <5>2, <6>2
        <5>. QED
          BY <5>1, <5>2
      <4>4. Body(c, k) = piece[k] \o c[next[k]] /\ Body(d, k) = piece[k] \o d[next[k]]
        BY <3>2
      <4>. QED
        BY <4>2, <4>3, <4>4
    <3>. QED
      BY <3>1, <3>2
  <2>3. d = [k \in Behind(m + 1) |-> d[k]]
    OBVIOUS
  <2>4. d = [k \in Behind(m + 1) |-> Body(d, k)]
    <3>. HIDE DEF d, Body, Behind
    <3>. QED
      BY <2>2, <2>3
  <2>. QED
    BY <2>4
<1>3. n \in T
  <2>. HIDE DEF T
  <2>. QED
    BY <1>1, <1>2, SetInduction
<1>4. Behind(n) = 1..(n + 1)
  OBVIOUS
<1>5. \E d : d = [k \in Behind(n) |-> Body(d, k)]
  <2>. HIDE DEF Behind, Body
  <2>. QED
    BY <1>3
<1>. HIDE DEF Behind
<1>. QED
  BY <1>4, <1>5 DEF Pieced

\* What the pieces are made of, the list is.
LEMMA PiecesJoin ==
    ASSUME NEW n \in Nat, NEW piece, NEW next, Onward(next, n), NEW d, Pieced(d, n, piece, next),
           NEW U, \A k \in 1..n : piece[k] \in Seq(U)
    PROVE  \A k \in 1..(n + 1) : d[k] \in Seq(U)
<1>. DEFINE T == {m \in Nat : m <= n => \A k \in (n + 1 - m)..(n + 1) : d[k] \in Seq(U)}
<1>1. d[n + 1] = <<>> /\ \A k \in 1..n : d[k] = piece[k] \o d[next[k]]
  <2>1. n + 1 \in 1..(n + 1) /\ n + 1 > n /\ \A k \in 1..n : k \in 1..(n + 1) /\ ~(k > n)
    OBVIOUS
  <2>. QED
    BY <2>1 DEF Pieced
<1>2. 0 \in T
  <2>1. \A k \in (n + 1 - 0)..(n + 1) : k = n + 1
    OBVIOUS
  <2>2. <<>> \in Seq(U)
    OBVIOUS
  <2>3. \A k \in (n + 1 - 0)..(n + 1) : d[k] \in Seq(U)
    <3>1. TAKE k \in (n + 1 - 0)..(n + 1)
    <3>2. d[k] = <<>>
      BY <1>1, <2>1
    <3>. QED
      BY <2>2, <3>2
  <2>. QED
    BY <2>3
<1>3. ASSUME NEW m \in Nat, m \in T PROVE m + 1 \in T
  <2>. SUFFICES ASSUME m + 1 <= n, NEW k \in (n + 1 - (m + 1))..(n + 1) PROVE d[k] \in Seq(U)
    OBVIOUS
  <2>1. \A l \in (n + 1 - m)..(n + 1) : d[l] \in Seq(U)
    BY <1>3
  <2>2. CASE k \in (n + 1 - m)..(n + 1)
    BY <2>1, <2>2
  <2>3. CASE k = n - m
    <3>1. k \in 1..n /\ next[k] \in (k + 1)..(n + 1)
      BY <2>3 DEF Onward
    <3>2. next[k] \in (n + 1 - m)..(n + 1)
      BY <2>3, <3>1
    <3>3. piece[k] \in Seq(U) /\ d[next[k]] \in Seq(U) /\ d[k] = piece[k] \o d[next[k]]
      BY <1>1, <2>1, <3>1, <3>2
    <3>. QED
      BY <3>3, ConcatProperties
  <2>. QED
    BY <2>2, <2>3
<1>4. n \in T
  <2>. HIDE DEF T
  <2>. QED
    BY <1>2, <1>3, SetInduction
<1>5. \A k \in 1..(n + 1) : k \in (n + 1 - n)..(n + 1)
  OBVIOUS
<1>. QED
  BY <1>4, <1>5

-----------------------------------------------------------------------------
(* The matcher *)

\* The places the tokens of an arm match from.
LEMMA ArmPlaces ==
    ASSUME NEW cps, NEW arm \in Seq(SimpleTokens(cps)), NEW text, Len(text) \in Nat, NEW rule
    PROVE  \E places \in [0..Len(arm) -> SUBSET (0..Len(text))] :
              /\ places[Len(arm)] = {Len(text)}
              /\ \A n \in 0..(Len(arm) - 1) :
                     places[n] = SimpleThen(arm[n + 1], places[n + 1], text, rule)
              /\ MatchArm(arm, text, rule) <=> 0 \in places[0]
<1> DEFINE S == SUBSET (0..Len(text))
           step == [n \in 1..Len(arm) |-> [behind \in S |-> SimpleThen(arm[n], behind, text, rule)]]
           Is(places) ==
              places = [n \in 0..Len(arm) |-> IF n = Len(arm) THEN {Len(text)}
                                    ELSE SimpleThen(arm[n + 1], places[n + 1], text, rule)]
           chosen == CHOOSE places : Is(places)
<1>1. ASSUME NEW n \in 1..Len(arm), NEW behind
      PROVE  SimpleThen(arm[n], behind, text, rule) \in S
  <2>1. arm[n] \in SimpleTokens(cps)
    OBVIOUS
  <2>2. arm[n].token \in {"literal", "any", "star"}
    BY <2>1 DEF SimpleTokens, Literal, AnyChar, Star
  <2>. QED
    BY <2>2 DEF SimpleThen
<1>2. Len(arm) \in Nat /\ {Len(text)} \in S
  OBVIOUS
<1>3. step \in Steps(Len(arm), S)
  BY <1>1 DEF Steps
<1>4. PICK list : IsList(list, Len(arm), S, {Len(text)}, step)
  <2> HIDE DEF step, S
  <2>. QED
    BY <1>2, <1>3, ListExists
<1>5. Is(list)
  <2>1. ASSUME NEW n \in 0..(Len(arm) - 1)
        PROVE  list[n] = SimpleThen(arm[n + 1], list[n + 1], text, rule)
    <3>1. n + 1 \in 1..Len(arm) /\ n + 1 \in 0..Len(arm)
      OBVIOUS
    <3>. QED
      BY <1>4, <3>1 DEF IsList
  <2>2. \A n \in 0..Len(arm) : n # Len(arm) => n \in 0..(Len(arm) - 1)
    OBVIOUS
  <2>3. \A n \in 0..Len(arm) :
            list[n] = IF n = Len(arm) THEN {Len(text)}
                                      ELSE SimpleThen(arm[n + 1], list[n + 1], text, rule)
    BY <1>4, <2>1, <2>2 DEF IsList
  <2>. QED
    BY <1>4, <2>3 DEF IsList
<1>6. Is(chosen)
  BY <1>5, Zenon
<1>7. PICK places : Is(places) /\ (MatchArm(arm, text, rule) <=> 0 \in places[0])
  <2>1. MatchArm(arm, text, rule) <=> 0 \in chosen[0]
    BY DEF MatchArm
  <2>. QED
    BY <1>6, <2>1, Zenon
<1>8. places \in [0..Len(arm) -> S]
  <2>1. \A n \in 0..Len(arm) : n # Len(arm) => n + 1 \in 1..Len(arm)
    OBVIOUS
  <2>. QED
    BY <1>1, <1>2, <1>7, <2>1
<1>9. \A n \in 0..(Len(arm) - 1) :
          places[n] = SimpleThen(arm[n + 1], places[n + 1], text, rule)
  BY <1>7
<1>10. places[Len(arm)] = {Len(text)}
  BY <1>7
<1>. QED
  BY <1>7, <1>8, <1>9, <1>10, Zenon

\* And those the tokens of a segment match from.
LEMMA SegmentPlaces ==
    ASSUME NEW cps, NEW tokens \in Seq(Tokens(cps)), NEW text, Len(text) \in Nat, NEW rule
    PROVE  \E places \in [0..Len(tokens) -> SUBSET (0..Len(text))] :
              /\ places[Len(tokens)] = {Len(text)}
              /\ \A n \in 0..(Len(tokens) - 1) :
                     places[n] = TokenThen(tokens[n + 1], places[n + 1], text, rule)
              /\ MatchSegment(tokens, text, rule) <=> 0 \in places[0]
<1> DEFINE S == SUBSET (0..Len(text))
           step == [n \in 1..Len(tokens) |->
                       [behind \in S |-> TokenThen(tokens[n], behind, text, rule)]]
           Is(places) ==
              places = [n \in 0..Len(tokens) |-> IF n = Len(tokens) THEN {Len(text)}
                                    ELSE TokenThen(tokens[n + 1], places[n + 1], text, rule)]
           chosen == CHOOSE places : Is(places)
<1>1. ASSUME NEW n \in 1..Len(tokens), NEW behind
      PROVE  TokenThen(tokens[n], behind, text, rule) \in S
  <2>1. tokens[n] \in Tokens(cps)
    OBVIOUS
  <2>2. CASE tokens[n] \in SimpleTokens(cps)
    <3>1. tokens[n].token \in {"literal", "any", "star"}
      BY <2>2 DEF SimpleTokens, Literal, AnyChar, Star
    <3>. QED
      BY <3>1 DEF TokenThen, SimpleThen
  <2>3. CASE tokens[n].token = "alt"
    BY <2>3 DEF TokenThen, MatchArmThen
  <2>. QED
    BY <2>1, <2>2, <2>3 DEF Tokens
<1>2. Len(tokens) \in Nat /\ {Len(text)} \in S
  OBVIOUS
<1>3. step \in Steps(Len(tokens), S)
  BY <1>1 DEF Steps
<1>4. PICK list : IsList(list, Len(tokens), S, {Len(text)}, step)
  <2> HIDE DEF step, S
  <2>. QED
    BY <1>2, <1>3, ListExists
<1>5. Is(list)
  <2>1. ASSUME NEW n \in 0..(Len(tokens) - 1)
        PROVE  list[n] = TokenThen(tokens[n + 1], list[n + 1], text, rule)
    <3>1. n + 1 \in 1..Len(tokens) /\ n + 1 \in 0..Len(tokens)
      OBVIOUS
    <3>. QED
      BY <1>4, <3>1 DEF IsList
  <2>2. \A n \in 0..Len(tokens) : n # Len(tokens) => n \in 0..(Len(tokens) - 1)
    OBVIOUS
  <2>3. \A n \in 0..Len(tokens) :
            list[n] = IF n = Len(tokens) THEN {Len(text)}
                                      ELSE TokenThen(tokens[n + 1], list[n + 1], text, rule)
    BY <1>4, <2>1, <2>2 DEF IsList
  <2>. QED
    BY <1>4, <2>3 DEF IsList
<1>6. Is(chosen)
  BY <1>5, Zenon
<1>7. PICK places : Is(places) /\ (MatchSegment(tokens, text, rule) <=> 0 \in places[0])
  <2>1. MatchSegment(tokens, text, rule) <=> 0 \in chosen[0]
    BY DEF MatchSegment
  <2>. QED
    BY <1>6, <2>1, Zenon
<1>8. places \in [0..Len(tokens) -> S]
  <2>1. \A n \in 0..Len(tokens) : n # Len(tokens) => n + 1 \in 1..Len(tokens)
    OBVIOUS
  <2>. QED
    BY <1>1, <1>2, <1>7, <2>1
<1>9. \A n \in 0..(Len(tokens) - 1) :
          places[n] = TokenThen(tokens[n + 1], places[n + 1], text, rule)
  BY <1>7
<1>10. places[Len(tokens)] = {Len(text)}
  BY <1>7
<1>. QED
  BY <1>7, <1>8, <1>9, <1>10, Zenon

\* And those the segments of a pattern match from.
LEMMA PathPlaces ==
    ASSUME NEW parts, NEW pattern \in Seq(parts), NEW names, Len(names) \in Nat, NEW rule
    PROVE  \E places \in [0..Len(pattern) -> SUBSET (0..Len(names))] :
              /\ places[Len(pattern)] = {Len(names)}
              /\ \A n \in 0..(Len(pattern) - 1) :
                     places[n] = SegmentThen(pattern[n + 1], places[n + 1], names, rule)
              /\ MatchPath(pattern, names, rule) <=> 0 \in places[0]
<1> DEFINE S == SUBSET (0..Len(names))
           step == [n \in 1..Len(pattern) |->
                       [behind \in S |-> SegmentThen(pattern[n], behind, names, rule)]]
           Is(places) ==
              places = [n \in 0..Len(pattern) |-> IF n = Len(pattern) THEN {Len(names)}
                                    ELSE SegmentThen(pattern[n + 1], places[n + 1], names, rule)]
           chosen == CHOOSE places : Is(places)
<1>1. ASSUME NEW n \in 1..Len(pattern), NEW behind
      PROVE  SegmentThen(pattern[n], behind, names, rule) \in S
  BY DEF SegmentThen
<1>2. Len(pattern) \in Nat /\ {Len(names)} \in S
  OBVIOUS
<1>3. step \in Steps(Len(pattern), S)
  BY <1>1 DEF Steps
<1>4. PICK list : IsList(list, Len(pattern), S, {Len(names)}, step)
  <2> HIDE DEF step, S
  <2>. QED
    BY <1>2, <1>3, ListExists
<1>5. Is(list)
  <2>1. ASSUME NEW n \in 0..(Len(pattern) - 1)
        PROVE  list[n] = SegmentThen(pattern[n + 1], list[n + 1], names, rule)
    <3>1. n + 1 \in 1..Len(pattern) /\ n + 1 \in 0..Len(pattern)
      OBVIOUS
    <3>. QED
      BY <1>4, <3>1 DEF IsList
  <2>2. \A n \in 0..Len(pattern) : n # Len(pattern) => n \in 0..(Len(pattern) - 1)
    OBVIOUS
  <2>3. \A n \in 0..Len(pattern) :
            list[n] = IF n = Len(pattern) THEN {Len(names)}
                                      ELSE SegmentThen(pattern[n + 1], list[n + 1], names, rule)
    BY <1>4, <2>1, <2>2 DEF IsList
  <2>. QED
    BY <1>4, <2>3 DEF IsList
<1>6. Is(chosen)
  BY <1>5, Zenon
<1>7. PICK places : Is(places) /\ (MatchPath(pattern, names, rule) <=> 0 \in places[0])
  <2>1. MatchPath(pattern, names, rule) <=> 0 \in chosen[0]
    BY DEF MatchPath
  <2>. QED
    BY <1>6, <2>1, Zenon
<1>8. places \in [0..Len(pattern) -> S]
  <2>1. \A n \in 0..Len(pattern) : n # Len(pattern) => n + 1 \in 1..Len(pattern)
    OBVIOUS
  <2>. QED
    BY <1>1, <1>2, <1>7, <2>1
<1>9. \A n \in 0..(Len(pattern) - 1) :
          places[n] = SegmentThen(pattern[n + 1], places[n + 1], names, rule)
  BY <1>7
<1>10. places[Len(pattern)] = {Len(names)}
  BY <1>7
<1>. QED
  BY <1>7, <1>8, <1>9, <1>10, Zenon

-----------------------------------------------------------------------------
(* Texts within a text *)

\* Which of two code points is the pattern's makes no difference.
LEMMA CpEqSymmetric ==
    ASSUME NEW a, NEW b, NEW rule
    PROVE  CpEq(a, b, rule) <=> CpEq(b, a, rule)
  BY DEF CpEq

\* A run of literals takes a place for each, and leaves the rest to the tokens behind it.
LEMMA LiteralRun ==
    ASSUME NEW tokens, Len(tokens) \in Nat, NEW text, Len(text) \in Nat, NEW rule,
           NEW places \in [0..Len(tokens) -> SUBSET (0..Len(text))],
           \A n \in 0..(Len(tokens) - 1) :
               places[n] = TokenThen(tokens[n + 1], places[n + 1], text, rule),
           NEW first \in Nat, NEW k \in Nat, first + k <= Len(tokens),
           \A j \in 1..k : tokens[first + j].token = "literal"
    PROVE  \A p \in Nat :
              p \in places[first] <=>
                  /\ p + k \in places[first + k]
                  /\ \A j \in 1..k : CpEq(tokens[first + j].cp, text[p + j], rule)
<1> DEFINE Taken(m) == \A p \in Nat :
              p \in places[first] <=>
                  /\ p + m \in places[first + m]
                  /\ \A j \in 1..m : CpEq(tokens[first + j].cp, text[p + j], rule)
           T == {m \in Nat : m <= k => Taken(m)}
<1>1. 0 \in T
  OBVIOUS
<1>2. ASSUME NEW m \in Nat, m \in T
      PROVE  m + 1 \in T
  <2> SUFFICES ASSUME m + 1 <= k
               PROVE  Taken(m + 1)
    <3> HIDE DEF Taken
    <3>. QED
      OBVIOUS
  <2>1. Taken(m)
    BY <1>2
  <2>2. PICK tok : tok = tokens[first + m + 1]
    OBVIOUS
  <2>3. /\ first + m \in 0..(Len(tokens) - 1) /\ first + m + 1 = first + (m + 1)
        /\ first + m + 1 \in 0..Len(tokens) /\ m + 1 \in 1..k
    OBVIOUS
  <2>4. tok.token = "literal"
    BY <2>2, <2>3
  <2>5. places[first + m] = SimpleThen(tok, places[first + m + 1], text, rule)
    BY <2>2, <2>3, <2>4 DEF TokenThen
  <2>6. places[first + m] = {p \in 0..(Len(text) - 1) : /\ CpEq(tok.cp, text[p + 1], rule)
                                                        /\ p + 1 \in places[first + m + 1]}
    BY <2>4, <2>5 DEF SimpleThen
  <2>7. ASSUME NEW p \in Nat
        PROVE  p \in places[first] <=>
                  /\ p + (m + 1) \in places[first + (m + 1)]
                  /\ \A j \in 1..(m + 1) : CpEq(tokens[first + j].cp, text[p + j], rule)
    <3>1. p + m \in places[first + m] <=> /\ p + m + 1 \in places[first + m + 1]
                                          /\ CpEq(tok.cp, text[p + m + 1], rule)
      <4>1. places[first + m + 1] \subseteq 0..Len(text)
        BY <2>3
      <4>2. p + m + 1 \in 0..Len(text) => p + m \in 0..(Len(text) - 1)
        OBVIOUS
      <4>. QED
        BY <2>6, <4>1, <4>2
    <3>2. p + (m + 1) = p + m + 1
      OBVIOUS
    <3>3. (\A j \in 1..(m + 1) : CpEq(tokens[first + j].cp, text[p + j], rule)) <=>
              /\ \A j \in 1..m : CpEq(tokens[first + j].cp, text[p + j], rule)
              /\ CpEq(tok.cp, text[p + m + 1], rule)
      <4>1. \A j \in 1..(m + 1) : j \in 1..m \/ j = m + 1
        OBVIOUS
      <4>2. 1..m \subseteq 1..(m + 1) /\ m + 1 \in 1..(m + 1)
        OBVIOUS
      <4>. QED
        BY <2>2, <2>3, <3>2, <4>1, <4>2
    <3>. QED
      BY <2>1, <2>3, <3>1, <3>2, <3>3
  <2>. QED
    BY <2>7
<1>3. k \in T
  <2> HIDE DEF T
  <2>. QED
    BY <1>1, <1>2, SetInduction
<1>4. Taken(k)
  <2> HIDE DEF Taken
  <2>. QED
    BY <1>3
<1>. QED
  BY <1>4, Zenon

-----------------------------------------------------------------------------
(* Pruning *)

\* A directory on the way to a path that matches is entered (D-19, D-34).
LEMMA PruningIsSound ==
    ASSUME NEW parts, NEW pattern \in Seq(parts), NEW names, NEW dir, NEW rule,
           Len(names) \in Nat, Len(dir) \in Nat, Len(dir) < Len(names),
           \A i \in 1..Len(dir) : dir[i] = names[i],
           MatchPath(pattern, names, rule)
    PROVE  DescendViable(pattern, dir, rule)
<1> SUFFICES ASSUME ~DescendViable(pattern, dir, rule)
             PROVE  FALSE
  OBVIOUS
<1>1. PICK places \in [0..Len(pattern) -> SUBSET (0..Len(names))] :
          /\ places[Len(pattern)] = {Len(names)}
          /\ \A n \in 0..(Len(pattern) - 1) :
                 places[n] = SegmentThen(pattern[n + 1], places[n + 1], names, rule)
          /\ 0 \in places[0]
  BY PathPlaces
<1>2. Len(pattern) \in Nat
  OBVIOUS
<1> DEFINE Met(n) ==
      /\ n <= Len(pattern) /\ n \in places[n]
      /\ TakesNames(pattern, dir, n, rule)
    T == {n \in Nat : Met(n)}
<1>3. 0 \in T
  BY <1>1, <1>2 DEF TakesNames
<1>4. ASSUME NEW n \in Nat, n \in T
      PROVE  n + 1 \in T
  <2>1. Met(n) /\ n <= Len(dir)
    BY <1>4 DEF TakesNames
  <2>2. n < Len(pattern)
    BY <1>1, <1>2, <2>1
  <2>3. pattern[n + 1] # DoubleStar /\ n < Len(dir)
    <3>1. n \in 0..(Len(pattern) - 1)
      BY <2>2
    <3>. QED
      BY <2>1, <3>1 DEF DescendViable
  <2>4. n \in SegmentThen(pattern[n + 1], places[n + 1], names, rule)
    BY <1>1, <2>1, <2>2
  <2>5. NameFits(pattern[n + 1], names[n + 1], rule) /\ n + 1 \in places[n + 1]
    BY <2>3, <2>4 DEF SegmentThen
  <2>6. TakesNames(pattern, dir, n + 1, rule)
    <3>1. n + 1 \in 1..Len(dir) /\ names[n + 1] = dir[n + 1]
      BY <2>3
    <3>2. \A i \in 1..(n + 1) : i \in 1..n \/ i = n + 1
      OBVIOUS
    <3>. QED
      BY <2>1, <2>3, <2>5, <3>1, <3>2 DEF TakesNames
  <2>. QED
    BY <2>2, <2>5, <2>6
<1>5. Len(pattern) + 1 \in T
  <2> HIDE DEF T
  <2>1. Nat \subseteq T
    BY <1>3, <1>4, SetInduction
  <2>. QED
    BY <1>2, <2>1
<1>. QED
  BY <1>2, <1>5
=============================================================================
