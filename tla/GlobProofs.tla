----------------------------- MODULE GlobProofs -----------------------------
(***************************************************************************)
(* Proofs about the matcher (syntax/matcher.rs, syntax/set.rs) and the     *)
(* lowering of an anchored pattern (builder.rs): what the backtracking     *)
(* accepts, that pruning is sound and that peeling changes no result, for  *)
(* every pattern the parser makes, every name and every depth.             *)
(***************************************************************************)
EXTENDS Glob, MatcherProofs

-----------------------------------------------------------------------------
(* Cutting *)

Places(places, n, end, takes) ==
    /\ places \in [0..n -> SUBSET (0..end)] /\ places[n] = {end}
    /\ \A i \in 0..(n - 1) :
           places[i] = {p \in 0..end :
                           \E k \in places[i + 1] : p <= k /\ <<i + 1, p, k>> \in takes}

IsCut(cut, n, end, takes) ==
    /\ cut \in [0..n -> 0..end] /\ cut[0] = 0 /\ cut[n] = end
    /\ \A i \in 1..n : cut[i - 1] <= cut[i] /\ <<i, cut[i - 1], cut[i]>> \in takes

\* Backtracking over places finds a way to cut the text wherever there is one.
LEMMA PlacesAreCuts ==
    ASSUME NEW n \in Nat, NEW end \in Nat, NEW takes, NEW places,
           Places(places, n, end, takes)
    PROVE  0 \in places[0] <=> \E cut : IsCut(cut, n, end, takes)
<1> USE DEF Places
<1> DEFINE Cut(m, cut) ==
      /\ cut \in [0..m -> 0..end] /\ cut[0] = 0 /\ cut[m] \in places[m]
      /\ \A i \in 1..m : cut[i - 1] <= cut[i] /\ <<i, cut[i - 1], cut[i]>> \in takes
<1>1. ASSUME 0 \in places[0]
      PROVE  \E cut : Cut(n, cut)
  <2> DEFINE T == {m \in Nat : m <= n => \E cut : Cut(m, cut)}
  <2>1. 0 \in T
    <3>1. Cut(0, [i \in 0..0 |-> 0])
      BY <1>1
    <3>. QED
      BY <3>1
  <2>2. ASSUME NEW m \in Nat, m \in T
        PROVE  m + 1 \in T
    <3>0. m + 1 \in Nat
      OBVIOUS
    <3> SUFFICES ASSUME m + 1 <= n
                 PROVE  \E cut : Cut(m + 1, cut)
      BY <3>0, Zenon
    <3>1. PICK cut : Cut(m, cut)
      BY <2>2
    <3>2. m \in 0..(n - 1) /\ m \in 0..m /\ m + 1 \in 0..n
      OBVIOUS
    <3>3. PICK k \in places[m + 1] : cut[m] <= k /\ <<m + 1, cut[m], k>> \in takes
      <4>1. places[m] = {p \in 0..end : \E k \in places[m + 1] :
                                            p <= k /\ <<m + 1, p, k>> \in takes}
        BY <3>2
      <4>2. cut[m] \in places[m]
        BY <3>1
      <4>. QED
        BY <4>1, <4>2
    <3>4. k \in 0..end
      BY <3>2
    <3> DEFINE longer == [i \in 0..(m + 1) |-> IF i = m + 1 THEN k ELSE cut[i]]
    <3>5. longer \in [0..(m + 1) -> 0..end] /\ longer[0] = 0 /\ longer[m + 1] = k
      BY <3>1, <3>4
    <3>6. ASSUME NEW i \in 1..(m + 1)
          PROVE  longer[i - 1] <= longer[i] /\ <<i, longer[i - 1], longer[i]>> \in takes
      <4>1. CASE i = m + 1
        <5>1. longer[i - 1] = cut[m] /\ longer[i] = k
          BY <4>1
        <5>. QED
          BY <3>3, <4>1, <5>1
      <4>2. CASE i # m + 1
        <5>1. longer[i - 1] = cut[i - 1] /\ longer[i] = cut[i] /\ i \in 1..m
          BY <4>2
        <5>. QED
          BY <3>1, <5>1
      <4>. QED
        BY <4>1, <4>2
    <3>7. Cut(m + 1, longer)
      BY <3>3, <3>5, <3>6
    <3>. QED
      BY <3>7
  <2>3. n \in T
    <3> HIDE DEF T
    <3>. QED
      BY <2>1, <2>2, SetInduction
  <2>. QED
    BY <2>3
<1>2. ASSUME NEW cut, Cut(n, cut)
      PROVE  0 \in places[0]
  <2> DEFINE T == {d \in Nat : d <= n => cut[n - d] \in places[n - d]}
  <2>1. 0 \in T
    BY <1>2
  <2>2. ASSUME NEW d \in Nat, d \in T
        PROVE  d + 1 \in T
    <3> SUFFICES ASSUME d + 1 <= n
                 PROVE  cut[n - (d + 1)] \in places[n - (d + 1)]
      BY <2>2
    <3>1. PICK i \in 0..(n - 1) : i = n - (d + 1)
      OBVIOUS
    <3>2. i + 1 \in 1..n /\ (i + 1) - 1 = i /\ i + 1 = n - d /\ i \in 0..n
      BY <3>1
    <3>3. cut[i] <= cut[i + 1] /\ <<i + 1, cut[i], cut[i + 1]>> \in takes /\ cut[i] \in 0..end
      BY <1>2, <3>2
    <3>4. cut[i + 1] \in places[i + 1]
      BY <2>2, <3>2
    <3>5. places[i] = {p \in 0..end : \E k \in places[i + 1] :
                                          p <= k /\ <<i + 1, p, k>> \in takes}
      OBVIOUS
    <3>6. cut[i] \in places[i]
      BY <3>3, <3>4, <3>5
    <3>. QED
      BY <3>1, <3>6
  <2>3. n \in T
    <3> HIDE DEF T
    <3>. QED
      BY <2>1, <2>2, SetInduction
  <2>. QED
    BY <1>2, <2>3
<1>3. ASSUME NEW cut
      PROVE  Cut(n, cut) <=> IsCut(cut, n, end, takes)
  BY DEF IsCut
<1>. QED
  BY <1>1, <1>2, <1>3

-----------------------------------------------------------------------------
(* The meaning of a pattern *)

\* A piece of a text.
LEMMA Piece ==
    ASSUME NEW S, NEW text \in Seq(S), NEW p \in 0..Len(text), NEW k \in p..Len(text)
    PROVE  /\ SubSeq(text, p + 1, k) \in Seq(S)
           /\ Len(SubSeq(text, p + 1, k)) = k - p
           /\ \A i \in 1..(k - p) : SubSeq(text, p + 1, k)[i] = text[p + i]
<1>1. p + 1 \in Int /\ k \in Int /\ \A i \in (p + 1)..k : text[i] \in S
  OBVIOUS
<1>2. /\ SubSeq(text, p + 1, k) \in Seq(S)
      /\ Len(SubSeq(text, p + 1, k)) = IF p + 1 <= k THEN k - (p + 1) + 1 ELSE 0
      /\ \A i \in 1..(k - (p + 1) + 1) : SubSeq(text, p + 1, k)[i] = text[(p + 1) + i - 1]
  BY <1>1, SubSeqProperties
<1>. QED
  BY <1>2

\* A token matches at the places where the text goes on with a piece that it stands for.
LEMMA SimpleThenFits ==
    ASSUME NEW cps, NEW tok \in SimpleTokens(cps), NEW S, NEW text \in Seq(S),
           NEW behind \in SUBSET (0..Len(text))
    PROVE  SimpleThen(tok, behind, text, case) =
               {p \in 0..Len(text) :
                   \E k \in behind : p <= k /\ SimpleFits(tok, SubSeq(text, p + 1, k))}
<1>1. ASSUME NEW p \in 0..Len(text), NEW k \in behind, p <= k
      PROVE  /\ Len(SubSeq(text, p + 1, k)) = 1 <=> k = p + 1
             /\ k = p + 1 => SubSeq(text, p + 1, k)[1] = text[p + 1]
  <2>1. k \in p..Len(text)
    BY <1>1
  <2>. QED
    BY <2>1, Piece
<1>2. CASE tok = Star
  <2>1. tok.token = "star"
    BY <1>2 DEF Star
  <2>2. SimpleThen(tok, behind, text, case) =
            {p \in 0..Len(text) : \E k \in p..Len(text) : k \in behind}
    BY <2>1 DEF SimpleThen
  <2>3. \A p \in 0..Len(text) :
            (\E k \in p..Len(text) : k \in behind) <=> \E k \in behind : p <= k
    OBVIOUS
  <2>4. SimpleThen(tok, behind, text, case) = {p \in 0..Len(text) : \E k \in behind : p <= k}
    BY <2>2, <2>3
  <2>. QED
    BY <2>1, <2>4 DEF SimpleFits
<1>3. CASE tok = AnyChar
  <2>1. tok.token = "any"
    BY <1>3 DEF AnyChar
  <2>. QED
    BY <1>1, <2>1 DEF SimpleThen, SimpleFits
<1>4. CASE tok.token = "literal"
  <2>1. SimpleThen(tok, behind, text, case) =
            {p \in 0..(Len(text) - 1) : CpEq(tok.cp, text[p + 1], case) /\ p + 1 \in behind}
    BY <1>4 DEF SimpleThen
  <2>2. ASSUME NEW p \in 0..Len(text), NEW k \in behind, p <= k
        PROVE  SimpleFits(tok, SubSeq(text, p + 1, k)) <=>
                   k = p + 1 /\ CpEq(tok.cp, text[p + 1], case)
    BY <1>1, <1>4, <2>2 DEF SimpleFits
  <2>3. ASSUME NEW p \in 0..Len(text)
        PROVE  p \in SimpleThen(tok, behind, text, case) <=>
                   \E k \in behind : p <= k /\ SimpleFits(tok, SubSeq(text, p + 1, k))
    BY <2>1, <2>2
  <2>4. SimpleThen(tok, behind, text, case) \subseteq 0..Len(text)
    BY <2>1
  <2>. QED
    BY <2>3, <2>4
<1>. QED
  BY <1>2, <1>3, <1>4 DEF SimpleTokens, Literal

\* An arm matches the texts that can be cut to fit its tokens.
LEMMA ArmMeaning ==
    ASSUME NEW cps, NEW arm \in Seq(SimpleTokens(cps)), NEW S, NEW text \in Seq(S)
    PROVE  MatchArm(arm, text, case) <=> Cuts(text, arm, SimpleFits)
<1>1. Len(text) \in Nat /\ Len(arm) \in Nat
  OBVIOUS
<1>2. PICK takes : \A i \in 1..Len(arm), p, k \in 0..Len(text) :
          <<i, p, k>> \in takes <=> SimpleFits(arm[i], SubSeq(text, p + 1, k))
  <2>1. \A i \in 1..Len(arm), p, k \in 0..Len(text) :
          <<i, p, k>> \in {t \in (1..Len(arm)) \X (0..Len(text)) \X (0..Len(text)) :
                              SimpleFits(arm[t[1]], SubSeq(text, t[2] + 1, t[3]))}
            <=> SimpleFits(arm[i], SubSeq(text, p + 1, k))
    OBVIOUS
  <2>. QED
    BY <2>1
<1>3. PICK rule : rule = case
  OBVIOUS
<1>4. PICK places \in [0..Len(arm) -> SUBSET (0..Len(text))] :
          /\ places[Len(arm)] = {Len(text)}
          /\ \A n \in 0..(Len(arm) - 1) :
                 places[n] = SimpleThen(arm[n + 1], places[n + 1], text, rule)
          /\ MatchArm(arm, text, rule) <=> 0 \in places[0]
  BY <1>1, ArmPlaces
<1>5. ASSUME NEW n \in 0..(Len(arm) - 1)
      PROVE  places[n] = {p \in 0..Len(text) :
                             \E k \in places[n + 1] : p <= k /\ <<n + 1, p, k>> \in takes}
  <2>1. arm[n + 1] \in SimpleTokens(cps) /\ places[n + 1] \in SUBSET (0..Len(text))
        /\ n + 1 \in 1..Len(arm)
    OBVIOUS
  <2>2. places[n] = {p \in 0..Len(text) :
            \E k \in places[n + 1] : p <= k /\ SimpleFits(arm[n + 1], SubSeq(text, p + 1, k))}
    <3>1. places[n] = SimpleThen(arm[n + 1], places[n + 1], text, case)
      BY <1>3, <1>4
    <3>. QED
      BY <2>1, <3>1, SimpleThenFits
  <2>. QED
    BY <1>2, <2>1, <2>2
<1>6. 0 \in places[0] <=> \E cut : IsCut(cut, Len(arm), Len(text), takes)
  <2>1. Places(places, Len(arm), Len(text), takes)
    BY <1>4, <1>5 DEF Places
  <2>. QED
    BY <1>1, <2>1, PlacesAreCuts
<1>7. ASSUME NEW cut \in [0..Len(arm) -> 0..Len(text)], NEW i \in 1..Len(arm)
      PROVE  <<i, cut[i - 1], cut[i]>> \in takes <=>
                 SimpleFits(arm[i], SubSeq(text, cut[i - 1] + 1, cut[i]))
  <2>1. i - 1 \in 0..Len(arm) /\ i \in 0..Len(arm)
    OBVIOUS
  <2>. QED
    BY <1>2, <2>1
<1>. QED
  BY <1>3, <1>4, <1>6, <1>7 DEF Cuts, IsCut
\* An alternation matches as its arms do, each of which the rest follows.
LEMMA TokenThenFits ==
    ASSUME NEW cps, NEW tok \in Tokens(cps), NEW S, NEW text \in Seq(S),
           NEW behind \in SUBSET (0..Len(text))
    PROVE  TokenThen(tok, behind, text, case) =
               {p \in 0..Len(text) :
                   \E k \in behind : p <= k /\ TokenFits(tok, SubSeq(text, p + 1, k))}
<1>1. CASE tok \in SimpleTokens(cps)
  <2>1. tok.token # "alt"
    BY <1>1 DEF SimpleTokens, Literal, AnyChar, Star
  <2>2. SimpleThen(tok, behind, text, case) =
            {p \in 0..Len(text) :
                \E k \in behind : p <= k /\ SimpleFits(tok, SubSeq(text, p + 1, k))}
    BY <1>1, SimpleThenFits
  <2>. QED
    BY <2>1, <2>2 DEF TokenThen, TokenFits
<1>2. CASE tok \in [token : {"alt"}, arms : Seq(Seq(SimpleTokens(cps)))]
  <2>1. tok.token = "alt" /\ tok.arms \in Seq(Seq(SimpleTokens(cps)))
    BY <1>2
  <2>2. ASSUME NEW p \in 0..Len(text), NEW k \in p..Len(text), NEW i \in DOMAIN tok.arms
        PROVE  MatchArm(tok.arms[i], SubSeq(text, p + 1, k), case) <=>
                   Cuts(SubSeq(text, p + 1, k), tok.arms[i], SimpleFits)
    <3>1. tok.arms[i] \in Seq(SimpleTokens(cps)) /\ SubSeq(text, p + 1, k) \in Seq(S)
      BY <2>1, Piece
    <3>. QED
      BY <3>1, ArmMeaning
  <2>3. ASSUME NEW p \in 0..Len(text)
        PROVE  p \in TokenThen(tok, behind, text, case) <=>
                   \E k \in behind : p <= k /\ TokenFits(tok, SubSeq(text, p + 1, k))
    <3>1. p \in TokenThen(tok, behind, text, case) <=>
              \E i \in DOMAIN tok.arms : \E k \in p..Len(text) :
                  MatchArm(tok.arms[i], SubSeq(text, p + 1, k), case) /\ k \in behind
      BY <2>1 DEF TokenThen, MatchArmThen
    <3>2. \A k \in behind : p <= k => k \in p..Len(text)
      OBVIOUS
    <3>3. ASSUME NEW k \in p..Len(text)
          PROVE  TokenFits(tok, SubSeq(text, p + 1, k)) <=>
                     \E i \in DOMAIN tok.arms :
                         MatchArm(tok.arms[i], SubSeq(text, p + 1, k), case)
      BY <2>1, <2>2 DEF TokenFits
    <3>. QED
      BY <3>1, <3>2, <3>3
  <2>4. TokenThen(tok, behind, text, case) \subseteq 0..Len(text)
    BY <2>1 DEF TokenThen, MatchArmThen
  <2>. QED
    BY <2>3, <2>4
<1>. QED
  BY <1>1, <1>2 DEF Tokens

\* A segment matches the names that can be cut to fit its tokens.
LEMMA SegmentMeaning ==
    ASSUME NEW cps, NEW tokens \in Seq(Tokens(cps)), NEW S, NEW text \in Seq(S)
    PROVE  MatchSegment(tokens, text, case) <=> Cuts(text, tokens, TokenFits)
<1>1. Len(text) \in Nat /\ Len(tokens) \in Nat
  OBVIOUS
<1>2. PICK takes : \A i \in 1..Len(tokens), p, k \in 0..Len(text) :
          <<i, p, k>> \in takes <=> TokenFits(tokens[i], SubSeq(text, p + 1, k))
  <2>1. \A i \in 1..Len(tokens), p, k \in 0..Len(text) :
          <<i, p, k>> \in {t \in (1..Len(tokens)) \X (0..Len(text)) \X (0..Len(text)) :
                              TokenFits(tokens[t[1]], SubSeq(text, t[2] + 1, t[3]))}
            <=> TokenFits(tokens[i], SubSeq(text, p + 1, k))
    OBVIOUS
  <2>. QED
    BY <2>1
<1>3. PICK rule : rule = case
  OBVIOUS
<1>4. PICK places \in [0..Len(tokens) -> SUBSET (0..Len(text))] :
          /\ places[Len(tokens)] = {Len(text)}
          /\ \A n \in 0..(Len(tokens) - 1) :
                 places[n] = TokenThen(tokens[n + 1], places[n + 1], text, rule)
          /\ MatchSegment(tokens, text, rule) <=> 0 \in places[0]
  BY <1>1, SegmentPlaces
<1>5. ASSUME NEW n \in 0..(Len(tokens) - 1)
      PROVE  places[n] = {p \in 0..Len(text) :
                             \E k \in places[n + 1] : p <= k /\ <<n + 1, p, k>> \in takes}
  <2>1. tokens[n + 1] \in Tokens(cps) /\ places[n + 1] \in SUBSET (0..Len(text))
        /\ n + 1 \in 1..Len(tokens)
    OBVIOUS
  <2>2. places[n] = {p \in 0..Len(text) :
            \E k \in places[n + 1] : p <= k /\ TokenFits(tokens[n + 1], SubSeq(text, p + 1, k))}
    <3>1. places[n] = TokenThen(tokens[n + 1], places[n + 1], text, case)
      BY <1>3, <1>4
    <3>. QED
      BY <2>1, <3>1, TokenThenFits
  <2>. QED
    BY <1>2, <2>1, <2>2
<1>6. 0 \in places[0] <=> \E cut : IsCut(cut, Len(tokens), Len(text), takes)
  <2>1. Places(places, Len(tokens), Len(text), takes)
    BY <1>4, <1>5 DEF Places
  <2>. QED
    BY <1>1, <2>1, PlacesAreCuts
<1>7. ASSUME NEW cut \in [0..Len(tokens) -> 0..Len(text)], NEW i \in 1..Len(tokens)
      PROVE  <<i, cut[i - 1], cut[i]>> \in takes <=>
                 TokenFits(tokens[i], SubSeq(text, cut[i - 1] + 1, cut[i]))
  <2>1. i - 1 \in 0..Len(tokens) /\ i \in 0..Len(tokens)
    OBVIOUS
  <2>. QED
    BY <1>2, <2>1
<1>. QED
  BY <1>3, <1>4, <1>6, <1>7 DEF Cuts, IsCut
\* A segment matches at the places where the path goes on with names that it stands for.
LEMMA SegmentThenFits ==
    ASSUME NEW cps, NEW segment \in PatternSegments(cps), NEW S, NEW names \in Seq(Seq(S)),
           NEW behind \in SUBSET (0..Len(names))
    PROVE  SegmentThen(segment, behind, names, case) =
               {p \in 0..Len(names) :
                   \E k \in behind : p <= k /\ SegmentFits(segment, SubSeq(names, p + 1, k))}
<1>1. CASE segment = DoubleStar
  <2>1. SegmentThen(segment, behind, names, case) =
            {p \in 0..Len(names) : \E k \in p..Len(names) : k \in behind}
    BY <1>1 DEF SegmentThen
  <2>2. \A p \in 0..Len(names) :
            (\E k \in p..Len(names) : k \in behind) <=> \E k \in behind : p <= k
    OBVIOUS
  <2>3. SegmentThen(segment, behind, names, case) = {p \in 0..Len(names) : \E k \in behind : p <= k}
    BY <2>1, <2>2
  <2>. QED
    BY <1>1, <2>3 DEF SegmentFits
<1>2. CASE segment # DoubleStar
  <2>1. segment.tokens \in Seq(Tokens(cps))
    BY <1>2 DEF PatternSegments
  <2>2. SegmentThen(segment, behind, names, case) =
            {p \in 0..(Len(names) - 1) :
                NameFits(segment, names[p + 1], case) /\ p + 1 \in behind}
    BY <1>2 DEF SegmentThen
  <2>3. ASSUME NEW p \in 0..Len(names), NEW k \in behind, p <= k
        PROVE  SegmentFits(segment, SubSeq(names, p + 1, k)) <=>
                   k = p + 1 /\ NameFits(segment, names[p + 1], case)
    <3>1. k \in p..Len(names)
      BY <2>3
    <3>2. /\ Len(SubSeq(names, p + 1, k)) = k - p
          /\ k = p + 1 => SubSeq(names, p + 1, k)[1] = names[p + 1]
      BY <3>1, Piece
    <3>3. ASSUME k = p + 1
          PROVE  MatchSegment(segment.tokens, names[p + 1], case) <=>
                     Cuts(names[p + 1], segment.tokens, TokenFits)
      <4>1. names[p + 1] \in Seq(S)
        BY <3>1, <3>3
      <4>. QED
        BY <2>1, <4>1, SegmentMeaning
    <3>4. CASE k = p + 1
      BY <1>2, <3>2, <3>3, <3>4 DEF SegmentFits, NameFits
    <3>5. CASE k # p + 1
      BY <1>2, <2>3, <3>2, <3>5 DEF SegmentFits
    <3>. QED
      BY <3>4, <3>5
  <2>4. ASSUME NEW p \in 0..Len(names)
        PROVE  p \in SegmentThen(segment, behind, names, case) <=>
                   \E k \in behind : p <= k /\ SegmentFits(segment, SubSeq(names, p + 1, k))
    BY <2>2, <2>3
  <2>5. SegmentThen(segment, behind, names, case) \subseteq 0..Len(names)
    BY <2>2
  <2>. QED
    BY <2>4, <2>5
<1>. QED
  BY <1>1, <1>2

\* A pattern matches the paths that can be cut to fit its segments (D-24, D-44).
LEMMA PathMeaning ==
    ASSUME NEW cps, NEW pattern \in Seq(PatternSegments(cps)), NEW S, NEW names \in Seq(Seq(S))
    PROVE  MatchPath(pattern, names, case) <=> Cuts(names, pattern, SegmentFits)
<1>1. Len(names) \in Nat /\ Len(pattern) \in Nat
  OBVIOUS
<1>2. PICK takes : \A i \in 1..Len(pattern), p, k \in 0..Len(names) :
          <<i, p, k>> \in takes <=> SegmentFits(pattern[i], SubSeq(names, p + 1, k))
  <2>1. \A i \in 1..Len(pattern), p, k \in 0..Len(names) :
          <<i, p, k>> \in {t \in (1..Len(pattern)) \X (0..Len(names)) \X (0..Len(names)) :
                              SegmentFits(pattern[t[1]], SubSeq(names, t[2] + 1, t[3]))}
            <=> SegmentFits(pattern[i], SubSeq(names, p + 1, k))
    OBVIOUS
  <2>. QED
    BY <2>1
<1>3. PICK rule : rule = case
  OBVIOUS
<1>4. PICK places \in [0..Len(pattern) -> SUBSET (0..Len(names))] :
          /\ places[Len(pattern)] = {Len(names)}
          /\ \A n \in 0..(Len(pattern) - 1) :
                 places[n] = SegmentThen(pattern[n + 1], places[n + 1], names, rule)
          /\ MatchPath(pattern, names, rule) <=> 0 \in places[0]
  BY <1>1, PathPlaces
<1>5. ASSUME NEW n \in 0..(Len(pattern) - 1)
      PROVE  places[n] = {p \in 0..Len(names) :
                             \E k \in places[n + 1] : p <= k /\ <<n + 1, p, k>> \in takes}
  <2>1. pattern[n + 1] \in PatternSegments(cps) /\ places[n + 1] \in SUBSET (0..Len(names))
        /\ n + 1 \in 1..Len(pattern)
    <3>1. n + 1 \in 1..Len(pattern) /\ n + 1 \in 0..Len(pattern)
      OBVIOUS
    <3>2. pattern[n + 1] \in PatternSegments(cps)
      BY <3>1
    <3>. QED
      BY <3>1, <3>2
  <2>2. places[n] = {p \in 0..Len(names) :
            \E k \in places[n + 1] : p <= k /\ SegmentFits(pattern[n + 1], SubSeq(names, p + 1, k))}
    <3>1. places[n] = SegmentThen(pattern[n + 1], places[n + 1], names, case)
      BY <1>3, <1>4
    <3>. QED
      BY <2>1, <3>1, SegmentThenFits
  <2>. QED
    BY <1>2, <2>1, <2>2
<1>6. 0 \in places[0] <=> \E cut : IsCut(cut, Len(pattern), Len(names), takes)
  <2>1. Places(places, Len(pattern), Len(names), takes)
    BY <1>4, <1>5 DEF Places
  <2>. QED
    BY <1>1, <2>1, PlacesAreCuts
<1>7. ASSUME NEW cut \in [0..Len(pattern) -> 0..Len(names)], NEW i \in 1..Len(pattern)
      PROVE  <<i, cut[i - 1], cut[i]>> \in takes <=>
                 SegmentFits(pattern[i], SubSeq(names, cut[i - 1] + 1, cut[i]))
  <2>1. i - 1 \in 0..Len(pattern) /\ i \in 0..Len(pattern)
    OBVIOUS
  <2>. QED
    BY <1>2, <2>1
<1>. QED
  BY <1>3, <1>4, <1>6, <1>7 DEF Cuts, IsCut

-----------------------------------------------------------------------------
(* Peeling *)

\* A piece begins and ends within the text.
LEMMA CutStep ==
    ASSUME NEW n \in Nat, NEW end \in Nat, NEW cut \in [0..n -> 0..end], NEW i \in 1..n,
           cut[i - 1] <= cut[i]
    PROVE  cut[i - 1] \in 0..end /\ cut[i] \in cut[i - 1]..end
<1>1. i - 1 \in 0..n /\ i \in 0..n
  OBVIOUS
<1>2. cut[i - 1] \in 0..end /\ cut[i] \in 0..end
  BY <1>1
<1>. QED
  BY <1>2

\* A segment of literals matches its own text, when the case counts.
LEMMA LiteralMeaning ==
    ASSUME NEW cps, NEW segment, segment.tokens \in Seq(Tokens(cps)), IsLiteral(segment),
           NEW S, NEW name \in Seq(S), case = Sensitive
    PROVE  MatchSegment(segment.tokens, name, case) <=> name = LiteralOf(segment)
<1>0. PICK tokens \in Seq(Tokens(cps)) :
          tokens = segment.tokens /\ \A i \in DOMAIN tokens : tokens[i].token = "literal"
  BY DEF IsLiteral
<1> DEFINE text == [i \in DOMAIN tokens |-> tokens[i].cp]
           n == Len(tokens)
<1>1. n \in Nat /\ Len(name) \in Nat /\ DOMAIN tokens = 1..n
  OBVIOUS
<1>2. MatchSegment(tokens, name, case) <=> Cuts(name, tokens, TokenFits)
  BY SegmentMeaning
<1>3. ASSUME NEW i \in 1..n, NEW p \in 0..Len(name), NEW k \in p..Len(name)
      PROVE  TokenFits(tokens[i], SubSeq(name, p + 1, k)) <=>
                 k = p + 1 /\ name[p + 1] = tokens[i].cp
  <2>1. tokens[i].token = "literal"
    BY <1>0
  <2>2. /\ Len(SubSeq(name, p + 1, k)) = k - p
        /\ k = p + 1 => SubSeq(name, p + 1, k)[1] = name[p + 1]
    BY Piece
  <2>3. TokenFits(tokens[i], SubSeq(name, p + 1, k)) <=>
            /\ Len(SubSeq(name, p + 1, k)) = 1
            /\ CpEq(tokens[i].cp, SubSeq(name, p + 1, k)[1], case)
    BY <2>1 DEF TokenFits, SimpleFits
  <2>. QED
    BY <2>2, <2>3 DEF CpEq
<1>4. ASSUME NEW cut \in [0..n -> 0..Len(name)], cut[0] = 0, cut[n] = Len(name),
             \A i \in 1..n : /\ cut[i - 1] <= cut[i]
                             /\ TokenFits(tokens[i], SubSeq(name, cut[i - 1] + 1, cut[i]))
      PROVE  name = text
  <2>1. ASSUME NEW i \in 1..n
        PROVE  cut[i] = cut[i - 1] + 1 /\ name[cut[i - 1] + 1] = tokens[i].cp
    <3>1. cut[i - 1] <= cut[i] /\ TokenFits(tokens[i], SubSeq(name, cut[i - 1] + 1, cut[i]))
      BY <1>4
    <3>2. cut[i - 1] \in 0..Len(name) /\ cut[i] \in cut[i - 1]..Len(name)
      BY <1>1, <1>4, <3>1, CutStep
    <3>. QED
      BY <1>3, <3>1, <3>2
  <2> DEFINE T == {i \in Nat : i <= n => cut[i] = i}
  <2>2. 0 \in T
    BY <1>4
  <2>3. ASSUME NEW i \in Nat, i \in T
        PROVE  i + 1 \in T
    <3>1. ASSUME i + 1 <= n
          PROVE  cut[i + 1] = i + 1
      <4>1. i + 1 \in 1..n /\ (i + 1) - 1 = i /\ cut[i] = i
        BY <2>3, <3>1
      <4>. QED
        BY <2>1, <4>1
    <3>. QED
      BY <3>1
  <2>4. Nat \subseteq T
    <3> HIDE DEF T
    <3>. QED
      BY <2>2, <2>3, SetInduction
  <2>5. \A i \in 0..n : cut[i] = i
    BY <1>1, <2>4
  <2>6. Len(name) = n
    BY <1>1, <1>4, <2>5
  <2>7. ASSUME NEW i \in 1..n
        PROVE  name[i] = tokens[i].cp
    <3>1. i - 1 \in 0..n /\ cut[i - 1] = i - 1
      BY <2>5
    <3>. QED
      BY <2>1, <3>1
  <2>. QED
    BY <1>1, <2>6, <2>7
<1>5. ASSUME name = text
      PROVE  Cuts(name, tokens, TokenFits)
  <2> DEFINE cut == [i \in 0..n |-> i]
  <2>1. Len(name) = n /\ \A i \in 1..n : name[i] = tokens[i].cp
    <3>1. DOMAIN name = 1..n
      BY <1>1, <1>5
    <3>2. DOMAIN name = 1..Len(name)
      OBVIOUS
    <3>. QED
      BY <1>1, <1>5, <3>1, <3>2
  <2>2. cut \in [0..n -> 0..Len(name)] /\ cut[0] = 0 /\ cut[n] = Len(name)
    BY <1>1, <2>1
  <2>3. ASSUME NEW i \in 1..n
        PROVE  /\ cut[i - 1] <= cut[i]
               /\ TokenFits(tokens[i], SubSeq(name, cut[i - 1] + 1, cut[i]))
    <3>1. cut[i - 1] = i - 1 /\ cut[i] = i /\ i - 1 \in 0..Len(name) /\ i \in (i - 1)..Len(name)
      BY <2>1
    <3>2. (i - 1) + 1 = i /\ name[i] = tokens[i].cp
      BY <2>1
    <3>3. TokenFits(tokens[i], SubSeq(name, (i - 1) + 1, i))
      <4> HIDE DEF n, cut
      <4>. QED
        BY <1>3, <3>1, <3>2
    <3>. QED
      BY <3>1, <3>3
  <2>. QED
    BY <2>2, <2>3 DEF Cuts
<1>. QED
  BY <1>0, <1>2, <1>4, <1>5 DEF Cuts, LiteralOf

SamePiece(names, n, p, k) ==
    SubSeq(From(names, n), p + 1, k) = SubSeq(names, n + p + 1, n + k)

\* A piece of what follows the first n names is a piece of them all.
LEMMA PieceOfRest ==
    ASSUME NEW S, NEW names \in Seq(S), NEW n \in 0..Len(names),
           NEW p \in 0..(Len(names) - n), NEW k \in p..(Len(names) - n)
    PROVE  SamePiece(names, n, p, k)
<1> DEFINE rest == From(names, n)
           one == SubSeq(rest, p + 1, k)
           other == SubSeq(names, n + p + 1, n + k)
<1>1. /\ rest \in Seq(S) /\ Len(rest) = Len(names) - n
      /\ \A i \in 1..(Len(names) - n) : rest[i] = names[n + i]
  <2>1. Len(names) \in n..Len(names)
    OBVIOUS
  <2>. QED
    BY <2>1, Piece DEF From
<1>2. one \in Seq(S) /\ Len(one) = k - p /\ \A i \in 1..(k - p) : one[i] = rest[p + i]
  <2>1. p \in 0..Len(rest) /\ k \in p..Len(rest)
    BY <1>1
  <2> HIDE DEF rest
  <2>. QED
    BY <1>1, <2>1, Piece
<1>3. other \in Seq(S) /\ Len(other) = k - p /\ \A i \in 1..(k - p) : other[i] = names[n + p + i]
  <2>1. n + p \in 0..Len(names) /\ n + k \in (n + p)..Len(names)
        /\ (n + k) - (n + p) = k - p
    OBVIOUS
  <2>2. /\ SubSeq(names, (n + p) + 1, n + k) \in Seq(S)
        /\ Len(SubSeq(names, (n + p) + 1, n + k)) = (n + k) - (n + p)
        /\ \A i \in 1..((n + k) - (n + p)) :
               SubSeq(names, (n + p) + 1, n + k)[i] = names[(n + p) + i]
    BY <2>1, Piece
  <2>. QED
    BY <2>1, <2>2
<1>4. \A i \in 1..(k - p) : one[i] = other[i]
  <2>1. \A i \in 1..(k - p) : p + i \in 1..(Len(names) - n) /\ n + (p + i) = n + p + i
    OBVIOUS
  <2> HIDE DEF rest, one, other
  <2>. QED
    BY <1>1, <1>2, <1>3, <2>1
<1>5. one = other
  <2> HIDE DEF one, other
  <2>. QED
    BY <1>2, <1>3, <1>4, SeqEqual
<1>. QED
  BY <1>5 DEF SamePiece

\* The literal segments at the front of a pattern take a name each, the rest of the pattern the
\* rest of the path.
LEMMA PeelingMeaning ==
    ASSUME NEW cps, NEW pattern \in Seq(PatternSegments(cps)), NEW S, NEW names \in Seq(Seq(S)),
           NEW n \in 0..Len(pattern), \A i \in 1..n : IsLiteral(pattern[i]),
           case = Sensitive
    PROVE  MatchPath(pattern, names, case) <=>
               /\ n <= Len(names)
               /\ \A i \in 1..n : names[i] = LiteralOf(pattern[i])
               /\ MatchPath(From(pattern, n), From(names, n), case)
<1> DEFINE rest == From(pattern, n)
           below == From(names, n)
           m == Len(pattern) - n
<1>1. Len(names) \in Nat /\ Len(pattern) \in Nat /\ m \in Nat
  OBVIOUS
<1>2. rest \in Seq(PatternSegments(cps)) /\ Len(rest) = m
      /\ \A i \in 1..m : rest[i] = pattern[n + i]
  <2>1. Len(pattern) \in n..Len(pattern)
    OBVIOUS
  <2>. QED
    BY <2>1, Piece DEF From
<1>3. ASSUME NEW i \in 1..n, NEW p \in 0..Len(names), NEW k \in p..Len(names)
      PROVE  SegmentFits(pattern[i], SubSeq(names, p + 1, k)) <=>
                 k = p + 1 /\ names[p + 1] = LiteralOf(pattern[i])
  <2>1. pattern[i] \in PatternSegments(cps) /\ IsLiteral(pattern[i])
    <3>1. i \in 1..Len(pattern)
      OBVIOUS
    <3>. QED
      BY <3>1
  <2>2. pattern[i] # DoubleStar /\ pattern[i].tokens \in Seq(Tokens(cps))
        /\ \A t \in DOMAIN pattern[i].tokens : pattern[i].tokens[t].token = "literal"
    BY <2>1 DEF IsLiteral, PatternSegments
  <2>3. /\ Len(SubSeq(names, p + 1, k)) = k - p
        /\ k = p + 1 => SubSeq(names, p + 1, k)[1] = names[p + 1]
    BY Piece
  <2>4. ASSUME k = p + 1
        PROVE  Cuts(names[p + 1], pattern[i].tokens, TokenFits) <=>
                   names[p + 1] = LiteralOf(pattern[i])
    <3>1. names[p + 1] \in Seq(S)
      <4>1. p + 1 \in 1..Len(names)
        BY <2>4
      <4>. QED
        BY <4>1
    <3>2. MatchSegment(pattern[i].tokens, names[p + 1], case) <=>
              Cuts(names[p + 1], pattern[i].tokens, TokenFits)
      BY <2>2, <3>1, SegmentMeaning
    <3>3. MatchSegment(pattern[i].tokens, names[p + 1], case) <=>
              names[p + 1] = LiteralOf(pattern[i])
      BY <2>1, <2>2, <3>1, LiteralMeaning
    <3>. QED
      BY <3>2, <3>3
  <2>5. SegmentFits(pattern[i], SubSeq(names, p + 1, k)) <=>
            /\ Len(SubSeq(names, p + 1, k)) = 1
            /\ Cuts(SubSeq(names, p + 1, k)[1], pattern[i].tokens, TokenFits)
    BY <2>2 DEF SegmentFits
  <2>6. CASE k = p + 1
    BY <2>3, <2>4, <2>5, <2>6
  <2>7. CASE k # p + 1
    BY <2>3, <2>5, <2>7
  <2>. QED
    BY <2>6, <2>7
<1>4. MatchPath(pattern, names, case) <=> Cuts(names, pattern, SegmentFits)
  BY PathMeaning
<1>5. ASSUME n <= Len(names)
      PROVE  /\ below \in Seq(Seq(S)) /\ Len(below) = Len(names) - n
             /\ MatchPath(rest, below, case) <=> Cuts(below, rest, SegmentFits)
  <2>1. Len(names) \in n..Len(names) /\ n \in 0..Len(names)
    BY <1>5
  <2>2. below \in Seq(Seq(S)) /\ Len(below) = Len(names) - n
    BY <2>1, Piece DEF From
  <2> HIDE DEF rest, below
  <2>. QED
    BY <1>2, <2>2, PathMeaning
<1>6. ASSUME NEW cut \in [0..Len(pattern) -> 0..Len(names)],
             cut[0] = 0, cut[Len(pattern)] = Len(names),
             \A i \in 1..Len(pattern) :
                 /\ cut[i - 1] <= cut[i]
                 /\ SegmentFits(pattern[i], SubSeq(names, cut[i - 1] + 1, cut[i]))
      PROVE  /\ n <= Len(names)
             /\ \A i \in 1..n : names[i] = LiteralOf(pattern[i])
             /\ Cuts(below, rest, SegmentFits)
  <2>1. ASSUME NEW i \in 1..n
        PROVE  cut[i] = cut[i - 1] + 1 /\ names[cut[i - 1] + 1] = LiteralOf(pattern[i])
    <3>1. i \in 1..Len(pattern)
      OBVIOUS
    <3>2. /\ cut[i - 1] <= cut[i]
          /\ SegmentFits(pattern[i], SubSeq(names, cut[i - 1] + 1, cut[i]))
      BY <1>6, <3>1
    <3>3. cut[i - 1] \in 0..Len(names) /\ cut[i] \in cut[i - 1]..Len(names)
      BY <1>1, <1>6, <3>1, <3>2, CutStep
    <3>. QED
      BY <1>3, <3>2, <3>3
  <2> DEFINE T == {i \in Nat : i <= n => cut[i] = i}
             U == {d \in Nat : d <= m => n <= cut[n + d]}
  <2>2. 0 \in T
    BY <1>6
  <2>3. ASSUME NEW i \in Nat, i \in T
        PROVE  i + 1 \in T
    <3>1. ASSUME i + 1 <= n
          PROVE  cut[i + 1] = i + 1
      <4>1. i + 1 \in 1..n /\ (i + 1) - 1 = i /\ cut[i] = i
        BY <2>3, <3>1
      <4>. QED
        BY <2>1, <4>1
    <3>. QED
      BY <3>1
  <2>4. Nat \subseteq T
    <3> HIDE DEF T
    <3>. QED
      BY <2>2, <2>3, SetInduction
  <2>5. \A i \in 0..n : cut[i] = i
    BY <2>4
  <2>6. n <= Len(names)
    <3>1. n \in 0..n /\ n \in 0..Len(pattern)
      OBVIOUS
    <3>2. cut[n] = n /\ cut[n] \in 0..Len(names)
      BY <2>5, <3>1
    <3>. QED
      BY <3>2
  <2>7. ASSUME NEW i \in 1..n
        PROVE  names[i] = LiteralOf(pattern[i])
    <3>1. i - 1 \in 0..n /\ (i - 1) + 1 = i
      OBVIOUS
    <3>. QED
      BY <2>1, <2>5, <3>1
  <2>8. 0 \in U
    BY <2>5
  <2>9. ASSUME NEW d \in Nat, d \in U
        PROVE  d + 1 \in U
    <3>1. ASSUME d + 1 <= m
          PROVE  n <= cut[n + (d + 1)]
      <4>1. n + (d + 1) \in 1..Len(pattern) /\ (n + (d + 1)) - 1 = n + d
            /\ n + d \in 0..Len(pattern) /\ n + (d + 1) \in 0..Len(pattern)
        BY <3>1
      <4>2. cut[n + d] <= cut[n + (d + 1)]
        BY <1>6, <4>1
      <4>3. n <= cut[n + d]
        BY <2>9, <3>1
      <4>4. cut[n + d] \in 0..Len(names) /\ cut[n + (d + 1)] \in 0..Len(names)
        BY <1>6, <4>1
      <4>. QED
        BY <4>2, <4>3, <4>4
    <3>. QED
      BY <3>1
  <2>10. Nat \subseteq U
    <3> HIDE DEF U
    <3>. QED
      BY <2>8, <2>9, SetInduction
  <2> DEFINE low == [i \in 0..m |-> cut[n + i] - n]
  <2>11. ASSUME NEW i \in 0..m
         PROVE  low[i] \in 0..(Len(names) - n) /\ cut[n + i] = n + low[i]
    <3>1. i \in Nat /\ i <= m /\ n + i \in 0..Len(pattern)
      OBVIOUS
    <3>2. n <= cut[n + i] /\ cut[n + i] \in 0..Len(names)
      BY <1>6, <2>10, <3>1
    <3>. QED
      BY <3>1, <3>2
  <2>12. low[0] = 0 /\ low[m] = Len(names) - n
    <3>1. cut[n + 0] = n /\ cut[n + m] = Len(names) /\ 0 \in 0..m /\ m \in 0..m
      BY <1>6, <2>5
    <3>. QED
      BY <3>1
  <2>13. ASSUME NEW i \in 1..m
         PROVE  /\ low[i - 1] <= low[i]
                /\ SegmentFits(rest[i], SubSeq(below, low[i - 1] + 1, low[i]))
    <3>1. /\ i - 1 \in 0..m /\ i \in 0..m
          /\ n + i \in 1..Len(pattern) /\ (n + i) - 1 = n + (i - 1)
      OBVIOUS
    <3>2. /\ cut[n + (i - 1)] <= cut[n + i]
          /\ SegmentFits(pattern[n + i], SubSeq(names, cut[n + (i - 1)] + 1, cut[n + i]))
      BY <1>6, <3>1
    <3>3. low[i - 1] \in 0..(Len(names) - n) /\ low[i] \in low[i - 1]..(Len(names) - n)
      <4>1. /\ low[i - 1] \in 0..(Len(names) - n) /\ cut[n + (i - 1)] = n + low[i - 1]
            /\ low[i] \in 0..(Len(names) - n) /\ cut[n + i] = n + low[i]
        BY <2>11, <3>1
      <4> HIDE DEF low
      <4>. QED
        BY <3>2, <4>1
    <3>0. n \in 0..Len(names)
      BY <1>1, <2>6
    <3>4. SubSeq(below, low[i - 1] + 1, low[i]) =
              SubSeq(names, n + low[i - 1] + 1, n + low[i])
      <4>1. SamePiece(names, n, low[i - 1], low[i])
        <5> HIDE DEF low
        <5>. QED
          BY <3>0, <3>3, PieceOfRest
      <4>. QED
        BY <4>1 DEF SamePiece
    <3>5. rest[i] = pattern[n + i]
      BY <1>2
    <3>6. cut[n + (i - 1)] = n + low[i - 1] /\ cut[n + i] = n + low[i]
      BY <2>11, <3>1
    <3> HIDE DEF low, below, rest
    <3>7. low[i - 1] <= low[i]
      BY <3>3
    <3>8. SegmentFits(rest[i], SubSeq(names, n + low[i - 1] + 1, n + low[i]))
      BY <3>2, <3>5, <3>6
    <3>. QED
      BY <3>4, <3>7, <3>8
  <2>14. low \in [0..m -> 0..(Len(names) - n)]
    BY <2>11
  <2>15. Cuts(below, rest, SegmentFits)
    <3> HIDE DEF low, rest, below
    <3>. QED
      BY <1>2, <1>5, <2>6, <2>12, <2>13, <2>14 DEF Cuts
  <2>. QED
    BY <2>6, <2>7, <2>15
<1>7. ASSUME n <= Len(names), \A i \in 1..n : names[i] = LiteralOf(pattern[i]),
             NEW low \in [0..m -> 0..(Len(names) - n)],
             low[0] = 0, low[m] = Len(names) - n,
             \A i \in 1..m : /\ low[i - 1] <= low[i]
                             /\ SegmentFits(rest[i], SubSeq(below, low[i - 1] + 1, low[i]))
      PROVE  Cuts(names, pattern, SegmentFits)
  <2> DEFINE cut == [i \in 0..Len(pattern) |-> IF i <= n THEN i ELSE n + low[i - n]]
  <2>1. \A i \in 0..Len(pattern) : i > n => i - n \in 0..m
    OBVIOUS
  <2>2. \A i \in n..Len(pattern) : cut[i] = n + low[i - n]
    BY <1>7
  <2>3. cut \in [0..Len(pattern) -> 0..Len(names)]
    BY <1>7, <2>1
  <2>4. cut[0] = 0 /\ cut[Len(pattern)] = Len(names)
    <3>1. Len(pattern) \in n..Len(pattern) /\ Len(pattern) - n = m
      OBVIOUS
    <3>2. cut[Len(pattern)] = n + low[m]
      BY <2>2, <3>1
    <3>. QED
      BY <1>7, <3>2
  <2>5. ASSUME NEW i \in 1..Len(pattern)
        PROVE  /\ cut[i - 1] <= cut[i]
               /\ SegmentFits(pattern[i], SubSeq(names, cut[i - 1] + 1, cut[i]))
    <3>1. CASE i <= n
      <4>1. cut[i - 1] = i - 1 /\ cut[i] = i /\ (i - 1) + 1 = i
            /\ i - 1 \in 0..Len(names) /\ i \in (i - 1)..Len(names) /\ i \in 1..n
        BY <1>7, <3>1
      <4>2. SegmentFits(pattern[i], SubSeq(names, (i - 1) + 1, i))
        <5> HIDE DEF cut
        <5>. QED
          BY <1>3, <1>7, <4>1
      <4>. QED
        BY <4>1, <4>2
    <3>2. CASE i > n
      <4>1. PICK j \in 1..m : i = n + j
        <5>1. i - n \in 1..m /\ i = n + (i - n)
          BY <3>2
        <5>. QED
          BY <5>1
      <4>2. cut[i - 1] = n + low[j - 1] /\ cut[i] = n + low[j]
        <5>1. i - 1 \in n..Len(pattern) /\ i \in n..Len(pattern)
              /\ (i - 1) - n = j - 1 /\ i - n = j
          BY <4>1
        <5> HIDE DEF cut
        <5>. QED
          BY <2>2, <5>1
      <4>3. low[j - 1] \in 0..(Len(names) - n) /\ low[j] \in low[j - 1]..(Len(names) - n)
            /\ SegmentFits(rest[j], SubSeq(below, low[j - 1] + 1, low[j]))
        <5>1. Len(names) - n \in Nat
          BY <1>1, <1>7
        <5> HIDE DEF rest, below, m
        <5>2. low[j - 1] <= low[j] /\ SegmentFits(rest[j], SubSeq(below, low[j - 1] + 1, low[j]))
          BY <1>7
        <5>. QED
          BY <1>1, <1>7, <5>1, <5>2, CutStep
      <4>4. SubSeq(below, low[j - 1] + 1, low[j]) = SubSeq(names, n + low[j - 1] + 1, n + low[j])
        <5>1. n \in 0..Len(names)
          BY <1>7
        <5>2. SamePiece(names, n, low[j - 1], low[j])
          BY <4>3, <5>1, PieceOfRest
        <5>. QED
          BY <5>2 DEF SamePiece
      <4>5. rest[j] = pattern[i]
        BY <1>2, <4>1
      <4> HIDE DEF cut, rest, below
      <4>6. cut[i - 1] <= cut[i]
        BY <1>1, <1>7, <4>2, <4>3
      <4>7. SegmentFits(pattern[i], SubSeq(names, n + low[j - 1] + 1, n + low[j]))
        BY <4>3, <4>4, <4>5
      <4>. QED
        BY <4>2, <4>6, <4>7
    <3>. QED
      BY <3>1, <3>2
  <2>. QED
    <3> HIDE DEF cut
    <3>. QED
      BY <2>3, <2>4, <2>5 DEF Cuts
<1>8. Cuts(names, pattern, SegmentFits) =>
          /\ n <= Len(names) /\ \A i \in 1..n : names[i] = LiteralOf(pattern[i])
          /\ Cuts(below, rest, SegmentFits)
  <2> HIDE DEF rest, below
  <2>. QED
    BY <1>6 DEF Cuts
<1>9. /\ n <= Len(names) /\ \A i \in 1..n : names[i] = LiteralOf(pattern[i])
      /\ Cuts(below, rest, SegmentFits)
      => Cuts(names, pattern, SegmentFits)
  <2> SUFFICES ASSUME n <= Len(names), \A i \in 1..n : names[i] = LiteralOf(pattern[i]),
                      Cuts(below, rest, SegmentFits)
               PROVE  Cuts(names, pattern, SegmentFits)
    OBVIOUS
  <2> HIDE DEF rest, below
  <2>1. PICK low \in [0..Len(rest) -> 0..Len(below)] :
            /\ low[0] = 0 /\ low[Len(rest)] = Len(below)
            /\ \A i \in 1..Len(rest) :
                 /\ low[i - 1] <= low[i]
                 /\ SegmentFits(rest[i], SubSeq(below, low[i - 1] + 1, low[i]))
    BY DEF Cuts
  <2>. QED
    BY <1>2, <1>5, <1>7, <2>1
<1>. QED
  BY <1>4, <1>5, <1>8, <1>9

\* What is peeled is literal, and leaves a segment to match.
LEMMA PeelCounted ==
    ASSUME NEW parts, NEW pattern \in Seq(parts)
    PROVE  /\ PeelCount(pattern) \in 0..Len(pattern)
           /\ PeelCount(pattern) > 0 => PeelCount(pattern) < Len(pattern)
           /\ \A i \in 1..PeelCount(pattern) : IsLiteral(pattern[i])
<1> DEFINE Counts == {n \in 0..Len(pattern) : /\ n > 0 => n < Len(pattern)
                                              /\ \A i \in 1..n : IsLiteral(pattern[i])}
           Left == {d \in Nat : Len(pattern) - d \in Counts}
<1>1. Len(pattern) \in Nat /\ 0 \in Counts
  OBVIOUS
<1>2. Len(pattern) \in Left
  BY <1>1
<1>3. PICK d \in Left : \A e \in Left : d <= e
  <2>1. PICK T : T = Left
    OBVIOUS
  <2>2. T \subseteq Nat /\ T # {}
    BY <1>2, <2>1
  <2>. QED
    BY <2>1, <2>2, Least
<1>4. \A n \in Counts : Len(pattern) - d >= n
  <2>1. \A n \in Counts : Len(pattern) - n \in Left
    BY <1>1
  <2>2. \A n \in Counts : d <= Len(pattern) - n
    <3> HIDE DEF Counts, Left
    <3>. QED
      BY <1>3, <2>1
  <2>3. \A n \in Counts : n \in Nat
    OBVIOUS
  <2>4. d \in Nat
    OBVIOUS
  <2> HIDE DEF Counts, Left
  <2>. QED
    BY <1>1, <2>2, <2>3, <2>4
<1>5. Len(pattern) - d \in Counts
  BY <1>3
<1>6. PeelCount(pattern) \in Counts
  <2> HIDE DEF Counts
  <2>1. Max(Counts) \in Counts
    BY <1>4, <1>5 DEF Max
  <2>. QED
    BY <2>1 DEF PeelCount, Counts
<1>. QED
  BY <1>6

\* Nothing but a `**` stands for no name at all.
LEMMA EmptyPath ==
    ASSUME NEW cps, NEW pattern \in Seq(PatternSegments(cps)), pattern # <<>>,
           \A i \in 1..(Len(pattern) - 1) :
               ~(pattern[i] = DoubleStar /\ pattern[i + 1] = DoubleStar),
           MatchPath(pattern, <<>>, case)
    PROVE  pattern = <<DoubleStar>>
<1>1. <<>> \in Seq(Seq({})) /\ Len(<<>>) = 0
  OBVIOUS
<1>2. Cuts(<<>>, pattern, SegmentFits)
  BY <1>1, PathMeaning
<1>3. PICK cut \in [0..Len(pattern) -> 0..0] :
          \A i \in 1..Len(pattern) : SegmentFits(pattern[i], SubSeq(<<>>, cut[i - 1] + 1, cut[i]))
  BY <1>1, <1>2 DEF Cuts
<1>4. ASSUME NEW i \in 1..Len(pattern)
      PROVE  pattern[i] = DoubleStar
  <2>1. cut[i - 1] = 0 /\ cut[i] = 0
    <3>1. i - 1 \in 0..Len(pattern) /\ i \in 0..Len(pattern)
      OBVIOUS
    <3>2. cut[i - 1] \in 0..0 /\ cut[i] \in 0..0
      BY <1>3, <3>1
    <3>. QED
      BY <3>2
  <2>2. Len(SubSeq(<<>>, 0 + 1, 0)) = 0
    <3>1. 0 \in 0..Len(<<>>) /\ 0 \in 0..0
      BY <1>1
    <3>. QED
      BY <1>1, <3>1, Piece
  <2>3. SegmentFits(pattern[i], SubSeq(<<>>, 0 + 1, 0))
    BY <1>3, <2>1
  <2>. QED
    BY <2>2, <2>3 DEF SegmentFits
<1>5. Len(pattern) = 1
  <2>1. Len(pattern) \in Nat \ {0}
    OBVIOUS
  <2>2. ASSUME Len(pattern) > 1
        PROVE  FALSE
    <3>1. 1 \in 1..(Len(pattern) - 1) /\ 1 \in 1..Len(pattern) /\ 1 + 1 \in 1..Len(pattern)
      BY <2>1, <2>2
    <3>2. pattern[1] = DoubleStar /\ pattern[1 + 1] = DoubleStar
      BY <1>4, <3>1
    <3>. QED
      BY <3>1, <3>2
  <2>3. \A n \in Nat \ {0} : ~(n > 1) => n = 1
    OBVIOUS
  <2>. QED
    BY <2>1, <2>2, <2>3, Zenon
<1>. QED
  BY <1>4, <1>5

-----------------------------------------------------------------------------
(* The walk *)

\* The walk goes with one of the patterns along names that directories hold.
OnTheWay == glob \in Patterns /\ path \in Seq(FileNames)

LEMMA OnTheWayInvariance == Spec => []OnTheWay
<1>1. Init => OnTheWay
  BY DEF Init, OnTheWay
<1>2. OnTheWay /\ [Next]_vars => OnTheWay'
  BY DEF OnTheWay, Next, Descend, vars
<1>. QED
  BY <1>1, <1>2, PTL DEF Spec

\* An entry of the directory that the walk is in.
LEMMA EntryIsPath ==
    ASSUME OnTheWay, NEW p \in Entries
    PROVE  p \in Seq(FileNames) /\ p \in Seq(Seq(CodePoints)) /\ Len(p) = Len(path) + 1
<1>1. PICK name \in FileNames : p = Append(path, name)
  BY DEF Entries
<1>2. p \in Seq(FileNames) /\ Len(p) = Len(path) + 1
  BY <1>1 DEF OnTheWay
<1>3. \A i \in 1..Len(p) : p[i] \in Seq(CodePoints)
  BY <1>2, NamesAssumption
<1>. QED
  BY <1>2, <1>3

\* The backtracking matcher (match_path, match_segment, match_arm_then) accepts exactly the paths
\* that can be cut to fit the pattern, for every pattern the parser makes and every name.
THEOREM MatcherCorrect == Spec => []MatcherIsTheMeaning
<1>1. OnTheWay => MatcherIsTheMeaning
  <2> SUFFICES ASSUME OnTheWay, NEW p \in Entries
               PROVE  MatchPath(glob, p, case) <=> Cuts(p, glob, SegmentFits)
    BY DEF MatcherIsTheMeaning, Means
  <2>1. glob \in Seq(PatternSegments(CodePoints))
    BY PatternsAssumption DEF OnTheWay
  <2>2. p \in Seq(Seq(CodePoints))
    BY EntryIsPath
  <2>. QED
    BY <2>1, <2>2, PathMeaning
<1>. QED
  BY <1>1, OnTheWayInvariance, PTL

\* Pruning never drops a match: descend_viable admits every directory that leads to one, whatever
\* the depth and the names.
THEOREM PruningCorrect == Spec => []NoMatchIsPruned
<1>1. OnTheWay => NoMatchIsPruned
  <2> SUFFICES ASSUME OnTheWay, NEW p \in Entries, NEW q \in Deeper(p),
                      MatchPath(glob, q, case)
               PROVE  DescendViable(glob, p, case)
    BY DEF NoMatchIsPruned
  <2>1. glob \in Seq(PatternSegments(CodePoints))
    BY PatternsAssumption DEF OnTheWay
  <2>2. p \in Seq(FileNames)
    BY EntryIsPath
  <2>3. ASSUME NEW r \in Seq(FileNames), NEW s \in Below(r)
        PROVE  s \in Seq(FileNames) /\ Len(s) = Len(r) + 1 /\ \A i \in 1..Len(r) : s[i] = r[i]
    BY DEF Below
  <2>4. q \in Seq(FileNames) /\ Len(p) < Len(q) /\ \A i \in 1..Len(p) : p[i] = q[i]
    <3>1. CASE q \in Below(p)
      BY <2>2, <2>3, <3>1
    <3>2. CASE \E r \in Below(p) : q \in Below(r)
      <4>1. PICK r \in Below(p) : q \in Below(r)
        BY <3>2
      <4>2. r \in Seq(FileNames) /\ Len(r) = Len(p) + 1 /\ \A i \in 1..Len(p) : r[i] = p[i]
        BY <2>2, <2>3
      <4>3. q \in Seq(FileNames) /\ Len(q) = Len(r) + 1 /\ \A i \in 1..Len(r) : q[i] = r[i]
        BY <2>3, <4>1, <4>2
      <4>4. \A i \in 1..Len(p) : i \in 1..Len(r)
        BY <4>2
      <4>. QED
        BY <2>2, <4>2, <4>3, <4>4
    <3>. QED
      BY <3>1, <3>2 DEF Deeper
  <2>5. PICK pattern, rule : pattern = glob /\ rule = case
    OBVIOUS
  <2>6. DescendViable(pattern, p, rule)
    BY <2>1, <2>2, <2>4, <2>5, PruningIsSound
  <2>. QED
    BY <2>5, <2>6
<1>. QED
  BY <1>1, OnTheWayInvariance, PTL

\* Under case-sensitive matching, opening the literal segments by name as the root and matching
\* the rest below it (lower_self_rooting) reports what the whole pattern matches, but for that
\* root itself.
THEOREM PeelCorrect == Spec => []PeelKeepsMatches
<1>1. OnTheWay => PeelKeepsMatches
  <2> SUFFICES ASSUME OnTheWay, case = Sensitive, NEW p \in Entries
               PROVE  LoweredMatches(p) <=> MatchPath(glob, p, case) /\ ~IsOpenedRoot(p)
    BY DEF PeelKeepsMatches
  <2>1. PICK pattern, n :
            pattern = glob /\ n = PeelCount(glob) /\ pattern \in Seq(PatternSegments(CodePoints))
    BY PatternsAssumption DEF OnTheWay
  <2>2. p \in Seq(Seq(CodePoints)) /\ Len(p) \in Nat \ {0}
    <3>1. p \in Seq(Seq(CodePoints)) /\ Len(p) = Len(path) + 1
      BY EntryIsPath
    <3>. QED
      BY <3>1 DEF OnTheWay
  <2>3. /\ n \in 0..Len(pattern)
        /\ n > 0 => n < Len(pattern)
        /\ \A i \in 1..n : IsLiteral(pattern[i])
    BY <2>1, PeelCounted
  <2> DEFINE rest == From(pattern, n)
             below == From(p, n)
             Peeled == \A i \in 1..n : p[i] = LiteralOf(pattern[i])
  <2>4. MatchPath(pattern, p, case) <=> n <= Len(p) /\ Peeled /\ MatchPath(rest, below, case)
    BY <2>1, <2>2, <2>3, PeelingMeaning
  <2>5. /\ PeeledRoot(glob) = [i \in 1..n |-> LiteralOf(pattern[i])]
        /\ PeeledRest(glob) = rest
    BY <2>1 DEF PeeledRoot, PeeledRest
  <2>6. ASSUME n <= Len(p)
        PROVE  UpTo(p, n) = PeeledRoot(glob) <=> Peeled
    <3>1. n \in 0..Len(p) /\ 0 \in 0..Len(p) /\ n \in 0..Len(p)
      BY <2>2, <2>3, <2>6
    <3>2. /\ Len(SubSeq(p, 0 + 1, n)) = n - 0
          /\ SubSeq(p, 0 + 1, n) \in Seq(Seq(CodePoints))
          /\ \A i \in 1..(n - 0) : SubSeq(p, 0 + 1, n)[i] = p[0 + i]
      BY <2>2, <3>1, Piece
    <3>3. /\ UpTo(p, n) \in Seq(Seq(CodePoints)) /\ Len(UpTo(p, n)) = n
          /\ \A i \in 1..n : UpTo(p, n)[i] = p[i]
      BY <2>3, <3>2 DEF UpTo
    <3>4. UpTo(p, n) = [i \in 1..n |-> p[i]]
      BY <3>3
    <3>. QED
      BY <2>5, <3>4
  <2>7. LoweredMatches(p) <=> Len(p) > n /\ Peeled /\ MatchPath(rest, below, case)
    BY <2>1, <2>2, <2>3, <2>5, <2>6 DEF LoweredMatches
  <2>8. ASSUME Len(p) > n
        PROVE  ~IsOpenedRoot(p)
    <3>1. Len(PeeledRoot(glob)) = n
      BY <2>3, <2>5
    <3>. QED
      BY <2>2, <2>8, <3>1 DEF IsOpenedRoot
  <2>9. ASSUME n = Len(p), Peeled, MatchPath(rest, below, case)
        PROVE  IsOpenedRoot(p)
    <3>1. below = <<>>
      <4>1. n \in 0..Len(p) /\ Len(p) \in n..Len(p)
        BY <2>2, <2>9
      <4>2. Len(SubSeq(p, n + 1, Len(p))) = Len(p) - n /\ below \in Seq(Seq(CodePoints))
        BY <2>2, <4>1, Piece DEF From
      <4>. QED
        BY <2>2, <2>9, <4>2 DEF From
    <3>2. Len(pattern) \in n..Len(pattern) /\ Len(pattern) \in Nat
      BY <2>1, <2>3
    <3>3. /\ rest \in Seq(PatternSegments(CodePoints)) /\ Len(rest) = Len(pattern) - n
          /\ \A i \in 1..(Len(pattern) - n) : rest[i] = pattern[n + i]
      BY <2>1, <2>3, <3>2, Piece DEF From
    <3>4. rest # <<>>
      BY <2>2, <2>3, <2>9, <3>2, <3>3
    <3>5. ASSUME NEW i \in 1..(Len(rest) - 1)
          PROVE  ~(rest[i] = DoubleStar /\ rest[i + 1] = DoubleStar)
      <4>1. /\ rest[i] = pattern[n + i] /\ rest[i + 1] = pattern[n + i + 1]
            /\ n + i \in 1..(Len(pattern) - 1)
        BY <2>3, <3>2, <3>3
      <4>. QED
        BY <2>1, <4>1, PatternsAssumption DEF OnTheWay
    <3>6. rest = <<DoubleStar>>
      <4> HIDE DEF rest, below
      <4>. QED
        BY <2>9, <3>1, <3>3, <3>4, <3>5, EmptyPath
    <3>7. p = PeeledRoot(glob)
      BY <2>2, <2>5, <2>9
    <3>. QED
      BY <2>5, <3>6, <3>7 DEF IsOpenedRoot
  <2>. QED
    BY <2>1, <2>2, <2>3, <2>4, <2>7, <2>8, <2>9
<1>. QED
  BY <1>1, OnTheWayInvariance, PTL
=============================================================================
