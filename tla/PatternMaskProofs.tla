------------------------- MODULE PatternMaskProofs -------------------------
(***************************************************************************)
(* The mask of a match is the set of patterns that matched, however many   *)
(* patterns the query has.                                                 *)
(***************************************************************************)
EXTENDS PatternMask, TLAPS

Bits == 0..(WordBits - 1)
Masks(n) == [0..(Words(n) - 1) -> SUBSET Bits]

-----------------------------------------------------------------------------
(* Words and bits *)

\* An index is the position of one bit: 64 times its word, and its place there.
LEMMA SplitIndex ==
    \A i \in Nat : /\ i \div WordBits \in Nat /\ i % WordBits \in Bits
                   /\ (i \div WordBits) * WordBits + (i % WordBits) = i
  BY DEF WordBits, Bits

\* A bit is the position of one index.
LEMMA JoinIndex ==
    \A w \in Nat, b \in Bits :
        /\ w * WordBits + b \in Nat
        /\ (w * WordBits + b) \div WordBits = w
        /\ (w * WordBits + b) % WordBits = b
  BY DEF WordBits, Bits

\* There is a word for every pattern, and at least one.
LEMMA EveryPatternHasAWord ==
    \A n \in Nat : /\ Words(n) \in Nat \ {0}
                   /\ \A i \in 0..(n - 1) : i \div WordBits \in 0..(Words(n) - 1)
  BY DEF WordBits, Words

LEMMA WordsAreBits ==
    ASSUME NEW n \in Nat, NEW m \in Masks(n)
    PROVE  DOMAIN m \subseteq Nat /\ \A w \in DOMAIN m : m[w] \subseteq Bits
<1>1. DOMAIN m = 0..(Words(n) - 1) /\ \A w \in DOMAIN m : m[w] \in SUBSET Bits
  BY DEF Masks
<1>2. 0..(Words(n) - 1) \subseteq Nat
  BY EveryPatternHasAWord
<1> QED BY <1>1, <1>2

-----------------------------------------------------------------------------
(* The operations of a mask *)

LEMMA EmptyContainsNothing ==
    ASSUME NEW n \in Nat
    PROVE  Empty(n) \in Masks(n) /\ \A i \in Nat : ~Contains(Empty(n), i)
  BY EveryPatternHasAWord DEF Empty, Masks, Contains

\* Setting a bit adds one index: no bit of another word, nor another bit of its word, changes.
LEMMA SetBitAddsOne ==
    ASSUME NEW n \in Nat, NEW m \in Masks(n), NEW i \in 0..(n - 1)
    PROVE  /\ SetBit(m, i) \in Masks(n)
           /\ \A k \in Nat : Contains(SetBit(m, i), k) <=> k = i \/ Contains(m, k)
<1> DEFINE w == i \div WordBits
           b == i % WordBits
<1>1. i \in Nat /\ w \in 0..(Words(n) - 1) /\ b \in Bits
  BY EveryPatternHasAWord, SplitIndex
<1>2. SetBit(m, i) \in Masks(n)
  BY <1>1 DEF SetBit, Masks
<1>3. ASSUME NEW k \in Nat PROVE Contains(SetBit(m, i), k) <=> k = i \/ Contains(m, k)
  <2>1. k = i <=> k \div WordBits = w /\ k % WordBits = b
    BY <1>1, SplitIndex
  <2>2. CASE k \div WordBits = w
    BY <1>1, <2>1, <2>2 DEF SetBit, Masks, Contains
  <2>3. CASE k \div WordBits # w
    BY <1>1, <2>1, <2>3 DEF SetBit, Masks, Contains
  <2> QED BY <2>2, <2>3
<1> QED BY <1>2, <1>3

\* iter() yields what contains() accepts.
LEMMA IndicesAreContained ==
    ASSUME NEW n \in Nat, NEW m \in Masks(n)
    PROVE  Indices(m) = {i \in Nat : Contains(m, i)}
<1>1. DOMAIN m \subseteq Nat /\ \A w \in DOMAIN m : m[w] \subseteq Bits
  BY WordsAreBits
<1>2. ASSUME NEW i \in Indices(m) PROVE i \in Nat /\ Contains(m, i)
  <2>1. PICK w \in DOMAIN m : i \in {w * WordBits + b : b \in m[w]}
    BY <1>2 DEF Indices
  <2>2. PICK b \in m[w] : i = w * WordBits + b
    BY <2>1
  <2> QED BY <1>1, <2>1, <2>2, JoinIndex DEF Contains
<1>3. ASSUME NEW i \in Nat, Contains(m, i) PROVE i \in Indices(m)
  BY <1>3, SplitIndex DEF Contains, Indices
<1> QED BY <1>2, <1>3

\* any() is whether contains() accepts something.
LEMMA AnyIsContained ==
    ASSUME NEW n \in Nat, NEW m \in Masks(n)
    PROVE  Any(m) <=> \E i \in Nat : Contains(m, i)
<1>1. DOMAIN m \subseteq Nat /\ \A w \in DOMAIN m : m[w] \subseteq Bits
  BY WordsAreBits
<1>2. ASSUME Any(m) PROVE \E i \in Nat : Contains(m, i)
  <2>1. PICK w \in DOMAIN m : m[w] # {}
    BY <1>2 DEF Any
  <2>2. PICK b \in m[w] : TRUE
    BY <2>1
  <2>3. w * WordBits + b \in Nat /\ Contains(m, w * WordBits + b)
    BY <1>1, <2>1, <2>2, JoinIndex DEF Contains
  <2> QED BY <2>3
<1>3. ASSUME NEW i \in Nat, Contains(m, i) PROVE Any(m)
  BY <1>3 DEF Any, Contains
<1> QED BY <1>2, <1>3

-----------------------------------------------------------------------------
(* The loop *)

Inv ==
    /\ patterns \in Nat
    /\ hits \subseteq 0..(patterns - 1) /\ tried \subseteq 0..(patterns - 1)
    /\ mask \in Masks(patterns)
    /\ \A i \in Nat : Contains(mask, i) <=> i \in Matched
    /\ any \in BOOLEAN /\ (any <=> Matched # {})

LEMMA InitInv == Init => Inv
  BY EmptyContainsNothing DEF Init, Inv, Matched

LEMMA StepInv == Inv /\ [Next]_vars => Inv'
<1> SUFFICES ASSUME Inv, [Next]_vars PROVE Inv'
  OBVIOUS
<1>1. ASSUME NEW i \in hits, Try(i) PROVE Inv'
  <2>1. i \in 0..(patterns - 1) /\ i \in Nat
    BY DEF Inv
  <2>2. patterns' \in Nat /\ hits' \subseteq 0..(patterns' - 1)
            /\ tried' \subseteq 0..(patterns' - 1)
    BY <1>1, <2>1 DEF Inv, Try
  <2>3. CASE i \in emits
    <3>1. Matched' = Matched \cup {i}
      BY <1>1, <2>3 DEF Try, Matched
    <3>2. mask' = SetBit(mask, i) /\ patterns' = patterns /\ any' = TRUE
      BY <1>1, <2>3 DEF Try
    <3>3. mask' \in Masks(patterns')
      BY <2>1, <3>2, SetBitAddsOne DEF Inv
    <3>4. \A k \in Nat : Contains(mask', k) <=> k \in Matched'
      BY <2>1, <3>1, <3>2, SetBitAddsOne DEF Inv
    <3> QED BY <2>2, <3>1, <3>2, <3>3, <3>4 DEF Inv
  <2>4. CASE i \notin emits
    <3>1. Matched' = Matched
      BY <1>1, <2>4 DEF Try, Matched
    <3>2. UNCHANGED <<mask, any, patterns>>
      BY <1>1, <2>4 DEF Try
    <3> QED BY <2>2, <3>1, <3>2 DEF Inv, Contains
  <2> QED BY <2>3, <2>4
<1>2. CASE UNCHANGED vars
  BY <1>2 DEF Inv, Matched, Contains, vars
<1> QED BY <1>1, <1>2 DEF Next

LEMMA InvIsEnough == Inv => MaskIsTheSet
<1> SUFFICES ASSUME Inv PROVE MaskIsTheSet
  OBVIOUS
<1>1. Matched \subseteq Nat
  <2>1. 0..(patterns - 1) \subseteq Nat
    BY DEF Inv
  <2> QED BY <2>1 DEF Inv, Matched
<1>2. Indices(mask) = Matched
  BY <1>1, IndicesAreContained DEF Inv
<1>3. any <=> Any(mask)
  BY <1>1, AnyIsContained DEF Inv
<1> QED BY <1>2, <1>3 DEF Inv, MaskIsTheSet

\* The mask a match carries stands for the set of patterns that matched, for every number of
\* patterns: a query beyond 64 of them loses none and takes none for another (D-40).
THEOREM MaskCorrect == Spec => []MaskIsTheSet
<1>1. Init => Inv
  BY InitInv
<1>2. Inv /\ [Next]_vars => Inv'
  BY StepInv
<1>3. Inv => MaskIsTheSet
  BY InvIsEnough
<1> QED BY <1>1, <1>2, <1>3, PTL DEF Spec
=============================================================================
