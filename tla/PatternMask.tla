---------------------------- MODULE PatternMask ----------------------------
(***************************************************************************)
(* The set of patterns a match carries (PatternMask of                     *)
(* src/crates/globazog/src/ring.rs, D-40): words of 64 bits, filled by the *)
(* loop of Engine::process over the patterns whose glob matched an entry.  *)
(* A word is the set of its bits that are on. Engine itself carries the    *)
(* set of patterns; the theorem below is why it may.                       *)
(***************************************************************************)
EXTENDS Integers

VARIABLES
    patterns,   \* how many patterns the query has
    emits,      \* those whose conditions hold of the entry
    hits,       \* those whose globs matched and that the loop has yet to look at
    tried,      \* those it has looked at
    mask,
    any

vars == <<patterns, emits, hits, tried, mask, any>>

-----------------------------------------------------------------------------
(* PatternMask *)

WordBits == 64

\* num_patterns.div_ceil(64).max(1)
Words(n) == IF n = 0 THEN 1 ELSE (n + WordBits - 1) \div WordBits

Empty(n) == [w \in 0..(Words(n) - 1) |-> {}]

SetBit(m, i) == [m EXCEPT ![i \div WordBits] = m[i \div WordBits] \cup {i % WordBits}]

Contains(m, i) == i \div WordBits \in DOMAIN m /\ i % WordBits \in m[i \div WordBits]

Any(m) == \E w \in DOMAIN m : m[w] # {}

\* What iter() yields.
Indices(m) == UNION {{w * WordBits + b : b \in m[w]} : w \in DOMAIN m}

-----------------------------------------------------------------------------
(* The loop *)

Init ==
    /\ patterns \in Nat
    /\ emits \in SUBSET (0..(patterns - 1)) /\ hits \in SUBSET (0..(patterns - 1))
    /\ tried = {}
    /\ mask = Empty(patterns) /\ any = FALSE

Try(i) ==
    /\ hits' = hits \ {i} /\ tried' = tried \cup {i}
    /\ IF i \in emits THEN mask' = SetBit(mask, i) /\ any' = TRUE
                      ELSE UNCHANGED <<mask, any>>
    /\ UNCHANGED <<patterns, emits>>

Next == \E i \in hits : Try(i)

Spec == Init /\ [][Next]_vars

-----------------------------------------------------------------------------
(* Properties *)

Matched == tried \cap emits

\* The mask tells of every index whether its pattern matched, beyond the first word and in a
\* word that is not full as well, iter() yields just those indices, and the flag that lets the
\* match be emitted is any().
MaskIsTheSet ==
    /\ \A i \in Nat : Contains(mask, i) <=> i \in Matched
    /\ Indices(mask) = Matched
    /\ any <=> Any(mask)
=============================================================================
