------------------------------- MODULE MCRing -------------------------------
(***************************************************************************)
(* Two small casts for the completion ring: the engine's, and the client   *)
(* API's that the engine does not use.                                     *)
(***************************************************************************)
EXTENDS Ring, TLC

CONSTANTS e1, f1, f2, b1, c1, c2, n1

Nobody == [t \in Threads |-> 0]

\* An emitter that may give up beside two finishers; two consumers that leave.
Team == (e1 :> 2) @@ (f1 :> 1) @@ (f2 :> 1) @@ (c1 :> 2) @@ (c2 :> 2) @@ Nobody
\* A lone blocking producer, two wait_pop consumers and a wait_nonempty consumer.
Lone == (b1 :> 4) @@ (c1 :> 1) @@ (c2 :> 1) @@ (n1 :> 2) @@ Nobody

TwoCasts == {Team, Lone}
=============================================================================
