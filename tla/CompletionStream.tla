-------------------------- MODULE CompletionStream --------------------------
(***************************************************************************)
(* What the completion queue promises the client that drains it            *)
(* (src/crates/globazog/src/ring.rs and the contract D-61, D-64 and D-71   *)
(* that its items carry): containers are entered below a live parent, a    *)
(* report names only a container whose whole chain of parents is live,     *)
(* every entered container ends exactly once, and the terminal is the last *)
(* item, with nothing live and, if the walk failed, its cause just before. *)
(* The order of two ends is left open: see BottomUpEnds in EngineChecks.   *)
(***************************************************************************)
EXTENDS Naturals

CONSTANTS Containers, NoContainer, Reasons

VARIABLES
    live,       \* the containers entered and not ended
    above,      \* above[c]: the containers above c, for every live c
    ended,      \* the containers ended
    last,       \* the latest item: its kind and its container
    terminal    \* "none", or the reason of the terminal

vars == <<live, above, ended, last, terminal>>

Latest(kind, c) == [kind |-> kind, container |-> c]

Init ==
    /\ live = {} /\ ended = {}
    /\ above = [c \in {} |-> {}]
    /\ last = Latest("none", NoContainer)
    /\ terminal = "none"

\* The cause of a failure: an error in no container.
Cause == Latest("Error", NoContainer)

\* Nothing but the terminal follows the cause of a failure, and nothing the terminal.
Running == terminal = "none" /\ last # Cause

\* A container is entered once, a root or below a live parent whose chain is live.
Enter(c, parent) ==
    /\ Running
    /\ c \notin live \cup ended
    /\ \/ parent = NoContainer
       \/ parent \in live /\ above[parent] \subseteq live
    /\ live' = live \cup {c}
    /\ above' = [d \in live' |-> IF d # c THEN above[d]
                                 ELSE IF parent = NoContainer THEN {}
                                 ELSE above[parent] \cup {parent}]
    /\ last' = Latest("Enter", c)
    /\ UNCHANGED <<ended, terminal>>

\* A match, a blocked link or an error in a container the client can resolve to a path.
Report(kind, c) ==
    /\ Running
    /\ c \in live /\ above[c] \subseteq live
    /\ last' = Latest(kind, c)
    /\ UNCHANGED <<live, above, ended, terminal>>

RootError ==
    /\ Running
    /\ last' = Cause
    /\ UNCHANGED <<live, above, ended, terminal>>

End(c) ==
    /\ Running
    /\ c \in live
    /\ live' = live \ {c}
    /\ above' = [d \in live' |-> above[d]]
    /\ ended' = ended \cup {c}
    /\ last' = Latest("End", c)
    /\ UNCHANGED terminal

Terminal(r) ==
    /\ terminal = "none"
    /\ live = {}
    /\ r = "Failed" <=> last = Cause
    /\ terminal' = r
    /\ last' = Latest("Terminal", NoContainer)
    /\ UNCHANGED <<live, above, ended>>

Next ==
    \/ \E c \in Containers :
         \/ \E parent \in Containers \cup {NoContainer} : Enter(c, parent)
         \/ \E kind \in {"Match", "Blocked", "Error"} : Report(kind, c)
         \/ End(c)
    \/ RootError
    \/ \E r \in Reasons : Terminal(r)

Spec == Init /\ [][Next]_vars
=============================================================================
