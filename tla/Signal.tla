------------------------------- MODULE Signal -------------------------------
(***************************************************************************)
(* The coalesced binary signal (src/crates/globazog/src/sys/signal.rs): a  *)
(* flag under a mutex and a condition variable.  Its methods are the       *)
(* actions below, for the modules that instantiate this one; each is one   *)
(* critical section of the mutex.  A thread blocked on the condition       *)
(* variable is in `asleep`; once awake it takes the mutex again and is     *)
(* where it was, at the head of the predicate loop.                        *)
(***************************************************************************)
VARIABLES
    raised,     \* the flag
    asleep      \* the threads blocked on the condition variable

\* notify: raise the flag and wake one sleeper, if there is one.
Notify ==
    /\ raised' = TRUE
    /\ \/ asleep = {} /\ asleep' = {}
       \/ \E t \in asleep : asleep' = asleep \ {t}

\* wait and wait_timeout, when the flag is up: consume it and return.
Take(t) ==
    /\ t \notin asleep /\ raised
    /\ raised' = FALSE
    /\ UNCHANGED asleep

\* ... and when it is not: block.
Sleep(t) ==
    /\ t \notin asleep /\ ~raised
    /\ asleep' = asleep \cup {t}
    /\ UNCHANGED raised

\* wait_timeout, the timeout elapsed, which a spurious wake does not postpone: return,
\* consuming a flag raised in the meantime.
Elapse(t) ==
    /\ asleep' = asleep \ {t}
    /\ raised' = FALSE

\* A condition variable may wake a thread for no reason; the predicate loop looks again.
WakeSpuriously(t) ==
    /\ t \in asleep
    /\ asleep' = asleep \ {t}
    /\ UNCHANGED raised
=============================================================================
