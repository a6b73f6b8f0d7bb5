-------------------------------- MODULE Ring --------------------------------
(***************************************************************************)
(* The bounded completion ring and its two signals                         *)
(* (src/crates/globazog/src/ring.rs), at the granularity of queue          *)
(* operations and signal critical sections.  Producers push as the engine  *)
(* does: an emitter gives an item up once the cancel flag is seen, a       *)
(* finisher (ContainerEnd, cause, Terminal) never does; both wait on a     *)
(* full ring with a timeout.  A blocking producer uses push_blocking, which*)
(* has none.  A waiter consumes with wait_pop, a watcher with              *)
(* wait_nonempty and then pop; each wants a number of items and leaves.    *)
(* The queue itself is crossbeam's ArrayQueue, taken as linearizable.      *)
(***************************************************************************)
EXTENDS Naturals, Sequences, FiniteSets

CONSTANTS
    Emitters, Finishers, Blockers,  \* producers, by how they push
    Waiters, Watchers,              \* consumers, by how they wait
    Capacity,
    Casts       \* who takes part: the items each producer pushes and each consumer takes

Producers == Emitters \cup Finishers \cup Blockers
Consumers == Waiters \cup Watchers
Threads == Producers \cup Consumers

ASSUME RolesAssumption ==
    /\ Producers \cap Consumers = {} /\ Waiters \cap Watchers = {}
    /\ Emitters \cap (Finishers \cup Blockers) = {} /\ Finishers \cap Blockers = {}
    /\ Capacity \in Nat \ {0}
    /\ Casts \subseteq [Threads -> Nat]

VARIABLES
    queue,                      \* the ArrayQueue: items are the producers that pushed them
    nonemptyRaised, nonemptyAsleep,
    spaceRaised, spaceAsleep,
    cancel, waking,             \* the engine's cancel flag; its caller owes wake_producers
    pc, left                    \* left[t]: items t still has to push or take

signalVars == <<nonemptyRaised, nonemptyAsleep, spaceRaised, spaceAsleep>>
vars == <<queue, signalVars, cancel, waking, pc, left>>

Nonempty == INSTANCE Signal WITH raised <- nonemptyRaised, asleep <- nonemptyAsleep
Space == INSTANCE Signal WITH raised <- spaceRaised, asleep <- spaceAsleep

\* Where a producer begins its loop, and where a consumer does.
Loop(p) == IF p \in Emitters THEN "load" ELSE "push"
Start(c) == IF c \in Watchers THEN "look" ELSE "pop"

Init ==
    /\ queue = <<>>
    /\ nonemptyRaised = FALSE /\ nonemptyAsleep = {}
    /\ spaceRaised = FALSE /\ spaceAsleep = {}
    /\ cancel = FALSE /\ waking = FALSE
    /\ left \in Casts
    /\ pc = [t \in Threads |-> IF left[t] = 0 THEN "done"
                               ELSE IF t \in Producers THEN Loop(t) ELSE Start(t)]

Goto(t, step) == pc' = [pc EXCEPT ![t] = step]

\* Mutant: the test of the queue is off by one.
RoomForOneMore == Len(queue) <= Capacity

Room == Len(queue) < Capacity

\* One item less to do; back to the start of the loop, or leave.
Settle(t, start) ==
    /\ left' = [left EXCEPT ![t] = @ - 1]
    /\ Goto(t, IF left[t] = 1 THEN "done" ELSE start)

-----------------------------------------------------------------------------
(* Producers *)

\* emit looks at the cancel flag before each attempt, and gives the item up if it is set.
Load(p) ==
    /\ pc[p] = "load"
    /\ IF cancel THEN Settle(p, "load") ELSE Goto(p, "push") /\ UNCHANGED left
    /\ UNCHANGED <<queue, signalVars, cancel, waking>>

\* try_push, the queue operation.
Push(p) ==
    /\ pc[p] = "push"
    /\ IF Room
       THEN queue' = Append(queue, p) /\ Goto(p, "signal")
       ELSE Goto(p, "park") /\ UNCHANGED queue
    /\ UNCHANGED <<signalVars, cancel, waking, left>>

\* Mutant: the wrong signal is raised.
SignalSpaceInstead(p) ==
    /\ pc[p] = "signal"
    /\ Space!Notify
    /\ Settle(p, Loop(p))
    /\ UNCHANGED <<queue, nonemptyRaised, nonemptyAsleep, cancel, waking>>

\* try_push, the notification of the consumers.
SignalNonempty(p) ==
    /\ pc[p] = "signal"
    /\ Nonempty!Notify
    /\ Settle(p, Loop(p))
    /\ UNCHANGED <<queue, spaceRaised, spaceAsleep, cancel, waking>>

\* wait_space_timeout, or the wait of push_blocking: the signal was up, or go to sleep.
Park(p) ==
    /\ pc[p] = "park"
    /\ \/ Space!Take(p) /\ Goto(p, Loop(p))
       \/ Space!Sleep(p) /\ UNCHANGED pc
    /\ UNCHANGED <<queue, nonemptyRaised, nonemptyAsleep, cancel, waking, left>>

\* Mutant: mandatory pushes wait without a timeout.
ParkTimeoutOfEmitters(p) ==
    /\ pc[p] = "park" /\ p \in Emitters
    /\ Space!Elapse(p)
    /\ Goto(p, Loop(p))
    /\ UNCHANGED <<queue, nonemptyRaised, nonemptyAsleep, cancel, waking, left>>

\* wait_space_timeout, the 5 ms are over.
ParkTimeout(p) ==
    /\ pc[p] = "park" /\ p \notin Blockers
    /\ Space!Elapse(p)
    /\ Goto(p, Loop(p))
    /\ UNCHANGED <<queue, nonemptyRaised, nonemptyAsleep, cancel, waking, left>>

Producer(p) == Load(p) \/ Push(p) \/ SignalNonempty(p) \/ Park(p) \/ ParkTimeout(p)

\* request_cancel: the flag, then wake_producers.
Cancel ==
    /\ ~cancel
    /\ cancel' = TRUE /\ waking' = TRUE
    /\ UNCHANGED <<queue, signalVars, pc, left>>

WakeProducers ==
    /\ waking
    /\ Space!Notify
    /\ waking' = FALSE
    /\ UNCHANGED <<queue, nonemptyRaised, nonemptyAsleep, cancel, pc, left>>

-----------------------------------------------------------------------------
(* Consumers *)

\* pop, the queue operation; wait_pop goes on to wait when it finds nothing.
Pop(c) ==
    /\ pc[c] = "pop"
    /\ IF queue # <<>>
       THEN queue' = Tail(queue) /\ Goto(c, "space")
       ELSE Goto(c, IF c \in Watchers THEN "look" ELSE "wait") /\ UNCHANGED queue
    /\ UNCHANGED <<signalVars, cancel, waking, left>>

\* pop, the notification of a producer.
SignalSpace(c) ==
    /\ pc[c] = "space"
    /\ Space!Notify
    /\ Goto(c, "residue")
    /\ UNCHANGED <<queue, nonemptyRaised, nonemptyAsleep, cancel, waking, left>>

\* Mutant: a consumer that leaves items behind wakes nobody.
ResidueIgnored(c) ==
    /\ pc[c] = "residue"
    /\ Settle(c, Start(c))
    /\ UNCHANGED <<queue, signalVars, cancel, waking>>

\* pop, the look at what is left.
Residue(c) ==
    /\ pc[c] = "residue"
    /\ IF queue = <<>> THEN Settle(c, Start(c)) ELSE Goto(c, "rearm") /\ UNCHANGED left
    /\ UNCHANGED <<queue, signalVars, cancel, waking>>

\* pop, the wake of the next consumer.
Rearm(c) ==
    /\ pc[c] = "rearm"
    /\ Nonempty!Notify
    /\ Settle(c, Start(c))
    /\ UNCHANGED <<queue, spaceRaised, spaceAsleep, cancel, waking>>

\* wait_nonempty, the test of its loop.
Look(c) ==
    /\ pc[c] = "look"
    /\ Goto(c, IF queue = <<>> THEN "wait" ELSE "pass")
    /\ UNCHANGED <<queue, signalVars, cancel, waking, left>>

\* wait_nonempty, the wake it passes on; its caller then pops.
Pass(c) ==
    /\ pc[c] = "pass"
    /\ Nonempty!Notify
    /\ Goto(c, "pop")
    /\ UNCHANGED <<queue, spaceRaised, spaceAsleep, cancel, waking, left>>

Wait(c) ==
    /\ pc[c] = "wait"
    /\ \/ Nonempty!Take(c) /\ Goto(c, Start(c))
       \/ Nonempty!Sleep(c) /\ UNCHANGED pc
    /\ UNCHANGED <<queue, spaceRaised, spaceAsleep, cancel, waking, left>>

Consumer(c) ==
    Pop(c) \/ SignalSpace(c) \/ Residue(c) \/ Rearm(c) \/ Look(c) \/ Pass(c) \/ Wait(c)

Spurious(t) ==
    /\ \/ Nonempty!WakeSpuriously(t) /\ UNCHANGED <<spaceRaised, spaceAsleep>>
       \/ Space!WakeSpuriously(t) /\ UNCHANGED <<nonemptyRaised, nonemptyAsleep>>
    /\ UNCHANGED <<queue, cancel, waking, pc, left>>

\* Nothing is left to push or nobody is left to pop, and the rest may sleep for ever.
Over ==
    /\ \A p \in Producers : pc[p] = "done"
    /\ queue = <<>> \/ \A c \in Consumers : pc[c] = "done"
    /\ UNCHANGED vars

Next ==
    \/ \E p \in Producers : Producer(p)
    \/ \E c \in Consumers : Consumer(c)
    \/ \E t \in Threads : Spurious(t)
    \/ Cancel \/ WakeProducers \/ Over

\* Threads run and timers elapse; nothing makes a cancel or a spurious wake happen.
Fairness ==
    /\ \A p \in Producers : WF_vars(Producer(p)) /\ WF_vars(ParkTimeout(p))
    /\ \A c \in Consumers : WF_vars(Consumer(c))
    /\ WF_vars(WakeProducers)

Spec == Init /\ [][Next]_vars /\ Fairness

-----------------------------------------------------------------------------
TypeOK ==
    /\ queue \in Seq(Producers) /\ Len(queue) <= Capacity
    /\ nonemptyRaised \in BOOLEAN /\ spaceRaised \in BOOLEAN
    /\ nonemptyAsleep \subseteq Consumers /\ spaceAsleep \subseteq Producers
    /\ cancel \in BOOLEAN /\ waking \in BOOLEAN
    /\ pc \in [Threads -> {"load", "push", "signal", "park", "pop", "space", "residue",
                           "rearm", "look", "pass", "wait", "done"}]
    /\ left \in [Threads -> Nat]

\* A thread that is about to raise the non-empty signal, or to look at the queue again.
MindsQueue(t) == pc[t] \in {"signal", "pop", "space", "residue", "rearm", "look", "pass"}

\* While items are queued a consumer sleeps only if the signal is up or some other thread
\* is still to raise it or to look: collapsed wakes strand nobody ("no queued item can
\* strand a waiter", ring.rs:500).
NoStrandedConsumer ==
    queue # <<>> /\ nonemptyAsleep # {} =>
        \/ nonemptyRaised
        \/ \E t \in Threads : MindsQueue(t)

\* Queued items are consumed as long as a consumer still wants any.
QueuedIsConsumed ==
    queue # <<>> ~> (queue = <<>> \/ \A c \in Consumers : pc[c] = "done")

\* Every mandatory item lands, and every item of a lone blocking producer, whichever wakes
\* are coalesced or are taken by an emitter that then gives up.
MandatoryLands == <>(\A p \in Finishers \cup Blockers : pc[p] = "done")
=============================================================================
