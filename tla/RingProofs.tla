------------------------------ MODULE RingProofs ------------------------------
(***************************************************************************)
(* Proofs about the completion ring (ring.rs) and its signals, for every   *)
(* cast of producers and consumers and every capacity.                     *)
(***************************************************************************)
EXTENDS Ring, TLAPS

ProducerSteps == {"load", "push", "signal", "park", "done"}
ConsumerSteps == {"pop", "space", "residue", "rearm", "look", "pass", "wait", "done"}

\* A thread sleeps only where it waits, and has something left to do until it leaves.
Posts ==
    /\ \A p \in Producers : pc[p] \in ProducerSteps
    /\ \A c \in Consumers : pc[c] \in ConsumerSteps
    /\ \A c \in nonemptyAsleep : pc[c] = "wait"
    /\ \A p \in spaceAsleep : pc[p] = "park"
    /\ \A t \in Threads : pc[t] # "done" => left[t] # 0

\* Nor does a consumer that is still on its way to sleep find items queued, the signal down
\* and nobody to raise it.
NobodyMissesAnItem ==
    queue # <<>> /\ (\E c \in Consumers : pc[c] = "wait") =>
        nonemptyRaised \/ \E t \in Threads : MindsQueue(t)

RingInv == TypeOK /\ Posts /\ NobodyMissesAnItem

-----------------------------------------------------------------------------
(* Types *)

\* Producers and consumers are different threads.
LEMMA Roles ==
    /\ Threads = Producers \cup Consumers /\ Producers \cap Consumers = {}
    /\ Capacity \in Nat \ {0}
  BY RolesAssumption DEF Threads

\* A producer keeps the types and leaves the consumers where they are.
LEMMA ProducerKeepsTypes ==
    ASSUME TypeOK, Posts, NEW p \in Producers, Producer(p)
    PROVE  TypeOK' /\ Posts'
<1> USE Roles DEF TypeOK, Posts, ProducerSteps, ConsumerSteps, signalVars
<1>1. CASE Load(p)
  BY <1>1 DEF Load, Settle, Goto
<1>2. CASE Push(p)
  <2>1. queue' \in Seq(Producers) /\ Len(queue') <= Capacity
    <3>1. queue \in Seq(Producers) /\ Len(queue) <= Capacity /\ Capacity \in Nat
      OBVIOUS
    <3>2. (queue' = Append(queue, p) /\ Len(queue) < Capacity) \/ queue' = queue
      BY <1>2 DEF Push, Room
    <3> HIDE Roles DEF TypeOK, Posts
    <3>. QED
      BY <3>1, <3>2
  <2>. QED
    BY <1>2, <2>1 DEF Push, Goto
<1>3. CASE SignalNonempty(p)
  BY <1>3 DEF SignalNonempty, Nonempty!Notify, Settle, Goto, Loop
<1>4. CASE Park(p)
  BY <1>4 DEF Park, Space!Take, Space!Sleep, Goto, Loop
<1>5. CASE ParkTimeout(p)
  BY <1>5 DEF ParkTimeout, Space!Elapse, Goto, Loop
<1>. QED
  BY <1>1, <1>2, <1>3, <1>4, <1>5 DEF Producer

\* A consumer keeps the types and leaves the producers where they are.
LEMMA ConsumerKeepsTypes ==
    ASSUME TypeOK, Posts, NEW c \in Consumers, Consumer(c)
    PROVE  TypeOK' /\ Posts'
<1> USE Roles DEF TypeOK, Posts, ProducerSteps, ConsumerSteps, signalVars
<1>1. CASE Pop(c)
  <2>1. queue' \in Seq(Producers) /\ Len(queue') <= Capacity
    <3>1. queue \in Seq(Producers) /\ Len(queue) <= Capacity /\ Capacity \in Nat
      OBVIOUS
    <3>2. (queue' = Tail(queue) /\ queue # <<>>) \/ queue' = queue
      BY <1>1 DEF Pop
    <3> HIDE Roles DEF TypeOK, Posts
    <3>. QED
      BY <3>1, <3>2
  <2>. QED
    BY <1>1, <2>1 DEF Pop, Goto
<1>2. CASE SignalSpace(c)
  BY <1>2 DEF SignalSpace, Space!Notify, Goto
<1>3. CASE Residue(c)
  BY <1>3 DEF Residue, Settle, Goto, Start
<1>4. CASE Rearm(c)
  BY <1>4 DEF Rearm, Nonempty!Notify, Settle, Goto, Start
<1>5. CASE Look(c)
  BY <1>5 DEF Look, Goto
<1>6. CASE Pass(c)
  BY <1>6 DEF Pass, Nonempty!Notify, Goto
<1>7. CASE Wait(c)
  BY <1>7 DEF Wait, Nonempty!Take, Nonempty!Sleep, Goto, Start
<1>. QED
  BY <1>1, <1>2, <1>3, <1>4, <1>5, <1>6, <1>7 DEF Consumer

\* A cancel, its wake of the producers and a spurious wake move nobody.
LEMMA OthersKeepTypes ==
    ASSUME TypeOK, Posts,
           (\E t \in Threads : Spurious(t)) \/ Cancel \/ WakeProducers \/ UNCHANGED vars
    PROVE  TypeOK' /\ Posts' /\ UNCHANGED <<queue, nonemptyRaised, pc>>
<1> USE DEF TypeOK, Posts, signalVars
<1>1. CASE \E t \in Threads : Spurious(t)
  BY <1>1 DEF Spurious, Nonempty!WakeSpuriously, Space!WakeSpuriously
<1>2. CASE Cancel
  BY <1>2 DEF Cancel
<1>3. CASE WakeProducers
  BY <1>3 DEF WakeProducers, Space!Notify
<1>4. CASE UNCHANGED vars
  BY <1>4 DEF vars
<1>. QED
  BY <1>1, <1>2, <1>3, <1>4

-----------------------------------------------------------------------------
(* Wakes *)

\* A push that finds consumers waiting owes them the signal, and raises it.
LEMMA ProducerMissesNobody ==
    ASSUME TypeOK, Posts, NobodyMissesAnItem, NEW p \in Producers, Producer(p)
    PROVE  NobodyMissesAnItem'
<1>0. pc \in [Threads -> ProducerSteps \cup ConsumerSteps] /\ p \in Threads
  BY Roles DEF TypeOK, ProducerSteps, ConsumerSteps
<1>1. CASE Load(p) \/ Park(p) \/ ParkTimeout(p) \/ (Push(p) /\ UNCHANGED queue)
  <2>1. /\ UNCHANGED <<queue, nonemptyRaised>>
        /\ pc[p] \in {"load", "park", "push"} /\ pc'[p] \in {"load", "park", "push", "done"}
        /\ \A t \in Threads \ {p} : pc'[t] = pc[t]
    BY <1>0, <1>1 DEF Load, Park, ParkTimeout, Push, Settle, Goto, Loop, signalVars
  <2>2. \A t \in Threads : MindsQueue(t) => MindsQueue(t)'
    BY <2>1 DEF MindsQueue
  <2>3. \A c \in Consumers : pc'[c] = "wait" => pc[c] = "wait"
    BY <2>1, Roles
  <2>. QED
    BY <2>1, <2>2, <2>3 DEF NobodyMissesAnItem
<1>2. CASE Push(p) /\ ~UNCHANGED queue
  BY <1>0, <1>2 DEF Push, Goto, NobodyMissesAnItem, MindsQueue
<1>3. CASE SignalNonempty(p)
  BY <1>3 DEF SignalNonempty, Nonempty!Notify, NobodyMissesAnItem
<1>. QED
  BY <1>1, <1>2, <1>3 DEF Producer

\* A consumer that takes the signal looks at the queue again before it sleeps, and raises it
\* again as long as it leaves items behind.
LEMMA ConsumerMissesNobody ==
    ASSUME TypeOK, Posts, NobodyMissesAnItem, NEW c \in Consumers, Consumer(c)
    PROVE  NobodyMissesAnItem'
<1>0. pc \in [Threads -> ProducerSteps \cup ConsumerSteps] /\ c \in Threads
  BY Roles DEF TypeOK, ProducerSteps, ConsumerSteps
<1>1. CASE queue' = <<>> \/ nonemptyRaised'
  BY <1>1 DEF NobodyMissesAnItem
<1>2. CASE MindsQueue(c)'
  BY <1>0, <1>2 DEF NobodyMissesAnItem, MindsQueue
<1>3. CASE Wait(c) /\ UNCHANGED pc
  <2>1. pc[c] = "wait" /\ (Goto(c, Start(c)) => pc'[c] # "wait")
    BY <1>0, <1>3 DEF Wait, Goto, Start
  <2>2. UNCHANGED <<queue, nonemptyRaised, pc>>
    BY <1>3, <2>1 DEF Wait, Nonempty!Sleep
  <2>. QED
    BY <2>2 DEF NobodyMissesAnItem, MindsQueue
<1>4. queue' = <<>> \/ nonemptyRaised' \/ MindsQueue(c)' \/ (Wait(c) /\ UNCHANGED pc)
  <2>1. CASE Pop(c)
    BY <1>0, <2>1 DEF Pop, Goto, MindsQueue
  <2>2. CASE SignalSpace(c)
    BY <1>0, <2>2 DEF SignalSpace, Goto, MindsQueue
  <2>3. CASE Residue(c)
    BY <1>0, <2>3 DEF Residue, Goto, MindsQueue
  <2>4. CASE Rearm(c) \/ Pass(c)
    BY <2>4 DEF Rearm, Pass, Nonempty!Notify
  <2>5. CASE Look(c)
    BY <1>0, <2>5 DEF Look, Goto, MindsQueue
  <2>6. CASE Wait(c)
    BY <1>0, <2>6 DEF Wait, Goto, Start, MindsQueue
  <2>. QED
    BY <2>1, <2>2, <2>3, <2>4, <2>5, <2>6 DEF Consumer
<1>. QED
  BY <1>1, <1>2, <1>3, <1>4

-----------------------------------------------------------------------------
(* The theorems *)

\* At the start the ring is empty and nobody sleeps.
LEMMA InitRing == Init => RingInv
<1> SUFFICES ASSUME Init PROVE RingInv
  OBVIOUS
<1>1. left \in [Threads -> Nat]
  BY RolesAssumption DEF Init
<1>2. TypeOK
  <2>1. pc \in [Threads -> {"load", "push", "signal", "park", "pop", "space", "residue",
                            "rearm", "look", "pass", "wait", "done"}]
    BY DEF Init, Loop, Start
  <2>2. queue \in Seq(Producers) /\ Len(queue) <= Capacity
    BY Roles DEF Init
  <2>. QED
    BY <1>1, <2>1, <2>2 DEF Init, TypeOK
<1>3. Posts
  BY <1>1, Roles DEF Init, Posts, ProducerSteps, ConsumerSteps, Loop, Start
<1>. QED
  BY <1>2, <1>3 DEF Init, RingInv, NobodyMissesAnItem

\* Every step of every thread keeps the invariant.
LEMMA NextKeepsRing == RingInv /\ [Next]_vars => RingInv'
<1> SUFFICES ASSUME RingInv, [Next]_vars PROVE RingInv'
  OBVIOUS
<1>1. TypeOK /\ Posts /\ NobodyMissesAnItem
  BY DEF RingInv
<1>2. CASE \E p \in Producers : Producer(p)
  BY <1>1, <1>2, ProducerKeepsTypes, ProducerMissesNobody DEF RingInv
<1>3. CASE \E c \in Consumers : Consumer(c)
  BY <1>1, <1>3, ConsumerKeepsTypes, ConsumerMissesNobody DEF RingInv
<1>4. CASE (\E t \in Threads : Spurious(t)) \/ Cancel \/ WakeProducers \/ UNCHANGED vars
  BY <1>1, <1>4, OthersKeepTypes DEF RingInv, NobodyMissesAnItem, MindsQueue
<1>. QED
  BY <1>2, <1>3, <1>4 DEF Next, Over

\* The invariant holds of every behaviour of the ring.
THEOREM RingInvariance == Spec => []RingInv
<1>. QED
  BY InitRing, NextKeepsRing, PTL DEF Spec

\* The ring never holds more than its capacity, and only a consumer sleeps on the non-empty
\* signal, only a producer on the space signal (ring.rs).
THEOREM RingTypeCorrect == Spec => []TypeOK
<1>1. RingInv => TypeOK
  BY DEF RingInv
<1>. QED
  BY <1>1, RingInvariance, PTL

\* While items are queued no consumer sleeps unless the signal is up or somebody is about to
\* raise it or to look at the queue (ring.rs:500).
THEOREM NobodyStranded == Spec => []NoStrandedConsumer
<1>1. RingInv => NoStrandedConsumer
  BY DEF RingInv, TypeOK, Posts, NobodyMissesAnItem, NoStrandedConsumer
<1>. QED
  BY <1>1, RingInvariance, PTL
=============================================================================
