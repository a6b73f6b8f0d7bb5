----------------------------- MODULE EngineProofs -----------------------------
(***************************************************************************)
(* Proofs about the walking engine (engine.rs) and the stream it makes     *)
(* (ring.rs): its types, its count of jobs, the reference counts of its    *)
(* containers, the wakes of its idle workers, what it still owes the       *)
(* client, that what the client pops keeps the promises of                 *)
(* CompletionStream, and that a dropped handle leaves nothing behind, for  *)
(* every pool of workers, ring capacity, file system and query.            *)
(***************************************************************************)
EXTENDS EngineChecks, FiniteSetTheorems, SequenceTheorems, TLAPS

-----------------------------------------------------------------------------
(* The inductive invariant: the types of all the variables, which for a    *)
(* worker's registers depend on the step it is at, and the accounting.     *)

Idle == {"next", "waiting", "exit"}

Steps == Idle \cup {"enumerate", "offer", "push", "opened", "scan", "descend", "launch",
                    "notify", "release", "cascade", "ends", "end", "slot", "flag", "swap",
                    "halt", "wake", "complete"}

\* The items a worker offers, which a cancel lets it give up.
Bailable == EnterItem \cup MatchItem \cup BlockItem \cup ErrorItem

WorkerType(w) ==
    /\ failures[w] \subseteq Entry /\ entries[w] \subseteq Entry
    /\ ends[w] \in Seq(Containers)
    /\ pc[w] \notin Idle => job[w] \in Job
    /\ pc[w] \in {"descend", "launch"} => entry[w] \in Entry
    /\ pc[w] \in {"offer", "push"} =>
         /\ item[w] \in Bailable
         /\ item[w].type = "Match" => entry[w] \in Entry
    /\ pc[w] = "end" => item[w] \in EndItem

WorkerTypes ==
    /\ pc \in [Workers -> Steps]
    /\ DOMAIN job = Workers /\ DOMAIN failures = Workers /\ DOMAIN entries = Workers
    /\ DOMAIN entry = Workers /\ DOMAIN item = Workers /\ DOMAIN up = Workers
    /\ DOMAIN ends = Workers
    /\ \A w \in Workers : WorkerType(w)

ContainerTypes ==
    /\ DOMAIN containers \subseteq Containers
    /\ \A id \in DOMAIN containers :
         containers[id] \in [parent : Containers \cup {NoContainer}, refcount : Nat \ {0}]

SharedTypes ==
    /\ stack \in Seq(Job)
    /\ nextId \in Nat \ {0}
    /\ DOMAIN open \subseteq Containers
    /\ \A id \in DOMAIN open : open[id] \in Nat
    /\ visited \subseteq FileIds
    /\ lock \in Workers \cup {NoOne}
    /\ ContainerTypes

FlagTypes ==
    /\ denied \subseteq MayDeny /\ unread \subseteq MayLose
    /\ cancelled \in BOOLEAN /\ finished \in BOOLEAN /\ cancel \in BOOLEAN /\ fatal \in BOOLEAN
    /\ fatalError \subseteq ErrorItem

CoordTypes ==
    /\ cpc \in {"join", "close", "end", "cause", "terminal", "finish", "done"}
    /\ leftovers \subseteq Containers
    /\ cpc = "end" => closing \in Containers
    /\ reason \in Reasons

RingTypes == ring \in Seq(Item) /\ Len(ring) <= Capacity

Types == WorkerTypes /\ SharedTypes /\ FlagTypes /\ CoordTypes /\ RingTypes

IInv == Types /\ OutstandingIsExact

-----------------------------------------------------------------------------
(* Type correctness, one step per action *)

\* A step that touches nothing but the registers of the workers keeps the other types.
LEMMA RegistersOnly ==
    ASSUME Types, WorkerTypes', UNCHANGED <<fsVars, sharedVars, ring, flagVars, nextId, coordVars>>
    PROVE  Types'
  BY DEF Types, SharedTypes, ContainerTypes, FlagTypes, CoordTypes, RingTypes, fsVars,
         sharedVars, flagVars, coordVars

\* An emit that ends, by a push or by a cancel, goes on with the scan or gives the job up.
LEMMA ResumedStep ==
    ASSUME Types, NEW w \in Workers, pc[w] \in {"offer", "push"}, NEW pushed \in BOOLEAN
    PROVE  /\ Resumed(w, pushed) \in {"opened", "release", "descend", "scan"}
           /\ Resumed(w, pushed) = "descend" => entry[w] \in Entry
<1>1. item[w] \in Bailable /\ (item[w].type = "Match" => entry[w] \in Entry)
  BY DEF Types, WorkerTypes, WorkerType
<1>. QED
  BY <1>1 DEF Resumed, Bailable, EnterItem, MatchItem, BlockItem, ErrorItem

\* Every step of a worker leaves every variable, and every register of every worker, in its
\* type.
LEMMA WorkerKeepsTypes ==
    ASSUME Types, NEW w \in Workers, Worker(w)
    PROVE  Types'
<1>1. CASE NextJob(w)
  <2>1. stack' \in Seq(Job)
    BY <1>1 DEF Types, SharedTypes, NextJob
  <2>2. WorkerTypes'
    <3>1. CASE /\ stack # <<>>
               /\ job' = [job EXCEPT ![w] = stack[Len(stack)]]
               /\ Goto(w, "enumerate")
      <4>1. stack[Len(stack)] \in Job
        BY <3>1 DEF Types, SharedTypes
      <4>. QED
        BY <1>1, <3>1, <4>1 DEF Types, WorkerTypes, WorkerType, NextJob, Goto, Idle, Steps
    <3>2. CASE UNCHANGED job /\ \A v \in Workers : pc'[v] = pc[v] \/ pc'[v] \in Idle
      <4>1. pc' \in [Workers -> Steps]
        BY <1>1 DEF Types, WorkerTypes, NextJob, Goto, AllWoken, Idle, Steps
      <4>. QED
        BY <1>1, <3>2, <4>1 DEF Types, WorkerTypes, WorkerType, NextJob, Idle
    <3>. QED
      BY <1>1, <3>1, <3>2 DEF Types, WorkerTypes, NextJob, Goto, AllWoken, Idle
  <2>. QED
    BY <1>1, <2>1, <2>2 DEF NextJob, Types, SharedTypes, ContainerTypes, FlagTypes, CoordTypes,
       RingTypes, fsVars, flagVars, coordVars
<1>2. CASE Enumerate(w)
  <2>1. job[w] \in Job
    BY <1>2 DEF Types, WorkerTypes, WorkerType, Enumerate, Idle
  <2>2. OpenError(job[w]) \in ErrorItem /\ Enter(job[w]) \in EnterItem
    BY <2>1 DEF Job, OpenError, Enter, ErrorItem, EnterItem
  <2>3. Entries[job[w].dir] \subseteq Entry
    BY <2>1, TreeAssumption DEF Job
  <2>4. OpenError(job[w]).type # "Match" /\ Enter(job[w]).type # "Match"
    BY DEF OpenError, Enter
  <2>5. WorkerTypes'
    <3>1. CASE job[w].dir \in denied
      BY <1>2, <2>2, <2>4, <3>1
         DEF Types, WorkerTypes, WorkerType, Enumerate, Offer, Goto, Idle, Steps, Bailable
    <3>2. CASE job[w].dir \notin denied
      <4>1. /\ pc' = [pc EXCEPT ![w] = "offer"]
            /\ item' = [item EXCEPT ![w] = Enter(job[w])]
            /\ failures' = [failures EXCEPT ![w] = Entries[job[w].dir] \cap unread]
            /\ entries' = [entries EXCEPT ![w] = Entries[job[w].dir] \ unread]
            /\ UNCHANGED <<job, entry, up, ends>>
        BY <1>2, <3>2 DEF Enumerate, Offer, Goto
      <4>. QED
        BY <1>2, <2>2, <2>3, <2>4, <4>1
           DEF Types, WorkerTypes, WorkerType, Enumerate, Idle, Steps, Bailable
    <3>. QED
      BY <3>1, <3>2
  <2>. QED
    BY <1>2, <2>5, RegistersOnly DEF Enumerate
<1>3. CASE LoadCancel(w)
  <2>1. /\ Resumed(w, FALSE) \in {"opened", "release", "descend", "scan"}
        /\ Resumed(w, FALSE) = "descend" => entry[w] \in Entry
    BY <1>3, ResumedStep DEF LoadCancel
  <2>2. item[w] \in Bailable /\ (item[w].type = "Match" => entry[w] \in Entry)
    BY <1>3 DEF Types, WorkerTypes, WorkerType, LoadCancel
  <2>3. WorkerTypes'
    BY <1>3, <2>1, <2>2 DEF Types, WorkerTypes, WorkerType, LoadCancel, Goto, Idle, Steps
  <2>. QED
    BY <1>3, <2>3, RegistersOnly DEF LoadCancel
<1>4. CASE TryPush(w)
  <2>1. /\ Resumed(w, TRUE) \in {"opened", "release", "descend", "scan"}
        /\ Resumed(w, TRUE) = "descend" => entry[w] \in Entry
    BY <1>4, ResumedStep DEF TryPush
  <2>2. item[w] \in Bailable /\ (item[w].type = "Match" => entry[w] \in Entry)
    BY <1>4 DEF Types, WorkerTypes, WorkerType, TryPush
  <2>3. WorkerTypes'
    BY <1>4, <2>1, <2>2 DEF Types, WorkerTypes, WorkerType, TryPush, Goto, Idle, Steps
  <2>4. item[w] \in Item
    BY <2>2 DEF Bailable, Item
  <2>5. \/ ring' = ring
        \/ Len(ring) < Capacity /\ ring' = Append(ring, item[w])
    BY <1>4 DEF TryPush, Room
  <2>6. RingTypes'
    BY <2>4, <2>5, CapacityAssumption DEF Types, RingTypes
  <2>. QED
    BY <1>4, <2>3, <2>6 DEF TryPush, Types, SharedTypes, ContainerTypes, FlagTypes, CoordTypes,
       fsVars, sharedVars, flagVars, coordVars
<1>5. CASE MarkOpen(w)
  <2>1. job[w].container \in Containers /\ Len(job[w].path) \in Nat
    BY <1>5 DEF Types, WorkerTypes, WorkerType, MarkOpen, Idle, Job
  <2>2. SharedTypes'
    BY <1>5, <2>1 DEF Types, SharedTypes, ContainerTypes, MarkOpen, Insert
  <2>3. WorkerTypes'
    BY <1>5 DEF Types, WorkerTypes, WorkerType, MarkOpen, Goto, Idle, Steps
  <2>. QED
    BY <1>5, <2>2, <2>3 DEF MarkOpen, Types, FlagTypes, CoordTypes, RingTypes, fsVars,
       flagVars, coordVars
<1>6. CASE Scan(w)
  <2>1. job[w] \in Job
    BY <1>6 DEF Types, WorkerTypes, WorkerType, Scan, Idle
  <2>2. \A e \in Entry : /\ ReadError(job[w], e) \in ErrorItem
                         /\ ReadError(job[w], e).type # "Match"
    BY <2>1 DEF Job, ReadError, ErrorItem, Entry, Label
  <2>3. \A e \in Entry : Matched(job[w], e, HitsOf(job[w], e)) \in MatchItem
    BY <2>1 DEF Job, Matched, MatchItem, Entry, HitsOf
  <2>4. WorkerTypes'
    <3>1. CASE \E e \in failures[w] :
                 /\ failures' = [failures EXCEPT ![w] = @ \ {e}]
                 /\ Offer(w, ReadError(job[w], e))
                 /\ UNCHANGED <<entries, entry>>
      BY <1>6, <2>1, <2>2, <3>1
         DEF Types, WorkerTypes, WorkerType, Scan, Offer, Goto, Idle, Steps, Bailable
    <3>2. CASE /\ entries' = [entries EXCEPT ![w] = {}]
               /\ Goto(w, "release")
               /\ UNCHANGED <<failures, entry, item>>
      BY <1>6, <3>2 DEF Types, WorkerTypes, WorkerType, Scan, Goto, Idle, Steps
    <3>3. CASE \E e \in entries[w] :
                 /\ entries' = [entries EXCEPT ![w] = @ \ {e}]
                 /\ entry' = [entry EXCEPT ![w] = e]
                 /\ UNCHANGED failures
                 /\ \/ Offer(w, Matched(job[w], e, HitsOf(job[w], e)))
                    \/ Goto(w, "descend") /\ UNCHANGED item
      <4>1. PICK e \in entries[w] :
              /\ entries' = [entries EXCEPT ![w] = @ \ {e}]
              /\ entry' = [entry EXCEPT ![w] = e]
              /\ UNCHANGED failures
              /\ \/ Offer(w, Matched(job[w], e, HitsOf(job[w], e)))
                 \/ Goto(w, "descend") /\ UNCHANGED item
        BY <3>3
      <4>2. e \in Entry
        BY <4>1 DEF Types, WorkerTypes, WorkerType
      <4>3. Matched(job[w], e, HitsOf(job[w], e)) \in Bailable
        BY <2>3, <4>2 DEF Bailable
      <4>4. /\ pc' \in {[pc EXCEPT ![w] = "offer"], [pc EXCEPT ![w] = "descend"]}
            /\ \/ item' = item /\ pc'[w] # "offer"
               \/ item' = [item EXCEPT ![w] = Matched(job[w], e, HitsOf(job[w], e))]
            /\ UNCHANGED <<job, up, ends>>
        BY <1>6, <4>1 DEF Types, WorkerTypes, Scan, Offer, Goto
      <4>5. ASSUME NEW v \in Workers PROVE WorkerType(v)'
        <5>1. CASE v = w
          BY <1>6, <2>1, <4>1, <4>2, <4>3, <4>4, <5>1 DEF Types, WorkerTypes, WorkerType, Scan
        <5>2. CASE v # w
          BY <4>1, <4>4, <5>2 DEF Types, WorkerTypes, WorkerType
        <5>. QED
          BY <5>1, <5>2
      <4>. QED
        BY <4>1, <4>4, <4>5 DEF Types, WorkerTypes, Steps
    <3>. QED
      BY <1>6, <3>1, <3>2, <3>3 DEF Scan
  <2>. QED
    BY <1>6, <2>4, RegistersOnly DEF Scan
<1>7. CASE Descend(w)
  <2>1. job[w] \in Job /\ entry[w] \in Entry
    BY <1>7 DEF Types, WorkerTypes, WorkerType, Descend, Idle
  <2>2. Blocked(job[w], entry[w]) \in BlockItem /\ Blocked(job[w], entry[w]).type # "Match"
    BY <2>1 DEF Job, Blocked, BlockItem, Entry
  <2>3. WorkerTypes'
    BY <1>7, <2>1, <2>2
       DEF Types, WorkerTypes, WorkerType, Descend, Offer, Goto, Idle, Steps, Bailable
  <2>4. visited' \subseteq FileIds
    BY <1>7, <2>1 DEF Types, SharedTypes, Descend, HasIdentity, Entry
  <2>. QED
    BY <1>7, <2>3, <2>4 DEF Descend, Types, SharedTypes, ContainerTypes, FlagTypes, CoordTypes,
       RingTypes, fsVars, flagVars, coordVars
<1>8. CASE Launch(w)
  <2>1. job[w] \in Job /\ entry[w] \in Entry
    BY <1>8 DEF Types, WorkerTypes, WorkerType, Launch, Idle
  <2>2. ChildJob(job[w], entry[w], nextId) \in Job
    BY <2>1 DEF Types, SharedTypes, ChildJob, Job, Entry, Containers, NoContainer, Label
  <2>3. ContainerTypes'
    <3> DEFINE p == job[w].container
               known == [containers EXCEPT ![p].refcount = @ + 1]
               new == [parent |-> p, refcount |-> 1]
    <3>1. DOMAIN known = DOMAIN containers
      OBVIOUS
    <3>2. ASSUME NEW id \in DOMAIN known
          PROVE  known[id] \in [parent : Containers \cup {NoContainer}, refcount : Nat \ {0}]
      BY DEF Types, SharedTypes, ContainerTypes
    <3>3. new \in [parent : Containers \cup {NoContainer}, refcount : Nat \ {0}]
      BY <2>1 DEF Job
    <3>4. containers' = Insert(known, nextId, new)
      BY <1>8 DEF Launch, Adopt
    <3>5. nextId \in Containers
      BY DEF Types, SharedTypes, Containers, NoContainer
    <3> HIDE DEF known, new
    <3>. QED
      BY <3>1, <3>2, <3>3, <3>4, <3>5 DEF Types, SharedTypes, ContainerTypes, Insert
  <2>4. SharedTypes'
    BY <1>8, <2>2, <2>3 DEF Types, SharedTypes, Launch, Containers
  <2>5. WorkerTypes'
    BY <1>8 DEF Types, WorkerTypes, WorkerType, Launch, Goto, Idle, Steps
  <2>. QED
    BY <1>8, <2>4, <2>5 DEF Types, Launch, FlagTypes, CoordTypes, RingTypes, flagVars, fsVars,
       coordVars
<1>9. CASE NotifyOne(w)
  <2>1. WorkerTypes'
    BY <1>9 DEF Types, WorkerTypes, WorkerType, NotifyOne, Goto, Idle, Steps
  <2>. QED
    BY <1>9, <2>1, RegistersOnly DEF NotifyOne
<1>10. CASE Release(w)
  <2>1. WorkerTypes'
    BY <1>10 DEF Types, WorkerTypes, WorkerType, Release, Goto, Idle, Steps
  <2>. QED
    BY <1>10, <2>1 DEF Release, Types, SharedTypes, ContainerTypes, FlagTypes, CoordTypes,
       RingTypes, fsVars, flagVars, coordVars
<1>11. CASE Cascade(w)
  <2>1. up[w] \in Containers
    BY <1>11 DEF Types, SharedTypes, ContainerTypes, Cascade
  <2>2. ContainerTypes' /\ lock' \in Workers \cup {NoOne}
    <3>1. CASE containers[up[w]].refcount = 1
      <4>1. containers' = Delete(containers, up[w]) /\ (lock' = NoOne \/ UNCHANGED lock)
        BY <1>11, <3>1 DEF Cascade
      <4>. QED
        BY <1>11, <4>1 DEF Types, SharedTypes, ContainerTypes, Delete, Restrict
    <3>2. CASE containers[up[w]].refcount # 1
      <4>1. containers' = [containers EXCEPT ![up[w]].refcount = @ - 1] /\ lock' = NoOne
        BY <1>11, <3>2 DEF Cascade
      <4>2. /\ containers[up[w]] \in [parent : Containers \cup {NoContainer}, refcount : Nat \ {0}]
            /\ containers[up[w]].refcount - 1 \in Nat \ {0}
        BY <1>11, <3>2 DEF Types, SharedTypes, ContainerTypes, Cascade
      <4>. QED
        BY <4>1, <4>2 DEF Types, SharedTypes, ContainerTypes
    <3>. QED
      BY <3>1, <3>2
  <2>3. WorkerTypes'
    <3>1. ends[w] \in Seq(Containers) /\ Append(ends[w], up[w]) \in Seq(Containers)
      BY <2>1 DEF Types, WorkerTypes, WorkerType
    <3>. QED
      BY <1>11, <3>1 DEF Types, WorkerTypes, WorkerType, Cascade, Goto, Idle, Steps
  <2>. QED
    BY <1>11, <2>2, <2>3 DEF Cascade, Types, SharedTypes, FlagTypes, CoordTypes, RingTypes,
       fsVars, flagVars, coordVars
<1>12. CASE EmitEnds(w)
  <2>1. ends[w] \in Seq(Containers)
    BY DEF Types, WorkerTypes, WorkerType
  <2>2. ends[w] # <<>> => Head(ends[w]) \in Containers /\ Tail(ends[w]) \in Seq(Containers)
    BY <2>1
  <2>3. SharedTypes'
    <3>1. open' = open \/ open' = Delete(open, Head(ends[w]))
      BY <1>12 DEF EmitEnds
    <3>. QED
      BY <1>12, <3>1 DEF Types, SharedTypes, ContainerTypes, EmitEnds, Delete, Restrict
  <2>4. WorkerTypes'
    <3>1. CASE ends[w] = <<>>
      BY <1>12, <3>1 DEF Types, WorkerTypes, WorkerType, EmitEnds, Goto, Idle, Steps
    <3>2. CASE ends[w] # <<>>
      <4>1. /\ ends' = [ends EXCEPT ![w] = Tail(@)]
            /\ \/ UNCHANGED <<pc, item>>
               \/ Goto(w, "end") /\ item' = [item EXCEPT ![w] = End(Head(ends[w]))]
            /\ UNCHANGED <<job, failures, entries, entry, up>>
        BY <1>12, <3>2 DEF EmitEnds
      <4>2. End(Head(ends[w])) \in EndItem
        BY <2>2, <3>2 DEF End, EndItem
      <4>3. job[w] \in Job /\ pc[w] = "ends"
        BY <1>12 DEF Types, WorkerTypes, WorkerType, EmitEnds, Idle
      <4>4. ASSUME NEW v \in Workers PROVE WorkerType(v)'
        <5>1. CASE v = w
          BY <2>2, <3>2, <4>1, <4>2, <4>3, <5>1 DEF Types, WorkerTypes, WorkerType, Goto
        <5>2. CASE v # w
          BY <4>1, <5>2 DEF Types, WorkerTypes, WorkerType, Goto
        <5>. QED
          BY <5>1, <5>2
      <4>. QED
        BY <4>1, <4>4 DEF Types, WorkerTypes, Goto, Steps
    <3>. QED
      BY <3>1, <3>2
  <2>. QED
    BY <1>12, <2>3, <2>4 DEF EmitEnds, Types, FlagTypes, CoordTypes, RingTypes, fsVars,
       flagVars, coordVars
<1>13. CASE PushEnd(w)
  <2>1. item[w] \in Item
    BY <1>13 DEF Types, WorkerTypes, WorkerType, PushEnd, Item
  <2>2. RingTypes'
    BY <1>13, <2>1, CapacityAssumption DEF Types, RingTypes, PushEnd, Room
  <2>3. WorkerTypes'
    BY <1>13 DEF Types, WorkerTypes, WorkerType, PushEnd, Goto, Idle, Steps
  <2>. QED
    BY <1>13, <2>2, <2>3 DEF PushEnd, Types, SharedTypes, ContainerTypes, FlagTypes, CoordTypes,
       fsVars, sharedVars, flagVars, coordVars
<1>14. CASE StashError(w)
  <2>1. OpenError(job[w]) \in ErrorItem
    BY <1>14 DEF Types, WorkerTypes, WorkerType, StashError, Idle, Job, OpenError, ErrorItem
  <2>2. WorkerTypes'
    BY <1>14 DEF Types, WorkerTypes, WorkerType, StashError, Goto, Idle, Steps
  <2>. QED
    BY <1>14, <2>1, <2>2 DEF StashError, Types, SharedTypes, ContainerTypes, FlagTypes,
       CoordTypes, RingTypes, fsVars, sharedVars, coordVars
<1>15. CASE RaiseFatal(w)
  <2>1. WorkerTypes'
    BY <1>15 DEF Types, WorkerTypes, WorkerType, RaiseFatal, Goto, Idle, Steps
  <2>. QED
    BY <1>15, <2>1 DEF RaiseFatal, Types, SharedTypes, ContainerTypes, FlagTypes, CoordTypes,
       RingTypes, fsVars, sharedVars, coordVars
<1>16. CASE WorkerCancel(w)
  <2>1. WorkerTypes'
    BY <1>16 DEF Types, WorkerTypes, WorkerType, WorkerCancel, Goto, Idle, Steps
  <2>. QED
    BY <1>16, <2>1 DEF WorkerCancel, Types, SharedTypes, ContainerTypes, FlagTypes, CoordTypes,
       RingTypes, fsVars, sharedVars, coordVars
<1>17. CASE WorkerHalt(w)
  <2>1. WorkerTypes'
    BY <1>17 DEF Types, WorkerTypes, WorkerType, WorkerHalt, Goto, Idle, Steps
  <2>. QED
    BY <1>17, <2>1 DEF WorkerHalt, Types, SharedTypes, ContainerTypes, FlagTypes, CoordTypes,
       RingTypes, fsVars, flagVars, coordVars
<1>19. CASE WorkerWake(w)
  <2>1. WorkerTypes'
    BY <1>19 DEF Types, WorkerTypes, WorkerType, WorkerWake, AllWoken, Idle, Steps
  <2>. QED
    BY <1>19, <2>1, RegistersOnly DEF WorkerWake
<1>18. CASE CompleteJob(w)
  <2>1. WorkerTypes'
    BY <1>18 DEF Types, WorkerTypes, WorkerType, CompleteJob, AllWoken, Idle, Steps
  <2>. QED
    BY <1>18, <2>1 DEF CompleteJob, Types, SharedTypes, ContainerTypes, FlagTypes, CoordTypes,
       RingTypes, fsVars, flagVars, coordVars
<1>. QED
  BY <1>1, <1>2, <1>3, <1>4, <1>5, <1>6, <1>7, <1>8, <1>9, <1>10, <1>11, <1>12, <1>13, <1>14,
     <1>15, <1>16, <1>17, <1>18, <1>19 DEF Worker

\* Waking the workers that wait keeps the types of their registers.
LEMMA WakingKeepsWorkers ==
    ASSUME Types, UNCHANGED <<job, failures, entries, entry, item, up, ends>>,
           pc' = AllWoken
    PROVE  WorkerTypes'
  BY DEF Types, WorkerTypes, WorkerType, AllWoken, Idle, Steps

\* The steps of the other threads keep every variable in its type.
LEMMA OthersKeepTypes ==
    ASSUME Types, Coordinator \/ SqThread \/ Client
    PROVE  Types'
<1> USE DEF Types
<1>. DEFINE Rest == WorkerTypes /\ SharedTypes /\ FlagTypes
<1>0. ASSUME UNCHANGED <<fsVars, sharedVars, nextId, workVars>>, FlagTypes'
      PROVE  Rest'
  BY <1>0 DEF WorkerTypes, WorkerType, SharedTypes, ContainerTypes, fsVars, sharedVars, workVars
<1>1. CASE Join
  BY <1>0, <1>1 DEF Join, SharedTypes, CoordTypes, RingTypes, FlagTypes, flagVars, fsVars,
     sharedVars
<1>2. CASE Close
  <2>1. SharedTypes'
    BY <1>2 DEF Close, SharedTypes, ContainerTypes, Delete, Restrict
  <2>. QED
    BY <1>2, <2>1 DEF Close, CoordTypes, RingTypes, FlagTypes, flagVars, fsVars, workVars,
       WorkerTypes, WorkerType
<1>3. CASE PushLeftover
  <2>1. End(closing) \in Item
    BY <1>3 DEF PushLeftover, CoordTypes, End, EndItem, Item
  <2>2. RingTypes'
    BY <1>3, <2>1, CapacityAssumption DEF PushLeftover, RingTypes, Room
  <2>. QED
    BY <1>0, <1>3, <2>2 DEF PushLeftover, CoordTypes, FlagTypes, flagVars, fsVars, sharedVars
<1>4. CASE Conclude
  BY <1>0, <1>4 DEF Conclude, Outcome, CoordTypes, RingTypes, FlagTypes, flagVars, fsVars,
     sharedVars, Reasons
<1>5. CASE PushCause
  <2>1. \A e \in fatalError : e \in Item
    BY DEF FlagTypes, Item
  <2>2. RingTypes'
    <3>1. CASE UNCHANGED ring
      BY <3>1 DEF RingTypes
    <3>2. CASE Room /\ \E e \in fatalError : ring' = Append(ring, e)
      BY <2>1, <3>2, CapacityAssumption DEF RingTypes, Room
    <3>. QED
      BY <1>5, <3>1, <3>2 DEF PushCause
  <2>3. fatalError' = fatalError \/ fatalError' = {}
    BY <1>5 DEF PushCause
  <2>4. FlagTypes'
    BY <1>5, <2>3 DEF PushCause, FlagTypes, fsVars, sharedVars
  <2>5. CoordTypes'
    BY <1>5 DEF PushCause, CoordTypes
  <2>6. UNCHANGED <<fsVars, sharedVars, nextId, workVars>>
    BY <1>5 DEF PushCause
  <2>7. Rest'
    BY <1>0, <2>4, <2>6
  <2>. QED
    BY <2>2, <2>5, <2>7
<1>6. CASE PushTerminal
  <2>1. Terminal(reason) \in Item
    BY DEF CoordTypes, Terminal, TerminalItem, Item
  <2>2. RingTypes'
    BY <1>6, <2>1, CapacityAssumption DEF PushTerminal, RingTypes, Room
  <2>. QED
    BY <1>0, <1>6, <2>2 DEF PushTerminal, CoordTypes, FlagTypes, flagVars, fsVars, sharedVars
<1>7. CASE Finish
  BY <1>0, <1>7 DEF Finish, CoordTypes, RingTypes, FlagTypes, fsVars, sharedVars
<1>8. CASE SqCheck \/ SqDrain \/ ClientSubmit \/ DropJoin \/ Gone
  BY <1>0, <1>8 DEF SqCheck, SqDrain, ClientSubmit, DropJoin, Gone, vars, CoordTypes, RingTypes,
     FlagTypes, flagVars, fsVars, sharedVars,
     coordVars
<1>9. CASE SqServe \/ DropHandle
  BY <1>0, <1>9 DEF SqServe, DropHandle, CoordTypes, RingTypes, FlagTypes, fsVars, sharedVars,
     coordVars
<1>10. CASE SqHalt \/ DropHalt
  <2>1. WorkerTypes'
    BY <1>10 DEF SqHalt, DropHalt, WorkerTypes, WorkerType, workVars
  <2>. QED
    BY <1>10, <2>1 DEF SqHalt, DropHalt, SharedTypes, ContainerTypes, FlagTypes, CoordTypes,
       RingTypes, fsVars, flagVars, coordVars
<1>12. CASE SqWake \/ DropWake
  <2>1. WorkerTypes'
    BY <1>12, WakingKeepsWorkers DEF SqWake, DropWake
  <2>. QED
    BY <1>12, <2>1, RegistersOnly DEF SqWake, DropWake
<1>11. CASE ClientPop \/ DropDrain
  <2>1. \/ ring' = ring
        \/ ring # <<>> /\ ring' = Tail(ring)
    BY <1>11 DEF ClientPop, DropDrain, Pop
  <2>2. RingTypes'
    BY <2>1, CapacityAssumption DEF RingTypes
  <2>. QED
    BY <1>0, <1>11, <2>2 DEF ClientPop, DropDrain, CoordTypes, FlagTypes, flagVars, fsVars,
       sharedVars, coordVars
<1>. QED
  BY <1>1, <1>2, <1>3, <1>4, <1>5, <1>6, <1>7, <1>8, <1>9, <1>10, <1>11, <1>12
     DEF Coordinator, SqThread, Client, Dropping

\* A query has finitely many roots.
LEMMA ReferencedIsFinite == IsFiniteSet(Referenced) /\ Cardinality(Referenced) \in Nat
<1>1. Roots = 1..Len(RootDirs) /\ Len(RootDirs) \in Nat
  BY QueryAssumption DEF Roots
<1>2. IsFiniteSet(Roots)
  BY <1>1, FS_Interval
<1>3. Referenced \in SUBSET Roots
  BY DEF Referenced
<1>. QED
  BY <1>2, <1>3, FS_Subset, FS_CardinalityType

\* The initial state is well typed; `spawn` seeds one job per referenced root.
LEMMA InitTypes == Init => Types /\ OutstandingIsExact
<1> SUFFICES ASSUME Init PROVE Types /\ OutstandingIsExact
  OBVIOUS
<1>1. IsFiniteSet(Referenced) /\ Cardinality(Referenced) \in Nat
  BY ReferencedIsFinite
<1>2. PICK seeds \in [1..Cardinality(Referenced) -> Referenced] :
        /\ stack = [k \in DOMAIN seeds |-> RootJob(seeds[k], k)]
        /\ containers = [k \in DOMAIN seeds |-> [parent |-> NoContainer, refcount |-> 1]]
  BY DEF Init
<1>3. DOMAIN seeds = 1..Cardinality(Referenced)
  OBVIOUS
<1>4. ASSUME NEW k \in 1..Cardinality(Referenced) PROVE RootJob(seeds[k], k) \in Job
  <2>1. seeds[k] \in Roots
    BY <1>2 DEF Referenced
  <2>2. RootDirs[seeds[k]] \in Dirs
    BY <2>1, QueryAssumption DEF Roots
  <2>. QED
    BY <1>1, <2>1, <2>2 DEF RootJob, Job, Containers, NoContainer, Label
<1>5. stack \in Seq(Job) /\ Len(stack) = Cardinality(Referenced)
  BY <1>1, <1>2, <1>3, <1>4
<1>6. ContainerTypes
  BY <1>1, <1>2, <1>3 DEF ContainerTypes, Containers, NoContainer
<1>7. SharedTypes
  BY <1>1, <1>5, <1>6 DEF Init, SharedTypes
<1>8. WorkerTypes
  BY DEF Init, WorkerTypes, WorkerType, Idle, Steps
<1>9. FlagTypes /\ CoordTypes
  BY DEF Init, FlagTypes, CoordTypes, Reasons
<1>10. RingTypes
  BY CapacityAssumption DEF Init, RingTypes
<1>11. OutstandingIsExact
  <2>1. Busy = {}
    BY DEF Init, Busy
  <2>. QED
    BY <1>1, <1>5, <2>1, FS_EmptySet DEF Init, OutstandingIsExact
<1>. QED
  BY <1>7, <1>8, <1>9, <1>10, <1>11 DEF Types

-----------------------------------------------------------------------------
(* The accounting of scans *)

\* There are finitely many busy workers, since there are finitely many workers.
LEMMA BusyIsFinite == IsFiniteSet(Busy) /\ Cardinality(Busy) \in Nat
<1>1. Busy \in SUBSET Workers
  BY DEF Busy
<1>. QED
  BY <1>1, WorkersAssumption, FS_Subset, FS_CardinalityType

\* A step that leaves every worker on the side of busy or idle where it was, and the stack
\* and `outstanding` alone, keeps the count.
LEMMA SameBusy ==
    ASSUME OutstandingIsExact, UNCHANGED <<stack, outstanding>>,
           \A v \in Workers : pc[v] \in Idle <=> pc'[v] \in Idle
    PROVE  OutstandingIsExact'
<1>1. Busy' = Busy
  BY DEF Busy, Idle
<1>. QED
  BY <1>1 DEF OutstandingIsExact

\* `outstanding` is exact after every step of a worker: taking a job moves it from the stack
\* to a worker, launching a child adds one to both sides, completing one takes it from both.
LEMMA WorkerCountsJobs ==
    ASSUME Types, OutstandingIsExact, NEW w \in Workers, Worker(w)
    PROVE  OutstandingIsExact'
<1>0. pc \in [Workers -> Steps]
  BY DEF Types, WorkerTypes
<1>1. CASE NextJob(w)
  <2>1. CASE stack # <<>> /\ stack' = SubSeq(stack, 1, Len(stack) - 1) /\ Goto(w, "enumerate")
    <3>1. Busy' = Busy \cup {w} /\ w \notin Busy
      BY <1>0, <1>1, <2>1 DEF NextJob, Busy, Goto
    <3>2. Cardinality(Busy') = Cardinality(Busy) + 1
      BY <3>1, BusyIsFinite, FS_AddElement
    <3>3. stack \in Seq(Job) /\ Len(stack) \in Nat \ {0}
      BY <2>1 DEF Types, SharedTypes
    <3>4. Len(stack') = Len(stack) - 1
      <4> DEFINE n == Len(stack) - 1
      <4>1. n \in Nat /\ \A i \in 1..n : stack[i] \in Job
        BY <3>3
      <4>2. Len(SubSeq(stack, 1, n)) = IF 1 <= n THEN n - 1 + 1 ELSE 0
        BY <4>1, SubSeqProperties
      <4>3. stack' = SubSeq(stack, 1, n)
        BY <2>1
      <4>4. \A k \in Nat : (IF 1 <= k THEN k - 1 + 1 ELSE 0) = k
        OBVIOUS
      <4> HIDE DEF n
      <4>5. Len(stack') = n
        BY <4>1, <4>2, <4>3, <4>4, Zenon
      <4>. QED
        BY <4>5 DEF n
    <3>. QED
      BY <1>1, <3>2, <3>3, <3>4, BusyIsFinite DEF NextJob, OutstandingIsExact
  <2>2. CASE UNCHANGED stack /\ \A v \in Workers : pc[v] \in Idle <=> pc'[v] \in Idle
    BY <1>1, <2>2, SameBusy DEF NextJob
  <2>. QED
    BY <1>0, <1>1, <2>1, <2>2 DEF NextJob, Goto, AllWoken, Idle
<1>2. CASE Launch(w)
  <2>1. Busy' = Busy
    BY <1>0, <1>2 DEF Launch, Goto, Busy
  <2>2. Len(stack') = Len(stack) + 1 /\ Len(stack) \in Nat
    BY <1>2 DEF Launch, Types, SharedTypes
  <2>. QED
    BY <1>2, <2>1, <2>2, BusyIsFinite DEF Launch, OutstandingIsExact
<1>3. CASE CompleteJob(w)
  <2>1. Busy' = Busy \ {w} /\ w \in Busy
    BY <1>0, <1>3 DEF CompleteJob, AllWoken, Busy
  <2>2. Cardinality(Busy') = Cardinality(Busy) - 1
    BY <2>1, BusyIsFinite, FS_RemoveElement
  <2>3. Len(stack) \in Nat
    BY DEF Types, SharedTypes
  <2>. QED
    BY <1>3, <2>2, <2>3, BusyIsFinite DEF CompleteJob, OutstandingIsExact
<1>4. CASE LoadCancel(w) \/ TryPush(w)
  <2>1. Resumed(w, TRUE) \notin Idle /\ Resumed(w, FALSE) \notin Idle
    BY <1>4, ResumedStep DEF LoadCancel, TryPush, Idle
  <2>. QED
    BY <1>0, <1>4, <2>1, SameBusy DEF LoadCancel, TryPush, Goto, Idle, sharedVars
<1>5. CASE Enumerate(w) \/ MarkOpen(w) \/ Scan(w) \/ Descend(w) \/ NotifyOne(w)
  BY <1>0, <1>5, SameBusy
     DEF Enumerate, MarkOpen, Scan, Descend, NotifyOne, Offer, Goto, Idle, sharedVars
<1>6. CASE Release(w) \/ Cascade(w) \/ EmitEnds(w) \/ PushEnd(w)
  BY <1>0, <1>6, SameBusy DEF Release, Cascade, EmitEnds, PushEnd, Goto, Idle, sharedVars
<1>7. CASE StashError(w) \/ RaiseFatal(w) \/ WorkerCancel(w) \/ WorkerHalt(w) \/ WorkerWake(w)
  BY <1>0, <1>7, SameBusy
     DEF StashError, RaiseFatal, WorkerCancel, WorkerHalt, WorkerWake, AllWoken, Goto, Idle,
         sharedVars
<1>. QED
  BY <1>1, <1>2, <1>3, <1>4, <1>5, <1>6, <1>7 DEF Worker

\* The coordinator, the submission thread and the client leave the count of scans exact: at
\* most they wake workers, and a woken worker still has no job.
LEMMA OthersCountNoJobs ==
    ASSUME Types, OutstandingIsExact, Coordinator \/ SqThread \/ Client
    PROVE  OutstandingIsExact'
<1>1. UNCHANGED <<stack, outstanding>> /\ (UNCHANGED pc \/ pc' = AllWoken)
  BY DEF Coordinator, Join, Close, PushLeftover, Conclude, PushCause, PushTerminal, Finish,
         SqThread, SqCheck, SqDrain, SqServe, SqHalt, SqWake, Client, ClientPop, ClientSubmit,
         DropHandle, Dropping, DropHalt, DropWake, DropDrain, DropJoin, Gone, vars, sharedVars,
         workVars
<1>. QED
  BY <1>1, SameBusy DEF AllWoken, Idle

-----------------------------------------------------------------------------
(* The invariant *)

\* Every step keeps the inductive invariant.
LEMMA NextKeepsIInv == IInv /\ [Next]_vars => IInv'
<1> SUFFICES ASSUME IInv, [Next]_vars PROVE IInv'
  OBVIOUS
<1>1. CASE \E w \in Workers : Worker(w)
  BY <1>1, WorkerKeepsTypes, WorkerCountsJobs DEF IInv
<1>2. CASE Coordinator \/ SqThread \/ Client
  BY <1>2, OthersKeepTypes, OthersCountNoJobs DEF IInv
<1>3. CASE UNCHANGED vars
  <2>1. Types'
    BY <1>3 DEF IInv, vars, fsVars, sharedVars, flagVars, workVars, coordVars, Types,
       WorkerTypes, WorkerType, SharedTypes, ContainerTypes, FlagTypes, CoordTypes, RingTypes
  <2>2. OutstandingIsExact'
    BY <1>3 DEF IInv, vars, sharedVars, workVars, OutstandingIsExact, Busy
  <2>. QED
    BY <2>1, <2>2 DEF IInv
<1>. QED
  BY <1>1, <1>2, <1>3 DEF Next

\* The inductive invariant, types and accounting together, holds in every reachable state.
THEOREM Invariance == Spec => []IInv
<1>1. Init => IInv
  BY InitTypes DEF IInv
<1>. QED
  BY <1>1, NextKeepsIInv, PTL DEF Spec

\* Every variable of the engine keeps its type: the ring never exceeds its capacity, no
\* container is left with a count of zero, every job and item is well formed.
THEOREM TypeCorrect == Spec => []TypeOK
<1>1. IInv => TypeOK
  <2> SUFFICES ASSUME IInv PROVE TypeOK
    OBVIOUS
  <2>1. outstanding \in Nat
    BY BusyIsFinite DEF IInv, OutstandingIsExact, Types, SharedTypes
  <2>. QED
    BY <2>1 DEF IInv, Types, SharedTypes, ContainerTypes, FlagTypes, RingTypes, TypeOK
<1>. QED
  BY <1>1, Invariance, PTL

\* `outstanding` counts exactly the jobs on the stack and in the workers' hands, so that the
\* test of next_job for 0 ends the walk neither early nor never (engine.rs:164, D-9).
THEOREM OutstandingCorrect == Spec => []OutstandingIsExact
<1>1. IInv => OutstandingIsExact
  BY DEF IInv
<1>. QED
  BY <1>1, Invariance, PTL

-----------------------------------------------------------------------------
(* The inductive invariant of the accounting of containers.  A container's *)
(* count is made of shares: one for each child, one for its own unreleased *)
(* scan, and, while a worker climbs, one for the count it is about to take *)
(* from the container it has reached.                                      *)

Climbing == {w \in Workers : pc[w] = "cascade"}
Climbed == {up[w] : w \in Climbing}

Share(id, holders) == IF id \in holders THEN 1 ELSE 0

CountsAreExact ==
    \A id \in DOMAIN containers :
        containers[id].refcount =
            Cardinality(Children(id)) + Share(id, Pending) + Share(id, Climbed)

\* The lock is taken for more than one step by a worker that climbs, and by no other.
LockIsHeld == \A w \in Workers : pc[w] = "cascade" <=> lock = w

\* Each unreleased scan is in one place: once on the stack or in the hands of one worker.
OneHolderEach ==
    /\ \A i, k \in DOMAIN stack : stack[i].container = stack[k].container => i = k
    /\ \A w \in Scanning : \A i \in DOMAIN stack : job[w].container # stack[i].container
    /\ \A v, w \in Scanning : job[v].container = job[w].container => v = w

\* The containers have ids already given out, and form a forest: parents are live, and so is
\* whatever a scan or a climb still refers to.
ContainersAreLinked ==
    /\ DOMAIN containers \subseteq 1..(nextId - 1)
    /\ Pending \cup Climbed \subseteq DOMAIN containers
    /\ \A id \in DOMAIN containers :
         containers[id].parent \in DOMAIN containers \cup {NoContainer}

Accounting == LockIsHeld /\ OneHolderEach /\ ContainersAreLinked /\ CountsAreExact

-----------------------------------------------------------------------------
(* Facts about the definitions *)

ScanSteps == {"enumerate", "offer", "push", "opened", "scan", "descend", "launch", "notify",
              "release"}

\* A worker is scanning when it is at a step of a scan.
LEMMA ScanningByStep == Scanning = {w \in Workers : pc[w] \in ScanSteps}
  BY DEF Scanning, Busy, ScanSteps

\* A container's children are finitely many, since ids are given out one by one.
LEMMA ChildrenAreFinite ==
    ASSUME Types, ContainersAreLinked, NEW id
    PROVE  IsFiniteSet(Children(id)) /\ Cardinality(Children(id)) \in Nat
<1>1. nextId - 1 \in Nat
  BY DEF Types, SharedTypes
<1>2. IsFiniteSet(1..(nextId - 1))
  BY <1>1, FS_Interval
<1>3. Children(id) \in SUBSET (1..(nextId - 1))
  BY DEF Children, ContainersAreLinked
<1>. QED
  BY <1>2, <1>3, FS_Subset, FS_CardinalityType

\* While the lock is free no worker climbs, so no share is in transit.
LEMMA FreeLockNobodyClimbs ==
    ASSUME LockIsHeld, lock = NoOne
    PROVE  Climbing = {} /\ Climbed = {}
  BY WorkersAssumption DEF LockIsHeld, Climbing, Climbed

\* The worker that climbs holds the lock, so it is the only one.
LEMMA OneClimbs ==
    ASSUME LockIsHeld, NEW w \in Workers, pc[w] = "cascade"
    PROVE  lock = w /\ Climbing = {w} /\ Climbed = {up[w]}
  BY DEF LockIsHeld, Climbing, Climbed

-----------------------------------------------------------------------------
(* Steps that leave the accounting of containers alone *)

\* No container, job on the stack or share changes hands.
Quiet ==
    /\ UNCHANGED <<stack, containers, lock, nextId, up>>
    /\ \A v \in Workers :
         /\ pc[v] = "cascade" <=> pc'[v] = "cascade"
         /\ pc[v] \in ScanSteps <=> pc'[v] \in ScanSteps
         /\ pc[v] \in ScanSteps => job'[v] = job[v]

\* A quiet step keeps the accounting.
LEMMA QuietKeepsAccounting ==
    ASSUME Accounting, Quiet
    PROVE  Accounting'
<1>1. Scanning' = Scanning /\ \A v \in Scanning : job'[v] = job[v]
  BY ScanningByStep DEF Scanning, Busy, Quiet, ScanSteps
<1>2. Pending' = Pending
  BY <1>1 DEF Pending, Quiet
<1>3. Climbed' = Climbed
  BY DEF Climbed, Climbing, Quiet
<1>4. \A id : Children(id)' = Children(id)
  BY DEF Children, Quiet
<1>5. LockIsHeld'
  BY DEF Accounting, LockIsHeld, Quiet
<1>6. OneHolderEach'
  BY <1>1 DEF Accounting, OneHolderEach, Quiet
<1>7. ContainersAreLinked'
  BY <1>2, <1>3 DEF Accounting, ContainersAreLinked, Quiet
<1>8. CountsAreExact'
  BY <1>2, <1>3, <1>4 DEF Accounting, CountsAreExact, Quiet
<1>. QED
  BY <1>5, <1>6, <1>7, <1>8 DEF Accounting

\* Most steps of a worker are quiet: an emit ends inside the scan or at its release.
LEMMA QuietWorker ==
    ASSUME Types, NEW w \in Workers,
           \/ Enumerate(w) \/ LoadCancel(w) \/ TryPush(w) \/ MarkOpen(w) \/ Scan(w)
           \/ Descend(w) \/ NotifyOne(w) \/ EmitEnds(w) \/ PushEnd(w) \/ StashError(w)
           \/ RaiseFatal(w) \/ WorkerCancel(w) \/ WorkerHalt(w) \/ WorkerWake(w) \/ CompleteJob(w)
    PROVE  Quiet
<1>0. pc \in [Workers -> Steps] /\ DOMAIN job = Workers
  BY DEF Types, WorkerTypes
<1>1. CASE LoadCancel(w) \/ TryPush(w)
  <2>1. Resumed(w, TRUE) \in ScanSteps /\ Resumed(w, FALSE) \in ScanSteps
    BY <1>1, ResumedStep DEF LoadCancel, TryPush, ScanSteps
  <2>2. pc[w] \in ScanSteps /\ pc'[w] \in ScanSteps
    BY <1>0, <1>1, <2>1 DEF LoadCancel, TryPush, Goto, ScanSteps
  <2>3. "cascade" \notin ScanSteps
    BY DEF ScanSteps
  <2>. QED
    BY <1>0, <1>1, <2>2, <2>3 DEF Quiet, LoadCancel, TryPush, Goto, sharedVars
<1>2. CASE Enumerate(w) \/ MarkOpen(w) \/ Scan(w) \/ Descend(w)
  BY <1>0, <1>2
     DEF Quiet, ScanSteps, Enumerate, MarkOpen, Scan, Descend, Offer, Goto, sharedVars
<1>3. CASE NotifyOne(w)
  BY <1>0, <1>3 DEF Quiet, ScanSteps, NotifyOne, Goto, sharedVars
<1>4. CASE EmitEnds(w) \/ PushEnd(w) \/ StashError(w) \/ RaiseFatal(w) \/ WorkerCancel(w)
  BY <1>0, <1>4
     DEF Quiet, ScanSteps, EmitEnds, PushEnd, StashError, RaiseFatal, WorkerCancel, Goto,
         sharedVars
<1>5. CASE WorkerHalt(w) \/ WorkerWake(w) \/ CompleteJob(w)
  BY <1>0, <1>5
     DEF Quiet, ScanSteps, WorkerHalt, WorkerWake, CompleteJob, AllWoken, Goto, sharedVars
<1>. QED
  BY <1>1, <1>2, <1>3, <1>4, <1>5

\* The steps of the other threads are quiet: at most they wake workers.
LEMMA QuietOthers ==
    ASSUME Types, Coordinator \/ SqThread \/ Client \/ UNCHANGED vars
    PROVE  Quiet
<1>1. UNCHANGED <<stack, containers, lock, nextId, up, job>> /\ (UNCHANGED pc \/ pc' = AllWoken)
  BY DEF Coordinator, Join, Close, PushLeftover, Conclude, PushCause, PushTerminal, Finish,
         SqThread, SqCheck, SqDrain, SqServe, SqHalt, SqWake, Client, ClientPop, ClientSubmit,
         DropHandle, Dropping, DropHalt, DropWake, DropDrain, DropJoin, Gone, vars, sharedVars,
         workVars
<1>. QED
  BY <1>1 DEF Quiet, AllWoken, ScanSteps

-----------------------------------------------------------------------------
(* Steps that hand shares on *)

\* The stack without its top.
LEMMA PoppedStack ==
    ASSUME Types, stack # <<>>
    PROVE  LET below == SubSeq(stack, 1, Len(stack) - 1) IN
           /\ DOMAIN stack = DOMAIN below \cup {Len(stack)} /\ Len(stack) \notin DOMAIN below
           /\ Len(below) = Len(stack) - 1
           /\ \A i \in DOMAIN below : below[i] = stack[i]
<1> DEFINE n == Len(stack) - 1
           below == SubSeq(stack, 1, n)
<1>1. stack \in Seq(Job) /\ Len(stack) \in Nat \ {0} /\ DOMAIN stack = 1..Len(stack)
  BY DEF Types, SharedTypes
<1>2. n \in Nat /\ Len(stack) = n + 1 /\ \A i \in 1..n : stack[i] \in Job
  BY <1>1
<1> HIDE DEF n
<1>3. /\ Len(below) = IF 1 <= n THEN n - 1 + 1 ELSE 0
      /\ below \in Seq(Job)
      /\ \A i \in 1..(n - 1 + 1) : below[i] = stack[1 + i - 1]
  BY <1>2, SubSeqProperties
<1> HIDE DEF below
<1>4. Len(below) = n /\ DOMAIN below = 1..n
  BY <1>2, <1>3
<1>5. \A i \in 1..n : below[i] = stack[i]
  BY <1>2, <1>3
<1>6. DOMAIN stack = 1..n \cup {n + 1} /\ n + 1 \notin 1..n
  BY <1>1, <1>2
<1>7. below = SubSeq(stack, 1, Len(stack) - 1)
  BY DEF below, n
<1>. QED
  BY <1>2, <1>4, <1>5, <1>6, <1>7

\* next_job moves a scan from the stack to a worker, with its share.
LEMMA NextJobKeepsAccounting ==
    ASSUME Types, Accounting, NEW w \in Workers, NextJob(w)
    PROVE  Accounting'
<1>0. pc \in [Workers -> Steps] /\ DOMAIN job = Workers
  BY DEF Types, WorkerTypes
<1>1. CASE /\ stack # <<>>
           /\ job' = [job EXCEPT ![w] = stack[Len(stack)]]
           /\ stack' = SubSeq(stack, 1, Len(stack) - 1)
           /\ Goto(w, "enumerate")
  <2> DEFINE n == Len(stack)
  <2>1. /\ DOMAIN stack = DOMAIN stack' \cup {n} /\ n \notin DOMAIN stack'
        /\ \A i \in DOMAIN stack' : stack'[i] = stack[i]
    BY <1>1, PoppedStack
  <2>2. /\ job'[w] = stack[n] /\ n \in DOMAIN stack
        /\ \A v \in Workers \ {w} : job'[v] = job[v]
    BY <1>0, <1>1, <2>1
  <2>3. /\ Scanning' = Scanning \cup {w} /\ w \notin Scanning
        /\ \A v \in Workers : pc'[v] = "cascade" <=> pc[v] = "cascade"
    BY <1>0, <1>1, ScanningByStep DEF NextJob, Goto, Scanning, Busy
  <2> HIDE DEF n
  <2>4. UNCHANGED <<containers, lock, nextId, up>>
    BY DEF NextJob
  <2>5. Pending' = Pending
    <3>1. ASSUME NEW c \in Pending PROVE c \in Pending'
      BY <2>1, <2>2, <2>3, <3>1 DEF Pending, Scanning, Busy
    <3>2. ASSUME NEW c \in Pending' PROVE c \in Pending
      BY <2>1, <2>2, <2>3, <3>2 DEF Pending, Scanning, Busy
    <3>. QED
      BY <3>1, <3>2
  <2>6. Climbed' = Climbed
    BY <2>3, <2>4 DEF Climbed, Climbing
  <2>7. \A id : Children(id)' = Children(id)
    BY <2>4 DEF Children
  <2>8. LockIsHeld'
    BY <2>3, <2>4 DEF Accounting, LockIsHeld
  <2>9. OneHolderEach'
    <3>1. \A i, k \in DOMAIN stack' : stack'[i].container = stack'[k].container => i = k
      BY <2>1 DEF Accounting, OneHolderEach
    <3>2. ASSUME NEW v \in Scanning', NEW i \in DOMAIN stack'
          PROVE  job'[v].container # stack'[i].container
      BY <2>1, <2>2, <2>3 DEF Accounting, OneHolderEach, Scanning, Busy
    <3>3. ASSUME NEW v \in Scanning', NEW u \in Scanning', job'[v].container = job'[u].container
          PROVE  v = u
      BY <2>1, <2>2, <2>3, <3>3 DEF Accounting, OneHolderEach, Scanning, Busy
    <3>. QED
      BY <3>1, <3>2, <3>3 DEF OneHolderEach
  <2>10. ContainersAreLinked'
    BY <2>4, <2>5, <2>6 DEF Accounting, ContainersAreLinked
  <2>11. CountsAreExact'
    BY <2>4, <2>5, <2>6, <2>7 DEF Accounting, CountsAreExact
  <2>. QED
    BY <2>8, <2>9, <2>10, <2>11 DEF Accounting
<1>2. CASE UNCHANGED <<stack, job>> /\ pc[w] = "next"
           /\ \A v \in Workers : pc'[v] = pc[v] \/ (pc[v] \in Idle /\ pc'[v] \in Idle)
  <2>1. Quiet
    BY <1>2 DEF Quiet, NextJob, Idle, ScanSteps
  <2>. QED
    BY <2>1, QuietKeepsAccounting
<1>. QED
  BY <1>0, <1>1, <1>2 DEF NextJob, Goto, AllWoken, Idle

\* launch_child counts the new container with its parent and puts its scan on the stack.
LEMMA LaunchKeepsAccounting ==
    ASSUME Types, Accounting, NEW w \in Workers, Launch(w)
    PROVE  Accounting'
<1> DEFINE p == job[w].container
           n == nextId
<1>0. pc \in [Workers -> Steps] /\ DOMAIN job = Workers
  BY DEF Types, WorkerTypes
<1>1. /\ nextId' = n + 1 /\ n \in Nat \ {0} /\ n \notin DOMAIN containers
      /\ DOMAIN containers \subseteq 1..(n - 1)
  BY DEF Launch, Accounting, ContainersAreLinked, Types, SharedTypes
<1>2. /\ \A v \in Workers : pc'[v] = "cascade" <=> pc[v] = "cascade"
      /\ Scanning' = Scanning /\ w \in Scanning
  BY <1>0, ScanningByStep DEF Launch, Goto, Scanning, Busy
<1>3. p \in Pending /\ p \in DOMAIN containers
  BY <1>2 DEF Pending, Accounting, ContainersAreLinked
<1>4. /\ DOMAIN containers' = DOMAIN containers \cup {n}
      /\ \A id \in DOMAIN containers : containers'[id].parent = containers[id].parent
      /\ containers'[n] = [parent |-> p, refcount |-> 1]
      /\ containers'[p].refcount = containers[p].refcount + 1
      /\ \A id \in DOMAIN containers \ {p} : containers'[id].refcount = containers[id].refcount
  <2> DEFINE known == [containers EXCEPT ![p].refcount = @ + 1]
  <2>1. containers' = Insert(known, n, [parent |-> p, refcount |-> 1])
    BY DEF Launch, Adopt
  <2>2. \A id \in DOMAIN containers : containers[id] = [parent |-> containers[id].parent,
                                                        refcount |-> containers[id].refcount]
    BY DEF Types, SharedTypes, ContainerTypes
  <2>3. /\ DOMAIN known = DOMAIN containers
        /\ \A id \in DOMAIN containers : known[id].parent = containers[id].parent
        /\ known[p].refcount = containers[p].refcount + 1
        /\ \A id \in DOMAIN containers \ {p} : known[id].refcount = containers[id].refcount
    BY <1>3, <2>2
  <2> HIDE DEF known
  <2>. QED
    BY <1>1, <1>3, <2>1, <2>3 DEF Insert
<1>5. UNCHANGED <<job, up, lock>> /\ lock = NoOne
  BY DEF Launch, Unlocked
<1>6. /\ DOMAIN stack' = DOMAIN stack \cup {Len(stack) + 1} /\ Len(stack) + 1 \notin DOMAIN stack
      /\ \A i \in DOMAIN stack : stack'[i] = stack[i]
      /\ stack'[Len(stack) + 1].container = n
  <2>1. stack \in Seq(Job) /\ stack' = Append(stack, ChildJob(job[w], entry[w], n))
    BY DEF Types, SharedTypes, Launch
  <2>2. ChildJob(job[w], entry[w], n).container = n
    BY DEF ChildJob
  <2>. QED
    BY <2>1, <2>2
<1> HIDE DEF p, n
<1>7. Pending' = Pending \cup {n} /\ n \notin Pending
  <2>1. n \notin Pending
    BY <1>1 DEF Accounting, ContainersAreLinked
  <2>2. ASSUME NEW c \in Pending' PROVE c \in Pending \cup {n}
    BY <1>2, <1>5, <1>6, <2>2 DEF Pending
  <2>3. ASSUME NEW c \in Pending \cup {n} PROVE c \in Pending'
    BY <1>2, <1>5, <1>6, <2>3 DEF Pending
  <2>. QED
    BY <2>1, <2>2, <2>3
<1>8. Climbed = {} /\ Climbed' = {}
  BY <1>2, <1>5, FreeLockNobodyClimbs DEF Accounting, Climbed, Climbing
<1>9. LockIsHeld'
  BY <1>2, <1>5 DEF Accounting, LockIsHeld
<1>10. OneHolderEach'
  <2>1. \A i \in DOMAIN stack : stack[i].container # n
    BY <1>7 DEF Pending
  <2>2. \A v \in Scanning : job[v].container # n
    BY <1>7 DEF Pending
  <2>. QED
    BY <1>2, <1>5, <1>6, <2>1, <2>2 DEF Accounting, OneHolderEach
<1>11. ContainersAreLinked'
  <2>1. DOMAIN containers' \subseteq 1..(nextId' - 1)
    BY <1>1, <1>4
  <2>2. Pending' \cup Climbed' \subseteq DOMAIN containers'
    BY <1>4, <1>7, <1>8 DEF Accounting, ContainersAreLinked
  <2>3. \A id \in DOMAIN containers' : containers'[id].parent \in DOMAIN containers' \cup {NoContainer}
    BY <1>3, <1>4 DEF Accounting, ContainersAreLinked
  <2>. QED
    BY <2>1, <2>2, <2>3 DEF ContainersAreLinked
<1>12. CountsAreExact'
  <2> SUFFICES ASSUME NEW id \in DOMAIN containers'
               PROVE  containers'[id].refcount =
                          Cardinality(Children(id)') + Share(id, Pending') + Share(id, Climbed')
    BY DEF CountsAreExact
  <2>1. CASE id = n
    <3>1. Children(id)' = {}
      BY <1>1, <1>3, <1>4, <2>1 DEF Accounting, ContainersAreLinked, Children, NoContainer
    <3>. QED
      BY <1>4, <1>7, <1>8, <2>1, <3>1, FS_EmptySet DEF Share
  <2>2. CASE id = p
    <3>1. Children(id)' = Children(id) \cup {n} /\ n \notin Children(id)
      BY <1>1, <1>4, <2>2 DEF Children
    <3>2. /\ Cardinality(Children(id)') = Cardinality(Children(id)) + 1
          /\ Cardinality(Children(id)) \in Nat
      BY <3>1, ChildrenAreFinite, FS_AddElement DEF Accounting
    <3>. QED
      BY <1>1, <1>3, <1>4, <1>7, <1>8, <2>2, <3>2 DEF Share, Accounting, CountsAreExact
  <2>3. CASE id \in DOMAIN containers \ {p}
    <3>1. Children(id)' = Children(id)
      BY <1>3, <1>4, <2>3 DEF Children
    <3>. QED
      BY <1>1, <1>4, <1>7, <1>8, <2>3, <3>1 DEF Share, Accounting, CountsAreExact
  <2>. QED
    BY <1>4, <2>1, <2>2, <2>3
<1>. QED
  BY <1>9, <1>10, <1>11, <1>12 DEF Accounting

\* release turns the share of a scan into the share of the climb that starts there.
LEMMA ReleaseKeepsAccounting ==
    ASSUME Types, Accounting, NEW w \in Workers, Release(w)
    PROVE  Accounting'
<1> DEFINE c == job[w].container
<1>0. pc \in [Workers -> Steps] /\ DOMAIN job = Workers /\ DOMAIN up = Workers
  BY DEF Types, WorkerTypes
<1>1. UNCHANGED <<stack, containers, nextId, job>> /\ lock = NoOne /\ lock' = w
  BY DEF Release, Unlocked
<1>2. Climbing = {} /\ Climbed = {}
  BY <1>1, FreeLockNobodyClimbs DEF Accounting
<1>3. Climbing' = {w} /\ Climbed' = {c}
  BY <1>0, <1>2 DEF Release, Goto, Climbing, Climbed
<1>4. Scanning' = Scanning \ {w} /\ w \in Scanning
  BY <1>0 DEF Release, Goto, Scanning, Busy
<1> HIDE DEF c
<1>5. Pending' = Pending \ {c} /\ c \in Pending
  <2>1. c \in Pending
    BY <1>4 DEF Pending, c
  <2>2. c \notin Pending'
    BY <1>1, <1>4 DEF Pending, Accounting, OneHolderEach, c
  <2>3. ASSUME NEW d \in Pending' PROVE d \in Pending
    BY <1>1, <1>4, <2>3 DEF Pending
  <2>4. ASSUME NEW d \in Pending, d # c PROVE d \in Pending'
    BY <1>1, <1>4, <2>4 DEF Pending, c
  <2>. QED
    BY <2>1, <2>2, <2>3, <2>4
<1>6. \A id : Children(id)' = Children(id)
  BY <1>1 DEF Children
<1>7. LockIsHeld'
  BY <1>1, <1>3 DEF LockIsHeld, Climbing
<1>8. OneHolderEach'
  BY <1>1, <1>4 DEF Accounting, OneHolderEach
<1>9. ContainersAreLinked'
  BY <1>1, <1>3, <1>5 DEF Accounting, ContainersAreLinked
<1>10. CountsAreExact'
  <2>1. ASSUME NEW id \in DOMAIN containers
        PROVE  /\ containers'[id].refcount = containers[id].refcount
               /\ Children(id)' = Children(id)
               /\ Cardinality(Children(id)) \in Nat
               /\ Share(id, Pending') + Share(id, Climbed') = Share(id, Pending) + Share(id, Climbed)
               /\ Share(id, Pending) \in Nat /\ Share(id, Climbed) \in Nat
               /\ Share(id, Pending') \in Nat /\ Share(id, Climbed') \in Nat
    BY <1>1, <1>2, <1>3, <1>5, <1>6, ChildrenAreFinite DEF Share, Accounting
  <2>. QED
    BY <1>1, <2>1 DEF Accounting, CountsAreExact
<1>. QED
  BY <1>7, <1>8, <1>9, <1>10 DEF Accounting

\* The cascade takes the climbing share from the container it has reached: the count stays
\* exact, or the container, without a child or a scan, goes and its own share climbs on.
LEMMA CascadeKeepsAccounting ==
    ASSUME Types, Accounting, NEW w \in Workers, Cascade(w)
    PROVE  Accounting'
<1> DEFINE c == up[w]
           q == containers[c].parent
<1>0. pc \in [Workers -> Steps] /\ DOMAIN up = Workers
  BY DEF Types, WorkerTypes
<1>1. /\ UNCHANGED <<stack, nextId, job>>
      /\ pc[w] = "cascade" /\ c \in DOMAIN containers
  BY DEF Cascade
<1>2. lock = w /\ Climbing = {w} /\ Climbed = {c}
  BY <1>1, OneClimbs DEF Accounting
<1>3. Scanning' = Scanning
  BY <1>0 DEF Cascade, Goto, Scanning, Busy
<1>4. Pending' = Pending
  BY <1>1, <1>3 DEF Pending
<1>5. OneHolderEach'
  BY <1>1, <1>3 DEF Accounting, OneHolderEach
<1>6. c \in Nat \ {0} /\ q \in DOMAIN containers \cup {NoContainer}
      /\ containers[c].refcount \in Nat \ {0}
  BY <1>1 DEF Accounting, ContainersAreLinked, Types, SharedTypes, ContainerTypes, Containers,
              NoContainer
<1>7. /\ containers[c].refcount = Cardinality(Children(c)) + Share(c, Pending) + 1
      /\ Cardinality(Children(c)) \in Nat /\ Share(c, Pending) \in {0, 1}
  BY <1>1, <1>2, ChildrenAreFinite DEF Accounting, CountsAreExact, Share
<1>8. CASE containers[c].refcount = 1
  <2>1. Children(c) = {} /\ c \notin Pending
    <3>1. Cardinality(Children(c)) = 0 /\ Share(c, Pending) = 0
      BY <1>7, <1>8
    <3>. QED
      BY <3>1, ChildrenAreFinite, FS_EmptySet DEF Share, Accounting
  <2>2. /\ DOMAIN containers' = DOMAIN containers \ {c}
        /\ \A id \in DOMAIN containers' : containers'[id] = containers[id]
    BY <1>8 DEF Cascade, Delete, Restrict
  <2>3. q # c /\ \A id \in DOMAIN containers' : containers[id].parent # c
    BY <1>1, <2>1, <2>2 DEF Children
  <2>4. Climbed' = IF q = NoContainer THEN {} ELSE {q}
    BY <1>0, <1>2, <1>8 DEF Cascade, Goto, Climbed, Climbing
  <2>5. LockIsHeld'
    BY <1>0, <1>2, <1>8, WorkersAssumption DEF Cascade, Goto, Climbing, LockIsHeld
  <2> HIDE DEF q, c
  <2>6. ContainersAreLinked'
    <3>1. Pending' \cup Climbed' \subseteq DOMAIN containers'
      BY <1>4, <1>6, <2>1, <2>2, <2>3, <2>4 DEF Accounting, ContainersAreLinked
    <3>2. \A id \in DOMAIN containers' :
              containers'[id].parent \in DOMAIN containers' \cup {NoContainer}
      BY <2>2, <2>3 DEF Accounting, ContainersAreLinked
    <3>. QED
      BY <1>1, <2>2, <3>1, <3>2 DEF Accounting, ContainersAreLinked
  <2>7. CountsAreExact'
    <3> SUFFICES ASSUME NEW id \in DOMAIN containers'
                 PROVE  containers'[id].refcount =
                            Cardinality(Children(id)') + Share(id, Pending') + Share(id, Climbed')
      BY DEF CountsAreExact
    <3>1. /\ containers'[id] = containers[id] /\ id \in DOMAIN containers /\ id # c
          /\ id # NoContainer
      BY <1>1, <2>2 DEF Types, SharedTypes, ContainerTypes, Containers
    <3>2. containers[id].refcount = Cardinality(Children(id)) + Share(id, Pending)
      BY <1>2, <3>1, ChildrenAreFinite DEF Accounting, CountsAreExact, Share
    <3>3. CASE id = q
      <4>1. Children(id)' = Children(id) \ {c} /\ c \in Children(id)
        BY <1>1, <2>2, <3>3 DEF Children, q
      <4>2. /\ Cardinality(Children(id)') = Cardinality(Children(id)) - 1
            /\ Cardinality(Children(id)) \in Nat
        BY <4>1, ChildrenAreFinite, FS_RemoveElement DEF Accounting
      <4>. QED
        BY <1>4, <2>4, <3>1, <3>2, <3>3, <4>2 DEF Share
    <3>4. CASE id # q
      <4>1. Children(id)' = Children(id)
        BY <2>2, <3>4 DEF Children, q
      <4>. QED
        BY <1>4, <2>4, <3>1, <3>2, <3>4, <4>1, ChildrenAreFinite DEF Share, Accounting
    <3>. QED
      BY <3>3, <3>4
  <2>. QED
    BY <1>5, <2>5, <2>6, <2>7 DEF Accounting
<1>9. CASE containers[c].refcount # 1
  <2>1. /\ containers' = [containers EXCEPT ![c].refcount = @ - 1]
        /\ up' = [up EXCEPT ![w] = NoContainer] /\ lock' = NoOne /\ Goto(w, "ends")
    BY <1>9 DEF Cascade
  <2>2. /\ DOMAIN containers' = DOMAIN containers
        /\ \A id \in DOMAIN containers : containers'[id].parent = containers[id].parent
        /\ containers'[c].refcount = containers[c].refcount - 1
        /\ \A id \in DOMAIN containers \ {c} : containers'[id].refcount = containers[id].refcount
    <3>1. \A id \in DOMAIN containers : containers[id] = [parent |-> containers[id].parent,
                                                          refcount |-> containers[id].refcount]
      BY DEF Types, SharedTypes, ContainerTypes
    <3>. QED
      BY <1>1, <2>1, <3>1
  <2>3. Climbing' = {} /\ Climbed' = {}
    BY <1>0, <1>2, <2>1 DEF Goto, Climbed, Climbing
  <2>4. LockIsHeld'
    BY <2>1, <2>3, WorkersAssumption DEF LockIsHeld, Climbing
  <2>5. \A id : Children(id)' = Children(id)
    BY <2>2 DEF Children
  <2>6. ContainersAreLinked'
    BY <1>1, <1>4, <2>2, <2>3 DEF Accounting, ContainersAreLinked
  <2> HIDE DEF q, c
  <2>7. CountsAreExact'
    BY <1>2, <1>4, <1>7, <2>2, <2>3, <2>5, ChildrenAreFinite
       DEF Accounting, CountsAreExact, Share
  <2>. QED
    BY <1>5, <2>4, <2>6, <2>7 DEF Accounting
<1>. QED
  BY <1>8, <1>9

\* The roots of the query start as containers counted once, by their own scan.
LEMMA InitAccounting == Init => Accounting
<1> SUFFICES ASSUME Init PROVE Accounting
  OBVIOUS
<1> DEFINE n == Cardinality(Referenced)
<1>1. Types
  BY InitTypes
<1>2. /\ stack \in Seq(Job) /\ DOMAIN stack = 1..n /\ DOMAIN containers = 1..n
      /\ \A k \in 1..n : /\ stack[k].container = k
                         /\ containers[k] = [parent |-> NoContainer, refcount |-> 1]
  BY <1>1 DEF Init, RootJob, Types, SharedTypes
<1>3. n \in Nat /\ nextId = n + 1
  BY ReferencedIsFinite DEF Init
<1> HIDE DEF n
<1>4. Scanning = {} /\ Climbing = {} /\ Climbed = {} /\ lock = NoOne
  BY DEF Init, Scanning, Busy, Climbing, Climbed
<1>5. Pending = 1..n
  BY <1>2, <1>4 DEF Pending
<1>6. \A id \in DOMAIN containers : Children(id) = {}
  BY <1>2, <1>3 DEF Children, NoContainer
<1>7. LockIsHeld
  BY <1>4, WorkersAssumption DEF LockIsHeld, Climbing
<1>8. OneHolderEach
  BY <1>2, <1>4 DEF OneHolderEach
<1>9. ContainersAreLinked
  BY <1>2, <1>3, <1>4, <1>5 DEF ContainersAreLinked
<1>10. CountsAreExact
  <2> SUFFICES ASSUME NEW id \in DOMAIN containers
               PROVE  containers[id].refcount =
                          Cardinality(Children(id)) + Share(id, Pending) + Share(id, Climbed)
    BY DEF CountsAreExact
  <2>1. Cardinality(Children(id)) = 0
    BY <1>6, FS_EmptySet
  <2>. QED
    BY <1>2, <1>4, <1>5, <2>1 DEF Share
<1>. QED
  BY <1>7, <1>8, <1>9, <1>10 DEF Accounting

\* Every step keeps the accounting of containers.
LEMMA NextKeepsAccounting == IInv /\ Accounting /\ [Next]_vars => Accounting'
<1> SUFFICES ASSUME IInv, Accounting, [Next]_vars PROVE Accounting'
  OBVIOUS
<1>1. Types
  BY DEF IInv
<1>2. ASSUME NEW w \in Workers, Worker(w) PROVE Accounting'
  BY <1>1, <1>2, NextJobKeepsAccounting, LaunchKeepsAccounting, ReleaseKeepsAccounting,
     CascadeKeepsAccounting, QuietWorker, QuietKeepsAccounting DEF Worker
<1>3. CASE Coordinator \/ SqThread \/ Client \/ UNCHANGED vars
  BY <1>1, <1>3, QuietOthers, QuietKeepsAccounting
<1>. QED
  BY <1>2, <1>3 DEF Next

\* The accounting of containers holds in every reachable state.
THEOREM AccountingInvariance == Spec => []Accounting
<1>. QED
  BY InitAccounting, NextKeepsAccounting, Invariance, PTL DEF Spec

\* Reference counts are exact whatever the order in which workers launch and release, so
\* that `release` never walks up to a container that is gone (engine.rs:266, the `expect`).
THEOREM RefcountCorrect == Spec => []RefcountIsExact
<1>1. IInv /\ Accounting => RefcountIsExact
  <2> SUFFICES ASSUME IInv, Accounting PROVE RefcountIsExact
    OBVIOUS
  <2>1. ASSUME lock = NoOne, NEW id \in DOMAIN containers
        PROVE  containers[id].refcount =
                   Cardinality(Children(id)) + (IF id \in Pending THEN 1 ELSE 0)
    <3>1. id \notin Climbed
      BY <2>1, FreeLockNobodyClimbs DEF Accounting
    <3>2. Cardinality(Children(id)) \in Nat
      BY ChildrenAreFinite DEF IInv, Accounting
    <3>. QED
      BY <2>1, <3>1, <3>2 DEF Accounting, CountsAreExact, Share
  <2>2. \A w \in Workers : pc[w] = "cascade" => up[w] \in DOMAIN containers
    BY DEF Accounting, ContainersAreLinked, Climbed, Climbing
  <2>. QED
    BY <2>1, <2>2 DEF RefcountIsExact
<1>. QED
  BY <1>1, Invariance, AccountingInvariance, PTL

-----------------------------------------------------------------------------
(* Wakes.  A sleeping worker has read `cancelled` as FALSE under the lock, *)
(* and whoever sets it wakes all after the unlock: until then a scan may   *)
(* wait beside a sleeper, and afterwards nobody sleeps through a cancel.   *)

Sleeping == {v \in Workers : pc[v] = "waiting"}

\* The workers on their way to the stack, or to wake one that sleeps.
Coming == {v \in Workers : pc[v] \in {"next", "notify"}}

\* Every scan on the stack has a worker coming, and nobody sleeps through a cancel.
Attended ==
    /\ Sleeping # {} => Len(stack) <= Cardinality(Coming)
    /\ cancelled => Sleeping = {}

Waking == Attended \/ WakingAll

\* The workers on their way are finitely many.
LEMMA ComingIsFinite == IsFiniteSet(Coming) /\ Cardinality(Coming) \in Nat
<1>1. Coming \in SUBSET Workers
  BY DEF Coming
<1>. QED
  BY <1>1, WorkersAssumption, FS_Subset, FS_CardinalityType

\* While nobody sleeps, nothing is asked.
LEMMA NobodySleeps ==
    ASSUME Sleeping' = {}
    PROVE  Attended'
  BY DEF Attended

\* A step that puts no scan on the stack, keeps every comer and lulls nobody to sleep.
LEMMA NobodyLulled ==
    ASSUME Attended, UNCHANGED <<stack, cancelled>>, Sleeping' \subseteq Sleeping,
           Coming \subseteq Coming', Types
    PROVE  Attended'
<1>1. CASE Sleeping' = {}
  BY <1>1, NobodySleeps
<1>2. CASE Sleeping' # {}
  <2>1. Coming' \in SUBSET Workers
    BY DEF Coming
  <2>2. IsFiniteSet(Coming') /\ Cardinality(Coming') \in Nat
    BY <2>1, WorkersAssumption, FS_Subset, FS_CardinalityType
  <2>3. Cardinality(Coming) <= Cardinality(Coming')
    BY <2>2, FS_Subset
  <2>4. Sleeping # {} /\ Len(stack) <= Cardinality(Coming) /\ Len(stack) \in Nat
    BY <1>2 DEF Attended, Types, SharedTypes
  <2>5. Len(stack') <= Cardinality(Coming')
    BY <2>2, <2>3, <2>4, ComingIsFinite
  <2>. QED
    BY <2>4, <2>5 DEF Attended
<1>. QED
  BY <1>1, <1>2

\* next_job takes a scan off the stack and its worker out of those that come; a worker goes to
\* sleep only where the stack is empty and no cancel is seen.
LEMMA NextJobAttends ==
    ASSUME Types, Attended, NEW w \in Workers, NextJob(w)
    PROVE  Attended'
<1>0. pc \in [Workers -> Steps] /\ Len(stack) \in Nat
  BY DEF Types, WorkerTypes, SharedTypes
<1>1. CASE cancelled
  <2>1. Sleeping' = {}
    BY <1>0, <1>1 DEF NextJob, Goto, Attended, Sleeping
  <2>. QED
    BY <2>1, NobodySleeps
<1>2. CASE /\ ~cancelled /\ stack # <<>> /\ Goto(w, "enumerate")
           /\ stack' = SubSeq(stack, 1, Len(stack) - 1)
  <2>1. Len(stack') = Len(stack) - 1
    BY <1>2, PoppedStack
  <2>2. Coming' = Coming \ {w} /\ w \in Coming /\ Sleeping' = Sleeping
    BY <1>0, <1>2 DEF NextJob, Goto, Coming, Sleeping
  <2>3. Cardinality(Coming') = Cardinality(Coming) - 1
    BY <2>2, ComingIsFinite, FS_RemoveElement
  <2>4. Sleeping' # {} => Len(stack') <= Cardinality(Coming')
    BY <1>0, <2>1, <2>2, <2>3, ComingIsFinite DEF Attended
  <2>. QED
    BY <1>2, <2>4 DEF Attended, NextJob
<1>3. CASE ~cancelled /\ stack = <<>> /\ UNCHANGED stack
  <2>1. Len(stack') = 0
    BY <1>3
  <2>2. Coming' \in SUBSET Workers
    BY DEF Coming
  <2>3. Cardinality(Coming') \in Nat
    BY <2>2, WorkersAssumption, FS_Subset, FS_CardinalityType
  <2>4. 0 <= Cardinality(Coming')
    BY <2>3
  <2>. QED
    BY <1>3, <2>1, <2>4 DEF Attended, NextJob
<1>. QED
  BY <1>1, <1>2, <1>3 DEF NextJob

\* Launching a scan makes the worker one that will notify.
LEMMA LaunchAttends ==
    ASSUME Types, Attended, NEW w \in Workers, Launch(w)
    PROVE  Attended'
<1>0. pc \in [Workers -> Steps] /\ Len(stack) \in Nat
  BY DEF Types, WorkerTypes, SharedTypes
<1>1. Len(stack') = Len(stack) + 1
  BY DEF Launch, Types, SharedTypes
<1>2. Coming' = Coming \cup {w} /\ w \notin Coming /\ Sleeping' = Sleeping
  BY <1>0 DEF Launch, Goto, Coming, Sleeping
<1>3. Cardinality(Coming') = Cardinality(Coming) + 1
  BY <1>2, ComingIsFinite, FS_AddElement
<1>4. Sleeping' # {} => Len(stack') <= Cardinality(Coming')
  BY <1>0, <1>1, <1>2, <1>3, ComingIsFinite DEF Attended
<1>. QED
  BY <1>2, <1>4 DEF Attended, Launch

\* notify_one passes the notifier's place on to the worker it wakes.
LEMMA NotifyAttends ==
    ASSUME Types, Attended, NEW w \in Workers, NotifyOne(w)
    PROVE  Attended'
<1>0. pc \in [Workers -> Steps]
  BY DEF Types, WorkerTypes
<1>1. CASE \A v \in Workers : pc[v] # "waiting"
  <2>1. Sleeping' = {}
    BY <1>0, <1>1 DEF NotifyOne, Goto, Sleeping
  <2>. QED
    BY <2>1, NobodySleeps
<1>2. CASE \E v \in Workers : /\ pc[v] = "waiting"
                              /\ pc' = [pc EXCEPT ![v] = "next", ![w] = "scan"]
  <2>1. PICK v \in Workers : /\ pc[v] = "waiting"
                             /\ pc' = [pc EXCEPT ![v] = "next", ![w] = "scan"]
    BY <1>2
  <2>2. /\ v # w /\ w \in Coming /\ v \notin Coming /\ v \in Sleeping
        /\ Coming' = (Coming \cup {v}) \ {w} /\ Sleeping' = Sleeping \ {v}
    BY <1>0, <2>1 DEF NotifyOne, Coming, Sleeping
  <2>3. /\ IsFiniteSet(Coming \cup {v})
        /\ Cardinality(Coming \cup {v}) = Cardinality(Coming) + 1
    BY <2>2, ComingIsFinite, FS_AddElement
  <2>4. Cardinality(Coming') = Cardinality(Coming \cup {v}) - 1
    BY <2>2, <2>3, FS_RemoveElement
  <2>5. Cardinality(Coming') = Cardinality(Coming)
    BY <2>3, <2>4, ComingIsFinite
  <2>6. UNCHANGED <<stack, cancelled>>
    BY DEF NotifyOne, sharedVars
  <2>. QED
    BY <2>2, <2>5, <2>6 DEF Attended
<1>. QED
  BY <1>1, <1>2 DEF NotifyOne

\* So does every other step of a worker but the one that sets `cancelled`.
LEMMA WorkerAttends ==
    ASSUME Types, Attended, NEW w \in Workers, Worker(w), ~WorkerHalt(w)
    PROVE  Attended'
<1>0. pc \in [Workers -> Steps]
  BY DEF Types, WorkerTypes
<1>1. CASE NextJob(w) \/ Launch(w) \/ NotifyOne(w)
  BY <1>1, NextJobAttends, LaunchAttends, NotifyAttends
<1>2. CASE CompleteJob(w)
  <2>1. Sleeping' \subseteq Sleeping /\ Coming \subseteq Coming'
    BY <1>0, <1>2 DEF CompleteJob, AllWoken, Sleeping, Coming
  <2>. QED
    BY <1>2, <2>1, NobodyLulled DEF CompleteJob
<1>3. CASE WorkerWake(w)
  <2>1. Sleeping' = {}
    BY <1>0, <1>3 DEF WorkerWake, AllWoken, Sleeping
  <2>. QED
    BY <2>1, NobodySleeps
<1>4. CASE LoadCancel(w) \/ TryPush(w)
  <2>1. pc'[w] \notin {"waiting", "next", "notify"}
    BY <1>0, <1>4, ResumedStep DEF LoadCancel, TryPush, Goto
  <2>2. Sleeping' = Sleeping /\ Coming' = Coming
    BY <1>0, <1>4, <2>1 DEF LoadCancel, TryPush, Goto, Sleeping, Coming
  <2>3. UNCHANGED <<stack, cancelled>>
    BY <1>4 DEF LoadCancel, TryPush, sharedVars
  <2>. QED
    BY <2>2, <2>3, NobodyLulled
<1>5. CASE \/ Enumerate(w) \/ MarkOpen(w) \/ Scan(w) \/ Descend(w) \/ Release(w) \/ Cascade(w)
           \/ EmitEnds(w) \/ PushEnd(w) \/ StashError(w) \/ RaiseFatal(w) \/ WorkerCancel(w)
  <2>1. UNCHANGED <<stack, cancelled>>
    BY <1>5 DEF Enumerate, MarkOpen, Scan, Descend, Release, Cascade, EmitEnds, PushEnd,
       StashError, RaiseFatal, WorkerCancel, sharedVars
  <2>2. /\ pc[w] \notin {"waiting", "next", "notify"}
        /\ \/ pc' = pc
           \/ \E step \in Steps \ {"waiting", "next", "notify"} : pc' = [pc EXCEPT ![w] = step]
    BY <1>0, <1>5 DEF Enumerate, MarkOpen, Scan, Descend, Release, Cascade, EmitEnds, PushEnd,
       StashError, RaiseFatal, WorkerCancel, Offer, Goto, Steps
  <2>3. Sleeping' = Sleeping /\ Coming' = Coming
    BY <1>0, <2>2 DEF Sleeping, Coming
  <2>. QED
    BY <2>1, <2>3, NobodyLulled
<1>. QED
  BY <1>1, <1>2, <1>3, <1>4, <1>5 DEF Worker

\* The wake of all is due until it comes: no other step of a worker takes it away.
LEMMA WakeStaysDue ==
    ASSUME Types, NEW w \in Workers, Worker(w), ~WorkerWake(w), WakingAll
    PROVE  WakingAll'
<1>0. pc \in [Workers -> Steps]
  BY DEF Types, WorkerTypes
<1>1. UNCHANGED <<spc, kpc>> /\ pc[w] # "wake"
  BY DEF Worker, NextJob, Enumerate, LoadCancel, TryPush, MarkOpen, Scan, Descend, Launch,
     NotifyOne, Release, Cascade, EmitEnds, PushEnd, StashError, RaiseFatal, WorkerCancel,
     WorkerHalt, CompleteJob, sqVars, clientVars
<1>2. ASSUME NEW v \in Workers, v # w, pc[v] = "wake"
      PROVE  pc'[v] = "wake"
  <2>1. CASE NextJob(w) \/ NotifyOne(w) \/ CompleteJob(w)
    BY <1>0, <1>2, <2>1 DEF NextJob, NotifyOne, CompleteJob, AllWoken, Goto
  <2>2. CASE ~NextJob(w) /\ ~NotifyOne(w) /\ ~CompleteJob(w)
    <3>1. pc' = pc \/ pc' = [pc EXCEPT ![w] = pc'[w]]
      BY <1>0, <2>2
         DEF Worker, Enumerate, LoadCancel, TryPush, MarkOpen, Scan, Descend, Launch, Release,
             Cascade, EmitEnds, PushEnd, StashError, RaiseFatal, WorkerCancel, WorkerHalt, Offer,
             Goto
    <3>. QED
      BY <1>0, <1>2, <3>1
  <2>. QED
    BY <2>1, <2>2
<1>. QED
  BY <1>1, <1>2 DEF WakingAll

\* A worker's step keeps the wakes.
LEMMA WorkerKeepsWaking ==
    ASSUME Types, Waking, NEW w \in Workers, Worker(w)
    PROVE  Waking'
<1>0. pc \in [Workers -> Steps]
  BY DEF Types, WorkerTypes
<1>1. CASE WorkerHalt(w)
  BY <1>0, <1>1 DEF WorkerHalt, Goto, Waking, WakingAll
<1>2. CASE WorkerWake(w)
  <2>1. Sleeping' = {}
    BY <1>0, <1>2 DEF WorkerWake, AllWoken, Sleeping
  <2>. QED
    BY <2>1, NobodySleeps DEF Waking
<1>3. CASE ~WorkerHalt(w) /\ ~WorkerWake(w)
  BY <1>3, WorkerAttends, WakeStaysDue DEF Waking
<1>. QED
  BY <1>1, <1>2, <1>3

\* The other threads keep the wakes: a cancel, once it holds no lock, owes the wake of all.
LEMMA OthersKeepWaking ==
    ASSUME Types, Waking, Coordinator \/ SqThread \/ Client \/ UNCHANGED vars
    PROVE  Waking'
<1>0. pc \in [Workers -> Steps]
  BY DEF Types, WorkerTypes
<1>1. CASE SqHalt \/ DropHalt
  BY <1>1 DEF SqHalt, DropHalt, Waking, WakingAll
<1>2. CASE SqWake \/ DropWake
  <2>1. Sleeping' = {}
    BY <1>0, <1>2 DEF SqWake, DropWake, AllWoken, Sleeping
  <2>. QED
    BY <2>1, NobodySleeps DEF Waking
<1>3. CASE ~SqHalt /\ ~DropHalt /\ ~SqWake /\ ~DropWake
  <2>1. UNCHANGED <<stack, cancelled, pc>>
    BY <1>3
       DEF Coordinator, Join, Close, PushLeftover, Conclude, PushCause, PushTerminal, Finish,
           SqThread, SqCheck, SqDrain, SqServe, Client, ClientPop, ClientSubmit, DropHandle,
           Dropping, DropDrain, DropJoin, Gone, vars, sharedVars, workVars
  <2>2. (spc = "wake" => spc' = "wake") /\ (kpc = "wake" => kpc' = "wake")
    BY <1>3
       DEF Coordinator, Join, Close, PushLeftover, Conclude, PushCause, PushTerminal, Finish,
           SqThread, SqCheck, SqDrain, SqServe, Client, ClientPop, ClientSubmit, DropHandle,
           Dropping, DropDrain, DropJoin, Gone, vars, sqVars, clientVars
  <2>. QED
    BY <2>1, <2>2 DEF Waking, Attended, WakingAll, Sleeping, Coming
<1>. QED
  BY <1>1, <1>2, <1>3

\* Every step keeps the wakes.
LEMMA NextKeepsWaking == IInv /\ Waking /\ [Next]_vars => Waking'
<1> SUFFICES ASSUME IInv, Waking, [Next]_vars PROVE Waking'
  OBVIOUS
<1>. QED
  BY WorkerKeepsWaking, OthersKeepWaking DEF IInv, Next

\* No scan waits on the stack while a worker sleeps and none is on its way, unless a cancel's
\* wake of all is still to come: neither the notify_one (engine.rs:239) nor the notify_all
\* (engine.rs:477), both after the unlock, is ever lost.
THEOREM WakesCorrect == Spec => []NoScanIsStranded
<1>1. Init => Waking
  BY DEF Init, Waking, Attended, Sleeping
<1>2. Waking => NoScanIsStranded
  BY DEF Waking, Attended, NoScanIsStranded, Sleeping, Coming
<1>. QED
  BY <1>1, <1>2, NextKeepsWaking, Invariance, PTL DEF Spec

-----------------------------------------------------------------------------
(* The forest of all the containers ever created.  The engine forgets a    *)
(* container when it releases it, while its items still travel through the *)
(* ring; so the invariant speaks of a tree that remembers them.            *)

Ids == 1..(nextId - 1)

IsTree(tree) ==
    /\ tree \in [Ids -> [parent : Nat, above : SUBSET Ids, depth : Nat]]
    /\ \A c \in Ids :
         LET p == tree[c].parent IN
         \/ p = NoContainer /\ tree[c].above = {} /\ tree[c].depth = 0
         \/ /\ p \in Ids /\ p < c
            /\ tree[c].above = tree[p].above \cup {p} /\ tree[c].depth = tree[p].depth + 1
    /\ \A c \in Ids : \A a \in tree[c].above : \E b \in tree[c].above \cup {c} : tree[b].parent = a

\* Where a scan's container lies.
Fits(tree, j) ==
    /\ j.container \in Ids
    /\ tree[j.container].parent = j.parent /\ tree[j.container].depth = Len(j.path)

\* The live containers are a part of the tree closed upwards.
Planted(tree) ==
    /\ IsTree(tree)
    /\ \A c \in DOMAIN containers : /\ containers[c].parent = tree[c].parent
                                    /\ tree[c].above \subseteq DOMAIN containers
    /\ \A i \in DOMAIN stack : Fits(tree, stack[i])
    /\ \A w \in Workers : pc[w] \notin Idle => Fits(tree, job[w])

-----------------------------------------------------------------------------
(* What has been announced and what has been ended, in the ring or beyond, *)
(* and who still has to end what.                                          *)

IdsOf(type) == {ring[k].id : k \in {i \in DOMAIN ring : ring[i].type = type}}

Entered == DOMAIN live \cup ended \cup IdsOf("Enter")
Ended == ended \cup IdsOf("End")

\* The ends on their way into the ring, and the containers on their way into `open`.
Held == {item[w].id : w \in {v \in Workers : pc[v] = "end"}}
          \cup (IF cpc = "end" THEN {closing} ELSE {})
Marking == {job[w].container : w \in {v \in Workers : pc[v] = "opened"}}

Owed(w) == {ends[w][i] : i \in DOMAIN ends[w]}

Offering(w) == pc[w] \in {"offer", "push"}

\* A worker that has not announced its container, that gives up a directory it could not
\* open, or whose container is announced and stays open.
Announces(w) == pc[w] = "enumerate" \/ (Offering(w) /\ item[w].type = "Enter")
GivesUp(w) == Offering(w) /\ item[w].type = "Error" /\ item[w].container # job[w].container
Inside(w) == \/ pc[w] \in {"scan", "descend", "launch", "notify"}
             \/ Offering(w) /\ ~Announces(w) /\ ~GivesUp(w)

Stage(w) ==
    /\ Announces(w) => /\ job[w].container \notin Entered
                       /\ Offering(w) => item[w] = Enter(job[w])
    /\ GivesUp(w) => item[w].container = job[w].parent /\ job[w].parent # NoContainer
    /\ Inside(w) => /\ job[w].container \in DOMAIN open
                    /\ Offering(w) => item[w].container = job[w].container
    /\ pc[w] = "opened" => job[w].container \in Entered \ DOMAIN open
    /\ pc[w] = "slot" => job[w].parent = NoContainer
    /\ ends[w] # <<>> => pc[w] \in {"cascade", "ends", "end"}
    /\ Owed(w) \subseteq Ids \ DOMAIN containers
    /\ pc[w] = "end" =>
         item[w].id \in Entered \ (Ended \cup DOMAIN open \cup DOMAIN containers)

\* Two workers never hold the same end.
Stages ==
    /\ \A w \in Workers : Stage(w)
    /\ \A v, w \in Workers :
         pc[v] = "end" /\ pc[w] = "end" /\ item[v].id = item[w].id => v = w

\* `open` holds what was entered and is not yet owed an end by anybody; while workers run,
\* only a container that is gone has ended.
Opened(tree) ==
    /\ Entered \subseteq Ids /\ Ended \subseteq Entered
    /\ DOMAIN open \subseteq Entered \ Ended
    /\ Entered \subseteq DOMAIN open \cup Ended \cup Held \cup Marking
    /\ \A c \in DOMAIN open : open[c] = tree[c].depth
    /\ \A c \in DOMAIN open \ DOMAIN containers : \E w \in Workers : c \in Owed(w)
    /\ cpc = "join" => Ended \cap DOMAIN containers = {}

\* A scan not yet announced lies below announced containers.
Awaited(tree) ==
    /\ \A i \in DOMAIN stack : stack[i].container \notin Entered
    /\ \A c \in Pending : tree[c].above \subseteq Entered

\* What the coordinator does after the workers are gone.
Closing ==
    /\ cpc # "join" => Joined
    /\ cpc \in {"close", "end"} => leftovers = DOMAIN open
    /\ cpc \notin {"join", "close", "end"} => DOMAIN open = {}
    /\ cpc = "end" => closing \in Entered \ (Ended \cup DOMAIN open)
    /\ LeftoversEndBottomUp

-----------------------------------------------------------------------------
(* The tree *)

\* The tree with the container that launch_child creates below p.
Grown(tree, p) ==
    [c \in 1..nextId |->
        IF c = nextId
        THEN [parent |-> p, above |-> tree[p].above \cup {p}, depth |-> tree[p].depth + 1]
        ELSE tree[c]]

\* A container below a released one would still count for it: what has no child is above
\* nothing that is live.
LEMMA ChildlessIsAboveNobody ==
    ASSUME NEW tree, Planted(tree), Accounting, Types, NEW id \in DOMAIN containers,
           Children(id) = {}
    PROVE  \A c \in DOMAIN containers : id \notin tree[c].above
<1> SUFFICES ASSUME NEW c \in DOMAIN containers, id \in tree[c].above PROVE FALSE
  OBVIOUS
<1>1. c \in Ids
  BY DEF Accounting, ContainersAreLinked, Ids
<1>2. PICK b \in tree[c].above \cup {c} : tree[b].parent = id
  BY <1>1 DEF Planted, IsTree
<1>3. b \in DOMAIN containers /\ containers[b].parent = id
  BY <1>2 DEF Planted
<1>. QED
  BY <1>3 DEF Children

\* A step that creates and removes no container and gives no worker another job.
LEMMA SameJobsKeepPlanted ==
    ASSUME NEW tree, Planted(tree), UNCHANGED <<stack, containers, nextId>>,
           \A v \in Workers : pc'[v] \notin Idle => pc[v] \notin Idle /\ job'[v] = job[v]
    PROVE  Planted(tree)'
<1>1. Ids' = Ids
  BY DEF Ids
<1>2. IsTree(tree)'
  BY <1>1 DEF Planted, IsTree
<1>3. \A j : Fits(tree, j)' <=> Fits(tree, j)
  BY <1>1 DEF Fits
<1>. QED
  BY <1>1, <1>2, <1>3 DEF Planted, Fits

\* Every step of a worker that neither takes a job, launches one nor climbs.
LEMMA WorkerKeepsJob ==
    ASSUME Types, NEW w \in Workers,
           \/ Enumerate(w) \/ LoadCancel(w) \/ TryPush(w) \/ MarkOpen(w) \/ Scan(w)
           \/ Descend(w) \/ NotifyOne(w) \/ Release(w) \/ EmitEnds(w) \/ PushEnd(w)
           \/ StashError(w) \/ RaiseFatal(w) \/ WorkerCancel(w) \/ WorkerHalt(w) \/ WorkerWake(w)
           \/ CompleteJob(w)
    PROVE  /\ UNCHANGED <<stack, containers, nextId>>
           /\ \A v \in Workers : pc'[v] \notin Idle => pc[v] \notin Idle /\ job'[v] = job[v]
<1>0. pc \in [Workers -> Steps] /\ DOMAIN job = Workers
  BY DEF Types, WorkerTypes
<1>1. CASE \/ Enumerate(w) \/ LoadCancel(w) \/ TryPush(w) \/ MarkOpen(w) \/ Scan(w)
           \/ Descend(w) \/ NotifyOne(w)
  BY <1>0, <1>1
     DEF Enumerate, LoadCancel, TryPush, MarkOpen, Scan, Descend, NotifyOne, Offer, Goto, Idle,
         sharedVars
<1>2. CASE \/ Release(w) \/ EmitEnds(w) \/ PushEnd(w) \/ StashError(w) \/ RaiseFatal(w)
           \/ WorkerCancel(w)
  BY <1>0, <1>2
     DEF Release, EmitEnds, PushEnd, StashError, RaiseFatal, WorkerCancel, Goto, Idle,
         sharedVars
<1>3. CASE WorkerHalt(w) \/ WorkerWake(w) \/ CompleteJob(w)
  BY <1>0, <1>3 DEF WorkerHalt, WorkerWake, CompleteJob, AllWoken, Goto, Idle, sharedVars
<1>. QED
  BY <1>1, <1>2, <1>3

\* next_job passes a scan on with its place in the tree.
LEMMA NextJobKeepsPlanted ==
    ASSUME Types, NEW w \in Workers, NextJob(w), NEW tree, Planted(tree)
    PROVE  Planted(tree)'
<1>0. pc \in [Workers -> Steps] /\ DOMAIN job = Workers
  BY DEF Types, WorkerTypes
<1>1. CASE /\ stack # <<>>
           /\ job' = [job EXCEPT ![w] = stack[Len(stack)]]
           /\ stack' = SubSeq(stack, 1, Len(stack) - 1)
           /\ Goto(w, "enumerate")
  <2>1. /\ DOMAIN stack = DOMAIN stack' \cup {Len(stack)}
        /\ \A i \in DOMAIN stack' : stack'[i] = stack[i]
    BY <1>1, PoppedStack
  <2>2. Ids' = Ids /\ UNCHANGED containers
    BY DEF NextJob, Ids
  <2>3. IsTree(tree)'
    BY <2>2 DEF Planted, IsTree
  <2>4. \A i \in DOMAIN stack' : Fits(tree, stack[i])'
    BY <2>1, <2>2 DEF Planted, Fits
  <2>5. ASSUME NEW v \in Workers, pc'[v] \notin Idle PROVE Fits(tree, job[v])'
    <3>1. CASE v = w
      BY <1>0, <1>1, <2>1, <2>2, <3>1 DEF Planted, Fits
    <3>2. CASE v # w
      BY <1>0, <1>1, <2>2, <2>5, <3>2 DEF Planted, Fits, Goto
    <3>. QED
      BY <3>1, <3>2
  <2>. QED
    BY <2>2, <2>3, <2>4, <2>5 DEF Planted
<1>2. CASE UNCHANGED <<stack, job>>
           /\ \A v \in Workers : pc'[v] \notin Idle => pc[v] \notin Idle
  BY <1>2, SameJobsKeepPlanted DEF NextJob
<1>. QED
  BY <1>0, <1>1, <1>2 DEF NextJob, Goto, AllWoken, Idle

\* The cascade removes a container that nothing live lies below.
LEMMA CascadeKeepsPlanted ==
    ASSUME Types, Accounting, NEW w \in Workers, Cascade(w), NEW tree, Planted(tree)
    PROVE  Planted(tree)'
<1>0. pc \in [Workers -> Steps] /\ DOMAIN job = Workers
  BY DEF Types, WorkerTypes
<1>1. Ids' = Ids /\ UNCHANGED <<stack, job>>
  BY DEF Cascade, Ids
<1>2. IsTree(tree)'
  BY <1>1 DEF Planted, IsTree
<1>3. \A c \in DOMAIN containers' : /\ containers'[c].parent = tree[c].parent
                                    /\ tree[c].above \subseteq DOMAIN containers'
  <2>1. CASE containers[up[w]].refcount = 1
    <3>1. /\ DOMAIN containers' = DOMAIN containers \ {up[w]}
          /\ \A c \in DOMAIN containers' : containers'[c] = containers[c]
      BY <2>1 DEF Cascade, Delete, Restrict
    <3>2. Children(up[w]) = {}
      <4>1. pc[w] = "cascade" /\ up[w] \in DOMAIN containers
        BY DEF Cascade
      <4>2. up[w] \in Climbed
        BY <4>1 DEF Climbed, Climbing
      <4>3. 1 = Cardinality(Children(up[w])) + Share(up[w], Pending) + 1
        BY <2>1, <4>1, <4>2 DEF Accounting, CountsAreExact, Share
      <4>4. Cardinality(Children(up[w])) = 0
        BY <4>3, ChildrenAreFinite DEF Share, Accounting
      <4>. QED
        BY <4>4, ChildrenAreFinite, FS_EmptySet DEF Accounting
    <3>3. \A c \in DOMAIN containers : up[w] \notin tree[c].above
      BY <3>2, ChildlessIsAboveNobody DEF Cascade
    <3>. QED
      BY <3>1, <3>3 DEF Planted
  <2>2. CASE containers[up[w]].refcount # 1
    <3>1. containers' = [containers EXCEPT ![up[w]].refcount = @ - 1]
      BY <2>2 DEF Cascade
    <3>2. \A c \in DOMAIN containers : containers[c] = [parent |-> containers[c].parent,
                                                        refcount |-> containers[c].refcount]
      BY DEF Types, SharedTypes, ContainerTypes
    <3>. QED
      BY <3>1, <3>2 DEF Planted
  <2>. QED
    BY <2>1, <2>2
<1>4. \A v \in Workers : pc'[v] \notin Idle => pc[v] \notin Idle
  BY <1>0 DEF Cascade, Goto, Idle
<1>. QED
  BY <1>1, <1>2, <1>3, <1>4 DEF Planted, Fits

\* launch_child plants the child below the container being scanned.
LEMMA LaunchKeepsPlanted ==
    ASSUME Types, Accounting, NEW w \in Workers, Launch(w), NEW tree, Planted(tree)
    PROVE  \E t : /\ Planted(t)' /\ \A c \in Ids : t[c] = tree[c]
                  /\ t[nextId].above = tree[job[w].container].above \cup {job[w].container}
<1> DEFINE p == job[w].container
           n == nextId
<1>0. pc \in [Workers -> Steps] /\ DOMAIN job = Workers /\ job[w] \in Job
  BY DEF Types, WorkerTypes, WorkerType, Launch, Idle
<1>1. PICK m \in Nat \ {0} : m = n
  BY DEF Types, SharedTypes
<1>2. PICK q : q = p
  OBVIOUS
<1>3. PICK t : t = Grown(tree, p)
  OBVIOUS
<1>4. Ids = 1..(m - 1) /\ Ids' = 1..m
  BY <1>1 DEF Ids, Launch
<1>5. q \in Ids /\ q \in DOMAIN containers
  <2>1. q \in Pending
    BY <1>2 DEF Launch, Pending, Scanning, Busy
  <2>2. DOMAIN containers \subseteq Ids
    BY DEF Accounting, ContainersAreLinked, Ids
  <2>. QED
    BY <2>1, <2>2 DEF Accounting, ContainersAreLinked
<1>6. /\ t = [c \in 1..m |->
                IF c = m THEN [parent |-> q, above |-> tree[q].above \cup {q},
                               depth |-> tree[q].depth + 1]
                ELSE tree[c]]
  BY <1>1, <1>2, <1>3 DEF Grown
<1>7. /\ \A c \in 1..(m - 1) : t[c] = tree[c]
      /\ t[m].parent = q /\ t[m].above = tree[q].above \cup {q} /\ t[m].depth = tree[q].depth + 1
      /\ 1..m = (1..(m - 1)) \cup {m} /\ m \notin 1..(m - 1)
  BY <1>1, <1>6
<1>8. tree \in [Ids -> [parent : Nat, above : SUBSET Ids, depth : Nat]]
  BY DEF Planted, IsTree
<1>9. UNCHANGED job /\ \A v \in Workers : pc'[v] \notin Idle => pc[v] \notin Idle
  BY <1>0 DEF Launch, Goto, Idle
<1>10. IsTree(t)'
  <2>1. t \in [Ids' -> [parent : Nat, above : SUBSET Ids', depth : Nat]]
    <3>1. \A c \in 1..(m - 1) : tree[c] \in [parent : Nat, above : SUBSET (1..m), depth : Nat]
      BY <1>4, <1>7, <1>8
    <3>2. q \in Nat /\ tree[q].above \subseteq 1..(m - 1) /\ tree[q].depth \in Nat
      BY <1>4, <1>5, <1>8
    <3>3. [parent |-> q, above |-> tree[q].above \cup {q}, depth |-> tree[q].depth + 1]
            \in [parent : Nat, above : SUBSET (1..m), depth : Nat]
      BY <1>4, <1>5, <1>7, <3>2
    <3>. QED
      BY <1>4, <1>6, <1>7, <3>1, <3>3
  <2>2. ASSUME NEW c \in 1..m
        PROVE  \/ t[c].parent = NoContainer /\ t[c].above = {} /\ t[c].depth = 0
               \/ /\ t[c].parent \in 1..m /\ t[c].parent < c
                  /\ t[c].above = t[t[c].parent].above \cup {t[c].parent}
                  /\ t[c].depth = t[t[c].parent].depth + 1
    <3>1. CASE c = m
      BY <1>1, <1>4, <1>5, <1>7, <3>1
    <3>2. CASE c \in 1..(m - 1)
      BY <1>4, <1>7, <3>2 DEF Planted, IsTree
    <3>. QED
      BY <1>7, <3>1, <3>2
  <2>3. ASSUME NEW c \in 1..m, NEW a \in t[c].above
        PROVE  \E b \in t[c].above \cup {c} : t[b].parent = a
    <3>1. CASE c = m
      <4>1. CASE a = q
        BY <1>7, <3>1, <4>1
      <4>2. CASE a \in tree[q].above
        <5>1. PICK b \in tree[q].above \cup {q} : tree[b].parent = a
          BY <1>5, <4>2 DEF Planted, IsTree
        <5>2. b \in 1..(m - 1)
          BY <1>4, <1>5, <1>8
        <5>. QED
          BY <1>7, <3>1, <5>1, <5>2
      <4>. QED
        BY <1>7, <3>1, <4>1, <4>2
    <3>2. CASE c \in 1..(m - 1)
      <4>0. c \in Ids /\ a \in tree[c].above
        BY <1>4, <1>7, <3>2
      <4>1. PICK b \in tree[c].above \cup {c} : tree[b].parent = a
        BY <4>0 DEF Planted, IsTree
      <4>2. b \in 1..(m - 1)
        BY <1>4, <1>8, <3>2
      <4>. QED
        BY <1>7, <3>2, <4>1, <4>2
    <3>. QED
      BY <1>7, <3>1, <3>2
  <2>. QED
    BY <1>4, <2>1, <2>2, <2>3 DEF IsTree
<1>11. \A j : Fits(tree, j) => Fits(t, j)'
  BY <1>4, <1>7 DEF Fits
<1>12. \A c \in DOMAIN containers' : /\ containers'[c].parent = t[c].parent
                                     /\ t[c].above \subseteq DOMAIN containers'
  <2>1. /\ DOMAIN containers' = DOMAIN containers \cup {m}
        /\ containers'[m].parent = q
        /\ \A c \in DOMAIN containers \ {m} : containers'[c].parent = containers[c].parent
    <3> DEFINE known == [containers EXCEPT ![q].refcount = @ + 1]
    <3>1. containers' = Insert(known, m, [parent |-> q, refcount |-> 1])
      BY <1>1, <1>2 DEF Launch, Adopt
    <3>2. \A c \in DOMAIN containers : containers[c] = [parent |-> containers[c].parent,
                                                        refcount |-> containers[c].refcount]
      BY DEF Types, SharedTypes, ContainerTypes
    <3>3. /\ DOMAIN known = DOMAIN containers
          /\ \A c \in DOMAIN containers : known[c].parent = containers[c].parent
      BY <3>2
    <3> HIDE DEF known
    <3>. QED
      BY <3>1, <3>3 DEF Insert
  <2>2. DOMAIN containers \subseteq 1..(m - 1)
    BY <1>4 DEF Accounting, ContainersAreLinked, Ids
  <2>. QED
    BY <1>5, <1>7, <2>1, <2>2 DEF Planted
<1>13. \A i \in DOMAIN stack' : Fits(t, stack[i])'
  <2>1. stack' = Append(stack, ChildJob(job[w], entry[w], n)) /\ stack \in Seq(Job)
    BY DEF Launch, Types, SharedTypes
  <2>2. Fits(tree, job[w])
    BY DEF Planted, Launch, Idle
  <2>3. ASSUME NEW j, j = ChildJob(job[w], entry[w], n) PROVE Fits(t, j)'
    <3>1. j.container = m /\ j.parent = q /\ j.path = Append(job[w].path, entry[w].name)
      BY <1>1, <1>2, <2>3 DEF ChildJob
    <3>2. Len(j.path) = Len(job[w].path) + 1
      BY <1>0, <3>1 DEF Job
    <3>3. tree[q].depth = Len(job[w].path)
      BY <1>2, <2>2 DEF Fits
    <3>. QED
      BY <1>1, <1>4, <1>7, <3>1, <3>2, <3>3 DEF Fits
  <2>4. ASSUME NEW i \in DOMAIN stack' PROVE Fits(t, stack[i])'
    <3>1. CASE i \in DOMAIN stack
      <4>1. stack'[i] = stack[i] /\ Fits(tree, stack[i])
        BY <2>1, <3>1 DEF Planted
      <4>. QED
        BY <1>4, <1>7, <4>1 DEF Fits
    <3>2. CASE i = Len(stack) + 1
      <4>1. stack'[i] = ChildJob(job[w], entry[w], n)
        BY <2>1, <3>2
      <4>. QED
        BY <2>3, <4>1 DEF Fits
    <3>. QED
      BY <2>1, <3>1, <3>2
  <2>. QED
    BY <2>4
<1>14. \A v \in Workers : pc'[v] \notin Idle => Fits(t, job[v])'
  BY <1>4, <1>7, <1>9 DEF Planted, Fits
<1>15. Planted(t)'
  BY <1>10, <1>12, <1>13, <1>14 DEF Planted
<1>. QED
  BY <1>1, <1>2, <1>4, <1>7, <1>15

\* The roots of the query are trees of one container each.
LEMMA InitPlanted ==
    ASSUME Init
    PROVE  Planted([c \in Ids |-> [parent |-> NoContainer, above |-> {}, depth |-> 0]])
<1> DEFINE n == Cardinality(Referenced)
           tree == [c \in Ids |-> [parent |-> NoContainer, above |-> {}, depth |-> 0]]
<1>1. n \in Nat /\ nextId = n + 1
  BY ReferencedIsFinite DEF Init
<1>2. PICK seeds \in [1..n -> Referenced] :
        /\ stack = [k \in DOMAIN seeds |-> RootJob(seeds[k], k)]
        /\ containers = [k \in DOMAIN seeds |-> [parent |-> NoContainer, refcount |-> 1]]
  BY DEF Init
<1> HIDE DEF n
<1>3. Ids = 1..n
  BY <1>1 DEF Ids
<1>4. IsTree(tree)
  BY <1>3 DEF IsTree, NoContainer
<1>5. \A i \in DOMAIN stack : Fits(tree, stack[i])
  BY <1>1, <1>2, <1>3 DEF Fits, RootJob
<1>6. \A c \in DOMAIN containers : /\ containers[c].parent = tree[c].parent
                                   /\ tree[c].above \subseteq DOMAIN containers
  BY <1>2, <1>3
<1>7. \A w \in Workers : pc[w] \in Idle
  BY DEF Init, Idle
<1>. QED
  BY <1>4, <1>5, <1>6, <1>7 DEF Planted

-----------------------------------------------------------------------------
(* What has been announced and ended, step by step *)

\* A push announces the container of an Enter and ends the one of an End.
LEMMA PushedItem ==
    ASSUME Types, NEW i, ring' = Append(ring, i), UNCHANGED <<live, ended>>
    PROVE  /\ Entered' = Entered \cup (IF i.type = "Enter" THEN {i.id} ELSE {})
           /\ Ended' = Ended \cup (IF i.type = "End" THEN {i.id} ELSE {})
<1>1. ring \in Seq(Item) /\ Len(ring) \in Nat
  BY DEF Types, RingTypes
<1>2. /\ DOMAIN ring' = DOMAIN ring \cup {Len(ring) + 1} /\ ring'[Len(ring) + 1] = i
      /\ \A k \in DOMAIN ring : ring'[k] = ring[k]
  BY <1>1
<1>3. ASSUME NEW type
      PROVE  IdsOf(type)' = IdsOf(type) \cup (IF i.type = type THEN {i.id} ELSE {})
  BY <1>2 DEF IdsOf
<1>. QED
  BY <1>3 DEF Entered, Ended

\* Without a push or a pop both stay as they are.
LEMMA SameItems ==
    ASSUME UNCHANGED <<ring, live, ended>>
    PROVE  Entered' = Entered /\ Ended' = Ended
  BY DEF Entered, Ended, IdsOf

\* The ring after a pop.
LEMMA PoppedRing ==
    ASSUME Types, Pop
    PROVE  /\ 1 \in DOMAIN ring /\ ring[1] = Head(ring) /\ ring[1] \in Item
           /\ Len(ring') = Len(ring) - 1 /\ Len(ring) \in Nat \ {0}
           /\ DOMAIN ring = 1..Len(ring) /\ DOMAIN ring' = 1..Len(ring')
           /\ \A k \in DOMAIN ring' : k + 1 \in DOMAIN ring /\ ring'[k] = ring[k + 1]
           /\ \A k \in DOMAIN ring \ {1} : k - 1 \in DOMAIN ring' /\ ring'[k - 1] = ring[k]
  BY DEF Types, RingTypes, Pop

\* What the client's knowledge of containers becomes.
LEMMA SeenItem ==
    ASSUME NEW i \in Item, See(i)
    PROVE  /\ i.type = "Enter" => /\ live' = Insert(live, i.id, [path |-> Append(At(i.parent), i.name),
                                                                 above |-> Above(i.parent)])
                                  /\ ended' = ended
           /\ i.type = "End" => live' = Delete(live, i.id) /\ ended' = ended \cup {i.id}
           /\ i.type \notin {"Enter", "End"} => live' = live /\ ended' = ended
  BY DEF See

\* A pop moves an item from the ring to the client and changes neither, as long as the client
\* knows a container that ends.
LEMMA PoppedItem ==
    ASSUME Types, Pop, Head(ring).type = "End" => Head(ring).id \in DOMAIN live
    PROVE  Entered' = Entered /\ Ended' = Ended
<1>1. PICK h \in Item : h = Head(ring) /\ See(h) /\ h = ring[1]
  BY PoppedRing DEF Pop
<1>2. ASSUME NEW type
      PROVE  IdsOf(type) = IdsOf(type)' \cup (IF h.type = type THEN {h.id} ELSE {})
  <2>1. ASSUME NEW id \in IdsOf(type)
        PROVE  id \in IdsOf(type)' \/ (h.type = type /\ id = h.id)
    <3>1. PICK k \in DOMAIN ring : ring[k].type = type /\ ring[k].id = id
      BY <2>1 DEF IdsOf
    <3>. QED
      BY <1>1, <3>1, PoppedRing DEF IdsOf
  <2>2. ASSUME NEW id \in IdsOf(type)' PROVE id \in IdsOf(type)
    <3>1. PICK k \in DOMAIN ring' : ring'[k].type = type /\ ring'[k].id = id
      BY <2>2 DEF IdsOf
    <3>. QED
      BY <3>1, PoppedRing DEF IdsOf
  <2>3. h.type = type => h.id \in IdsOf(type)
    BY <1>1, PoppedRing DEF IdsOf
  <2>. QED
    BY <2>1, <2>2, <2>3
<1>3. /\ h.type = "Enter" => DOMAIN live' = DOMAIN live \cup {h.id} /\ ended' = ended
      /\ h.type = "End" => DOMAIN live' = DOMAIN live \ {h.id} /\ ended' = ended \cup {h.id}
      /\ h.type \notin {"Enter", "End"} => DOMAIN live' = DOMAIN live /\ ended' = ended
  BY <1>1, SeenItem DEF Insert, Delete, Restrict
<1>4. /\ IdsOf("Enter") = IdsOf("Enter")' \cup (IF h.type = "Enter" THEN {h.id} ELSE {})
      /\ IdsOf("End") = IdsOf("End")' \cup (IF h.type = "End" THEN {h.id} ELSE {})
  BY <1>2
<1>5. CASE h.type = "Enter"
  BY <1>3, <1>4, <1>5 DEF Entered, Ended
<1>6. CASE h.type = "End"
  <2>1. DOMAIN live' \cup ended' = DOMAIN live \cup ended
    BY <1>1, <1>3, <1>6
  <2>. QED
    BY <1>3, <1>4, <1>6, <2>1 DEF Entered, Ended
<1>7. CASE h.type \notin {"Enter", "End"}
  BY <1>3, <1>4, <1>7 DEF Entered, Ended
<1>. QED
  BY <1>5, <1>6, <1>7

-----------------------------------------------------------------------------
(* The stages of a worker *)

\* At these steps a worker vouches for nothing.
Blank == Idle \cup {"release", "flag", "swap", "halt", "wake", "complete"}

\* Such a worker's stage holds whatever the others did.
LEMMA BlankStage ==
    ASSUME NEW v \in Workers, pc'[v] \in Blank, ends'[v] = <<>>
    PROVE  Stage(v)'
  BY DEF Blank, Idle, Stage, Announces, GivesUp, Inside, Offering, Owed

\* A worker that does not move keeps its stage if the sets it speaks of allow it.
LEMMA KeptStage ==
    ASSUME NEW v \in Workers, Stage(v),
           pc'[v] = pc[v], job'[v] = job[v], item'[v] = item[v], ends'[v] = ends[v],
           Announces(v) => job[v].container \notin Entered',
           Inside(v) => job[v].container \in DOMAIN open',
           pc[v] = "opened" => job[v].container \in Entered' \ DOMAIN open',
           Owed(v) \subseteq Ids' \ DOMAIN containers',
           pc[v] = "end" =>
             item[v].id \in Entered' \ (Ended' \cup DOMAIN open' \cup DOMAIN containers')
    PROVE  Stage(v)'
<1>1. /\ Announces(v)' <=> Announces(v)
      /\ GivesUp(v)' <=> GivesUp(v)
      /\ Inside(v)' <=> Inside(v)
      /\ Offering(v)' <=> Offering(v)
      /\ Owed(v)' = Owed(v)
      /\ Enter(job[v])' = Enter(job[v])
  BY DEF Announces, GivesUp, Inside, Offering, Owed, Enter
<1>. QED
  BY <1>1 DEF Stage

\* Nothing that the stages speak of changes.
SameBooks ==
    /\ UNCHANGED <<containers, open, nextId>>
    /\ Entered' = Entered /\ Ended' = Ended

\* Then a worker that does not move keeps its stage.
LEMMA SameStage ==
    ASSUME NEW v \in Workers, Stage(v), SameBooks,
           pc'[v] = pc[v], job'[v] = job[v], item'[v] = item[v], ends'[v] = ends[v]
    PROVE  Stage(v)'
<1>1. Ids' = Ids
  BY DEF SameBooks, Ids
<1>. QED
  BY <1>1, KeptStage DEF SameBooks, Stage

\* A worker that has no ends to send has none.
LEMMA NoEndsOwed ==
    ASSUME NEW v \in Workers, Stage(v), pc[v] \notin {"cascade", "ends", "end"}
    PROVE  ends[v] = <<>> /\ Owed(v) = {}
  BY DEF Stage, Owed

\* The kinds of items a worker offers.
LEMMA OfferedTypes ==
    ASSUME Types, NEW w \in Workers, Offering(w)
    PROVE  /\ item[w].type \in {"Enter", "Match", "Blocked", "Error"}
           /\ item[w] \in Item
<1>1. item[w] \in Bailable
  BY DEF Types, WorkerTypes, WorkerType, Offering
<1>. QED
  BY <1>1 DEF Bailable, EnterItem, MatchItem, BlockItem, ErrorItem, Item

\* Where an emit leads: out of the scan for a container not entered, back into it otherwise.
LEMMA ResumedStage ==
    ASSUME Types, NEW w \in Workers, Stage(w), Offering(w), NEW pushed \in BOOLEAN,
           pushed => item[w].type # "Enter",
           SameBooks, pc' = [pc EXCEPT ![w] = Resumed(w, pushed)], UNCHANGED <<job, ends>>
    PROVE  /\ Stage(w)' /\ pc'[w] \notin {"opened", "end"}
<1>0. pc \in [Workers -> Steps]
  BY DEF Types, WorkerTypes
<1>1. ends'[w] = <<>> /\ Owed(w)' = {}
  BY NoEndsOwed DEF Offering, Owed
<1>2. CASE item[w].type = "Enter" \/ GivesUp(w)
  <2>1. pc'[w] = "release"
    BY <1>0, <1>2 DEF Resumed, GivesUp
  <2>. QED
    BY <1>1, <2>1, BlankStage DEF Blank
<1>3. CASE item[w].type # "Enter" /\ ~GivesUp(w)
  <2>1. Inside(w)
    BY <1>3 DEF Inside, Announces, Offering
  <2>2. pc'[w] \in {"descend", "scan"}
    BY <1>0, <1>3, OfferedTypes DEF Resumed, GivesUp
  <2>3. job'[w].container \in DOMAIN open'
    BY <2>1 DEF Stage, SameBooks
  <2>. QED
    BY <1>1, <2>2, <2>3 DEF Stage, Announces, GivesUp, Inside, Offering
<1>. QED
  BY <1>2, <1>3

\* A scan has one container of its own, live and with a parent created before it.
LEMMA ScannedContainer ==
    ASSUME Types, Accounting, NEW tree, Planted(tree), NEW w \in Workers, pc[w] \in ScanSteps
    PROVE  /\ job[w] \in Job /\ job[w].container \in Pending \cap DOMAIN containers \cap Ids
           /\ Fits(tree, job[w]) /\ job[w].parent # job[w].container
           /\ job[w].container # NoContainer
<1>1. w \in Scanning /\ pc[w] \notin Idle
  BY ScanningByStep DEF ScanSteps, Idle
<1>2. job[w] \in Job /\ job[w].container \in Pending /\ Fits(tree, job[w])
  BY <1>1 DEF Types, WorkerTypes, WorkerType, Pending, Planted
<1>3. job[w].container \in Ids /\ tree[job[w].container].parent = job[w].parent
  BY <1>2 DEF Fits
<1>4. nextId \in Nat /\ \A c \in Ids : c \in Nat /\ c # 0
  BY DEF Types, SharedTypes, Ids
<1>5. job[w].parent = NoContainer \/ job[w].parent < job[w].container
  BY <1>3 DEF Planted, IsTree
<1>6. job[w].parent # job[w].container
  BY <1>3, <1>4, <1>5 DEF NoContainer
<1>. QED
  BY <1>2, <1>3, <1>4, <1>6 DEF Accounting, ContainersAreLinked, NoContainer

\* The steps of a worker that move only itself, and change nothing the stages speak of.
InnerStep(w) ==
    \/ Enumerate(w) \/ LoadCancel(w) \/ TryPush(w) \/ Scan(w) \/ Descend(w) \/ Release(w)
    \/ StashError(w) \/ RaiseFatal(w) \/ WorkerCancel(w)

\* The items of a worker that is scanning name its own container, or the parent's for a
\* directory that could not be opened.
LEMMA InnerStage ==
    ASSUME Types, Accounting, NEW tree, Planted(tree), NEW w \in Workers, Stage(w),
           InnerStep(w), SameBooks, TryPush(w) /\ Room => item[w].type # "Enter"
    PROVE  Stage(w)' /\ pc[w] \notin {"opened", "end"} /\ pc'[w] \notin {"opened", "end"}
<1>0. /\ pc \in [Workers -> Steps] /\ DOMAIN job = Workers /\ DOMAIN item = Workers
      /\ DOMAIN ends = Workers
  BY DEF Types, WorkerTypes
<1>1. CASE Enumerate(w)
  <2> DEFINE j == job[w]
  <2>1. ends'[w] = <<>> /\ Owed(w)' = {} /\ UNCHANGED job
    BY <1>1, NoEndsOwed DEF Enumerate, Owed
  <2>2. j.container \notin Entered /\ j.parent # j.container
    BY <1>1, ScannedContainer DEF Enumerate, Stage, Announces, ScanSteps
  <2>3. CASE pc'[w] = "release"
    BY <1>1, <2>1, <2>3, BlankStage DEF Enumerate, Blank
  <2>4. CASE pc'[w] = "offer" /\ item'[w] = OpenError(j) /\ j.parent # NoContainer
    <3>1. item'[w].type = "Error" /\ item'[w].container = j.parent
      BY <2>4 DEF OpenError
    <3>. QED
      BY <1>1, <2>1, <2>2, <2>4, <3>1
         DEF Enumerate, Stage, Announces, GivesUp, Inside, Offering
  <2>5. CASE pc'[w] = "offer" /\ item'[w] = Enter(j)
    <3>1. item'[w].type = "Enter" /\ Enter(job[w])' = Enter(j)
      BY <2>1, <2>5 DEF Enter
    <3>. QED
      BY <1>1, <2>1, <2>2, <2>5, <3>1
         DEF Enumerate, Stage, Announces, GivesUp, Inside, Offering, SameBooks
  <2>. QED
    BY <1>0, <1>1, <2>3, <2>4, <2>5 DEF Enumerate, Offer, Goto
<1>2. CASE LoadCancel(w)
  <2>1. CASE cancel
    BY <1>2, <2>1, ResumedStage DEF LoadCancel, Goto, Offering
  <2>2. CASE ~cancel
    <3>1. pc'[w] = "push" /\ pc[w] = "offer" /\ item'[w] = item[w] /\ job' = job /\ ends' = ends
      BY <1>0, <1>2, <2>2 DEF LoadCancel, Goto
    <3>2. /\ Announces(w)' <=> Announces(w)
          /\ GivesUp(w)' <=> GivesUp(w)
          /\ Inside(w)' <=> Inside(w)
          /\ Offering(w) /\ Offering(w)' /\ Enter(job[w])' = Enter(job[w]) /\ Owed(w)' = Owed(w)
      BY <3>1 DEF Announces, GivesUp, Inside, Offering, Enter, Owed
    <3>. QED
      BY <3>1, <3>2 DEF Stage, SameBooks, Ids
  <2>. QED
    BY <2>1, <2>2
<1>3. CASE TryPush(w)
  <2>1. CASE Room
    BY <1>3, <2>1, ResumedStage DEF TryPush, Goto, Offering
  <2>2. CASE ~Room
    <3>1. pc'[w] = "offer" /\ pc[w] = "push" /\ item'[w] = item[w] /\ job' = job /\ ends' = ends
      BY <1>0, <1>3, <2>2 DEF TryPush, Goto
    <3>2. /\ Announces(w)' <=> Announces(w)
          /\ GivesUp(w)' <=> GivesUp(w)
          /\ Inside(w)' <=> Inside(w)
          /\ Offering(w) /\ Offering(w)' /\ Enter(job[w])' = Enter(job[w]) /\ Owed(w)' = Owed(w)
      BY <3>1 DEF Announces, GivesUp, Inside, Offering, Enter, Owed
    <3>. QED
      BY <3>1, <3>2 DEF Stage, SameBooks, Ids
  <2>. QED
    BY <2>1, <2>2
<1>4. CASE Scan(w) \/ Descend(w)
  <2>1. /\ pc[w] \in {"scan", "descend"} /\ UNCHANGED <<job, ends>>
        /\ job[w].container \in DOMAIN open'
        /\ ends'[w] = <<>> /\ Owed(w)' = {}
    BY <1>4, NoEndsOwed DEF Scan, Descend, Stage, Inside, SameBooks, Owed
  <2>2. \/ pc'[w] \in {"scan", "launch", "descend"}
        \/ pc'[w] = "release"
        \/ /\ pc'[w] = "offer" /\ item'[w].type \in {"Error", "Match", "Blocked"}
           /\ item'[w].container = job[w].container
    BY <1>0, <1>4 DEF Scan, Descend, Offer, Goto, ReadError, Matched, Blocked
  <2>3. CASE pc'[w] \in {"scan", "launch", "descend"}
    BY <2>1, <2>3 DEF Stage, Announces, GivesUp, Inside, Offering
  <2>4. CASE pc'[w] = "release"
    BY <2>1, <2>4, BlankStage DEF Blank
  <2>5. CASE /\ pc'[w] = "offer" /\ item'[w].type \in {"Error", "Match", "Blocked"}
             /\ item'[w].container = job[w].container
    BY <2>1, <2>5 DEF Stage, Announces, GivesUp, Inside, Offering
  <2>. QED
    BY <2>1, <2>2, <2>3, <2>4, <2>5
<1>5. CASE Release(w)
  <2>1. pc[w] = "release" /\ pc'[w] = "cascade" /\ UNCHANGED <<job, ends>>
    BY <1>0, <1>5 DEF Release, Goto
  <2>2. ends'[w] = <<>> /\ Owed(w)' = {}
    BY <2>1, NoEndsOwed DEF Owed
  <2>. QED
    BY <2>1, <2>2 DEF Stage, Announces, GivesUp, Inside, Offering
<1>6. CASE StashError(w) \/ RaiseFatal(w) \/ WorkerCancel(w)
  <2>1. pc[w] \in {"slot", "flag", "swap"} /\ pc'[w] \in Blank \ {"opened", "end"} /\ UNCHANGED ends
    BY <1>0, <1>6 DEF StashError, RaiseFatal, WorkerCancel, Goto, Blank
  <2>2. ends'[w] = <<>>
    BY <2>1, NoEndsOwed
  <2>. QED
    BY <2>1, <2>2, BlankStage
<1>. QED
  BY <1>1, <1>2, <1>3, <1>4, <1>5, <1>6 DEF InnerStep

-----------------------------------------------------------------------------
(* The books: which containers are open, ended, owed an end or awaited *)

Books(tree) == Stages /\ Opened(tree) /\ Awaited(tree) /\ Closing

\* While a worker runs the coordinator waits for it.
LEMMA CoordinatorWaits ==
    ASSUME Closing, NEW w \in Workers, pc[w] # "exit"
    PROVE  cpc = "join"
  BY DEF Closing, Joined

\* A step of the workers that leaves every set of the books alone.
LEMMA QuietBooks ==
    ASSUME NEW tree, Books(tree), SameBooks, UNCHANGED <<ends, cpc, leftovers, closing>>,
           \A v \in Workers : Stage(v)',
           \A v \in Workers : /\ pc'[v] = "end" <=> pc[v] = "end"
                              /\ pc[v] = "end" => item'[v] = item[v]
                              /\ pc'[v] = "opened" <=> pc[v] = "opened"
                              /\ pc[v] = "opened" => job'[v] = job[v],
           Pending' \subseteq Pending,
           \A i \in DOMAIN stack' : stack'[i].container \notin Entered,
           cpc # "join" => Joined'
    PROVE  Books(tree)'
<1>1. Ids' = Ids
  BY DEF SameBooks, Ids
<1>2. Held' = Held
  BY DEF Held
<1>3. Marking' = Marking
  BY DEF Marking
<1>4. \A w \in Workers : Owed(w)' = Owed(w)
  BY DEF Owed
<1>5. Stages'
  BY DEF Books, Stages
<1>6. Opened(tree)'
  BY <1>1, <1>2, <1>3, <1>4 DEF Books, Opened, SameBooks
<1>7. Awaited(tree)'
  BY DEF Books, Awaited, SameBooks
<1>8. Closing'
  BY DEF Books, Closing, SameBooks, LeftoversEndBottomUp
<1>. QED
  BY <1>5, <1>6, <1>7, <1>8 DEF Books

\* No scan is added: nothing more is awaited.
LEMMA NothingAwaited ==
    ASSUME UNCHANGED stack, \A v \in Scanning' : v \in Scanning /\ job'[v] = job[v]
    PROVE  Pending' \subseteq Pending
  BY DEF Pending

\* The inner steps of a worker keep the books.
LEMMA InnerStepKeepsBooks ==
    ASSUME Types, Accounting, NEW tree, Planted(tree), Books(tree), NEW w \in Workers,
           InnerStep(w), SameBooks, TryPush(w) /\ Room => item[w].type # "Enter"
    PROVE  Books(tree)'
<1>0. pc \in [Workers -> Steps] /\ DOMAIN item = Workers
  BY DEF Types, WorkerTypes
<1>1. Stage(w)' /\ pc[w] \notin {"opened", "end"} /\ pc'[w] \notin {"opened", "end"}
  BY InnerStage DEF Books, Stages
<1>2. /\ UNCHANGED <<job, ends, stack, cpc, leftovers, closing>>
      /\ pc[w] # "exit"
      /\ \A v \in Workers \ {w} : pc'[v] = pc[v] /\ item'[v] = item[v]
  BY <1>0 DEF InnerStep, Enumerate, LoadCancel, TryPush, Scan, Descend, Release, StashError,
     RaiseFatal, WorkerCancel, Offer, Goto, sharedVars, coordVars
<1>3. \A v \in Workers : Stage(v)'
  BY <1>1, <1>2, SameStage DEF Books, Stages
<1>4. cpc = "join"
  BY <1>2, CoordinatorWaits DEF Books
<1>5. Pending' \subseteq Pending
  <2>1. CASE Release(w)
    <3>1. \A v \in Scanning' : v \in Scanning
      BY <1>0, <2>1 DEF Release, Goto, Scanning, Busy
    <3>. QED
      BY <1>2, <3>1, NothingAwaited
  <2>2. CASE InnerStep(w) /\ ~Release(w)
    <3>1. Quiet
      BY <2>2, QuietWorker DEF InnerStep
    <3>2. \A v \in Scanning' : v \in Scanning
      BY <3>1, ScanningByStep DEF Quiet, Scanning, Busy, ScanSteps
    <3>. QED
      BY <1>2, <3>2, NothingAwaited
  <2>. QED
    BY <2>1, <2>2
<1>. QED
  BY <1>1, <1>2, <1>3, <1>4, <1>5, QuietBooks DEF Books, Awaited

\* Steps that wake or put to sleep workers without a job.
LEMMA RestKeepsBooks ==
    ASSUME Types, NEW tree, Books(tree), SameBooks,
           UNCHANGED <<stack, item, ends, cpc, leftovers, closing>>,
           \A v \in Workers : \/ pc'[v] = pc[v] /\ job'[v] = job[v]
                              \/ pc[v] = "notify" /\ pc'[v] = "scan" /\ job'[v] = job[v]
                              \/ pc[v] \in Blank \ {"release"} /\ pc'[v] \in Blank \ {"release"},
           cpc # "join" => Joined'
    PROVE  Books(tree)'
<1>1. ASSUME NEW v \in Workers PROVE Stage(v)'
  <2>1. CASE pc'[v] = pc[v] /\ job'[v] = job[v]
    BY <2>1, SameStage DEF Books, Stages
  <2>2. CASE pc[v] = "notify" /\ pc'[v] = "scan" /\ job'[v] = job[v]
    <3>1. Stage(v) /\ ends'[v] = <<>> /\ Owed(v)' = {}
      BY <2>2, NoEndsOwed DEF Books, Stages, Owed
    <3>. QED
      BY <2>2, <3>1 DEF Stage, Announces, GivesUp, Inside, Offering, SameBooks
  <2>3. CASE pc[v] \in Blank \ {"release"} /\ pc'[v] \in Blank \ {"release"}
    BY <2>3, NoEndsOwed, BlankStage DEF Blank, Idle, Books, Stages
  <2>. QED
    BY <2>1, <2>2, <2>3
<1>2. \A v \in Scanning' : v \in Scanning /\ job'[v] = job[v]
  BY ScanningByStep DEF Scanning, Busy, Blank, Idle
<1>3. Pending' \subseteq Pending
  BY <1>2, NothingAwaited
<1>4. \A v \in Workers : /\ pc'[v] = "end" <=> pc[v] = "end"
                         /\ pc'[v] = "opened" <=> pc[v] = "opened"
                         /\ pc[v] = "opened" => job'[v] = job[v]
  BY DEF Blank, Idle
<1>. QED
  BY <1>1, <1>3, <1>4, QuietBooks DEF Books, Awaited

\* next_job: a scan from the stack is not yet announced.
LEMMA NextJobKeepsBooks ==
    ASSUME Types, NEW tree, Books(tree), NEW w \in Workers, NextJob(w)
    PROVE  Books(tree)'
<1>0. pc \in [Workers -> Steps] /\ DOMAIN job = Workers
  BY DEF Types, WorkerTypes
<1>1. cpc = "join" /\ pc[w] = "next"
  BY CoordinatorWaits DEF NextJob, Books
<1>2. SameBooks /\ UNCHANGED <<item, ends, cpc, leftovers, closing>>
  BY SameItems DEF NextJob, SameBooks, coordVars, clientVars, viewVars
<1>3. CASE /\ stack # <<>>
           /\ job' = [job EXCEPT ![w] = stack[Len(stack)]]
           /\ stack' = SubSeq(stack, 1, Len(stack) - 1)
           /\ Goto(w, "enumerate")
  <2>1. /\ DOMAIN stack = DOMAIN stack' \cup {Len(stack)}
        /\ \A i \in DOMAIN stack' : stack'[i] = stack[i]
    BY <1>3, PoppedStack
  <2>2. /\ pc'[w] = "enumerate" /\ job'[w] = stack[Len(stack)]
        /\ \A v \in Workers \ {w} : pc'[v] = pc[v] /\ job'[v] = job[v]
    BY <1>0, <1>3 DEF Goto
  <2>3. job'[w].container \notin Entered'
    BY <1>2, <2>1, <2>2 DEF Books, Awaited, SameBooks
  <2>4. Stage(w)'
    <3>1. ends'[w] = <<>> /\ Owed(w)' = {}
      BY <1>1, <1>2, NoEndsOwed DEF Books, Stages, Owed
    <3>. QED
      BY <2>2, <2>3, <3>1 DEF Stage, Announces, GivesUp, Inside, Offering
  <2>5. \A v \in Workers : Stage(v)'
    BY <1>2, <2>2, <2>4, SameStage DEF Books, Stages
  <2>6. Pending' \subseteq Pending
    <3>1. \A v \in Scanning' \ {w} : v \in Scanning /\ v \in Workers
      BY <2>2 DEF Scanning, Busy
    <3>2. \A i \in DOMAIN stack' : stack'[i].container \in Pending
      BY <2>1 DEF Pending
    <3>3. job'[w].container \in Pending
      BY <2>1, <2>2 DEF Pending
    <3>4. \A v \in Scanning' \ {w} : job'[v].container \in Pending
      BY <2>2, <3>1 DEF Pending
    <3>. QED
      BY <3>2, <3>3, <3>4 DEF Pending
  <2>7. \A i \in DOMAIN stack' : stack'[i].container \notin Entered
    BY <2>1 DEF Books, Awaited
  <2>. QED
    BY <1>1, <1>2, <2>2, <2>5, <2>6, <2>7, QuietBooks
<1>4. CASE UNCHANGED <<stack, job>> /\ pc[w] = "next"
           /\ \A v \in Workers : pc'[v] = pc[v] \/ (pc[v] \in Idle /\ pc'[v] \in Idle)
  BY <1>1, <1>2, <1>4, RestKeepsBooks DEF Blank, Idle
<1>. QED
  BY <1>0, <1>3, <1>4 DEF NextJob, Goto, AllWoken, Idle

\* The wakes, and the end of a job.
LEMMA WakingStepsKeepBooks ==
    ASSUME Types, NEW tree, Books(tree), NEW w \in Workers,
           NotifyOne(w) \/ WorkerHalt(w) \/ WorkerWake(w) \/ CompleteJob(w)
    PROVE  Books(tree)'
<1>0. pc \in [Workers -> Steps] /\ DOMAIN job = Workers
  BY DEF Types, WorkerTypes
<1>1. cpc = "join"
  BY CoordinatorWaits DEF NotifyOne, WorkerHalt, WorkerWake, CompleteJob, Books
<1>2. SameBooks /\ UNCHANGED <<stack, item, ends, cpc, leftovers, closing>>
  BY SameItems DEF NotifyOne, WorkerHalt, WorkerWake, CompleteJob, SameBooks, sharedVars, coordVars,
     clientVars, viewVars
<1>3. CASE NotifyOne(w)
  BY <1>0, <1>1, <1>2, <1>3, RestKeepsBooks DEF NotifyOne, Goto, Blank, Idle
<1>4. CASE WorkerHalt(w) \/ WorkerWake(w)
  BY <1>0, <1>1, <1>2, <1>4, RestKeepsBooks DEF WorkerHalt, WorkerWake, AllWoken, Goto, Blank, Idle
<1>5. CASE CompleteJob(w)
  BY <1>0, <1>1, <1>2, <1>5, RestKeepsBooks DEF CompleteJob, AllWoken, Blank, Idle
<1>. QED
  BY <1>3, <1>4, <1>5

\* An Enter goes out: no other scan is one of the same container.
LEMMA EnterKeepsBooks ==
    ASSUME Types, Accounting, NEW tree, Planted(tree), Books(tree), NEW w \in Workers,
           TryPush(w), Room, item[w].type = "Enter"
    PROVE  Books(tree)'
<1> DEFINE c == job[w].container
<1>0. pc \in [Workers -> Steps] /\ DOMAIN item = Workers
  BY DEF Types, WorkerTypes
<1>1. /\ UNCHANGED <<stack, containers, open, nextId, job, ends, cpc, leftovers, closing>>
      /\ pc[w] = "push" /\ ring' = Append(ring, item[w]) /\ UNCHANGED <<live, ended>>
      /\ \A v \in Workers \ {w} : pc'[v] = pc[v] /\ item'[v] = item[v]
      /\ pc'[w] = "opened"
  BY <1>0 DEF TryPush, Goto, Resumed, sharedVars, coordVars, clientVars, viewVars
<1>2. c \notin Entered /\ item[w] = Enter(job[w])
  BY <1>1 DEF Books, Stages, Stage, Announces, Offering
<1>3. item[w].id = c
  BY <1>2 DEF Enter
<1>4. Entered' = Entered \cup {c} /\ Ended' = Ended
  BY <1>1, <1>3, PushedItem
<1>5. cpc = "join" /\ cpc' = "join"
  BY <1>1, CoordinatorWaits DEF Books
<1>6. w \in Scanning /\ c \in Ids /\ c \in Pending /\ Ids' = Ids /\ Scanning' = Scanning
  BY <1>0, <1>1, ScannedContainer, ScanningByStep DEF ScanSteps, Ids, Scanning, Busy
<1> HIDE DEF c
<1>7. \A i \in DOMAIN stack : stack[i].container # c
  BY <1>6 DEF Accounting, OneHolderEach, c
<1>8. \A v \in Scanning \ {w} : job[v].container # c
  BY <1>6 DEF Accounting, OneHolderEach, c
<1>9. ASSUME NEW v \in Workers PROVE Stage(v)'
  <2>1. CASE v = w
    <3>1. ends'[w] = <<>> /\ Owed(w)' = {}
      BY <1>1, NoEndsOwed DEF Books, Stages, Owed
    <3>2. c \in Entered' /\ c \notin DOMAIN open'
      BY <1>1, <1>2, <1>4 DEF Books, Opened
    <3>. QED
      BY <1>1, <2>1, <3>1, <3>2 DEF Stage, Announces, GivesUp, Inside, Offering, c
  <2>2. CASE v # w
    <3>1. Announces(v) => v \in Scanning
      BY DEF Announces, Offering, Scanning, Busy
    <3>. QED
      BY <1>1, <1>4, <1>6, <1>8, <2>2, <3>1, KeptStage DEF Books, Stages, Stage
  <2>. QED
    BY <2>1, <2>2
<1>10. Stages'
  BY <1>1, <1>9 DEF Books, Stages
<1>11. Held' = Held /\ Marking' = Marking \cup {c}
  <2>1. Held' = Held
    BY <1>1 DEF Held
  <2>2. \A v \in Workers : pc'[v] = "opened" <=> pc[v] = "opened" \/ v = w
    BY <1>1
  <2>. QED
    BY <1>1, <2>1, <2>2 DEF Marking, c
<1>12. Opened(tree)'
  <2>1. \A v \in Workers : Owed(v)' = Owed(v)
    BY <1>1 DEF Owed
  <2>. QED
    BY <1>1, <1>2, <1>4, <1>6, <1>11, <2>1 DEF Books, Opened
<1>13. Pending' = Pending
  BY <1>1, <1>6 DEF Pending
<1>14. Awaited(tree)'
  BY <1>1, <1>4, <1>7, <1>13 DEF Books, Awaited
<1>15. Closing'
  BY <1>5 DEF Closing, LeftoversEndBottomUp
<1>. QED
  BY <1>10, <1>12, <1>14, <1>15 DEF Books

\* The announced container is marked open.
LEMMA MarkOpenKeepsBooks ==
    ASSUME Types, Accounting, NEW tree, Planted(tree), Books(tree), NEW w \in Workers, MarkOpen(w)
    PROVE  Books(tree)'
<1> DEFINE c == job[w].container
<1>0. pc \in [Workers -> Steps]
  BY DEF Types, WorkerTypes
<1>1. /\ UNCHANGED <<stack, containers, nextId, job, item, ends, cpc, leftovers, closing>>
      /\ pc[w] = "opened" /\ open' = Insert(open, c, Len(job[w].path))
      /\ \A v \in Workers \ {w} : pc'[v] = pc[v]
      /\ pc'[w] = "scan"
  BY <1>0 DEF MarkOpen, Goto, sharedVars, coordVars
<1>2. Entered' = Entered /\ Ended' = Ended
  BY SameItems DEF MarkOpen, clientVars, viewVars
<1>3. cpc = "join" /\ cpc' = "join"
  BY <1>1, CoordinatorWaits DEF Books
<1>4. /\ w \in Scanning /\ c \in Ids /\ c \in Pending /\ Ids' = Ids /\ Scanning' = Scanning
      /\ c \in DOMAIN containers /\ tree[c].depth = Len(job[w].path)
  BY <1>0, <1>1, ScannedContainer, ScanningByStep DEF ScanSteps, Ids, Scanning, Busy, Fits
<1>5. c \in Entered \ DOMAIN open /\ c \notin Ended
  BY <1>1, <1>3, <1>4 DEF Books, Stages, Stage, Opened
<1> HIDE DEF c
<1>6. /\ DOMAIN open' = DOMAIN open \cup {c} /\ open'[c] = Len(job[w].path)
      /\ \A d \in DOMAIN open : d # c => open'[d] = open[d]
  BY <1>1 DEF Insert
<1>7. \A v \in Scanning \ {w} : job[v].container # c
  BY <1>4 DEF Accounting, OneHolderEach, c
<1>8. ASSUME NEW v \in Workers PROVE Stage(v)'
  <2>1. CASE v = w
    <3>1. ends'[w] = <<>> /\ Owed(w)' = {}
      BY <1>1, NoEndsOwed DEF Books, Stages, Owed
    <3>. QED
      BY <1>1, <1>6, <2>1, <3>1 DEF Stage, Announces, GivesUp, Inside, Offering, c
  <2>2. CASE v # w
    <3>1. pc[v] = "opened" => v \in Scanning
      BY DEF Scanning, Busy
    <3>2. Stage(v)
      BY DEF Books, Stages
    <3>3. pc[v] = "end" => item[v].id # c
      BY <1>4, <3>2 DEF Stage
    <3>. QED
      BY <1>1, <1>2, <1>4, <1>6, <1>7, <2>2, <3>1, <3>2, <3>3, KeptStage DEF Stage
  <2>. QED
    BY <2>1, <2>2
<1>9. Stages'
  BY <1>1, <1>8 DEF Books, Stages
<1>10. Held' = Held /\ Marking \subseteq Marking' \cup {c}
  BY <1>1 DEF Held, Marking, c
<1>11. Opened(tree)'
  <2>1. \A v \in Workers : Owed(v)' = Owed(v)
    BY <1>1 DEF Owed
  <2>. QED
    BY <1>1, <1>2, <1>3, <1>4, <1>5, <1>6, <1>10, <2>1 DEF Books, Opened
<1>12. Pending' = Pending
  BY <1>1, <1>4 DEF Pending
<1>13. Awaited(tree)'
  BY <1>1, <1>2, <1>12 DEF Books, Awaited
<1>14. Closing'
  BY <1>3 DEF Closing, LeftoversEndBottomUp
<1>. QED
  BY <1>9, <1>11, <1>13, <1>14 DEF Books

\* launch_child: the new container lies below one that is open, and nobody knows it yet.
LEMMA LaunchKeepsBooks ==
    ASSUME Types, Accounting, NEW tree, Planted(tree), Books(tree), NEW w \in Workers, Launch(w),
           NEW t, \A c \in Ids : t[c] = tree[c],
           t[nextId].above = tree[job[w].container].above \cup {job[w].container}
    PROVE  Books(t)'
<1> DEFINE p == job[w].container
<1>0. pc \in [Workers -> Steps] /\ stack \in Seq(Job)
  BY DEF Types, WorkerTypes, SharedTypes
<1>1. /\ UNCHANGED <<open, job, item, ends, cpc, leftovers, closing>>
      /\ pc[w] = "launch" /\ pc'[w] = "notify"
      /\ \A v \in Workers \ {w} : pc'[v] = pc[v]
      /\ stack' = Append(stack, ChildJob(job[w], entry[w], nextId))
  BY <1>0 DEF Launch, Goto, coordVars
<1>2. Entered' = Entered /\ Ended' = Ended
  BY SameItems DEF Launch, clientVars, viewVars
<1>3. cpc = "join" /\ cpc' = "join"
  BY <1>1, CoordinatorWaits DEF Books
<1>4. PICK m \in Nat \ {0} : m = nextId
  BY DEF Types, SharedTypes
<1>5. /\ Ids = 1..(m - 1) /\ Ids' = 1..m /\ m \notin Ids /\ Ids \subseteq Ids'
      /\ DOMAIN containers' = DOMAIN containers \cup {m}
  <2>1. Ids = 1..(m - 1) /\ Ids' = 1..m
    BY <1>4 DEF Ids, Launch
  <2>2. m \notin 1..(m - 1) /\ 1..(m - 1) \subseteq 1..m
    BY <1>4
  <2>3. DOMAIN containers' = DOMAIN containers \cup {m}
    BY <1>4 DEF Launch, Adopt, Insert
  <2>. QED
    BY <2>1, <2>2, <2>3
<1>6. Scanning' = Scanning /\ w \in Scanning
  BY <1>0, <1>1, ScanningByStep DEF Scanning, Busy, ScanSteps
<1>7. /\ p \in Ids /\ p \in Pending /\ p \in DOMAIN open
  BY <1>1, ScannedContainer DEF ScanSteps, Books, Stages, Stage, Inside
<1>8. Entered \subseteq Ids /\ Ended \subseteq Ids /\ DOMAIN open \subseteq Ids
  BY DEF Books, Opened
<1>9. ASSUME NEW v \in Workers PROVE Stage(v)'
  <2>1. CASE v = w
    <3>1. ends'[w] = <<>> /\ Owed(w)' = {}
      BY <1>1, NoEndsOwed DEF Books, Stages, Owed
    <3>. QED
      BY <1>1, <1>7, <2>1, <3>1 DEF Stage, Announces, GivesUp, Inside, Offering
  <2>2. CASE v # w
    <3>1. Stage(v)
      BY DEF Books, Stages
    <3>2. Owed(v) \subseteq Ids' \ DOMAIN containers'
      BY <1>5, <3>1 DEF Stage
    <3>3. pc[v] = "end" => item[v].id \notin DOMAIN containers'
      BY <1>5, <1>8, <3>1 DEF Stage
    <3>. QED
      BY <1>1, <1>2, <2>2, <3>1, <3>2, <3>3, KeptStage DEF Stage
  <2>. QED
    BY <2>1, <2>2
<1>10. Stages'
  BY <1>1, <1>9 DEF Books, Stages
<1>11. Held' = Held /\ Marking' = Marking
  <2>1. \A v \in Workers : /\ pc'[v] = "end" <=> pc[v] = "end"
                           /\ pc'[v] = "opened" <=> pc[v] = "opened"
    BY <1>1
  <2>. QED
    BY <1>1, <2>1 DEF Held, Marking
<1>12. Opened(t)'
  <2>1. \A v \in Workers : Owed(v)' = Owed(v)
    BY <1>1 DEF Owed
  <2>2. \A c \in DOMAIN open' : open'[c] = t[c].depth
    BY <1>1, <1>8 DEF Books, Opened
  <2>3. Ended' \cap DOMAIN containers' = {}
    BY <1>2, <1>3, <1>5, <1>8 DEF Books, Opened
  <2>4. \A c \in DOMAIN open' \ DOMAIN containers' : \E v \in Workers : c \in Owed(v)'
    BY <1>1, <1>5, <2>1 DEF Books, Opened
  <2>5. Entered' \subseteq Ids' /\ Ended' \subseteq Entered' /\ DOMAIN open' \subseteq Entered' \ Ended'
    BY <1>1, <1>2, <1>5 DEF Books, Opened
  <2>6. Entered' \subseteq DOMAIN open' \cup Ended' \cup Held' \cup Marking'
    BY <1>1, <1>2, <1>11 DEF Books, Opened
  <2>. QED
    BY <2>2, <2>3, <2>4, <2>5, <2>6 DEF Opened
<1>13. /\ DOMAIN stack' = DOMAIN stack \cup {Len(stack) + 1}
       /\ \A i \in DOMAIN stack : stack'[i] = stack[i]
       /\ stack'[Len(stack) + 1].container = m
  <2>1. ChildJob(job[w], entry[w], nextId).container = m
    BY <1>4 DEF ChildJob
  <2>. QED
    BY <1>0, <1>1, <2>1
<1>14. ASSUME NEW c \in Pending' PROVE c \in Pending \cup {m}
  BY <1>1, <1>6, <1>13, <1>14 DEF Pending
<1>15. Awaited(t)'
  <2>1. ASSUME NEW i \in DOMAIN stack' PROVE stack'[i].container \notin Entered'
    BY <1>2, <1>5, <1>8, <1>13 DEF Books, Awaited
  <2>2. ASSUME NEW c \in Pending' PROVE t[c].above \subseteq Entered'
    <3>1. CASE c = m
      BY <1>2, <1>4, <1>7, <3>1 DEF Books, Awaited, Opened
    <3>2. CASE c \in Pending
      <4>1. c \in Ids
        BY <3>2 DEF Accounting, ContainersAreLinked, Ids
      <4>. QED
        BY <1>2, <3>2, <4>1 DEF Books, Awaited
    <3>. QED
      BY <1>14, <3>1, <3>2
  <2>. QED
    BY <2>1, <2>2 DEF Awaited
<1>16. Closing'
  BY <1>3 DEF Closing, LeftoversEndBottomUp
<1>. QED
  BY <1>10, <1>12, <1>15, <1>16 DEF Books

\* release, the climb: a container that goes is owed its end by the worker that removed it.
LEMMA CascadeKeepsBooks ==
    ASSUME Types, Accounting, NEW tree, Planted(tree), Books(tree), NEW w \in Workers, Cascade(w)
    PROVE  Books(tree)'
<1> DEFINE id == up[w]
<1>0. pc \in [Workers -> Steps] /\ DOMAIN ends = Workers /\ ends[w] \in Seq(Containers)
  BY DEF Types, WorkerTypes, WorkerType
<1>1. /\ UNCHANGED <<stack, open, nextId, job, item, cpc, leftovers, closing>>
      /\ pc[w] = "cascade" /\ pc'[w] \in {"cascade", "ends"} /\ id \in DOMAIN containers
      /\ \A v \in Workers \ {w} : pc'[v] = pc[v] /\ ends'[v] = ends[v]
  BY <1>0 DEF Cascade, Goto, coordVars
<1>2. Entered' = Entered /\ Ended' = Ended
  BY SameItems DEF Cascade, clientVars, viewVars
<1>3. cpc = "join" /\ cpc' = "join"
  BY <1>1, CoordinatorWaits DEF Books
<1>4. Ids' = Ids /\ id \in Ids /\ Scanning' = Scanning
  BY <1>1 DEF Ids, Scanning, Busy, Accounting, ContainersAreLinked
<1>5. \/ DOMAIN containers' = DOMAIN containers /\ ends' = ends
      \/ /\ DOMAIN containers' = DOMAIN containers \ {id}
         /\ ends' = [ends EXCEPT ![w] = Append(@, id)]
  BY DEF Cascade, Delete, Restrict
<1> HIDE DEF id
<1>6. /\ Owed(w) \subseteq Owed(w)'
      /\ Owed(w)' \subseteq Owed(w) \cup {id}
      /\ id \in DOMAIN containers' \/ id \in Owed(w)'
      /\ DOMAIN containers' \subseteq DOMAIN containers
      /\ DOMAIN containers \ DOMAIN containers' \subseteq {id}
      /\ \A v \in Workers \ {w} : Owed(v)' = Owed(v)
      /\ Owed(w)' # Owed(w) => id \notin DOMAIN containers'
  <2>1. CASE DOMAIN containers' = DOMAIN containers /\ ends' = ends
    BY <1>1, <2>1 DEF Owed
  <2>2. CASE /\ DOMAIN containers' = DOMAIN containers \ {id}
             /\ ends' = [ends EXCEPT ![w] = Append(@, id)]
    <3>1. /\ DOMAIN ends'[w] = DOMAIN ends[w] \cup {Len(ends[w]) + 1}
          /\ ends'[w][Len(ends[w]) + 1] = id
          /\ \A i \in DOMAIN ends[w] : ends'[w][i] = ends[w][i]
      BY <1>0, <2>2
    <3>2. Owed(w)' = Owed(w) \cup {id}
      BY <3>1 DEF Owed
    <3>3. \A v \in Workers \ {w} : Owed(v)' = Owed(v)
      BY <1>1 DEF Owed
    <3>. QED
      BY <2>2, <3>2, <3>3
  <2>. QED
    BY <1>5, <2>1, <2>2
<1>7. ASSUME NEW v \in Workers PROVE Stage(v)'
  <2>1. CASE v = w
    <3>1. Owed(w)' \subseteq Ids' \ DOMAIN containers'
      <4>1. Owed(w) \subseteq Ids \ DOMAIN containers
        BY DEF Books, Stages, Stage
      <4>. QED
        BY <1>4, <1>6, <4>1
    <3>. QED
      BY <1>1, <2>1, <3>1 DEF Stage, Announces, GivesUp, Inside, Offering
  <2>2. CASE v # w
    <3>1. Stage(v)
      BY DEF Books, Stages
    <3>. QED
      BY <1>1, <1>2, <1>4, <1>6, <2>2, <3>1, KeptStage DEF Stage
  <2>. QED
    BY <2>1, <2>2
<1>8. Stages'
  BY <1>1, <1>7 DEF Books, Stages
<1>9. Held' = Held /\ Marking' = Marking
  <2>1. \A v \in Workers : /\ pc'[v] = "end" <=> pc[v] = "end"
                           /\ pc'[v] = "opened" <=> pc[v] = "opened"
    BY <1>1
  <2>. QED
    BY <1>1, <2>1 DEF Held, Marking
<1>10. Opened(tree)'
  <2>1. ASSUME NEW c \in DOMAIN open' \ DOMAIN containers'
        PROVE  \E v \in Workers : c \in Owed(v)'
    <3>1. CASE c = id
      BY <1>6, <3>1
    <3>2. CASE c # id
      <4>1. c \in DOMAIN open \ DOMAIN containers
        BY <1>1, <1>6, <3>2
      <4>2. PICK v \in Workers : c \in Owed(v)
        BY <4>1 DEF Books, Opened
      <4>. QED
        BY <1>6, <4>2
    <3>. QED
      BY <3>1, <3>2
  <2>2. Ended' \cap DOMAIN containers' = {}
    BY <1>2, <1>3, <1>6 DEF Books, Opened
  <2>. QED
    BY <1>1, <1>2, <1>4, <1>9, <2>1, <2>2 DEF Books, Opened
<1>11. Pending' = Pending
  BY <1>1, <1>4 DEF Pending
<1>12. Awaited(tree)'
  BY <1>1, <1>2, <1>11 DEF Books, Awaited
<1>13. Closing'
  BY <1>3 DEF Closing, LeftoversEndBottomUp
<1>. QED
  BY <1>8, <1>10, <1>12, <1>13 DEF Books

\* emit_ends: a container of the list leaves `open`, and if it was open its end is held.
LEMMA EmitEndsKeepsBooks ==
    ASSUME Types, Accounting, NEW tree, Planted(tree), Books(tree), NEW w \in Workers, EmitEnds(w)
    PROVE  Books(tree)'
<1>0. /\ pc \in [Workers -> Steps] /\ DOMAIN ends = Workers /\ DOMAIN item = Workers
      /\ ends[w] \in Seq(Containers)
  BY DEF Types, WorkerTypes, WorkerType
<1>1. /\ UNCHANGED <<stack, containers, nextId, job, cpc, leftovers, closing>>
      /\ pc[w] = "ends"
      /\ \A v \in Workers \ {w} : pc'[v] = pc[v] /\ ends'[v] = ends[v] /\ item'[v] = item[v]
  BY <1>0 DEF EmitEnds, Goto, coordVars
<1>2. Entered' = Entered /\ Ended' = Ended
  BY SameItems DEF EmitEnds, clientVars, viewVars
<1>3. cpc = "join" /\ cpc' = "join"
  BY <1>1, CoordinatorWaits DEF Books
<1>4. CASE ends[w] = <<>>
  <2>1. SameBooks /\ UNCHANGED <<item, ends>>
    BY <1>1, <1>2, <1>4 DEF EmitEnds, SameBooks
  <2>2. /\ pc'[w] \in {"slot", "complete"}
        /\ pc'[w] = "slot" => job[w].parent = NoContainer
    BY <1>0, <1>4 DEF EmitEnds, Goto
  <2>3. Stage(w)'
    BY <1>1, <1>4, <2>1, <2>2 DEF Stage, Announces, GivesUp, Inside, Offering, Owed
  <2>4. \A v \in Workers : Stage(v)'
    BY <1>1, <2>1, <2>3, SameStage DEF Books, Stages
  <2>5. Scanning' = Scanning
    BY <1>1, <2>2 DEF Scanning, Busy
  <2>6. Pending' \subseteq Pending
    BY <1>1, <2>5, NothingAwaited
  <2>. QED
    BY <1>1, <1>3, <2>1, <2>2, <2>4, <2>6, QuietBooks DEF Books, Awaited
<1>5. CASE ends[w] # <<>>
  <2>1. PICK id : id = Head(ends[w])
    OBVIOUS
  <2>2. /\ open' = Delete(open, id) /\ ends' = [ends EXCEPT ![w] = Tail(@)]
        /\ IF id \in DOMAIN open
           THEN pc'[w] = "end" /\ item' = [item EXCEPT ![w] = End(id)]
           ELSE UNCHANGED <<pc, item>>
    BY <1>0, <1>5, <2>1 DEF EmitEnds, Goto
  <2>3. Owed(w) = Owed(w)' \cup {id}
    <3>1. /\ DOMAIN ends[w] = 1..Len(ends[w]) /\ Len(ends[w]) \in Nat \ {0} /\ ends[w][1] = id
          /\ DOMAIN ends'[w] = 1..(Len(ends[w]) - 1)
          /\ \A i \in 1..(Len(ends[w]) - 1) : ends'[w][i] = ends[w][i + 1]
      BY <1>0, <1>5, <2>1, <2>2
    <3>2. \A i \in DOMAIN ends'[w] : i + 1 \in DOMAIN ends[w]
      BY <3>1
    <3>3. \A i \in DOMAIN ends[w] \ {1} : /\ i - 1 \in DOMAIN ends'[w]
                                          /\ ends'[w][i - 1] = ends[w][i]
      BY <3>1
    <3>4. Owed(w)' \cup {id} \subseteq Owed(w)
      BY <3>1, <3>2 DEF Owed
    <3>5. ASSUME NEW c \in Owed(w) PROVE c \in Owed(w)' \cup {id}
      <4>1. PICK i \in DOMAIN ends[w] : c = ends[w][i]
        BY DEF Owed
      <4>2. CASE i = 1
        BY <3>1, <4>1, <4>2
      <4>3. CASE i # 1
        BY <3>3, <4>1, <4>3 DEF Owed
      <4>. QED
        BY <4>2, <4>3
    <3>. QED
      BY <3>4, <3>5
  <2>4. /\ DOMAIN open' = DOMAIN open \ {id}
        /\ \A c \in DOMAIN open' : open'[c] = open[c]
    BY <2>2 DEF Delete, Restrict
  <2>5. id \in Ids /\ id \notin DOMAIN containers
    BY <2>3 DEF Books, Stages, Stage
  <2>6. Ids' = Ids
    BY <1>1 DEF Ids
  <2>7. \A v \in Scanning : job[v].container # id
    <3>1. \A v \in Scanning : job[v].container \in DOMAIN containers
      BY DEF Accounting, ContainersAreLinked, Pending
    <3>. QED
      BY <2>5, <3>1
  <2>8. \/ id \notin DOMAIN open /\ pc'[w] = "ends" /\ item' = item
        \/ /\ id \in DOMAIN open /\ pc'[w] = "end" /\ item'[w].id = id
           /\ id \in Entered' \ (Ended' \cup DOMAIN open' \cup DOMAIN containers')
    <3>1. id \in DOMAIN open => id \in Entered /\ id \notin Ended
      BY DEF Books, Opened
    <3>2. CASE id \in DOMAIN open
      <4>1. pc'[w] = "end" /\ item'[w] = End(id)
        BY <1>0, <2>2, <3>2
      <4>. QED
        BY <1>1, <1>2, <2>4, <2>5, <3>1, <3>2, <4>1 DEF End
    <3>3. CASE id \notin DOMAIN open
      BY <1>1, <2>2, <3>3
    <3>. QED
      BY <3>2, <3>3
  <2>9. ASSUME NEW v \in Workers PROVE Stage(v)'
    <3>1. CASE v = w
      <4>1. Owed(w)' \subseteq Ids' \ DOMAIN containers'
        BY <1>1, <2>3, <2>6 DEF Books, Stages, Stage
      <4>. QED
        BY <2>8, <3>1, <4>1 DEF Stage, Announces, GivesUp, Inside, Offering
    <3>2. CASE v # w
      <4>1. Stage(v)
        BY DEF Books, Stages
      <4>2. Inside(v) => v \in Scanning
        BY DEF Inside, Offering, Scanning, Busy
      <4>. QED
        BY <1>1, <1>2, <2>4, <2>6, <2>7, <3>2, <4>1, <4>2, KeptStage DEF Stage
    <3>. QED
      BY <3>1, <3>2
  <2>10. ASSUME NEW u \in Workers, NEW v \in Workers, pc'[u] = "end", pc'[v] = "end",
                item'[u].id = item'[v].id
         PROVE  u = v
    <3>1. \A x \in Workers \ {w} : pc'[x] = "end" => item'[x].id \notin DOMAIN open
      BY <1>1 DEF Books, Stages, Stage
    <3>. QED
      BY <1>1, <2>8, <2>10, <3>1 DEF Books, Stages
  <2>11. Stages'
    BY <2>9, <2>10 DEF Stages
  <2>12. /\ Held' = Held \cup (IF id \in DOMAIN open THEN {id} ELSE {})
         /\ Marking' = Marking
    <3>1. \A v \in Workers : pc'[v] = "opened" <=> pc[v] = "opened"
      BY <1>1, <2>8
    <3>2. Marking' = Marking
      BY <1>1, <3>1 DEF Marking
    <3>3. Held' = Held \cup (IF id \in DOMAIN open THEN {id} ELSE {})
      BY <1>1, <1>3, <2>8 DEF Held
    <3>. QED
      BY <3>2, <3>3
  <2>13. Opened(tree)'
    <3>1. ASSUME NEW c \in DOMAIN open' \ DOMAIN containers'
          PROVE  \E v \in Workers : c \in Owed(v)'
      <4>1. PICK v \in Workers : c \in Owed(v)
        BY <1>1, <2>4 DEF Books, Opened
      <4>2. CASE v = w
        BY <2>3, <2>4, <4>1, <4>2
      <4>3. CASE v # w
        BY <1>1, <4>1, <4>3 DEF Owed
      <4>. QED
        BY <4>2, <4>3
    <3>2. Entered' \subseteq DOMAIN open' \cup Ended' \cup Held' \cup Marking'
      BY <1>2, <2>4, <2>12 DEF Books, Opened
    <3>3. Ended' \cap DOMAIN containers' = {}
      BY <1>1, <1>2, <1>3 DEF Books, Opened
    <3>. QED
      BY <1>2, <2>4, <2>6, <3>1, <3>2, <3>3 DEF Books, Opened
  <2>14. Scanning' = Scanning
    BY <1>1, <2>8 DEF Scanning, Busy
  <2>15. Pending' = Pending
    BY <1>1, <2>14 DEF Pending
  <2>16. Awaited(tree)'
    BY <1>1, <1>2, <2>15 DEF Books, Awaited
  <2>17. Closing'
    BY <1>3 DEF Closing, LeftoversEndBottomUp
  <2>. QED
    BY <2>11, <2>13, <2>16, <2>17 DEF Books
<1>. QED
  BY <1>4, <1>5

\* The end goes out: nobody else holds it.
LEMMA PushEndKeepsBooks ==
    ASSUME Types, NEW tree, Books(tree), NEW w \in Workers, PushEnd(w)
    PROVE  Books(tree)'
<1>0. pc \in [Workers -> Steps] /\ DOMAIN item = Workers /\ item[w] \in EndItem
  BY DEF Types, WorkerTypes, WorkerType, PushEnd
<1>1. /\ UNCHANGED <<stack, containers, open, nextId, job, ends, cpc, leftovers, closing>>
      /\ UNCHANGED <<live, ended>> /\ ring' = Append(ring, item[w])
      /\ pc[w] = "end" /\ pc'[w] = "ends"
      /\ \A v \in Workers \ {w} : pc'[v] = pc[v] /\ item'[v] = item[v]
  BY <1>0 DEF PushEnd, Goto, sharedVars, coordVars, clientVars, viewVars
<1>2. PICK id : id = item[w].id
  OBVIOUS
<1>3. Entered' = Entered /\ Ended' = Ended \cup {id}
  BY <1>0, <1>1, <1>2, PushedItem DEF EndItem
<1>4. cpc = "join" /\ cpc' = "join"
  BY <1>1, CoordinatorWaits DEF Books
<1>5. id \in Entered \ (Ended \cup DOMAIN open \cup DOMAIN containers)
  BY <1>1, <1>2 DEF Books, Stages, Stage
<1>6. Ids' = Ids
  BY <1>1 DEF Ids
<1>7. ASSUME NEW v \in Workers PROVE Stage(v)'
  <2>1. Stage(v)
    BY DEF Books, Stages
  <2>2. CASE v = w
    <3>1. Owed(w)' = Owed(w)
      BY <1>1 DEF Owed
    <3>. QED
      BY <1>1, <1>6, <2>1, <2>2, <3>1 DEF Stage, Announces, GivesUp, Inside, Offering
  <2>3. CASE v # w
    <3>1. pc[v] = "end" => item[v].id # id
      BY <1>1, <1>2, <2>3 DEF Books, Stages
    <3>. QED
      BY <1>1, <1>3, <1>6, <2>1, <2>3, <3>1, KeptStage DEF Stage
  <2>. QED
    BY <2>2, <2>3
<1>8. Stages'
  BY <1>1, <1>7 DEF Books, Stages
<1>9. Held \subseteq Held' \cup {id} /\ Marking' = Marking
  <2>1. \A v \in Workers : pc'[v] = "opened" <=> pc[v] = "opened"
    BY <1>1
  <2>2. Marking' = Marking
    BY <1>1, <2>1 DEF Marking
  <2>3. Held \subseteq Held' \cup {id}
    BY <1>1, <1>2, <1>4 DEF Held
  <2>. QED
    BY <2>2, <2>3
<1>10. Opened(tree)'
  <2>1. \A v \in Workers : Owed(v)' = Owed(v)
    BY <1>1 DEF Owed
  <2>. QED
    BY <1>1, <1>3, <1>4, <1>5, <1>6, <1>9, <2>1 DEF Books, Opened
<1>11. Scanning' = Scanning
  BY <1>1 DEF Scanning, Busy
<1>12. Pending' = Pending
  BY <1>1, <1>11 DEF Pending
<1>13. Awaited(tree)'
  BY <1>1, <1>3, <1>12 DEF Books, Awaited
<1>14. Closing'
  BY <1>4 DEF Closing, LeftoversEndBottomUp
<1>. QED
  BY <1>8, <1>10, <1>13, <1>14 DEF Books

\* Every step of a worker keeps the books, of the tree that has grown by what it launched.
LEMMA WorkerKeepsBooks ==
    ASSUME Types, Accounting, NEW tree, Planted(tree), Books(tree), NEW w \in Workers, Worker(w)
    PROVE  \E t : /\ Planted(t)' /\ Books(t)'
                  /\ \A c \in Ids : t[c] = tree[c]
<1>1. CASE Launch(w)
  BY <1>1, LaunchKeepsPlanted, LaunchKeepsBooks
<1>2. CASE ~Launch(w)
  <2>1. Planted(tree)'
    BY <1>2, NextJobKeepsPlanted, CascadeKeepsPlanted, WorkerKeepsJob, SameJobsKeepPlanted
       DEF Worker
  <2>2. CASE InnerStep(w) /\ ~(TryPush(w) /\ Room)
    <3>1. UNCHANGED <<ring, live, ended, containers, open, nextId>>
      BY <2>2 DEF InnerStep, Enumerate, LoadCancel, TryPush, Scan, Descend, Release, StashError,
         RaiseFatal, WorkerCancel, sharedVars, clientVars, viewVars
    <3>2. SameBooks
      BY <3>1, SameItems DEF SameBooks
    <3>. QED
      BY <2>1, <2>2, <3>2, InnerStepKeepsBooks
  <2>3. CASE TryPush(w) /\ Room
    <3>1. CASE item[w].type = "Enter"
      BY <2>1, <2>3, <3>1, EnterKeepsBooks
    <3>2. CASE item[w].type # "Enter"
      <4>1. ring' = Append(ring, item[w]) /\ UNCHANGED <<live, ended, containers, open, nextId>>
        BY <2>3 DEF TryPush, sharedVars, clientVars, viewVars
      <4>2. item[w].type # "End"
        BY <2>3, OfferedTypes DEF TryPush, Offering
      <4>3. SameBooks
        BY <3>2, <4>1, <4>2, PushedItem DEF SameBooks
      <4>. QED
        BY <2>1, <2>3, <3>2, <4>3, InnerStepKeepsBooks DEF InnerStep
    <3>. QED
      BY <3>1, <3>2
  <2>. QED
    BY <1>2, <2>1, <2>2, <2>3, NextJobKeepsBooks, WakingStepsKeepBooks, MarkOpenKeepsBooks,
       CascadeKeepsBooks, EmitEndsKeepsBooks, PushEndKeepsBooks DEF Worker, InnerStep
<1>. QED
  BY <1>1, <1>2

-----------------------------------------------------------------------------
(* The books and the other threads *)

\* The steps that leave every register and every set of the books alone, or wake a worker.
LEMMA OutsideKeepsBooks ==
    ASSUME Types, NEW tree, Books(tree), SameBooks,
           UNCHANGED <<stack, job, item, ends, cpc, leftovers, closing>>,
           UNCHANGED pc \/ pc' = AllWoken
    PROVE  Books(tree)'
<1>0. pc \in [Workers -> Steps]
  BY DEF Types, WorkerTypes
<1>1. cpc # "join" => Joined'
  <2>1. Joined => Joined'
    BY <1>0 DEF Joined, AllWoken
  <2>. QED
    BY <2>1 DEF Books, Closing
<1>. QED
  BY <1>0, <1>1, RestKeepsBooks DEF AllWoken, Blank, Idle

\* After the workers are gone nothing is owed, held by a worker or being marked.
LEMMA JoinedOwesNothing ==
    ASSUME NEW tree, Books(tree), Joined
    PROVE  /\ DOMAIN open \subseteq DOMAIN containers /\ Marking = {}
           /\ \A w \in Workers : pc[w] = "exit" /\ Owed(w) = {}
           /\ Held = IF cpc = "end" THEN {closing} ELSE {}
  BY DEF Joined, Books, Stages, Stage, Owed, Opened, Marking, Held

\* Join: what is still open is exactly what the coordinator has to end.
LEMMA JoinKeepsBooks ==
    ASSUME Types, NEW tree, Books(tree), Join
    PROVE  Books(tree)'
<1>1. /\ UNCHANGED <<stack, containers, open, nextId, pc, job, item, ends, closing>>
      /\ cpc = "join" /\ cpc' = "close" /\ leftovers' = DOMAIN open /\ Joined
  BY DEF Join, sharedVars, workVars
<1>2. SameBooks
  BY <1>1, SameItems DEF Join, SameBooks, clientVars, viewVars
<1>3. Stages'
  <2>1. \A v \in Workers : Stage(v)'
    BY <1>1, <1>2, SameStage DEF Books, Stages
  <2>. QED
    BY <1>1, <2>1 DEF Books, Stages
<1>4. Opened(tree)'
  <2>1. Ids' = Ids /\ Held' = Held /\ Marking' = Marking /\ \A v \in Workers : Owed(v)' = Owed(v)
    BY <1>1 DEF Held, Marking, Owed, Ids
  <2>. QED
    BY <1>1, <1>2, <2>1 DEF Books, Opened, SameBooks
<1>5. Awaited(tree)'
  <2>1. Pending' = Pending
    BY <1>1 DEF Pending, Scanning, Busy
  <2>. QED
    BY <1>1, <1>2, <2>1 DEF Books, Awaited, SameBooks
<1>6. Closing'
  BY <1>1 DEF Closing, Joined, LeftoversEndBottomUp
<1>. QED
  BY <1>3, <1>4, <1>5, <1>6 DEF Books

\* The deepest leftover is ended first: a child lies deeper than its parent.
LEMMA CloseKeepsBooks ==
    ASSUME Types, NEW tree, Planted(tree), Books(tree), Close
    PROVE  Books(tree)'
<1>1. PICK id \in leftovers : /\ Deepest(id) /\ leftovers' = leftovers \ {id}
                              /\ open' = Delete(open, id) /\ closing' = id
  BY DEF Close
<1>2. /\ UNCHANGED <<stack, containers, nextId, pc, job, item, ends, ring, live, ended>>
      /\ cpc = "close" /\ cpc' = "end"
  BY DEF Close, workVars, clientVars, viewVars
<1>3. Entered' = Entered /\ Ended' = Ended /\ Ids' = Ids
  BY <1>2, SameItems DEF Ids
<1>4. /\ DOMAIN open' = DOMAIN open \ {id} /\ id \in DOMAIN open /\ leftovers = DOMAIN open
      /\ \A c \in DOMAIN open' : open'[c] = open[c]
  BY <1>1, <1>2 DEF Delete, Restrict, Books, Closing
<1>5. Joined /\ Joined'
  BY <1>2 DEF Books, Closing, Joined
<1>6. /\ DOMAIN open \subseteq DOMAIN containers /\ Marking = {} /\ Held = {}
      /\ \A w \in Workers : pc[w] = "exit" /\ Owed(w) = {}
  BY <1>2, <1>5, JoinedOwesNothing
<1>7. id \in Entered' \ (Ended' \cup DOMAIN open')
  BY <1>3, <1>4 DEF Books, Opened
<1>8. Stages'
  <2>1. ASSUME NEW v \in Workers PROVE Stage(v)'
    <3>1. Stage(v) /\ pc[v] = "exit"
      BY <1>6 DEF Books, Stages
    <3>2. ends[v] = <<>>
      BY <3>1, NoEndsOwed
    <3>. QED
      BY <1>2, <3>1, <3>2, BlankStage DEF Blank, Idle
  <2>. QED
    BY <1>2, <2>1 DEF Books, Stages
<1>9. Held' = {id} /\ Marking' = {}
  BY <1>1, <1>2, <1>6 DEF Held, Marking
<1>10. Opened(tree)'
  <2>1. Entered' \subseteq DOMAIN open' \cup Ended' \cup Held' \cup Marking'
    BY <1>3, <1>4, <1>6, <1>9 DEF Books, Opened
  <2>2. DOMAIN open' \ DOMAIN containers' = {}
    BY <1>2, <1>4, <1>6
  <2>. QED
    BY <1>2, <1>3, <1>4, <2>1, <2>2 DEF Books, Opened
<1>11. Awaited(tree)'
  <2>1. Pending' = Pending
    BY <1>2 DEF Pending, Scanning, Busy
  <2>. QED
    BY <1>2, <1>3, <2>1 DEF Books, Awaited
<1>12. ASSUME NEW c \in leftovers' PROVE c \in DOMAIN containers' /\ containers'[c].parent # closing'
  <2>1. /\ c \in DOMAIN containers /\ c \in Ids /\ id \in Ids
        /\ open[c] = tree[c].depth /\ open[id] = tree[id].depth /\ open[c] <= open[id]
    BY <1>1, <1>4, <1>6 DEF Books, Opened, Deepest
  <2>2. tree[c].depth \in Nat /\ tree[id].depth \in Nat
    BY <2>1 DEF Planted, IsTree
  <2>3. CASE tree[c].parent = id
    <3>1. tree[c].depth = tree[id].depth + 1
      <4>1. id # NoContainer
        BY <2>1 DEF Ids, NoContainer, Types, SharedTypes
      <4>. QED
        BY <2>1, <2>3, <4>1 DEF Planted, IsTree
    <3>. QED
      BY <2>1, <2>2, <3>1
  <2>4. CASE tree[c].parent # id
    BY <1>1, <1>2, <2>1, <2>4 DEF Planted
  <2>. QED
    BY <2>3, <2>4
<1>13. Closing'
  BY <1>1, <1>2, <1>4, <1>5, <1>7, <1>12 DEF Closing, LeftoversEndBottomUp
<1>. QED
  BY <1>8, <1>10, <1>11, <1>13 DEF Books

\* Its end goes out.
LEMMA PushLeftoverKeepsBooks ==
    ASSUME Types, NEW tree, Books(tree), PushLeftover
    PROVE  Books(tree)'
<1>1. PICK id : id = closing
  OBVIOUS
<1>2. /\ UNCHANGED <<stack, containers, open, nextId, pc, job, item, ends, leftovers, live, ended>>
      /\ cpc = "end" /\ cpc' = "close" /\ ring' = Append(ring, End(id))
  BY <1>1 DEF PushLeftover, sharedVars, workVars, clientVars, viewVars
<1>3. Entered' = Entered /\ Ended' = Ended \cup {id} /\ Ids' = Ids
  <2>1. End(id).type = "End" /\ End(id).id = id
    BY DEF End
  <2>. QED
    BY <1>2, <2>1, PushedItem DEF Ids
<1>4. Joined /\ Joined' /\ leftovers = DOMAIN open /\ id \in Entered \ (Ended \cup DOMAIN open)
  BY <1>1, <1>2 DEF Books, Closing, Joined
<1>5. /\ DOMAIN open \subseteq DOMAIN containers /\ Marking = {} /\ Held = {id}
      /\ \A w \in Workers : pc[w] = "exit" /\ Owed(w) = {}
  BY <1>1, <1>2, <1>4, JoinedOwesNothing
<1>6. Stages'
  <2>1. ASSUME NEW v \in Workers PROVE Stage(v)'
    <3>1. Stage(v) /\ pc[v] = "exit"
      BY <1>5 DEF Books, Stages
    <3>2. ends[v] = <<>>
      BY <3>1, NoEndsOwed
    <3>. QED
      BY <1>2, <3>1, <3>2, BlankStage DEF Blank, Idle
  <2>. QED
    BY <1>2, <2>1 DEF Books, Stages
<1>7. Opened(tree)'
  <2>1. Entered' \subseteq DOMAIN open' \cup Ended' \cup Held' \cup Marking'
    BY <1>2, <1>3, <1>5 DEF Books, Opened
  <2>2. DOMAIN open' \ DOMAIN containers' = {}
    BY <1>2, <1>5
  <2>. QED
    BY <1>2, <1>3, <1>4, <2>1, <2>2 DEF Books, Opened
<1>8. Awaited(tree)'
  <2>1. Pending' = Pending
    BY <1>2 DEF Pending, Scanning, Busy
  <2>. QED
    BY <1>2, <1>3, <2>1 DEF Books, Awaited
<1>9. Closing'
  BY <1>2, <1>4 DEF Closing, LeftoversEndBottomUp
<1>. QED
  BY <1>6, <1>7, <1>8, <1>9 DEF Books

\* The reason, its cause and the terminal go out when nothing is open any more.
LEMMA ConclusionKeepsBooks ==
    ASSUME Types, NEW tree, Books(tree), Conclude \/ PushCause \/ PushTerminal \/ Finish
    PROVE  Books(tree)'
<1>1. /\ UNCHANGED <<stack, containers, open, nextId, pc, job, item, ends, closing, leftovers>>
      /\ cpc \notin {"join", "end"} /\ cpc' \notin {"join", "close", "end"}
      /\ cpc = "close" => leftovers = {}
  BY DEF Conclude, PushCause, PushTerminal, Finish, sharedVars, workVars
<1>2. Entered' = Entered /\ Ended' = Ended
  <2>1. CASE UNCHANGED ring
    BY <2>1, SameItems DEF Conclude, PushCause, PushTerminal, Finish, clientVars, viewVars
  <2>2. CASE PushCause /\ ~UNCHANGED ring
    <3>1. PICK e \in fatalError : ring' = Append(ring, e)
      BY <2>2 DEF PushCause
    <3>2. e.type = "Error"
      BY <3>1 DEF Types, FlagTypes, ErrorItem
    <3>. QED
      BY <2>2, <3>1, <3>2, PushedItem DEF PushCause, clientVars, viewVars
  <2>3. CASE PushTerminal
    <3>1. Terminal(reason).type = "Terminal"
      BY DEF Terminal
    <3>. QED
      BY <2>3, <3>1, PushedItem DEF PushTerminal, clientVars, viewVars
  <2>. QED
    BY <2>1, <2>2, <2>3 DEF Conclude, Finish
<1>3. SameBooks
  BY <1>1, <1>2 DEF SameBooks
<1>4. Joined /\ Joined' /\ DOMAIN open = {}
  BY <1>1 DEF Books, Closing, Joined
<1>5. Stages'
  <2>1. \A v \in Workers : Stage(v)'
    BY <1>1, <1>3, SameStage DEF Books, Stages
  <2>. QED
    BY <1>1, <2>1 DEF Books, Stages
<1>6. Opened(tree)'
  <2>1. Ids' = Ids /\ Held' = Held /\ Marking' = Marking /\ \A v \in Workers : Owed(v)' = Owed(v)
    BY <1>1 DEF Held, Marking, Owed, Ids
  <2>. QED
    BY <1>1, <1>2, <2>1 DEF Books, Opened
<1>7. Awaited(tree)'
  <2>1. Pending' = Pending
    BY <1>1 DEF Pending, Scanning, Busy
  <2>. QED
    BY <1>1, <1>2, <2>1 DEF Books, Awaited
<1>8. Closing'
  BY <1>1, <1>4 DEF Closing, LeftoversEndBottomUp
<1>. QED
  BY <1>5, <1>6, <1>7, <1>8 DEF Books

\* Every step of the other threads keeps the books; a pop does, as long as the client knows
\* a container that ends.
LEMMA OthersKeepBooks ==
    ASSUME Types, NEW tree, Planted(tree), Books(tree),
           Coordinator \/ SqThread \/ Client \/ UNCHANGED vars,
           Pop /\ Head(ring).type = "End" => Head(ring).id \in DOMAIN live
    PROVE  Planted(tree)' /\ Books(tree)'
<1>1. /\ UNCHANGED <<stack, containers, nextId, job>>
      /\ \A v \in Workers : pc'[v] \notin Idle => pc[v] \notin Idle
  BY DEF Coordinator, Join, Close, PushLeftover, Conclude, PushCause, PushTerminal, Finish,
     SqThread, SqCheck, SqDrain, SqServe, SqHalt, SqWake, Client, ClientPop, ClientSubmit,
     DropHandle, Dropping, DropHalt, DropWake, DropDrain, DropJoin, Gone, vars, sharedVars,
     workVars, AllWoken, Idle
<1>2. Planted(tree)'
  BY <1>1, SameJobsKeepPlanted
<1>3. CASE Coordinator
  BY <1>2, <1>3, JoinKeepsBooks, CloseKeepsBooks, PushLeftoverKeepsBooks, ConclusionKeepsBooks
     DEF Coordinator
<1>4. CASE SqThread \/ Client \/ UNCHANGED vars
  <2>1. /\ UNCHANGED <<stack, containers, open, nextId, job, item, ends, cpc, leftovers, closing>>
        /\ UNCHANGED pc \/ pc' = AllWoken
        /\ Pop \/ UNCHANGED <<ring, live, ended>>
    BY <1>4 DEF SqThread, SqCheck, SqDrain, SqServe, SqHalt, SqWake, Client, ClientPop,
       ClientSubmit, DropHandle, Dropping, DropHalt, DropWake, DropDrain, DropJoin, Gone, vars,
       sharedVars, workVars, coordVars, clientVars, viewVars
  <2>2. SameBooks
    BY <2>1, SameItems, PoppedItem DEF SameBooks
  <2>. QED
    BY <1>2, <2>1, <2>2, OutsideKeepsBooks
<1>. QED
  BY <1>3, <1>4

-----------------------------------------------------------------------------
(* The order of the items in the ring *)

\* The container that the client must know when it pops the item.
Subject(i) ==
    CASE i.type = "Enter" -> i.parent
      [] i.type \in {"Match", "Blocked", "Error"} -> i.container
      [] OTHER -> NoContainer

EnteredBefore(k, c) ==
    c \in DOMAIN live \/ \E i \in DOMAIN ring : i < k /\ ring[i].type = "Enter" /\ ring[i].id = c
EndedBefore(k, c) ==
    c \in ended \/ \E i \in DOMAIN ring : i < k /\ ring[i].type = "End" /\ ring[i].id = c

\* The k-th item comes at its time.
InOrder(tree, k) ==
    /\ ring[k].type = "Enter" => /\ ring[k].parent = tree[ring[k].id].parent
                                 /\ ~EnteredBefore(k, ring[k].id) /\ ring[k].id \notin ended
    /\ ring[k].type = "End" => EnteredBefore(k, ring[k].id) /\ ~EndedBefore(k, ring[k].id)
    /\ LET c == Subject(ring[k]) IN
       c # NoContainer => \A a \in tree[c].above \cup {c} :
                              EnteredBefore(k, a) /\ ~EndedBefore(k, a)

Ordered(tree) ==
    /\ DOMAIN live \cap ended = {}
    /\ \A c \in DOMAIN live : live[c].above = tree[c].above
    /\ \A k \in DOMAIN ring : InOrder(tree, k)

-----------------------------------------------------------------------------
(* The end of the stream *)

IsCause(i) == i.type = "Error" /\ i.container = NoContainer

\* The error behind a fatal stop stays in its slot until the coordinator takes it out.
Failing ==
    /\ \A e \in fatalError : IsCause(e)
    /\ \A w \in Workers : pc[w] = "flag" => fatalError # {}
    /\ fatal => fatalError # {} \/ cpc \notin {"join", "close", "end", "cause"}
    /\ fatalError # {} => fatal \/ \E w \in Workers : pc[w] = "flag"
    /\ cpc = "cause" => (reason = "Failed" <=> fatalError # {})

\* The latest item pushed: what the client saw last, if the ring is empty.
Newest == IF ring = <<>> THEN last ELSE ring[Len(ring)]

Finishing ==
    /\ \A k \in DOMAIN ring :
         /\ ring[k].type = "Terminal" => k = Len(ring) /\ cpc \in {"finish", "done"}
         /\ IsCause(ring[k]) =>
              \/ k = Len(ring) /\ cpc = "terminal" /\ reason = "Failed"
              \/ k + 1 = Len(ring) /\ ring[k + 1] = Terminal("Failed")
         /\ ring[k] = Terminal("Failed") => IsCause(IF k = 1 THEN last ELSE ring[k - 1])
    /\ IsCause(last) =>
         \/ ring = <<>> /\ cpc = "terminal" /\ reason = "Failed"
         \/ ring = <<Terminal("Failed")>>
    /\ cpc = "terminal" /\ reason = "Failed" => IsCause(Newest)
    /\ terminal # "none" =>
         ring = <<>> /\ cpc \in {"finish", "done"} /\ ~IsCause(last) /\ DOMAIN live = {}
    /\ cpc \in {"finish", "done"} =>
         terminal # "none" \/ (ring # <<>> /\ Newest.type = "Terminal")

\* The drop of the handle waits for the coordinator, and the ring it drained stays empty.
Dropped ==
    /\ finished => cpc = "done"
    /\ kpc = "join" => finished /\ ring = <<>>
    /\ kpc = "gone" => cpc = "done" /\ spc = "done" /\ ring = <<>>

-----------------------------------------------------------------------------
(* The order of the items *)

\* Before the first item come those the client has popped; before a new one, all.
LEMMA BeforeTheFirst ==
    ASSUME Types, NEW c
    PROVE  (EnteredBefore(1, c) => c \in DOMAIN live) /\ (EndedBefore(1, c) => c \in ended)
<1>1. \A i \in DOMAIN ring : ~(i < 1)
  BY DEF Types, RingTypes
<1>. QED
  BY <1>1 DEF EnteredBefore, EndedBefore

\* A push of an item whose time has come keeps the order.
LEMMA PushKeepsOrder ==
    ASSUME Types, NEW tree, Ordered(tree), NEW i, ring' = Append(ring, i),
           UNCHANGED <<live, ended>>,
           i.type = "Enter" => i.parent = tree[i.id].parent /\ i.id \notin Entered,
           i.type = "End" => i.id \in Entered \ Ended,
           Subject(i) # NoContainer =>
             \A a \in tree[Subject(i)].above \cup {Subject(i)} : a \in Entered \ Ended
    PROVE  Ordered(tree)'
<1>1. PICK n \in Nat : n = Len(ring)
  BY DEF Types, RingTypes
<1>2. /\ DOMAIN ring = 1..n /\ DOMAIN ring' = 1..(n + 1) /\ ring'[n + 1] = i
      /\ \A k \in 1..n : ring'[k] = ring[k]
  BY <1>1 DEF Types, RingTypes
<1>3. ASSUME NEW k \in 1..n, NEW c
      PROVE  /\ EnteredBefore(k, c)' <=> EnteredBefore(k, c)
             /\ EndedBefore(k, c)' <=> EndedBefore(k, c)
  <2>1. \A m \in 1..(n + 1) : m < k => m \in 1..n
    BY <1>1
  <2>2. 1..n \subseteq 1..(n + 1)
    BY <1>1
  <2>. QED
    BY <1>2, <2>1, <2>2 DEF EnteredBefore, EndedBefore
<1>4. ASSUME NEW k \in 1..n PROVE InOrder(tree, k)'
  <2>1. InOrder(tree, k) /\ ring'[k] = ring[k]
    BY <1>2 DEF Ordered
  <2>2. Subject(ring[k])' = Subject(ring[k])
    BY <2>1 DEF Subject
  <2>. QED
    BY <1>3, <2>1, <2>2 DEF InOrder
<1>5. ASSUME NEW k, k = n + 1 PROVE InOrder(tree, k)'
  <2>1. ASSUME NEW c
        PROVE  /\ EnteredBefore(k, c)' <=> c \in DOMAIN live \/ c \in IdsOf("Enter")
               /\ EndedBefore(k, c)' <=> c \in Ended
    <3>1. \A m \in 1..(n + 1) : m < k <=> m \in 1..n
      BY <1>1, <1>5
    <3>2. 1..n \subseteq 1..(n + 1)
      BY <1>1
    <3>. QED
      BY <1>2, <3>1, <3>2 DEF EnteredBefore, EndedBefore, IdsOf, Ended
  <2>2. \A c \in Entered \ Ended : EnteredBefore(k, c)' /\ ~EndedBefore(k, c)'
    BY <2>1 DEF Entered, Ended
  <2>3. \A c : c \notin Entered => ~EnteredBefore(k, c)' /\ c \notin ended'
    BY <2>1 DEF Entered
  <2>4. ring'[k] = i /\ Subject(ring[k])' = Subject(i)
    BY <1>2, <1>5 DEF Subject
  <2>. QED
    BY <2>2, <2>3, <2>4 DEF InOrder
<1>6. \A k \in 1..(n + 1) : k \in 1..n \/ k = n + 1
  BY <1>1
<1>7. \A k \in DOMAIN ring' : InOrder(tree, k)'
  BY <1>2, <1>4, <1>5, <1>6
<1>. QED
  BY <1>7 DEF Ordered

\* With no push and no pop the order stays, in a tree that remembers more as well.
LEMMA SameOrder ==
    ASSUME Types, NEW tree, Ordered(tree), Opened(tree), UNCHANGED <<ring, live, ended>>,
           NEW t, \A c \in Ids : t[c] = tree[c]
    PROVE  Ordered(t)'
<1>1. \A k, c : /\ EnteredBefore(k, c)' <=> EnteredBefore(k, c)
                /\ EndedBefore(k, c)' <=> EndedBefore(k, c)
                /\ EnteredBefore(k, c) => c \in Ids
  BY DEF EnteredBefore, EndedBefore, Opened, Entered, IdsOf
<1>2. ASSUME NEW k \in DOMAIN ring PROVE InOrder(t, k)'
  <2>1. InOrder(tree, k) /\ ring'[k] = ring[k] /\ Subject(ring[k])' = Subject(ring[k])
    BY DEF Ordered, Subject
  <2>2. ring[k].type = "Enter" => ring[k].id \in Ids
    BY DEF Opened, Entered, IdsOf
  <2>3. Subject(ring[k]) # NoContainer => Subject(ring[k]) \in Ids
    BY <1>1, <2>1 DEF InOrder
  <2>. QED
    BY <1>1, <2>1, <2>2, <2>3 DEF InOrder
<1>3. \A c \in DOMAIN live : c \in Ids
  BY DEF Opened, Entered
<1>. QED
  BY <1>2, <1>3 DEF Ordered

\* A pop keeps the order: what came before an item still does, or has ended.
LEMMA PopKeepsOrder ==
    ASSUME Types, NEW tree, Planted(tree), Ordered(tree), Opened(tree), Pop
    PROVE  Ordered(tree)'
<1>1. PICK h \in Item : h = Head(ring) /\ See(h) /\ h = ring[1] /\ 1 \in DOMAIN ring
  BY PoppedRing DEF Pop
<1>2. /\ InOrder(tree, 1)
      /\ h.type = "End" => h.id \in DOMAIN live
      /\ h.type = "Enter" => /\ h.id \notin ended /\ h.id \notin DOMAIN live /\ h.id \in Ids
                             /\ h.parent = tree[h.id].parent
                             /\ h.parent # NoContainer => h.parent \in DOMAIN live
  <2>1. InOrder(tree, 1)
    BY <1>1 DEF Ordered
  <2>2. h.type = "Enter" => h.id \in Ids
    BY <1>1 DEF Opened, Entered, IdsOf
  <2>3. h.type = "Enter" => h.id \notin DOMAIN live
    BY <1>1, <2>1 DEF InOrder, EnteredBefore
  <2>4. h.type = "Enter" /\ h.parent # NoContainer => EnteredBefore(1, h.parent)
    BY <1>1, <2>1 DEF InOrder, Subject
  <2>. QED
    BY <1>1, <2>1, <2>2, <2>3, <2>4, BeforeTheFirst DEF InOrder
<1>3. /\ h.type = "Enter" => DOMAIN live' = DOMAIN live \cup {h.id} /\ ended' = ended
      /\ h.type = "End" => DOMAIN live' = DOMAIN live \ {h.id} /\ ended' = ended \cup {h.id}
      /\ h.type \notin {"Enter", "End"} => DOMAIN live' = DOMAIN live /\ ended' = ended
  BY <1>1, SeenItem DEF Insert, Delete, Restrict
<1>4. \A k \in DOMAIN ring' : /\ k \in Nat \ {0} /\ k + 1 \in DOMAIN ring /\ ring'[k] = ring[k + 1]
                              /\ k + 1 > 1
  BY PoppedRing
<1>5. \A k \in DOMAIN ring \ {1} : k \in Nat /\ k - 1 \in DOMAIN ring' /\ ring'[k - 1] = ring[k]
  BY PoppedRing
<1>6. ASSUME NEW k \in DOMAIN ring', NEW c
      PROVE  /\ EnteredBefore(k, c)' => EnteredBefore(k + 1, c)
             /\ EnteredBefore(k + 1, c) /\ ~EndedBefore(k + 1, c) => EnteredBefore(k, c)'
             /\ EndedBefore(k, c)' <=> EndedBefore(k + 1, c)
  <2>1. ASSUME NEW type
        PROVE  (\E i \in DOMAIN ring : i < k + 1 /\ ring[i].type = type /\ ring[i].id = c)
                 <=> \/ h.type = type /\ h.id = c
                     \/ \E i \in DOMAIN ring' : i < k /\ ring'[i].type = type /\ ring'[i].id = c
    <3>1. ASSUME NEW i \in DOMAIN ring, i < k + 1, ring[i].type = type, ring[i].id = c
          PROVE  \/ h.type = type /\ h.id = c
                 \/ \E m \in DOMAIN ring' : m < k /\ ring'[m].type = type /\ ring'[m].id = c
      <4>1. CASE i = 1
        BY <1>1, <3>1, <4>1
      <4>2. CASE i # 1
        <5>1. i - 1 \in DOMAIN ring' /\ ring'[i - 1] = ring[i] /\ i - 1 < k
          BY <1>4, <1>5, <3>1, <4>2
        <5>. QED
          BY <3>1, <5>1
      <4>. QED
        BY <4>1, <4>2
    <3>2. ASSUME NEW i \in DOMAIN ring', i < k, ring'[i].type = type, ring'[i].id = c
          PROVE  \E m \in DOMAIN ring : m < k + 1 /\ ring[m].type = type /\ ring[m].id = c
      <4>1. i + 1 \in DOMAIN ring /\ ring[i + 1] = ring'[i] /\ i + 1 < k + 1
        BY <1>4, <3>2
      <4>. QED
        BY <3>2, <4>1
    <3>3. 1 < k + 1
      BY <1>4
    <3>. QED
      BY <1>1, <3>1, <3>2, <3>3
  <2>2. /\ EnteredBefore(k + 1, c) <=>
             \/ c \in DOMAIN live \/ (h.type = "Enter" /\ h.id = c)
             \/ \E i \in DOMAIN ring' : i < k /\ ring'[i].type = "Enter" /\ ring'[i].id = c
        /\ EndedBefore(k + 1, c) <=>
             \/ c \in ended \/ (h.type = "End" /\ h.id = c)
             \/ \E i \in DOMAIN ring' : i < k /\ ring'[i].type = "End" /\ ring'[i].id = c
    BY <2>1 DEF EnteredBefore, EndedBefore
  <2>3. /\ EnteredBefore(k, c)' <=>
             \/ c \in DOMAIN live'
             \/ \E i \in DOMAIN ring' : i < k /\ ring'[i].type = "Enter" /\ ring'[i].id = c
        /\ EndedBefore(k, c)' <=>
             \/ c \in ended'
             \/ \E i \in DOMAIN ring' : i < k /\ ring'[i].type = "End" /\ ring'[i].id = c
    BY DEF EnteredBefore, EndedBefore
  <2>. QED
    BY <1>3, <2>2, <2>3
<1>7. ASSUME NEW k \in DOMAIN ring' PROVE InOrder(tree, k)'
  <2>1. InOrder(tree, k + 1) /\ ring'[k] = ring[k + 1]
    BY <1>4 DEF Ordered
  <2>2. Subject(ring[k])' = Subject(ring[k + 1])
    BY <2>1 DEF Subject
  <2>3. ring[k + 1].type = "Enter" => ring[k + 1].id \notin ended'
    <3>1. ring[k + 1].type = "Enter" => ~EnteredBefore(k + 1, ring[k + 1].id) /\ ring[k + 1].id \notin ended
      BY <2>1 DEF InOrder
    <3>2. h.type = "End" => EnteredBefore(k + 1, h.id)
      BY <1>2 DEF EnteredBefore
    <3>. QED
      BY <1>3, <3>1, <3>2
  <2>. QED
    BY <1>6, <2>1, <2>2, <2>3 DEF InOrder
<1>8. DOMAIN live' \cap ended' = {}
  BY <1>2, <1>3 DEF Ordered
<1>9. \A c \in DOMAIN live' : live'[c].above = tree[c].above
  <2>1. CASE h.type = "Enter"
    <3>1. live' = Insert(live, h.id, [path |-> Append(At(h.parent), h.name), above |-> Above(h.parent)])
      BY <1>1, <2>1, SeenItem
    <3>2. /\ live'[h.id].above = Above(h.parent)
          /\ \A c \in DOMAIN live \ {h.id} : live'[c] = live[c]
          /\ DOMAIN live' = DOMAIN live \cup {h.id}
      BY <3>1 DEF Insert
    <3>3. Above(h.parent) = tree[h.id].above
      <4>1. CASE h.parent = NoContainer
        <5>0. NoContainer \notin Ids
          BY DEF Ids, NoContainer, Types, SharedTypes
        <5>1. NoContainer \notin DOMAIN live
          BY <5>0 DEF Opened, Entered
        <5>2. tree[h.id].above = {}
          BY <1>2, <2>1, <4>1, <5>0 DEF Planted, IsTree
        <5>. QED
          BY <4>1, <5>1, <5>2 DEF Above
      <4>2. CASE h.parent # NoContainer
        <5>1. tree[h.id].above = tree[h.parent].above \cup {h.parent}
          BY <1>2, <2>1, <4>2 DEF Planted, IsTree
        <5>2. live[h.parent].above = tree[h.parent].above /\ h.parent \in DOMAIN live
          BY <1>2, <2>1, <4>2 DEF Ordered
        <5>. QED
          BY <5>1, <5>2 DEF Above
      <4>. QED
        BY <4>1, <4>2
    <3>. QED
      BY <3>2, <3>3 DEF Ordered
  <2>2. CASE h.type = "End"
    <3>1. live' = Delete(live, h.id)
      BY <1>1, <2>2, SeenItem
    <3>. QED
      BY <3>1 DEF Delete, Restrict, Ordered
  <2>3. CASE h.type \notin {"Enter", "End"}
    <3>1. live' = live
      BY <1>1, <2>3, SeenItem
    <3>. QED
      BY <3>1 DEF Ordered
  <2>. QED
    BY <2>1, <2>2, <2>3
<1>. QED
  BY <1>7, <1>8, <1>9 DEF Ordered

\* The containers above a scan are announced and have not ended, while workers run.
LEMMA ChainIsLive ==
    ASSUME Types, Accounting, NEW tree, Planted(tree), Books(tree), NEW w \in Workers,
           pc[w] \in ScanSteps
    PROVE  tree[job[w].container].above \subseteq Entered \ Ended
<1>1. job[w].container \in Pending \cap DOMAIN containers \cap Ids
  BY ScannedContainer
<1>2. pc[w] # "exit"
  BY DEF ScanSteps
<1>3. Ended \cap DOMAIN containers = {}
  BY <1>2, CoordinatorWaits DEF Books, Opened
<1>. QED
  BY <1>1, <1>3 DEF Planted, Books, Awaited

\* A worker's emit comes at its time.
LEMMA EmitKeepsOrder ==
    ASSUME Types, Accounting, NEW tree, Planted(tree), Books(tree), Ordered(tree),
           NEW w \in Workers, TryPush(w), Room
    PROVE  Ordered(tree)'
<1> DEFINE i == item[w]
           j == job[w]
<1>1. /\ ring' = Append(ring, i) /\ UNCHANGED <<live, ended>> /\ pc[w] = "push"
      /\ Offering(w)
  BY DEF TryPush, clientVars, viewVars, Offering
<1>2. i.type \in {"Enter", "Match", "Blocked", "Error"}
  BY <1>1, OfferedTypes
<1>3. /\ j.container \in Ids /\ tree[j.container].parent = j.parent
      /\ tree[j.container].above \subseteq Entered \ Ended
  BY <1>1, ScannedContainer, ChainIsLive DEF ScanSteps, Fits
<1>4. j.parent # NoContainer => tree[j.container].above = tree[j.parent].above \cup {j.parent}
  BY <1>3 DEF Planted, IsTree
<1>5. Stage(w)
  BY DEF Books, Stages
<1>6. CASE i.type = "Enter"
  <2>1. i = Enter(j) /\ j.container \notin Entered
    BY <1>1, <1>5, <1>6 DEF Stage, Announces
  <2>2. i.id = j.container /\ i.parent = j.parent /\ Subject(i) = j.parent
    BY <2>1 DEF Enter, Subject
  <2>. QED
    BY <1>1, <1>3, <1>4, <1>6, <2>1, <2>2, PushKeepsOrder
<1>7. CASE GivesUp(w)
  <2>1. i.type = "Error" /\ Subject(i) = j.parent
    BY <1>5, <1>7 DEF GivesUp, Stage, Subject
  <2>2. j.parent # NoContainer
    BY <1>5, <1>7 DEF Stage
  <2>. QED
    BY <1>1, <1>3, <1>4, <2>1, <2>2, PushKeepsOrder
<1>8. CASE i.type # "Enter" /\ ~GivesUp(w)
  <2>1. Inside(w)
    BY <1>1, <1>8 DEF Inside, Announces
  <2>2. i.container = j.container /\ j.container \in DOMAIN open
    BY <1>1, <1>5, <2>1 DEF Stage
  <2>3. Subject(i) = j.container /\ j.container \in Entered \ Ended
    BY <1>2, <1>8, <2>2 DEF Subject, Books, Opened
  <2>. QED
    BY <1>1, <1>2, <1>3, <1>8, <2>3, PushKeepsOrder
<1>. QED
  BY <1>6, <1>7, <1>8

\* The steps of a worker keep the order, in the tree that remembers what the worker adds.
LEMMA WorkerKeepsOrder ==
    ASSUME Types, Accounting, NEW tree, Planted(tree), Books(tree), Ordered(tree),
           NEW w \in Workers, Worker(w), NEW t, Planted(t)', \A c \in Ids : t[c] = tree[c]
    PROVE  Ordered(t)'
<1>1. CASE TryPush(w) /\ Room
  <2>1. Ids' = Ids
    BY <1>1 DEF TryPush, Ids
  <2>2. t = tree
    BY <2>1 DEF Planted, IsTree
  <2>. QED
    BY <1>1, <2>2, EmitKeepsOrder
<1>2. CASE PushEnd(w)
  <2>1. Ids' = Ids /\ UNCHANGED <<live, ended>> /\ ring' = Append(ring, item[w]) /\ pc[w] = "end"
    BY <1>2 DEF PushEnd, Ids, clientVars, viewVars
  <2>2. t = tree
    BY <2>1 DEF Planted, IsTree
  <2>3. item[w].type = "End"
    BY <2>1 DEF Types, WorkerTypes, WorkerType, EndItem
  <2>4. item[w].id \in Entered \ Ended /\ Subject(item[w]) = NoContainer
    BY <2>1, <2>3 DEF Books, Stages, Stage, Subject
  <2>. QED
    BY <2>1, <2>2, <2>3, <2>4, PushKeepsOrder
<1>3. CASE ~(TryPush(w) /\ Room) /\ ~PushEnd(w)
  <2>1. UNCHANGED <<ring, live, ended>>
    BY <1>3 DEF Worker, NextJob, Enumerate, LoadCancel, TryPush, MarkOpen, Scan, Descend, Launch,
         NotifyOne, Release, Cascade, EmitEnds, StashError, RaiseFatal, WorkerCancel, WorkerHalt,
         WorkerWake, CompleteJob, clientVars, viewVars
  <2>. QED
    BY <2>1, SameOrder DEF Books
<1>. QED
  BY <1>1, <1>2, <1>3

\* The other threads keep the order: the coordinator's ends come once each, its cause and
\* its terminal name no container.
LEMMA OthersKeepOrder ==
    ASSUME Types, NEW tree, Planted(tree), Books(tree), Ordered(tree), Failing,
           Coordinator \/ SqThread \/ Client \/ UNCHANGED vars
    PROVE  Ordered(tree)'
<1>1. CASE PushLeftover
  <2>1. UNCHANGED <<live, ended>> /\ ring' = Append(ring, End(closing)) /\ cpc = "end"
    BY <1>1 DEF PushLeftover, clientVars, viewVars
  <2>2. /\ End(closing).type = "End" /\ End(closing).id = closing
        /\ Subject(End(closing)) = NoContainer
    BY DEF End, Subject
  <2>3. closing \in Entered \ Ended
    BY <2>1 DEF Books, Closing
  <2>. QED
    BY <2>1, <2>2, <2>3, PushKeepsOrder
<1>2. CASE PushCause /\ ring' # ring
  <2>1. PICK e \in fatalError : ring' = Append(ring, e)
    BY <1>2 DEF PushCause
  <2>2. UNCHANGED <<live, ended>>
    BY <1>2 DEF PushCause, clientVars, viewVars
  <2>3. e.type = "Error" /\ Subject(e) = NoContainer
    BY DEF Failing, IsCause, Subject
  <2>. QED
    BY <2>1, <2>2, <2>3, PushKeepsOrder
<1>3. CASE PushTerminal
  <2>1. UNCHANGED <<live, ended>> /\ ring' = Append(ring, Terminal(reason))
    BY <1>3 DEF PushTerminal, clientVars, viewVars
  <2>2. Terminal(reason).type = "Terminal" /\ Subject(Terminal(reason)) = NoContainer
    BY DEF Terminal, Subject
  <2>. QED
    BY <2>1, <2>2, PushKeepsOrder
<1>4. CASE Pop
  BY <1>4, PopKeepsOrder DEF Books
<1>5. CASE UNCHANGED <<ring, live, ended>>
  BY <1>5, SameOrder DEF Books
<1>6. PushLeftover \/ (PushCause /\ ring' # ring) \/ PushTerminal \/ Pop \/ UNCHANGED <<ring, live, ended>>
  BY DEF Coordinator, Join, Close, Conclude, PushCause, Finish, SqThread, SqCheck, SqDrain,
     SqServe, SqHalt, SqWake, Client, ClientPop, ClientSubmit, DropHandle, Dropping, DropHalt,
     DropWake, DropDrain, DropJoin, Gone, vars, clientVars, viewVars
<1>. QED
  BY <1>1, <1>2, <1>3, <1>4, <1>5, <1>6

-----------------------------------------------------------------------------
(* The end of the stream, step by step *)

\* With the error's slot, the flag and who is about to raise it left alone.
LEMMA SameFailing ==
    ASSUME Failing, UNCHANGED <<fatal, fatalError>>,
           \A v \in Workers : pc'[v] = "flag" <=> pc[v] = "flag",
           \/ UNCHANGED <<cpc, reason>>
           \/ cpc' # "cause" /\ (cpc' \in {"join", "close", "end"} => cpc \in {"join", "close", "end"})
    PROVE  Failing'
  BY DEF Failing, IsCause

\* A worker stores the error of a root, which lies in no container, before it raises the flag.
LEMMA WorkerKeepsFailing ==
    ASSUME Types, NEW tree, Books(tree), Failing, NEW w \in Workers, Worker(w)
    PROVE  Failing'
<1>0. pc \in [Workers -> Steps]
  BY DEF Types, WorkerTypes
<1>1. UNCHANGED <<cpc, reason>>
  BY DEF Worker, NextJob, Enumerate, LoadCancel, TryPush, MarkOpen, Scan, Descend, Launch,
     NotifyOne, Release, Cascade, EmitEnds, PushEnd, StashError, RaiseFatal, WorkerCancel,
     WorkerHalt, WorkerWake, CompleteJob, coordVars
<1>2. CASE StashError(w)
  <2>1. cpc = "join"
    BY <1>2, CoordinatorWaits DEF StashError, Books
  <2>2. job[w].parent = NoContainer
    BY <1>2 DEF StashError, Books, Stages, Stage
  <2>3. IsCause(OpenError(job[w]))
    BY <2>2 DEF IsCause, OpenError
  <2>4. fatalError' # {} /\ \A e \in fatalError' : IsCause(e)
    BY <1>2, <2>3 DEF StashError, Failing
  <2>5. pc'[w] = "flag" /\ UNCHANGED fatal
    BY <1>0, <1>2 DEF StashError, Goto
  <2>. QED
    BY <1>1, <2>1, <2>4, <2>5 DEF Failing, IsCause
<1>3. CASE RaiseFatal(w)
  <2>1. cpc = "join"
    BY <1>3, CoordinatorWaits DEF RaiseFatal, Books
  <2>2. fatalError # {} /\ UNCHANGED fatalError /\ fatal' = TRUE
    BY <1>3 DEF RaiseFatal, Failing
  <2>. QED
    BY <1>1, <2>1, <2>2 DEF Failing, IsCause
<1>4. CASE ~StashError(w) /\ ~RaiseFatal(w)
  <2>1. UNCHANGED <<fatal, fatalError>>
    BY <1>4 DEF Worker, NextJob, Enumerate, LoadCancel, TryPush, MarkOpen, Scan, Descend, Launch,
       NotifyOne, Release, Cascade, EmitEnds, PushEnd, WorkerCancel, WorkerHalt, WorkerWake,
       CompleteJob, flagVars
  <2>2. \A v \in Workers : pc'[v] = "flag" <=> pc[v] = "flag"
    <3>1. CASE NextJob(w) \/ NotifyOne(w) \/ WorkerHalt(w) \/ WorkerWake(w) \/ CompleteJob(w)
      BY <1>0, <3>1 DEF NextJob, NotifyOne, WorkerHalt, WorkerWake, CompleteJob, AllWoken, Goto
    <3>2. CASE LoadCancel(w) \/ TryPush(w)
      BY <1>0, <3>2, ResumedStep DEF LoadCancel, TryPush, Goto
    <3>3. CASE Enumerate(w) \/ MarkOpen(w) \/ Scan(w) \/ Descend(w) \/ Launch(w)
      BY <1>0, <3>3 DEF Enumerate, MarkOpen, Scan, Descend, Launch, Offer, Goto
    <3>4. CASE Release(w) \/ Cascade(w) \/ EmitEnds(w) \/ PushEnd(w) \/ WorkerCancel(w)
      BY <1>0, <3>4 DEF Release, Cascade, EmitEnds, PushEnd, WorkerCancel, Goto
    <3>. QED
      BY <1>4, <3>1, <3>2, <3>3, <3>4 DEF Worker
  <2>. QED
    BY <1>1, <2>1, <2>2, SameFailing
<1>. QED
  BY <1>2, <1>3, <1>4

\* The coordinator reads the flag after every worker has left, and takes the error out.
LEMMA OthersKeepFailing ==
    ASSUME Types, NEW tree, Books(tree), Failing,
           Coordinator \/ SqThread \/ Client \/ UNCHANGED vars
    PROVE  Failing'
<1>0. pc \in [Workers -> Steps]
  BY DEF Types, WorkerTypes
<1>1. CASE Conclude
  <2>1. \A v \in Workers : pc[v] = "exit"
    BY <1>1 DEF Conclude, Books, Closing, Joined
  <2>2. fatal <=> fatalError # {}
    BY <1>1, <2>1 DEF Conclude, Failing
  <2>3. reason' = "Failed" <=> fatal
    BY <1>1 DEF Conclude, Outcome
  <2>4. UNCHANGED <<fatal, fatalError, pc>> /\ cpc' = "cause"
    BY <1>1 DEF Conclude, flagVars, workVars
  <2>. QED
    BY <2>1, <2>2, <2>3, <2>4 DEF Failing, IsCause
<1>2. CASE PushCause
  <2>1. \A v \in Workers : pc[v] = "exit"
    BY <1>2 DEF PushCause, Books, Closing, Joined
  <2>2. UNCHANGED <<fatal, pc>> /\ cpc' = "terminal" /\ fatalError' = {}
    BY <1>2 DEF PushCause, workVars
  <2>. QED
    BY <2>1, <2>2 DEF Failing, IsCause
<1>3. CASE ~Conclude /\ ~PushCause
  <2>1. UNCHANGED <<fatal, fatalError>> /\ (UNCHANGED pc \/ pc' = AllWoken)
    BY <1>3 DEF Coordinator, Join, Close, PushLeftover, PushTerminal, Finish, SqThread, SqCheck,
       SqDrain, SqServe, SqHalt, SqWake, Client, ClientPop, ClientSubmit, DropHandle, Dropping,
       DropHalt, DropWake, DropDrain, DropJoin, Gone, vars, flagVars, workVars
  <2>2. \/ UNCHANGED <<cpc, reason>>
        \/ cpc' # "cause" /\ (cpc' \in {"join", "close", "end"} => cpc \in {"join", "close", "end"})
    BY <1>3 DEF Coordinator, Join, Close, PushLeftover, PushTerminal, Finish, SqThread, SqCheck,
       SqDrain, SqServe, SqHalt, SqWake, Client, ClientPop, ClientSubmit, DropHandle, Dropping,
       DropHalt, DropWake, DropDrain, DropJoin, Gone, vars, coordVars
  <2>3. \A v \in Workers : pc'[v] = "flag" <=> pc[v] = "flag"
    BY <1>0, <2>1 DEF AllWoken
  <2>. QED
    BY <2>1, <2>2, <2>3, SameFailing
<1>. QED
  BY <1>1, <1>2, <1>3

\* Before the conclusion the stream holds no terminal and no cause.
LEMMA NotYetFinishing ==
    ASSUME Types, Finishing, cpc \notin {"terminal", "finish", "done"}
    PROVE  /\ \A k \in DOMAIN ring : ring[k].type # "Terminal" /\ ~IsCause(ring[k])
           /\ ~IsCause(last) /\ terminal = "none"
<1>1. ring \in Seq(Item)
  BY DEF Types, RingTypes
<1>2. Terminal("Failed").type = "Terminal"
  BY DEF Terminal
<1>3. \A k \in DOMAIN ring : ring[k].type # "Terminal"
  BY DEF Finishing
<1>4. \A k \in DOMAIN ring : ~IsCause(ring[k])
  <2> SUFFICES ASSUME NEW k \in DOMAIN ring, IsCause(ring[k]) PROVE FALSE
    OBVIOUS
  <2>1. k + 1 = Len(ring) /\ ring[k + 1] = Terminal("Failed")
    BY DEF Finishing
  <2>2. k + 1 \in DOMAIN ring
    BY <1>1, <2>1
  <2>. QED
    BY <1>2, <1>3, <2>1, <2>2
<1>5. ~IsCause(last)
  <2> SUFFICES ASSUME IsCause(last) PROVE FALSE
    OBVIOUS
  <2>1. ring = <<Terminal("Failed")>>
    BY DEF Finishing
  <2>. QED
    BY <1>2, <1>3, <2>1
<1>. QED
  BY <1>3, <1>4, <1>5 DEF Finishing

\* A push of anything but a cause or a terminal.
LEMMA PushKeepsFinishing ==
    ASSUME Types, Finishing, cpc \notin {"terminal", "finish", "done"},
           cpc' \notin {"terminal", "finish", "done"},
           NEW i, ring' = Append(ring, i), i.type # "Terminal", ~IsCause(i),
           UNCHANGED <<last, live, terminal>>
    PROVE  Finishing'
<1>1. ring \in Seq(Item) /\ Len(ring) \in Nat
  BY DEF Types, RingTypes
<1>2. /\ DOMAIN ring' = DOMAIN ring \cup {Len(ring) + 1} /\ ring'[Len(ring) + 1] = i
      /\ \A k \in DOMAIN ring : ring'[k] = ring[k]
  BY <1>1
<1>3. \A k \in DOMAIN ring' : ring'[k].type # "Terminal" /\ ~IsCause(ring'[k])
  BY <1>2, NotYetFinishing
<1>4. \A k \in DOMAIN ring' : ring'[k] # Terminal("Failed")
  BY <1>3 DEF Terminal
<1>. QED
  BY <1>3, <1>4, NotYetFinishing DEF Finishing, IsCause

\* Neither a push nor a pop.
LEMMA SameFinishing ==
    ASSUME Types, Finishing, UNCHANGED <<ring, last, live, terminal>>,
           \/ UNCHANGED <<cpc, reason>>
           \/ cpc = "finish" /\ cpc' = "done"
           \/ /\ cpc \notin {"terminal", "finish", "done"} /\ cpc' \notin {"finish", "done"}
              /\ cpc' = "terminal" => reason' # "Failed"
    PROVE  Finishing'
<1>1. Newest' = Newest
  BY DEF Newest
<1>2. CASE UNCHANGED <<cpc, reason>> \/ (cpc = "finish" /\ cpc' = "done")
  BY <1>1, <1>2 DEF Finishing, IsCause
<1>3. CASE /\ cpc \notin {"terminal", "finish", "done"} /\ cpc' \notin {"finish", "done"}
           /\ cpc' = "terminal" => reason' # "Failed"
  <2>1. /\ \A k \in DOMAIN ring : ring[k].type # "Terminal" /\ ~IsCause(ring[k])
        /\ ~IsCause(last) /\ terminal = "none"
    BY <1>3, NotYetFinishing
  <2>2. \A k \in DOMAIN ring : ring[k] # Terminal("Failed")
    BY <2>1 DEF Terminal
  <2>. QED
    BY <1>3, <2>1, <2>2 DEF Finishing, IsCause
<1>. QED
  BY <1>2, <1>3

\* No item a worker offers is a cause: a root's error is kept for the coordinator.
LEMMA WorkersPushNoCause ==
    ASSUME Types, Accounting, NEW tree, Planted(tree), Books(tree), NEW w \in Workers,
           Offering(w)
    PROVE  item[w].type # "Terminal" /\ ~IsCause(item[w])
<1>1. item[w].type \in {"Enter", "Match", "Blocked", "Error"} /\ Stage(w)
  BY OfferedTypes DEF Books, Stages
<1>2. job[w].container # NoContainer
  BY ScannedContainer DEF Offering, ScanSteps
<1>3. GivesUp(w) => item[w].container # NoContainer
  BY <1>1 DEF Stage
<1>4. item[w].type = "Error" /\ ~GivesUp(w) => item[w].container = job[w].container
  BY DEF GivesUp
<1>. QED
  BY <1>1, <1>2, <1>3, <1>4 DEF IsCause

\* The workers leave the end of the stream to the coordinator.
LEMMA WorkerKeepsFinishing ==
    ASSUME Types, Accounting, NEW tree, Planted(tree), Books(tree), Finishing,
           NEW w \in Workers, Worker(w)
    PROVE  Finishing'
<1>1. UNCHANGED <<cpc, reason, last, live, terminal>>
  BY DEF Worker, NextJob, Enumerate, LoadCancel, TryPush, MarkOpen, Scan, Descend, Launch,
     NotifyOne, Release, Cascade, EmitEnds, PushEnd, StashError, RaiseFatal, WorkerCancel,
     WorkerHalt, WorkerWake, CompleteJob, coordVars, clientVars, viewVars
<1>2. CASE TryPush(w) /\ Room
  <2>1. ring' = Append(ring, item[w]) /\ pc[w] = "push" /\ Offering(w)
    BY <1>2 DEF TryPush, Offering
  <2>2. cpc = "join"
    BY <2>1, CoordinatorWaits DEF Books
  <2>3. item[w].type # "Terminal" /\ ~IsCause(item[w])
    BY <2>1, WorkersPushNoCause
  <2>. QED
    BY <1>1, <2>1, <2>2, <2>3, PushKeepsFinishing
<1>3. CASE PushEnd(w)
  <2>1. ring' = Append(ring, item[w]) /\ pc[w] = "end"
    BY <1>3 DEF PushEnd
  <2>2. cpc = "join"
    BY <2>1, CoordinatorWaits DEF Books
  <2>3. item[w].type = "End"
    BY <2>1 DEF Types, WorkerTypes, WorkerType, EndItem
  <2>. QED
    BY <1>1, <2>1, <2>2, <2>3, PushKeepsFinishing DEF IsCause
<1>4. CASE ~(TryPush(w) /\ Room) /\ ~PushEnd(w)
  <2>1. UNCHANGED ring
    BY <1>4 DEF Worker, NextJob, Enumerate, LoadCancel, TryPush, MarkOpen, Scan, Descend, Launch,
         NotifyOne, Release, Cascade, EmitEnds, StashError, RaiseFatal, WorkerCancel, WorkerHalt,
         WorkerWake, CompleteJob
  <2>. QED
    BY <1>1, <2>1, SameFinishing
<1>. QED
  BY <1>2, <1>3, <1>4

\* Once the coordinator has pushed the last end, every container that was entered has ended.
LEMMA NothingOpenAtTheEnd ==
    ASSUME NEW tree, Books(tree), cpc \notin {"join", "close", "end"}
    PROVE  Entered \subseteq Ended
<1>1. Joined /\ DOMAIN open = {}
  BY DEF Books, Closing
<1>2. Held = {} /\ Marking = {}
  BY <1>1 DEF Joined, Held, Marking
<1>. QED
  BY <1>1, <1>2 DEF Books, Opened

\* The terminal is popped last, and the client then knows of no live container.
LEMMA PopKeepsFinishing ==
    ASSUME Types, NEW tree, Books(tree), Ordered(tree), Finishing, Pop, UNCHANGED <<cpc, reason>>
    PROVE  Finishing'
<1>1. PICK n \in Nat \ {0} : n = Len(ring)
  BY PoppedRing
<1>2. PICK h \in Item : h = Head(ring) /\ See(h) /\ h = ring[1]
  BY PoppedRing DEF Pop
<1>3. /\ DOMAIN ring = 1..n /\ Len(ring') = n - 1 /\ DOMAIN ring' = 1..(n - 1)
      /\ n = 1 => ring' = <<>>
      /\ n = 2 => ring' = <<ring[2]>>
      /\ \A k \in 1..(n - 1) : ring'[k] = ring[k + 1]
  <2>1. ring \in Seq(Item) /\ ring' \in Seq(Item) /\ Len(ring') = n - 1
    BY <1>1, PoppedRing DEF Types, RingTypes, Pop
  <2>2. DOMAIN ring = 1..n /\ DOMAIN ring' = 1..(n - 1)
    BY <1>1, <2>1, PoppedRing
  <2>3. \A k \in 1..(n - 1) : ring'[k] = ring[k + 1]
    BY <2>2, PoppedRing
  <2>4. n = 1 => ring' = <<>>
    BY <2>1
  <2>5. ASSUME n = 2 PROVE ring' = <<ring[2]>>
    <3>1. Len(ring') = 1 /\ ring'[1] = ring[2]
      BY <2>1, <2>3, <2>5
    <3>. QED
      BY <2>1, <3>1
  <2>. QED
    BY <2>1, <2>2, <2>3, <2>4, <2>5
<1>4. last' = h /\ (h.type # "Terminal" => terminal' = terminal)
  BY <1>2 DEF See
<1>5. ring # <<>> /\ terminal = "none"
  BY DEF Pop, Finishing
<1>6. Newest' = Newest
  <2>1. CASE n = 1
    BY <1>1, <1>2, <1>3, <1>4, <1>5, <2>1 DEF Newest
  <2>2. CASE n # 1
    <3>1. n - 1 \in 1..(n - 1) /\ ring' # <<>> /\ (n - 1) + 1 = n
      BY <1>1, <1>3, <2>2
    <3>2. ring'[Len(ring')] = ring[n]
      BY <1>3, <3>1
    <3>. QED
      BY <1>1, <1>5, <3>1, <3>2 DEF Newest
  <2>. QED
    BY <2>1, <2>2
<1>7. ASSUME NEW k \in 1..(n - 1)
      PROVE  /\ ring'[k].type = "Terminal" => k = n - 1 /\ cpc \in {"finish", "done"}
             /\ IsCause(ring'[k]) =>
                  \/ k = n - 1 /\ cpc = "terminal" /\ reason = "Failed"
                  \/ k + 1 = n - 1 /\ ring'[k + 1] = Terminal("Failed")
             /\ ring'[k] = Terminal("Failed") => IsCause(IF k = 1 THEN last' ELSE ring'[k - 1])
  <2>1. k + 1 \in 1..n /\ ring'[k] = ring[k + 1] /\ k \in 1..n /\ k + 1 # 1 /\ (k + 1) - 1 = k
    BY <1>1, <1>3
  <2>2. ring[k + 1].type = "Terminal" => k + 1 = n /\ cpc \in {"finish", "done"}
    BY <1>1, <1>3, <2>1 DEF Finishing
  <2>3. IsCause(ring[k + 1]) =>
          \/ k + 1 = n /\ cpc = "terminal" /\ reason = "Failed"
          \/ (k + 1) + 1 = n /\ ring[(k + 1) + 1] = Terminal("Failed")
    BY <1>1, <1>3, <2>1 DEF Finishing
  <2>4. ring[k + 1] = Terminal("Failed") => IsCause(ring[k])
    BY <1>3, <2>1 DEF Finishing
  <2>5. IsCause(ring[k]) => IsCause(IF k = 1 THEN last' ELSE ring'[k - 1])
    <3>1. k # 1 => k - 1 \in 1..(n - 1) /\ (k - 1) + 1 = k
      BY <1>1
    <3>. QED
      BY <1>2, <1>3, <1>4, <3>1
  <2>6. (k + 1) + 1 = n => k + 1 \in 1..(n - 1) /\ ring'[k + 1] = ring[(k + 1) + 1]
    BY <1>1, <1>3, <2>1
  <2>. QED
    BY <1>1, <2>1, <2>2, <2>3, <2>4, <2>5, <2>6
<1>8. IsCause(last') =>
        \/ ring' = <<>> /\ cpc = "terminal" /\ reason = "Failed"
        \/ ring' = <<Terminal("Failed")>>
  <2>1. IsCause(ring[1]) =>
          \/ 1 = n /\ cpc = "terminal" /\ reason = "Failed"
          \/ 1 + 1 = n /\ ring[1 + 1] = Terminal("Failed")
    BY <1>1, <1>3 DEF Finishing
  <2>2. 1 + 1 = 2
    OBVIOUS
  <2>. QED
    BY <1>2, <1>3, <1>4, <2>1, <2>2
<1>9. terminal' # "none" =>
        ring' = <<>> /\ cpc \in {"finish", "done"} /\ ~IsCause(last') /\ DOMAIN live' = {}
  <2> SUFFICES ASSUME terminal' # "none"
               PROVE  ring' = <<>> /\ cpc \in {"finish", "done"} /\ ~IsCause(last') /\ DOMAIN live' = {}
    OBVIOUS
  <2>1. h.type = "Terminal"
    BY <1>4, <1>5
  <2>2. 1 = n /\ cpc \in {"finish", "done"}
    BY <1>1, <1>2, <1>3, <2>1 DEF Finishing
  <2>3. IdsOf("End") = {}
    BY <1>2, <1>3, <2>1, <2>2 DEF IdsOf
  <2>4. DOMAIN live = {}
    BY <2>2, <2>3, NothingOpenAtTheEnd DEF Entered, Ended, Ordered
  <2>5. live' = live
    BY <1>2, <2>1, SeenItem
  <2>. QED
    BY <1>3, <1>4, <2>1, <2>2, <2>4, <2>5 DEF IsCause
<1>10. cpc \in {"finish", "done"} =>
         terminal' # "none" \/ (ring' # <<>> /\ Newest'.type = "Terminal")
  <2> SUFFICES ASSUME cpc \in {"finish", "done"}, ring' = <<>> PROVE terminal' # "none"
    BY <1>5, <1>6 DEF Finishing
  <2>1. Newest = h
    BY <1>4, <1>6 DEF Newest
  <2>2. h.type = "Terminal"
    BY <1>5, <2>1 DEF Finishing
  <2>3. h.reason \in Reasons /\ terminal' = h.reason
    BY <1>2, <2>2 DEF See, Item, EnterItem, EndItem, MatchItem, BlockItem, ErrorItem, TerminalItem
  <2>. QED
    BY <2>3 DEF Reasons
<1>11. cpc = "terminal" /\ reason = "Failed" => IsCause(Newest')
  BY <1>6 DEF Finishing
<1>. QED
  BY <1>3, <1>7, <1>8, <1>9, <1>10, <1>11 DEF Finishing, IsCause

\* The cause of a failure goes out when nothing is left but the terminal.
LEMMA PushCauseKeepsFinishing ==
    ASSUME Types, Failing, Finishing, PushCause, ring' # ring
    PROVE  Finishing'
<1>1. PICK e \in fatalError : ring' = Append(ring, e)
  BY DEF PushCause
<1>2. /\ cpc = "cause" /\ cpc' = "terminal" /\ reason' = reason
      /\ UNCHANGED <<last, live, terminal>>
  BY DEF PushCause, clientVars, viewVars
<1>3. IsCause(e) /\ reason = "Failed" /\ e.type # "Terminal"
  BY <1>2 DEF Failing, IsCause
<1>4. ring \in Seq(Item) /\ Len(ring) \in Nat
  BY DEF Types, RingTypes
<1>5. /\ DOMAIN ring' = DOMAIN ring \cup {Len(ring) + 1} /\ ring'[Len(ring) + 1] = e
      /\ \A k \in DOMAIN ring : ring'[k] = ring[k]
      /\ Len(ring') = Len(ring) + 1 /\ ring' # <<>>
  BY <1>1, <1>4
<1>6. \A k \in DOMAIN ring' : /\ ring'[k].type # "Terminal"
                              /\ IsCause(ring'[k]) => k = Len(ring) + 1
  BY <1>2, <1>3, <1>5, NotYetFinishing
<1>7. \A k \in DOMAIN ring' : ring'[k] # Terminal("Failed")
  BY <1>6 DEF Terminal
<1>8. ~IsCause(last) /\ terminal = "none"
  BY <1>2, NotYetFinishing
<1>. QED
  BY <1>2, <1>3, <1>5, <1>6, <1>7, <1>8 DEF Finishing, IsCause, Newest

\* The terminal follows the cause if, and only if, the walk failed.
LEMMA PushTerminalKeepsFinishing ==
    ASSUME Types, Finishing, PushTerminal
    PROVE  Finishing'
<1>1. PICK r \in Reasons : r = reason
  BY DEF Types, CoordTypes
<1>2. PICK n \in Nat : n = Len(ring)
  BY DEF Types, RingTypes
<1>3. /\ cpc = "terminal" /\ cpc' = "finish" /\ UNCHANGED <<reason, last, live, terminal>>
      /\ ring' = Append(ring, Terminal(r))
  BY <1>1 DEF PushTerminal, clientVars, viewVars
<1>4. /\ DOMAIN ring = 1..n /\ DOMAIN ring' = 1..(n + 1) /\ ring'[n + 1] = Terminal(r)
      /\ Len(ring') = n + 1 /\ ring' # <<>>
      /\ ring = <<>> => n = 0 /\ ring' = <<Terminal(r)>>
      /\ \A k \in 1..n : ring'[k] = ring[k]
  <2>1. ring \in Seq(Item)
    BY DEF Types, RingTypes
  <2>2. ring = <<>> => n = 0 /\ ring' = <<Terminal(r)>>
    BY <1>2, <1>3
  <2>. QED
    BY <1>2, <1>3, <2>1, <2>2
<1>5. \A k \in 1..n : ring[k].type # "Terminal"
  BY <1>3, <1>4 DEF Finishing
<1>6. /\ Terminal(r).type = "Terminal" /\ Terminal(r).reason = r /\ ~IsCause(Terminal(r))
      /\ Terminal("Failed").type = "Terminal" /\ Terminal("Failed").reason = "Failed"
  BY DEF Terminal, IsCause
<1>7. \A k \in 1..n : IsCause(ring[k]) => k = n /\ r = "Failed"
  <2> SUFFICES ASSUME NEW k \in 1..n, IsCause(ring[k]) PROVE k = n /\ r = "Failed"
    OBVIOUS
  <2>1. k + 1 = n => k + 1 \in 1..n
    BY <1>2
  <2>2. ~(k + 1 = n /\ ring[k + 1] = Terminal("Failed"))
    BY <1>5, <1>6, <2>1
  <2>. QED
    BY <1>1, <1>2, <1>4, <2>2 DEF Finishing
<1>8. r = "Failed" => IsCause(Newest)
  BY <1>1, <1>3 DEF Finishing
<1>9. /\ ring = <<>> => Newest = last
      /\ ring # <<>> => n \in 1..n /\ n # 0 /\ Newest = ring[n]
  BY <1>2, <1>4 DEF Newest, Types, RingTypes
<1>10. ASSUME NEW k \in 1..(n + 1)
       PROVE  /\ ring'[k].type = "Terminal" => k = n + 1
              /\ IsCause(ring'[k]) => k + 1 = n + 1 /\ ring'[k + 1] = Terminal("Failed")
              /\ ring'[k] = Terminal("Failed") => IsCause(IF k = 1 THEN last ELSE ring'[k - 1])
  <2>1. CASE k \in 1..n
    BY <1>2, <1>4, <1>5, <1>6, <1>7, <2>1
  <2>2. CASE k = n + 1
    <3>1. ring'[k] = Terminal("Failed") => IsCause(Newest)
      BY <1>4, <1>6, <1>8, <2>2
    <3>2. CASE ring = <<>>
      BY <1>4, <1>6, <1>9, <2>2, <3>1, <3>2
    <3>3. CASE ring # <<>>
      <4>1. k # 1 /\ k - 1 = n /\ ring'[k - 1] = ring[n]
        BY <1>2, <1>4, <1>9, <2>2, <3>3
      <4>. QED
        BY <1>4, <1>6, <1>9, <2>2, <3>1, <3>3, <4>1
    <3>. QED
      BY <3>2, <3>3
  <2>3. k \in 1..n \/ k = n + 1
    BY <1>2
  <2>. QED
    BY <2>1, <2>2, <2>3
<1>11. IsCause(last) => ring' = <<Terminal("Failed")>>
  <2> SUFFICES ASSUME IsCause(last) PROVE ring' = <<Terminal("Failed")>>
    OBVIOUS
  <2>1. CASE ring = <<>> /\ reason = "Failed"
    BY <1>1, <1>4, <2>1
  <2>2. CASE ring = <<Terminal("Failed")>>
    <3>1. 1 \in 1..n /\ ring[1] = Terminal("Failed")
      BY <1>2, <2>2
    <3>. QED
      BY <1>5, <1>6, <3>1
  <2>. QED
    BY <2>1, <2>2 DEF Finishing
<1>12. terminal = "none"
  BY <1>3 DEF Finishing
<1>13. Newest'.type = "Terminal"
  BY <1>4, <1>6 DEF Newest
<1>14. ring' # <<>>
  BY <1>4
<1>. QED
  BY <1>3, <1>4, <1>10, <1>11, <1>12, <1>13, <1>14 DEF Finishing, IsCause

\* The coordinator concludes the stream; nobody else says how it ends.
LEMMA OthersKeepFinishing ==
    ASSUME Types, NEW tree, Books(tree), Ordered(tree), Failing, Finishing,
           Coordinator \/ SqThread \/ Client \/ UNCHANGED vars
    PROVE  Finishing'
<1>1. CASE PushLeftover
  <2>1. /\ ring' = Append(ring, End(closing)) /\ UNCHANGED <<last, live, terminal>>
        /\ cpc = "end" /\ cpc' = "close"
    BY <1>1 DEF PushLeftover, clientVars, viewVars
  <2>2. End(closing).type # "Terminal" /\ ~IsCause(End(closing))
    BY DEF End, IsCause
  <2>. QED
    BY <2>1, <2>2, PushKeepsFinishing
<1>2. CASE PushCause /\ ring' # ring
  BY <1>2, PushCauseKeepsFinishing
<1>3. CASE PushCause /\ ring' = ring
  <2>1. ring \in Seq(Item) /\ fatalError \subseteq Item
    BY DEF Types, RingTypes, FlagTypes, Item
  <2>2. \A e \in fatalError : ring' # Append(ring, e)
    BY <1>3, <2>1
  <2>3. /\ fatalError = {} /\ UNCHANGED <<last, live, terminal, reason>>
        /\ cpc = "cause" /\ cpc' = "terminal"
    BY <1>3, <2>2 DEF PushCause, clientVars, viewVars
  <2>4. reason # "Failed"
    BY <2>3 DEF Failing
  <2>. QED
    BY <1>3, <2>3, <2>4, SameFinishing
<1>4. CASE PushTerminal
  BY <1>4, PushTerminalKeepsFinishing
<1>5. CASE Join \/ Close \/ Conclude \/ Finish
  <2>1. /\ UNCHANGED <<ring, last, live, terminal>>
        /\ \/ cpc = "finish" /\ cpc' = "done"
           \/ cpc \in {"join", "close"} /\ cpc' \in {"close", "end", "cause"}
    BY <1>5 DEF Join, Close, Conclude, Finish, clientVars, viewVars
  <2>. QED
    BY <2>1, SameFinishing
<1>6. CASE SqThread \/ Client \/ UNCHANGED vars
  <2>1. UNCHANGED <<cpc, reason>>
    BY <1>6 DEF SqThread, SqCheck, SqDrain, SqServe, SqHalt, SqWake, Client, ClientPop,
       ClientSubmit, DropHandle, Dropping, DropHalt, DropWake, DropDrain, DropJoin, Gone, vars,
       coordVars
  <2>2. Pop \/ UNCHANGED <<ring, last, live, terminal>>
    BY <1>6 DEF SqThread, SqCheck, SqDrain, SqServe, SqHalt, SqWake, Client, ClientPop,
       ClientSubmit, DropHandle, Dropping, DropHalt, DropWake, DropDrain, DropJoin, Gone, vars,
       clientVars, viewVars
  <2>. QED
    BY <2>1, <2>2, PopKeepsFinishing, SameFinishing
<1>. QED
  BY <1>1, <1>2, <1>3, <1>4, <1>5, <1>6 DEF Coordinator

\* No step fills the ring of a handle that has been dropped: the last push was the terminal.
LEMMA NextKeepsDropped ==
    ASSUME Types, NEW tree, Books(tree), Dropped, [Next]_vars
    PROVE  Dropped'
<1>1. ASSUME NEW w \in Workers, Worker(w) PROVE Dropped'
  <2>1. cpc = "join"
    <3>1. pc[w] # "exit"
      BY <1>1 DEF Worker, NextJob, Enumerate, LoadCancel, TryPush, MarkOpen, Scan, Descend,
         Launch, NotifyOne, Release, Cascade, EmitEnds, PushEnd, StashError, RaiseFatal,
         WorkerCancel, WorkerHalt, WorkerWake, CompleteJob
    <3>. QED
      BY <3>1, CoordinatorWaits DEF Books
  <2>2. UNCHANGED <<finished, cpc, kpc, spc>>
    BY <1>1 DEF Worker, NextJob, Enumerate, LoadCancel, TryPush, MarkOpen, Scan, Descend, Launch,
       NotifyOne, Release, Cascade, EmitEnds, PushEnd, StashError, RaiseFatal, WorkerCancel,
       WorkerHalt, WorkerWake, CompleteJob, flagVars, coordVars, sqVars, clientVars
  <2>. QED
    BY <2>1, <2>2 DEF Dropped
<1>2. ASSUME Coordinator PROVE Dropped'
  BY <1>2 DEF Coordinator, Join, Close, PushLeftover, Conclude, PushCause, PushTerminal, Finish,
     Dropped, flagVars, sqVars, clientVars
<1>3. ASSUME SqThread PROVE Dropped'
  BY <1>3 DEF SqThread, SqCheck, SqDrain, SqServe, SqHalt, SqWake, Dropped, flagVars, coordVars,
     clientVars
<1>4. ASSUME Client \/ UNCHANGED vars PROVE Dropped'
  BY <1>4 DEF Client, ClientPop, ClientSubmit, DropHandle, Dropping, DropHalt, DropWake,
     DropDrain, DropJoin, Gone, Pop, Dropped, vars, flagVars, coordVars, sqVars, clientVars
<1>. QED
  BY <1>1, <1>2, <1>3, <1>4 DEF Next

-----------------------------------------------------------------------------
(* The invariant of the stream *)

StreamInv(tree) ==
    /\ Planted(tree) /\ Books(tree) /\ Ordered(tree)
    /\ Failing /\ Finishing /\ Dropped

\* At the start nothing is announced, and every scan is a root's.
LEMMA InitStream ==
    ASSUME Init
    PROVE  \E tree : StreamInv(tree)
<1>1. PICK tree : /\ Planted(tree)
                  /\ tree = [c \in Ids |-> [parent |-> NoContainer, above |-> {}, depth |-> 0]]
  BY InitPlanted
<1>2. ring = <<>> /\ live = <<>> /\ ended = {} /\ open = <<>> /\ cpc = "join"
  BY DEF Init
<1>3. DOMAIN ring = {} /\ DOMAIN live = {} /\ DOMAIN open = {}
  BY <1>2
<1>4. Entered = {} /\ Ended = {}
  BY <1>2, <1>3 DEF Entered, Ended, IdsOf
<1>5. \A w \in Workers : pc[w] = "next" /\ ends[w] = <<>>
  BY DEF Init
<1>6. Stages
  BY <1>5 DEF Stages, Stage, Announces, GivesUp, Inside, Offering, Owed
<1>7. Held = {} /\ Marking = {}
  BY <1>2, <1>5 DEF Held, Marking
<1>8. Opened(tree)
  BY <1>3, <1>4, <1>7 DEF Opened
<1>9. \A c \in Pending : c \in Ids
  <2>1. Scanning = {}
    BY <1>5 DEF Scanning, Busy
  <2>. QED
    BY <1>1, <2>1 DEF Pending, Planted, Fits
<1>10. Awaited(tree)
  BY <1>1, <1>4, <1>9 DEF Awaited
<1>11. Closing
  BY <1>2 DEF Closing, LeftoversEndBottomUp
<1>12. Ordered(tree)
  BY <1>2, <1>3 DEF Ordered
<1>13. Failing /\ Finishing /\ Dropped
  BY <1>2, <1>3, <1>5 DEF Init, Failing, Finishing, Dropped, IsCause, NoItem
<1>. QED
  BY <1>1, <1>6, <1>8, <1>10, <1>11, <1>12, <1>13 DEF StreamInv, Books

\* Every step of every thread keeps the invariant, in a tree that may have grown.
LEMMA NextKeepsStream ==
    ASSUME Types, Accounting, \E tree : StreamInv(tree), [Next]_vars
    PROVE  (\E tree : StreamInv(tree))'
<1>1. PICK tree : StreamInv(tree)
  OBVIOUS
<1>2. Dropped'
  BY <1>1, NextKeepsDropped DEF StreamInv
<1>3. ASSUME NEW w \in Workers, Worker(w) PROVE (\E t : StreamInv(t))'
  <2>1. PICK t : Planted(t)' /\ Books(t)' /\ \A c \in Ids : t[c] = tree[c]
    BY <1>1, <1>3, WorkerKeepsBooks DEF StreamInv
  <2>2. Ordered(t)'
    BY <1>1, <1>3, <2>1, WorkerKeepsOrder DEF StreamInv
  <2>3. Failing' /\ Finishing'
    BY <1>1, <1>3, WorkerKeepsFailing, WorkerKeepsFinishing DEF StreamInv
  <2>4. StreamInv(t)'
    BY <1>2, <2>1, <2>2, <2>3 DEF StreamInv
  <2>. QED
    BY <2>4
<1>4. ASSUME Coordinator \/ SqThread \/ Client \/ UNCHANGED vars PROVE (\E t : StreamInv(t))'
  <2>1. Pop /\ Head(ring).type = "End" => Head(ring).id \in DOMAIN live
    <3> SUFFICES ASSUME Pop, Head(ring).type = "End" PROVE Head(ring).id \in DOMAIN live
      OBVIOUS
    <3>1. 1 \in DOMAIN ring /\ ring[1] = Head(ring)
      BY PoppedRing
    <3>2. EnteredBefore(1, ring[1].id)
      BY <1>1, <3>1 DEF StreamInv, Ordered, InOrder
    <3>. QED
      BY <3>1, <3>2, BeforeTheFirst
  <2>2. Planted(tree)' /\ Books(tree)'
    BY <1>1, <1>4, <2>1, OthersKeepBooks DEF StreamInv
  <2>3. Ordered(tree)' /\ Failing' /\ Finishing'
    BY <1>1, <1>4, OthersKeepOrder, OthersKeepFailing, OthersKeepFinishing DEF StreamInv
  <2>4. StreamInv(tree)'
    BY <1>2, <2>2, <2>3 DEF StreamInv
  <2>. QED
    BY <2>4
<1>. QED
  BY <1>3, <1>4 DEF Next

\* The stream's invariant holds of every behaviour: for some forest of containers, the books
\* tally and the items come in order.
THEOREM StreamInvariance == Spec => [](\E tree : StreamInv(tree))
<1> DEFINE Inv == \E tree : StreamInv(tree)
<1>1. Init => Inv
  BY InitStream
<1>2. IInv /\ Accounting /\ Inv /\ [Next]_vars => Inv'
  BY NextKeepsStream DEF IInv
<1> HIDE DEF Inv
<1>3. Spec => []Inv
  BY <1>1, <1>2, Invariance, AccountingInvariance, PTL DEF Spec
<1>. QED
  BY <1>3 DEF Inv

\* A dropped handle leaves no thread running, no item in the ring and no container that was
\* entered and not ended (Drop, engine.rs:520).
THEOREM DropCorrect == Spec => []DropLeavesNothing
<1>1. (\E tree : StreamInv(tree)) => DropLeavesNothing
  <2> SUFFICES ASSUME NEW tree, StreamInv(tree), kpc = "gone"
               PROVE  /\ Joined /\ cpc = "done" /\ spc = "done"
                      /\ ring = <<>> /\ terminal # "none" /\ DOMAIN live = {}
    BY DEF DropLeavesNothing
  <2>1. cpc = "done" /\ spc = "done" /\ ring = <<>>
    BY DEF StreamInv, Dropped
  <2>2. Joined
    BY <2>1 DEF StreamInv, Books, Closing
  <2>3. terminal # "none"
    BY <2>1 DEF StreamInv, Finishing
  <2>4. DOMAIN live = {}
    BY <2>3 DEF StreamInv, Finishing
  <2>. QED
    BY <2>1, <2>2, <2>3, <2>4
<1>. QED
  BY <1>1, StreamInvariance, PTL

\* What a cancelled walk leaves open the coordinator ends bottom-up, because it ends the
\* deepest first (engine.rs:648).
THEOREM LeftoversCorrect == Spec => []LeftoversEndBottomUp
<1>1. (\E tree : StreamInv(tree)) => LeftoversEndBottomUp
  BY DEF StreamInv, Books, Closing
<1>. QED
  BY <1>1, StreamInvariance, PTL

-----------------------------------------------------------------------------
(* The engine implements the stream it promises.  Containers are numbered  *)
(* without end here; the run checks a walk that creates MaxContainers.     *)

Promised == INSTANCE CompletionStream WITH
    live <- DOMAIN live, above <- LiveAbove, last <- LastSeen

\* A step of the promised stream about containers the engine created.
PromisedStep ==
    \/ \E c \in Ids :
         \/ \E parent \in Ids \cup {NoContainer} : Promised!Enter(c, parent)
         \/ \E kind \in {"Match", "Blocked", "Error"} : Promised!Report(kind, c)
         \/ Promised!End(c)
    \/ Promised!RootError
    \/ \E r \in Reasons : Promised!Terminal(r)

\* The latest item is the cause of a failure exactly when the client sees it as one.
LEMMA SeenCause == LastSeen = Promised!Cause <=> IsCause(last)
<1>1. CASE last.type = "Error"
  BY <1>1 DEF LastSeen, Promised!Cause, Promised!Latest, IsCause
<1>2. CASE last.type # "Error"
  BY <1>2 DEF LastSeen, Promised!Cause, Promised!Latest, IsCause
<1>. QED
  BY <1>1, <1>2

\* What the client may rely on when it pops an item.
LEMMA FirstInOrder ==
    ASSUME Types, NEW tree, StreamInv(tree), ring # <<>>, NEW h, h = ring[1], 1 \in DOMAIN ring
    PROVE  /\ terminal = "none" /\ (IsCause(last) => h = Terminal("Failed"))
           /\ h.type = "Enter" => /\ h.id \in Ids \ (DOMAIN live \cup ended)
                                  /\ h.parent \in Ids \cup {NoContainer}
           /\ h.type = "End" => h.id \in DOMAIN live
           /\ Subject(h) # NoContainer => /\ Subject(h) \in DOMAIN live
                                          /\ LiveAbove[Subject(h)] \subseteq DOMAIN live
           /\ DOMAIN live \subseteq Ids /\ NoContainer \notin Ids
<1>1. terminal = "none" /\ (IsCause(last) => h = Terminal("Failed"))
  BY DEF StreamInv, Finishing
<1>2. InOrder(tree, 1)
  BY DEF StreamInv, Ordered
<1>3. DOMAIN live \subseteq Ids /\ NoContainer \notin Ids
  BY DEF StreamInv, Books, Opened, Entered, Ids, NoContainer, Types, SharedTypes
<1>4. h.type = "Enter" => /\ h.id \in Ids \ (DOMAIN live \cup ended)
                          /\ h.parent = tree[h.id].parent
  BY <1>2, BeforeTheFirst DEF StreamInv, Books, Opened, Entered, IdsOf, InOrder, EnteredBefore
<1>5. h.type = "Enter" => h.parent \in Ids \cup {NoContainer}
  BY <1>4 DEF StreamInv, Planted, IsTree
<1>6. h.type = "End" => h.id \in DOMAIN live
  BY <1>2, BeforeTheFirst DEF InOrder
<1>7. Subject(h) # NoContainer => /\ Subject(h) \in DOMAIN live
                                  /\ LiveAbove[Subject(h)] \subseteq DOMAIN live
  <2> SUFFICES ASSUME NEW c, c = Subject(h), c # NoContainer
               PROVE  c \in DOMAIN live /\ LiveAbove[c] \subseteq DOMAIN live
    OBVIOUS
  <2>1. \A a \in tree[c].above \cup {c} : a \in DOMAIN live
    BY <1>2, BeforeTheFirst DEF InOrder
  <2>2. LiveAbove[c] = tree[c].above
    BY <2>1 DEF LiveAbove, StreamInv, Ordered
  <2>. QED
    BY <2>1, <2>2
<1>. QED
  BY <1>1, <1>3, <1>4, <1>5, <1>6, <1>7

\* A pop is a step of the promised stream.
LEMMA PopIsPromised ==
    ASSUME Types, NEW tree, StreamInv(tree), Pop, UNCHANGED <<cpc, reason>>
    PROVE  PromisedStep
<1>1. PICK h \in Item : h = Head(ring) /\ See(h) /\ h = ring[1] /\ 1 \in DOMAIN ring
  BY PoppedRing DEF Pop
<1>2. /\ terminal = "none" /\ (IsCause(last) => h = Terminal("Failed"))
      /\ h.type = "Enter" => /\ h.id \in Ids \ (DOMAIN live \cup ended)
                             /\ h.parent \in Ids \cup {NoContainer}
      /\ h.type = "End" => h.id \in DOMAIN live
      /\ Subject(h) # NoContainer => /\ Subject(h) \in DOMAIN live
                                     /\ LiveAbove[Subject(h)] \subseteq DOMAIN live
      /\ DOMAIN live \subseteq Ids /\ NoContainer \notin Ids
  BY <1>1, FirstInOrder DEF Pop
<1>3. last' = h
  BY <1>1 DEF See
<1>4. h.type # "Terminal" => Promised!Running /\ terminal' = terminal
  <2>1. h.type # "Terminal" => ~IsCause(last)
    BY <1>2 DEF Terminal
  <2>. QED
    BY <1>1, <1>2, <2>1, SeenCause DEF Promised!Running, See
<1>5. CASE h.type = "Enter"
  <2>1. live' = Insert(live, h.id, [path |-> Append(At(h.parent), h.name), above |-> Above(h.parent)])
        /\ ended' = ended
    BY <1>1, <1>5, SeenItem
  <2>2. /\ DOMAIN live' = DOMAIN live \cup {h.id}
        /\ live'[h.id].above = Above(h.parent)
        /\ \A d \in DOMAIN live \ {h.id} : live'[d] = live[d]
    BY <2>1 DEF Insert
  <2>3. Subject(h) = h.parent
    BY <1>5 DEF Subject
  <2>4. Above(h.parent) = IF h.parent = NoContainer THEN {} ELSE LiveAbove[h.parent] \cup {h.parent}
    BY <1>2, <2>3 DEF Above, LiveAbove
  <2>5. LiveAbove' = [d \in DOMAIN live' |-> IF d # h.id THEN LiveAbove[d]
                                             ELSE IF h.parent = NoContainer THEN {}
                                             ELSE LiveAbove[h.parent] \cup {h.parent}]
    BY <2>2, <2>4 DEF LiveAbove
  <2>6. LastSeen' = Promised!Latest("Enter", h.id)
    BY <1>3, <1>5 DEF LastSeen, Promised!Latest
  <2>7. Promised!Enter(h.id, h.parent)
    BY <1>2, <1>4, <1>5, <2>1, <2>2, <2>3, <2>5, <2>6 DEF Promised!Enter
  <2>. QED
    BY <1>2, <1>5, <2>7 DEF PromisedStep
<1>6. CASE h.type = "End"
  <2>1. live' = Delete(live, h.id) /\ ended' = ended \cup {h.id}
    BY <1>1, <1>6, SeenItem
  <2>2. /\ DOMAIN live' = DOMAIN live \ {h.id}
        /\ \A d \in DOMAIN live' : live'[d] = live[d]
    BY <2>1 DEF Delete, Restrict
  <2>3. LiveAbove' = [d \in DOMAIN live' |-> LiveAbove[d]]
    BY <2>2 DEF LiveAbove
  <2>4. LastSeen' = Promised!Latest("End", h.id)
    BY <1>3, <1>6 DEF LastSeen, Promised!Latest
  <2>5. Promised!End(h.id)
    BY <1>2, <1>4, <1>6, <2>1, <2>2, <2>3, <2>4 DEF Promised!End
  <2>. QED
    BY <1>2, <1>6, <2>5 DEF PromisedStep
<1>7. h.type \notin {"Enter", "End"} => /\ UNCHANGED <<live, ended, LiveAbove>>
  BY <1>1, SeenItem DEF LiveAbove
<1>8. CASE h.type \in {"Match", "Blocked", "Error"}
  <2>1. LastSeen' = Promised!Latest(h.type, h.container)
    BY <1>3, <1>8 DEF LastSeen, Promised!Latest
  <2>2. Subject(h) = h.container
    BY <1>8 DEF Subject
  <2>3. CASE h.container # NoContainer
    <3>1. Promised!Report(h.type, h.container)
      BY <1>2, <1>4, <1>7, <1>8, <2>1, <2>2, <2>3 DEF Promised!Report
    <3>. QED
      BY <1>2, <1>8, <2>2, <2>3, <3>1 DEF PromisedStep
  <2>4. CASE h.container = NoContainer
    <3>1. h.type = "Error"
      BY <1>1, <1>8, <2>4 DEF Item, EnterItem, EndItem, MatchItem, BlockItem, ErrorItem,
         TerminalItem, Containers
    <3>2. Promised!RootError
      BY <1>4, <1>7, <1>8, <2>1, <2>4, <3>1 DEF Promised!RootError, Promised!Cause
    <3>. QED
      BY <3>2 DEF PromisedStep
  <2>. QED
    BY <2>3, <2>4
<1>9. CASE h.type = "Terminal"
  <2>1. h = Terminal(h.reason) /\ h.reason \in Reasons
    BY <1>1, <1>9 DEF Item, EnterItem, EndItem, MatchItem, BlockItem, ErrorItem, TerminalItem,
       Terminal
  <2>2. terminal' = h.reason
    BY <1>1, <1>9 DEF See
  <2>3. DOMAIN live = {}
    <3>1. Finishing'
      BY PopKeepsFinishing DEF StreamInv
    <3>2. terminal' # "none"
      BY <2>1, <2>2 DEF Reasons
    <3>. QED
      BY <1>7, <1>9, <3>1, <3>2 DEF Finishing
  <2>4. h.reason = "Failed" <=> IsCause(last)
    <3>1. h.reason = "Failed" => IsCause(last)
      BY <1>1, <2>1 DEF StreamInv, Finishing
    <3>2. IsCause(last) => h.reason = "Failed"
      BY <1>2 DEF Terminal
    <3>. QED
      BY <3>1, <3>2
  <2>5. LastSeen' = Promised!Latest("Terminal", NoContainer)
    BY <1>3, <1>9 DEF LastSeen, Promised!Latest
  <2>6. Promised!Terminal(h.reason)
    BY <1>2, <1>7, <1>9, <2>2, <2>3, <2>4, <2>5, SeenCause DEF Promised!Terminal
  <2>. QED
    BY <2>1, <2>6 DEF PromisedStep
<1>10. h.type \in {"Enter", "End", "Match", "Blocked", "Error", "Terminal"}
  BY <1>1 DEF Item, EnterItem, EndItem, MatchItem, BlockItem, ErrorItem, TerminalItem
<1>. QED
  BY <1>5, <1>6, <1>8, <1>9, <1>10

\* Every step of the engine is a pop, which the promised stream allows, or changes nothing
\* that the client sees.
LEMMA StepIsPromised ==
    ASSUME Types, NEW tree, StreamInv(tree), [Next]_vars
    PROVE  PromisedStep \/ UNCHANGED <<live, ended, last, terminal>>
<1>1. CASE Pop /\ UNCHANGED <<cpc, reason>>
  BY <1>1, PopIsPromised
<1>2. CASE ~(Pop /\ UNCHANGED <<cpc, reason>>)
  <2>1. ASSUME NEW w \in Workers, Worker(w) PROVE UNCHANGED viewVars
    BY <2>1 DEF Worker, NextJob, Enumerate, LoadCancel, TryPush, MarkOpen, Scan, Descend, Launch,
       NotifyOne, Release, Cascade, EmitEnds, PushEnd, StashError, RaiseFatal, WorkerCancel,
       WorkerHalt, WorkerWake, CompleteJob, clientVars
  <2>2. CASE Coordinator \/ SqThread
    BY <2>2 DEF Coordinator, Join, Close, PushLeftover, Conclude, PushCause, PushTerminal, Finish,
       SqThread, SqCheck, SqDrain, SqServe, SqHalt, SqWake, clientVars, viewVars
  <2>3. CASE Client \/ UNCHANGED vars
    BY <1>2, <2>3 DEF Client, ClientPop, ClientSubmit, DropHandle, Dropping, DropHalt, DropWake,
       DropDrain, DropJoin, Gone, vars, clientVars, viewVars, coordVars
  <2>. QED
    BY <2>1, <2>2, <2>3 DEF Next, viewVars
<1>. QED
  BY <1>1, <1>2

\* Both start with nothing announced.
LEMMA InitIsPromised == Init => Promised!Init /\ Stream!Init
<1> SUFFICES ASSUME Init PROVE Promised!Init /\ Stream!Init
  OBVIOUS
<1>1. DOMAIN live = {} /\ ended = {} /\ last = NoItem /\ terminal = "none"
  BY DEF Init
<1>2. LiveAbove = [c \in {} |-> {}]
  BY <1>1 DEF LiveAbove
<1>3. LastSeen = [kind |-> "none", container |-> NoContainer]
  BY <1>1 DEF LastSeen, NoItem
<1>. QED
  BY <1>1, <1>2, <1>3 DEF Promised!Init, Stream!Init, Promised!Latest, Stream!Latest

\* The engine implements the stream of completions it promises: whatever workers, the
\* coordinator, a cancel and a full ring do, what the client pops is a legal stream.
THEOREM KeepsPromises == Spec => Promised!Spec
<1> DEFINE Inv == \E tree : StreamInv(tree)
<1>1. IInv /\ Inv /\ [Next]_vars => [Promised!Next]_(Promised!vars)
  <2> SUFFICES ASSUME IInv, Inv, [Next]_vars PROVE [Promised!Next]_(Promised!vars)
    OBVIOUS
  <2>1. PromisedStep \/ UNCHANGED <<live, ended, last, terminal>>
    BY StepIsPromised DEF IInv
  <2>2. CASE PromisedStep
    <3>1. Ids \subseteq Containers
      BY DEF Ids, Containers, NoContainer, IInv, Types, SharedTypes
    <3>. QED
      BY <2>2, <3>1 DEF PromisedStep, Promised!Next
  <2>3. CASE UNCHANGED <<live, ended, last, terminal>>
    BY <2>3 DEF Promised!vars, LiveAbove, LastSeen
  <2>. QED
    BY <2>1, <2>2, <2>3
<1> HIDE DEF Inv
<1>2. Spec => []Inv
  BY StreamInvariance DEF Inv
<1>. QED
  BY <1>1, <1>2, Invariance, InitIsPromised, PTL DEF Spec, Promised!Spec

\* The contract the runs check, for every walk that creates no more containers than they
\* allow for.
THEOREM ContractCorrect == Spec /\ []WalkIsBounded => StreamContract
<1> DEFINE Inv == \E tree : StreamInv(tree)
<1>1. IInv /\ Inv /\ WalkIsBounded /\ [Next]_vars => [Stream!Next]_(Stream!vars)
  <2> SUFFICES ASSUME IInv, Inv, WalkIsBounded, [Next]_vars PROVE [Stream!Next]_(Stream!vars)
    OBVIOUS
  <2>1. PromisedStep \/ UNCHANGED <<live, ended, last, terminal>>
    BY StepIsPromised DEF IInv
  <2>2. CASE PromisedStep
    <3>1. Ids \subseteq 1..MaxContainers
      BY BoundsAssumption DEF Ids, WalkIsBounded, IInv, Types, SharedTypes
    <3>2. \A c, parent : Promised!Enter(c, parent) => Stream!Enter(c, parent)
      BY DEF Promised!Enter, Stream!Enter, Promised!Running, Stream!Running, Promised!Cause,
         Stream!Cause, Promised!Latest, Stream!Latest
    <3>3. \A kind, c : Promised!Report(kind, c) => Stream!Report(kind, c)
      BY DEF Promised!Report, Stream!Report, Promised!Running, Stream!Running, Promised!Cause,
         Stream!Cause, Promised!Latest, Stream!Latest
    <3>4. Promised!RootError => Stream!RootError
      BY DEF Promised!RootError, Stream!RootError, Promised!Running, Stream!Running,
         Promised!Cause, Stream!Cause, Promised!Latest, Stream!Latest
    <3>5. \A c : Promised!End(c) => Stream!End(c)
      BY DEF Promised!End, Stream!End, Promised!Running, Stream!Running, Promised!Cause,
         Stream!Cause, Promised!Latest, Stream!Latest
    <3>6. \A r : Promised!Terminal(r) => Stream!Terminal(r)
      BY DEF Promised!Terminal, Stream!Terminal, Promised!Cause, Stream!Cause, Promised!Latest,
         Stream!Latest
    <3>. QED
      BY <2>2, <3>1, <3>2, <3>3, <3>4, <3>5, <3>6 DEF PromisedStep, Stream!Next
  <2>3. CASE UNCHANGED <<live, ended, last, terminal>>
    BY <2>3 DEF Stream!vars, LiveAbove, LastSeen
  <2>. QED
    BY <2>1, <2>2, <2>3
<1> HIDE DEF Inv
<1>2. Spec => []Inv
  BY StreamInvariance DEF Inv
<1>. QED
  BY <1>1, <1>2, Invariance, InitIsPromised, PTL DEF Spec, StreamContract, Stream!Spec
=============================================================================
