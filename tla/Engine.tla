------------------------------- MODULE Engine -------------------------------
(***************************************************************************)
(* The walking engine of globazog (src/crates/globazog/src/engine.rs): a   *)
(* pool of worker threads that take directory scans from a shared stack,   *)
(* the coordinator that joins them and publishes the terminal, the thread  *)
(* that services the submission queue, and the client, which pops the      *)
(* completion ring, may submit operations, and may drop the handle.        *)
(*                                                                         *)
(* A critical section of the `shared` mutex is one action, except the      *)
(* reference-count cascade of `release`, which holds the lock over one     *)
(* step per container; every other section then waits for the lock.  Loads *)
(* and stores of the atomics, ring pushes and ring pops are steps of their *)
(* own.  A thread parked for 5 ms on a full ring is a thread that tries    *)
(* again: module Ring models the wait itself.                              *)
(***************************************************************************)
EXTENDS Naturals, Sequences, FiniteSets, Bags, Functions

CONSTANTS
    Workers,        \* the scan permits: one worker thread each
    Capacity,       \* slots of the completion ring
    Names,          \* entry names
    FileIds,        \* filesystem identities of reparse points
    NoFileId,       \* the {0, 0} sentinel: identity not known
    Dirs,           \* physical directories
    Entries,        \* Entries[d]: the directory entries of d
    RealPath,       \* RealPath[d]: what `canonicalize` makes of a path to d, where it can
    MayDeny,        \* directories that may refuse to be opened
    MayLose,        \* entries whose metadata may fail to be read
    RootDirs,       \* the query's roots, in order: a sequence of directories
    Patterns,       \* the query's patterns
    PatternRoots,   \* PatternRoots[p]: the roots pattern p applies to
    Hit(_, _, _),   \* Hit(p, path, entry): glob match and emit conjunction
    Viable(_, _),   \* Viable(p, path): p may still match something below path
    Admits(_),      \* Admits(entry): the query's descend conjunction
    FollowLinks,    \* follow_links = Always
    CycleDetection, \* cycle_detection
    Confine,        \* confine_to_roots
    MaxOps          \* bound on the operations the client submits

Roots == DOMAIN RootDirs
NoContainer == 0
Containers == Nat \ {NoContainer}
NoOne == "none"

Entry == [name : Names, kind : {"file", "dir", "link"}, target : Dirs,
          id : FileIds \cup {NoFileId}]

ASSUME WorkersAssumption == IsFiniteSet(Workers) /\ Workers # {} /\ NoOne \notin Workers
ASSUME CapacityAssumption == Capacity \in Nat \ {0}
ASSUME TreeAssumption ==
    /\ Entries \in [Dirs -> SUBSET Entry]
    /\ DOMAIN RealPath \subseteq Dirs
    /\ MayDeny \subseteq Dirs
    /\ MayLose \subseteq Entry
    /\ NoFileId \notin FileIds
ASSUME QueryAssumption ==
    /\ RootDirs \in Seq(Dirs)
    /\ PatternRoots \in [Patterns -> SUBSET Roots]
    /\ FollowLinks \in BOOLEAN /\ CycleDetection \in BOOLEAN /\ Confine \in BOOLEAN
    /\ MaxOps \in Nat

VARIABLES
    denied, unread,                                     \* the file system's faults
    stack, outstanding, cancelled, containers, open, visited, lock,     \* Shared
    ring, cancel, fatal, fatalError, finished, nextId,                  \* Engine
    pc, job, failures, entries, entry, item, up, ends,  \* worker threads
    cpc, leftovers, closing, reason,                    \* coordinator thread
    sq, spc, batch,                                     \* submission queue, its thread
    kpc, ops,                                           \* client thread
    live, ended, got, last, terminal                    \* what the client has seen

fsVars     == <<denied, unread>>
sharedVars == <<stack, outstanding, cancelled, containers, open, visited, lock>>
flagVars   == <<cancel, fatal, fatalError, finished>>
workVars   == <<pc, job, failures, entries, entry, item, up, ends>>
coordVars  == <<cpc, leftovers, closing, reason>>
sqVars     == <<sq, spc, batch>>
viewVars   == <<live, ended, got, last, terminal>>
clientVars == <<kpc, ops, viewVars>>
vars == <<fsVars, sharedVars, ring, flagVars, nextId, workVars, coordVars, sqVars,
          clientVars>>

-----------------------------------------------------------------------------
(* Hash maps *)

Insert(map, key, value) ==
    [k \in DOMAIN map \cup {key} |-> IF k = key THEN value ELSE map[k]]

Delete(map, key) == Restrict(map, DOMAIN map \ {key})

-----------------------------------------------------------------------------
(* Jobs and completion items *)

Label == Names \cup Roots       \* a container is named by its entry or its root index

Job == [dir : Dirs, path : Seq(Names), container : Containers,
        parent : Containers \cup {NoContainer}, root : Roots, name : Label]

EnterItem == [type : {"Enter"}, id : Containers, parent : Containers \cup {NoContainer},
              name : Label]
EndItem   == [type : {"End"}, id : Containers]
MatchItem == [type : {"Match"}, container : Containers, name : Names,
              matched : SUBSET Patterns]
BlockItem == [type : {"Blocked"}, container : Containers, name : Names]
ErrorItem == [type : {"Error"}, container : Containers \cup {NoContainer},
              name : Label]
Reasons   == {"Completed", "Cancelled", "Failed"}
TerminalItem == [type : {"Terminal"}, reason : Reasons]
Item == EnterItem \cup EndItem \cup MatchItem \cup BlockItem \cup ErrorItem
          \cup TerminalItem

RootJob(r, cid) ==
    [dir |-> RootDirs[r], path |-> <<>>, container |-> cid, parent |-> NoContainer,
     root |-> r, name |-> r]

ChildJob(j, e, cid) ==
    [dir |-> e.target, path |-> Append(j.path, e.name), container |-> cid,
     parent |-> j.container, root |-> j.root, name |-> e.name]

Enter(j) == [type |-> "Enter", id |-> j.container, parent |-> j.parent, name |-> j.name]
End(id) == [type |-> "End", id |-> id]
Matched(j, e, ps) ==
    [type |-> "Match", container |-> j.container, name |-> e.name, matched |-> ps]
Blocked(j, e) == [type |-> "Blocked", container |-> j.container, name |-> e.name]

\* Mutant: the error is put into the container that was never entered.
OpenErrorOfItself(j) == [type |-> "Error", container |-> j.container, name |-> j.name]

\* The directory could not be opened: the error belongs to the parent being scanned.
OpenError(j) == [type |-> "Error", container |-> j.parent, name |-> j.name]
\* The metadata of one entry could not be read.
ReadError(j, e) == [type |-> "Error", container |-> j.container, name |-> e.name]
Terminal(r) == [type |-> "Terminal", reason |-> r]

-----------------------------------------------------------------------------
(* The query's view of one entry *)

HitsOf(j, e) ==
    {p \in Patterns : j.root \in PatternRoots[p] /\ Hit(p, Append(j.path, e.name), e)}

DirCandidate(e) == IF e.kind = "link" THEN FollowLinks ELSE e.kind = "dir"

\* Mutant: only a directory that matches itself is descended into.
DescendsOnHit(j, e) == DirCandidate(e) /\ Admits(e) /\ HitsOf(j, e) # {}

Descends(j, e) ==
    /\ DirCandidate(e) /\ Admits(e)
    /\ \E p \in Patterns : j.root \in PatternRoots[p] /\ Viable(p, Append(j.path, e.name))

\* Mutant: components are compared up to the shorter path, so a root's ancestors pass.
WithinEither(root, path) ==
    \A k \in DOMAIN root \cap DOMAIN path : path[k] = root[k]

\* Component-wise: a sibling whose name begins with the root's name is not within it.
Within(root, path) == Len(path) >= Len(root) /\ SubSeq(path, 1, Len(root)) = root

\* Computed once; a root that cannot be canonicalized contains nothing.
ConfinedRoots ==
    IF Confine /\ FollowLinks
    THEN {RealPath[d] : d \in {RootDirs[r] : r \in Roots} \cap DOMAIN RealPath}
    ELSE {}

\* Fail-closed: a target that cannot be canonicalized escapes.
Escapes(e) ==
    /\ e.kind = "link" /\ Confine
    /\ e.target \in DOMAIN RealPath =>
           ~\E root \in ConfinedRoots : Within(root, RealPath[e.target])

\* Mutant: the visited set is kept for links of unknown identity instead.
HasNoIdentity(e) == e.kind = "link" /\ CycleDetection /\ e.id = NoFileId

\* admit_descend consults the visited set for reparse points of known identity only.
HasIdentity(e) == e.kind = "link" /\ CycleDetection /\ e.id # NoFileId

-----------------------------------------------------------------------------
(* Initial state: `spawn` seeds one job per root that some pattern applies to. *)

Referenced == {r \in Roots : \E p \in Patterns : r \in PatternRoots[p]}

Increasing(s) == \A i, k \in DOMAIN s : i < k => s[i] < s[k]

NoJob == [container |-> NoContainer]
NoItem == [type |-> "none"]
NoEntry == [kind |-> "none"]

Init ==
    /\ denied \in SUBSET MayDeny
    /\ unread \in SUBSET MayLose
    /\ \E seeds \in [1..Cardinality(Referenced) -> Referenced] :
         /\ Increasing(seeds)
         /\ stack = [k \in DOMAIN seeds |-> RootJob(seeds[k], k)]
         /\ containers = [k \in DOMAIN seeds |-> [parent |-> NoContainer, refcount |-> 1]]
    /\ outstanding = Cardinality(Referenced)
    /\ nextId = Cardinality(Referenced) + 1
    /\ cancelled = FALSE
    /\ open = <<>>
    /\ visited = {}
    /\ lock = NoOne
    /\ ring = <<>>
    /\ cancel = FALSE /\ fatal = FALSE /\ fatalError = {} /\ finished = FALSE
    /\ pc = [w \in Workers |-> "next"]
    /\ job = [w \in Workers |-> NoJob]
    /\ failures = [w \in Workers |-> {}]
    /\ entries = [w \in Workers |-> {}]
    /\ entry = [w \in Workers |-> NoEntry]
    /\ item = [w \in Workers |-> NoItem]
    /\ up = [w \in Workers |-> NoContainer]
    /\ ends = [w \in Workers |-> <<>>]
    /\ cpc = "join" /\ leftovers = {} /\ closing = NoContainer /\ reason = "Completed"
    /\ sq = <<>> /\ spc = "check" /\ batch = <<>>
    /\ kpc = "serving" /\ ops = 0
    /\ live = <<>> /\ ended = {} /\ got = EmptyBag /\ last = NoItem /\ terminal = "none"

-----------------------------------------------------------------------------
(* Helpers of the steps *)

Goto(w, step) == pc' = [pc EXCEPT ![w] = step]

\* Mutant: the wake is forgotten.
NoneWoken == pc

\* notify_all: every worker waiting on work_cv returns to the head of its loop.
AllWoken == [w \in Workers |-> IF pc[w] = "waiting" THEN "next" ELSE pc[w]]

Unlocked == lock = NoOne

\* Mutant: a refused enter skips the release of the container and the completion of the job.
ResumedSkipping(w, pushed) ==
    CASE item[w].type = "Enter"   -> IF pushed THEN "opened" ELSE "next"
      [] item[w].type = "Match"   -> "descend"
      [] item[w].type = "Blocked" -> "scan"
      [] item[w].type = "Error"   ->
            IF item[w].container = job[w].container THEN "scan" ELSE "release"

\* Mutant: a directory is read again after the metadata of one of its entries could not be.
ResumedRetrying(w, pushed) ==
    CASE item[w].type = "Enter"   -> IF pushed THEN "opened" ELSE "release"
      [] item[w].type = "Match"   -> "descend"
      [] item[w].type = "Blocked" -> "scan"
      [] item[w].type = "Error"   ->
            IF item[w].container = job[w].container THEN "enumerate" ELSE "release"

\* A bailable emit ended: pushed, or refused because the cancel flag was seen.
Resumed(w, pushed) ==
    CASE item[w].type = "Enter"   -> IF pushed THEN "opened" ELSE "release"
      [] item[w].type = "Match"   -> "descend"
      [] item[w].type = "Blocked" -> "scan"
      [] item[w].type = "Error"   ->
            IF item[w].container = job[w].container THEN "scan" ELSE "release"

Offer(w, i) == item' = [item EXCEPT ![w] = i] /\ Goto(w, "offer")

\* Mutant: the test of the ring is off by one.
RoomForOneMore == Len(ring) <= Capacity

Room == Len(ring) < Capacity

-----------------------------------------------------------------------------
(* Worker threads *)

\* next_job, the lock held: exit, take the top of the stack, finish the walk, or wait.
NextJob(w) ==
    /\ pc[w] = "next" /\ Unlocked
    /\ \/ /\ cancelled
          /\ Goto(w, "exit")
          /\ UNCHANGED <<stack, job>>
       \/ /\ ~cancelled /\ stack # <<>>
          /\ job' = [job EXCEPT ![w] = stack[Len(stack)]]
          /\ stack' = SubSeq(stack, 1, Len(stack) - 1)
          /\ Goto(w, "enumerate")
       \/ /\ ~cancelled /\ stack = <<>> /\ outstanding = 0
          /\ pc' = [AllWoken EXCEPT ![w] = "exit"]
          /\ UNCHANGED <<stack, job>>
       \/ /\ ~cancelled /\ stack = <<>> /\ outstanding # 0
          /\ Goto(w, "waiting")
          /\ UNCHANGED <<stack, job>>
    /\ UNCHANGED <<fsVars, outstanding, cancelled, containers, open, visited, lock, ring,
                   flagVars, nextId, failures, entries, entry, item, up, ends, coordVars,
                   sqVars, clientVars>>

\* sys::enumerate: the whole directory is read before its container is announced.  A root
\* that cannot be opened owes no item here; a child's failure is its parent's error.
Enumerate(w) ==
    /\ pc[w] = "enumerate"
    /\ LET j == job[w] IN
       \/ /\ j.dir \in denied /\ j.parent = NoContainer
          /\ Goto(w, "release")
          /\ UNCHANGED <<failures, entries, item>>
       \/ /\ j.dir \in denied /\ j.parent # NoContainer
          /\ Offer(w, OpenError(j))
          /\ UNCHANGED <<failures, entries>>
       \/ /\ j.dir \notin denied
          /\ failures' = [failures EXCEPT ![w] = Entries[j.dir] \cap unread]
          /\ entries' = [entries EXCEPT ![w] = Entries[j.dir] \ unread]
          /\ Offer(w, Enter(j))
    /\ UNCHANGED <<fsVars, sharedVars, ring, flagVars, nextId, job, entry, up, ends,
                   coordVars, sqVars, clientVars>>

\* emit, the load of the cancel flag.
LoadCancel(w) ==
    /\ pc[w] = "offer"
    /\ Goto(w, IF cancel THEN Resumed(w, FALSE) ELSE "push")
    /\ item' = IF cancel THEN [item EXCEPT ![w] = NoItem] ELSE item
    /\ UNCHANGED <<fsVars, sharedVars, ring, flagVars, nextId, job, failures, entries, entry,
                   up, ends, coordVars, sqVars, clientVars>>

\* Mutant: the cancel flag is looked at before the loop only.
TryPushOnly(w) ==
    /\ pc[w] = "push" /\ Room
    /\ ring' = Append(ring, item[w])
    /\ Goto(w, Resumed(w, TRUE))
    /\ item' = [item EXCEPT ![w] = NoItem]
    /\ UNCHANGED <<fsVars, sharedVars, flagVars, nextId, job, failures, entries, entry, up,
                   ends, coordVars, sqVars, clientVars>>

\* emit, the push: a full ring sends the worker back to look at the cancel flag.
TryPush(w) ==
    /\ pc[w] = "push"
    /\ IF Room
       THEN /\ ring' = Append(ring, item[w])
            /\ Goto(w, Resumed(w, TRUE))
            /\ item' = [item EXCEPT ![w] = NoItem]
       ELSE /\ Goto(w, "offer")
            /\ UNCHANGED <<ring, item>>
    /\ UNCHANGED <<fsVars, sharedVars, flagVars, nextId, job, failures, entries, entry, up,
                   ends, coordVars, sqVars, clientVars>>

\* The enter is out: the container now owes an end, keyed to its depth.
MarkOpen(w) ==
    /\ pc[w] = "opened" /\ Unlocked
    /\ open' = Insert(open, job[w].container, Len(job[w].path))
    /\ Goto(w, "scan")
    /\ UNCHANGED <<fsVars, stack, outstanding, cancelled, containers, visited, lock, ring,
                   flagVars, nextId, job, failures, entries, entry, item, up, ends,
                   coordVars, sqVars, clientVars>>

\* One turn of the loops of `process`: first the failed reads, then the entries, in the
\* order the directory listed them (any); the cancel flag ends the second loop.
Scan(w) ==
    /\ pc[w] = "scan"
    /\ \/ \E e \in failures[w] :
            /\ failures' = [failures EXCEPT ![w] = @ \ {e}]
            /\ Offer(w, ReadError(job[w], e))
            /\ UNCHANGED <<entries, entry>>
       \/ /\ failures[w] = {}
          /\ cancel \/ entries[w] = {}
          /\ entries' = [entries EXCEPT ![w] = {}]
          /\ Goto(w, "release")
          /\ UNCHANGED <<failures, entry, item>>
       \/ /\ failures[w] = {}
          /\ ~cancel
          /\ \E e \in entries[w] :
               /\ entries' = [entries EXCEPT ![w] = @ \ {e}]
               /\ entry' = [entry EXCEPT ![w] = e]
               /\ LET hits == HitsOf(job[w], e) IN
                  IF hits # {} THEN Offer(w, Matched(job[w], e, hits))
                               ELSE Goto(w, "descend") /\ UNCHANGED item
          /\ UNCHANGED failures
    /\ UNCHANGED <<fsVars, sharedVars, ring, flagVars, nextId, job, up, ends, coordVars,
                   sqVars, clientVars>>

\* The descend half of the loop body: confinement first, then the visited set.
Descend(w) ==
    /\ pc[w] = "descend"
    /\ LET e == entry[w] IN
       \/ /\ ~Descends(job[w], e)
          /\ Goto(w, "scan")
          /\ UNCHANGED <<item, visited>>
       \/ /\ Descends(job[w], e) /\ Escapes(e)
          /\ Offer(w, Blocked(job[w], e))
          /\ UNCHANGED visited
       \/ /\ Descends(job[w], e) /\ ~Escapes(e)
          /\ IF HasIdentity(e)
             THEN /\ Unlocked
                  /\ visited' = visited \cup {e.id}
                  /\ Goto(w, IF e.id \in visited THEN "scan" ELSE "launch")
             ELSE /\ Goto(w, "launch")
                  /\ UNCHANGED visited
          /\ UNCHANGED item
    /\ UNCHANGED <<fsVars, stack, outstanding, cancelled, containers, open, lock, ring,
                   flagVars, nextId, job, failures, entries, entry, up, ends, coordVars,
                   sqVars, clientVars>>

\* Mutant: the parent's count does not include the child.
AdoptUncounted(p) == Insert(containers, nextId, [parent |-> p, refcount |-> 1])

\* The child as a container of its own, counted by its parent p.
Adopt(p) ==
    Insert([containers EXCEPT ![p].refcount = @ + 1], nextId, [parent |-> p, refcount |-> 1])

\* launch_child, the critical section.  Taking the id is a fetch_add outside the lock; ids
\* are opaque, so it is part of the section here.
Launch(w) ==
    /\ pc[w] = "launch" /\ Unlocked
    /\ containers' = Adopt(job[w].container)
    /\ stack' = Append(stack, ChildJob(job[w], entry[w], nextId))
    /\ outstanding' = outstanding + 1
    /\ nextId' = nextId + 1
    /\ Goto(w, "notify")
    /\ UNCHANGED <<fsVars, cancelled, open, visited, lock, ring, flagVars, job, failures,
                   entries, entry, item, up, ends, coordVars, sqVars, clientVars>>

\* Mutant: nobody is woken.
NotifyNobody(w) ==
    /\ pc[w] = "notify"
    /\ Goto(w, "scan")
    /\ UNCHANGED <<fsVars, sharedVars, ring, flagVars, nextId, job, failures, entries, entry,
                   item, up, ends, coordVars, sqVars, clientVars>>

\* launch_child, after the unlock: notify_one wakes some waiting worker, if there is one.
NotifyOne(w) ==
    /\ pc[w] = "notify"
    /\ \/ /\ \A v \in Workers : pc[v] # "waiting"
          /\ Goto(w, "scan")
       \/ \E v \in Workers :
            /\ pc[v] = "waiting"
            /\ pc' = [pc EXCEPT ![v] = "next", ![w] = "scan"]
    /\ UNCHANGED <<fsVars, sharedVars, ring, flagVars, nextId, job, failures, entries, entry,
                   item, up, ends, coordVars, sqVars, clientVars>>

\* release: take the lock ...
Release(w) ==
    /\ pc[w] = "release" /\ Unlocked
    /\ lock' = w
    /\ up' = [up EXCEPT ![w] = job[w].container]
    /\ entry' = [entry EXCEPT ![w] = NoEntry]
    /\ Goto(w, "cascade")
    /\ UNCHANGED <<fsVars, stack, outstanding, cancelled, containers, open, visited, ring,
                   flagVars, nextId, job, failures, entries, item, ends, coordVars, sqVars,
                   clientVars>>

\* ... and walk up: each container whose count reaches zero is removed and its parent is
\* next.  The guard is the `expect` of the code; a worker for which it fails is lost.
Cascade(w) ==
    /\ pc[w] = "cascade"
    /\ up[w] \in DOMAIN containers
    /\ LET id == up[w]
           st == containers[id]
       IN IF st.refcount = 1
          THEN /\ containers' = Delete(containers, id)
               /\ ends' = [ends EXCEPT ![w] = Append(@, id)]
               /\ up' = [up EXCEPT ![w] = st.parent]
               /\ IF st.parent = NoContainer THEN lock' = NoOne /\ Goto(w, "ends")
                                             ELSE UNCHANGED <<lock, pc>>
          ELSE /\ containers' = [containers EXCEPT ![id].refcount = @ - 1]
               /\ up' = [up EXCEPT ![w] = NoContainer]
               /\ lock' = NoOne /\ Goto(w, "ends")
               /\ UNCHANGED ends
    /\ UNCHANGED <<fsVars, stack, outstanding, cancelled, open, visited, ring, flagVars,
                   nextId, job, failures, entries, entry, item, coordVars, sqVars,
                   clientVars>>

\* emit_ends: each released container gives up its place in `open`; if it held one, its
\* end is owed.  After the last, a root that could not be opened goes on to request_fatal.
EmitEnds(w) ==
    /\ pc[w] = "ends"
    /\ \/ /\ ends[w] = <<>>
          /\ Goto(w, IF job[w].dir \in denied /\ job[w].parent = NoContainer
                     THEN "slot" ELSE "complete")
          /\ UNCHANGED <<open, item, ends>>
       \/ /\ ends[w] # <<>> /\ Unlocked
          /\ LET id == Head(ends[w]) IN
             /\ open' = Delete(open, id)
             /\ IF id \in DOMAIN open
                THEN Goto(w, "end") /\ item' = [item EXCEPT ![w] = End(id)]
                ELSE UNCHANGED <<pc, item>>
          /\ ends' = [ends EXCEPT ![w] = Tail(@)]
    /\ UNCHANGED <<fsVars, stack, outstanding, cancelled, containers, visited, lock, ring,
                   flagVars, nextId, job, failures, entries, entry, up, coordVars, sqVars,
                   clientVars>>

\* push_mandatory by a worker: never looks at the cancel flag.
PushEnd(w) ==
    /\ pc[w] = "end" /\ Room
    /\ ring' = Append(ring, item[w])
    /\ item' = [item EXCEPT ![w] = NoItem]
    /\ Goto(w, "ends")
    /\ UNCHANGED <<fsVars, sharedVars, flagVars, nextId, job, failures, entries, entry, up,
                   ends, coordVars, sqVars, clientVars>>

\* request_fatal: keep the first error ...
StashError(w) ==
    /\ pc[w] = "slot"
    /\ fatalError' = IF fatalError = {} THEN {OpenError(job[w])} ELSE fatalError
    /\ Goto(w, "flag")
    /\ UNCHANGED <<fsVars, sharedVars, ring, cancel, fatal, finished, nextId, job, failures,
                   entries, entry, item, up, ends, coordVars, sqVars, clientVars>>

\* ... raise the fatal flag, then request_cancel.
RaiseFatal(w) ==
    /\ pc[w] = "flag"
    /\ fatal' = TRUE
    /\ Goto(w, "swap")
    /\ UNCHANGED <<fsVars, sharedVars, ring, cancel, fatalError, finished, nextId, job,
                   failures, entries, entry, item, up, ends, coordVars, sqVars, clientVars>>

\* request_cancel, the swap of the flag: only the first caller goes on.
WorkerCancel(w) ==
    /\ pc[w] = "swap"
    /\ cancel' = TRUE
    /\ Goto(w, IF cancel THEN "complete" ELSE "halt")
    /\ UNCHANGED <<fsVars, sharedVars, ring, fatal, fatalError, finished, nextId, job,
                   failures, entries, entry, item, up, ends, coordVars, sqVars, clientVars>>

\* request_cancel, the critical section.
WorkerHalt(w) ==
    /\ pc[w] = "halt" /\ Unlocked
    /\ cancelled' = TRUE
    /\ Goto(w, "wake")
    /\ UNCHANGED <<fsVars, stack, outstanding, containers, open, visited, lock, ring,
                   flagVars, nextId, job, failures, entries, entry, item, up, ends,
                   coordVars, sqVars, clientVars>>

\* request_cancel, after the unlock: the wake of every idle worker, and of whoever is parked
\* on a full ring.
WorkerWake(w) ==
    /\ pc[w] = "wake"
    /\ pc' = [AllWoken EXCEPT ![w] = "complete"]
    /\ UNCHANGED <<fsVars, sharedVars, ring, flagVars, nextId, job, failures, entries, entry,
                   item, up, ends, coordVars, sqVars, clientVars>>

\* complete_job: the last one wakes the idle workers so that they exit.
CompleteJob(w) ==
    /\ pc[w] = "complete" /\ Unlocked
    /\ outstanding' = outstanding - 1
    /\ pc' = [(IF outstanding = 1 THEN AllWoken ELSE pc) EXCEPT ![w] = "next"]
    /\ job' = [job EXCEPT ![w] = NoJob]
    /\ UNCHANGED <<fsVars, stack, cancelled, containers, open, visited, lock, ring, flagVars,
                   nextId, failures, entries, entry, item, up, ends, coordVars, sqVars,
                   clientVars>>

Worker(w) ==
    \/ NextJob(w) \/ Enumerate(w) \/ LoadCancel(w) \/ TryPush(w) \/ MarkOpen(w)
    \/ Scan(w) \/ Descend(w) \/ Launch(w) \/ NotifyOne(w) \/ Release(w) \/ Cascade(w)
    \/ EmitEnds(w) \/ PushEnd(w) \/ StashError(w) \/ RaiseFatal(w) \/ WorkerCancel(w)
    \/ WorkerHalt(w) \/ WorkerWake(w) \/ CompleteJob(w)

-----------------------------------------------------------------------------
(* Coordinator thread *)

\* Mutant: the coordinator waits for one worker only.
JoinedOne == \E w \in Workers : pc[w] = "exit"

Joined == \A w \in Workers : pc[w] = "exit"

\* Join the workers, then copy what is still open (nothing adds to it any more).
Join ==
    /\ cpc = "join" /\ Joined /\ Unlocked
    /\ leftovers' = DOMAIN open
    /\ cpc' = "close"
    /\ UNCHANGED <<fsVars, sharedVars, ring, flagVars, nextId, workVars, closing, reason,
                   sqVars, clientVars>>

\* Mutant: the leftovers are sorted shallowest first.
Shallowest(id) == \A other \in leftovers : open[other] >= open[id]

Deepest(id) == \A other \in leftovers : open[other] <= open[id]

\* emit_end of the deepest leftover: its place in `open` is given up under the lock.
Close ==
    /\ cpc = "close" /\ leftovers # {} /\ Unlocked
    /\ \E id \in leftovers :
         /\ Deepest(id)
         /\ leftovers' = leftovers \ {id}
         /\ open' = Delete(open, id)
         /\ closing' = id
    /\ cpc' = "end"
    /\ UNCHANGED <<fsVars, stack, outstanding, cancelled, containers, visited, lock, ring,
                   flagVars, nextId, workVars, reason, sqVars, clientVars>>

PushLeftover ==
    /\ cpc = "end" /\ Room
    /\ ring' = Append(ring, End(closing))
    /\ closing' = NoContainer
    /\ cpc' = "close"
    /\ UNCHANGED <<fsVars, sharedVars, flagVars, nextId, workVars, leftovers, reason, sqVars,
                   clientVars>>

\* Mutant: a fatal stop, which sets the cancel flag too, is taken for a cancel.
OutcomeCancelFirst == IF cancel THEN "Cancelled" ELSE IF fatal THEN "Failed" ELSE "Completed"

Outcome == IF fatal THEN "Failed" ELSE IF cancel THEN "Cancelled" ELSE "Completed"

\* The reason is read from the flags once every end is out.
Conclude ==
    /\ cpc = "close" /\ leftovers = {}
    /\ reason' = Outcome
    /\ cpc' = "cause"
    /\ UNCHANGED <<fsVars, sharedVars, ring, flagVars, nextId, workVars, leftovers, closing,
                   sqVars, clientVars>>

\* The causing error of a fatal stop goes out immediately before the terminal.
PushCause ==
    /\ cpc = "cause"
    /\ \/ /\ fatalError = {}
          /\ UNCHANGED <<ring, fatalError>>
       \/ /\ Room
          /\ \E e \in fatalError : ring' = Append(ring, e)
          /\ fatalError' = {}
    /\ cpc' = "terminal"
    /\ UNCHANGED <<fsVars, sharedVars, cancel, fatal, finished, nextId, workVars, leftovers,
                   closing, reason, sqVars, clientVars>>

PushTerminal ==
    /\ cpc = "terminal" /\ Room
    /\ ring' = Append(ring, Terminal(reason))
    /\ cpc' = "finish"
    /\ UNCHANGED <<fsVars, sharedVars, flagVars, nextId, workVars, leftovers, closing, reason,
                   sqVars, clientVars>>

Finish ==
    /\ cpc = "finish"
    /\ finished' = TRUE
    /\ cpc' = "done"
    /\ UNCHANGED <<fsVars, sharedVars, ring, cancel, fatal, fatalError, nextId, workVars,
                   leftovers, closing, reason, sqVars, clientVars>>

Coordinator == Join \/ Close \/ PushLeftover \/ Conclude \/ PushCause \/ PushTerminal \/ Finish

-----------------------------------------------------------------------------
(* The thread that services the submission queue.  Its wait is timed (25 ms), so it comes  *)
(* back to the flag by itself.                                                             *)

SqCheck ==
    /\ spc = "check"
    /\ spc' = IF finished THEN "done" ELSE "drain"
    /\ UNCHANGED <<fsVars, sharedVars, ring, flagVars, nextId, workVars, coordVars, sq, batch,
                   clientVars>>

SqDrain ==
    /\ spc = "drain"
    /\ batch' = sq
    /\ sq' = <<>>
    /\ spc' = IF sq = <<>> THEN "check" ELSE "serve"
    /\ UNCHANGED <<fsVars, sharedVars, ring, flagVars, nextId, workVars, coordVars,
                   clientVars>>

\* One op of the batch: Cancel is request_cancel's swap, an answer has no waiter yet.
SqServe ==
    /\ spc = "serve"
    /\ \/ /\ batch = <<>>
          /\ spc' = "check"
          /\ UNCHANGED <<batch, cancel>>
       \/ /\ batch # <<>> /\ Head(batch) = "DecisionAnswer"
          /\ batch' = Tail(batch)
          /\ UNCHANGED <<spc, cancel>>
       \/ /\ batch # <<>> /\ Head(batch) = "Cancel"
          /\ batch' = Tail(batch)
          /\ cancel' = TRUE
          /\ spc' = IF cancel THEN "serve" ELSE "halt"
    /\ UNCHANGED <<fsVars, sharedVars, ring, fatal, fatalError, finished, nextId, workVars,
                   coordVars, sq, clientVars>>

SqHalt ==
    /\ spc = "halt" /\ Unlocked
    /\ cancelled' = TRUE
    /\ spc' = "wake"
    /\ UNCHANGED <<fsVars, stack, outstanding, containers, open, visited, lock, ring,
                   flagVars, nextId, workVars, coordVars, sq, batch, clientVars>>

SqWake ==
    /\ spc = "wake"
    /\ pc' = AllWoken
    /\ spc' = "serve"
    /\ UNCHANGED <<fsVars, sharedVars, ring, flagVars, nextId, job, failures, entries, entry,
                   item, up, ends, coordVars, sq, batch, clientVars>>

SqThread == SqCheck \/ SqDrain \/ SqServe \/ SqHalt \/ SqWake

-----------------------------------------------------------------------------
(* The client: it keeps the containers that are live, as a consumer of the stream must to  *)
(* turn a (container, name) pair into a path.                                              *)

\* Where an item of container c lies: its labels from the root down.
At(c) == IF c \in DOMAIN live THEN live[c].path ELSE <<>>

Above(c) == IF c \in DOMAIN live THEN live[c].above \cup {c} ELSE {c} \ {NoContainer}

See(i) ==
    /\ last' = i
    /\ live' = CASE i.type = "Enter" ->
                      Insert(live, i.id, [path |-> Append(At(i.parent), i.name),
                                          above |-> Above(i.parent)])
                 [] i.type = "End" -> Delete(live, i.id)
                 [] OTHER -> live
    /\ ended' = IF i.type = "End" THEN ended \cup {i.id} ELSE ended
    /\ got' = IF i.type \in {"Match", "Blocked", "Error"}
              THEN got (+) SetToBag({[type |-> i.type,
                                      path |-> Append(At(i.container), i.name),
                                      matched |-> IF i.type = "Match" THEN i.matched ELSE {}]})
              ELSE got
    /\ terminal' = IF i.type = "Terminal" THEN i.reason ELSE terminal

Pop ==
    /\ ring # <<>>
    /\ See(Head(ring))
    /\ ring' = Tail(ring)

\* The client drains, by pop, drain or wait_pop.
ClientPop ==
    /\ kpc = "serving"
    /\ Pop
    /\ UNCHANGED <<fsVars, sharedVars, flagVars, nextId, workVars, coordVars, sqVars, kpc, ops>>

ClientSubmit ==
    /\ kpc = "serving" /\ ops < MaxOps
    /\ \E op \in {"Cancel", "DecisionAnswer"} : sq' = Append(sq, op)
    /\ ops' = ops + 1
    /\ UNCHANGED <<fsVars, sharedVars, ring, flagVars, nextId, workVars, coordVars, spc,
                   batch, kpc, viewVars>>

\* Drop of the handle, the swap of request_cancel ...
DropHandle ==
    /\ kpc = "serving"
    /\ cancel' = TRUE
    /\ kpc' = IF cancel THEN "drain" ELSE "halt"
    /\ UNCHANGED <<fsVars, sharedVars, ring, fatal, fatalError, finished, nextId, workVars,
                   coordVars, sqVars, ops, viewVars>>

\* ... its critical section ...
DropHalt ==
    /\ kpc = "halt" /\ Unlocked
    /\ cancelled' = TRUE
    /\ kpc' = "wake"
    /\ UNCHANGED <<fsVars, stack, outstanding, containers, open, visited, lock, ring,
                   flagVars, nextId, workVars, coordVars, sqVars, ops, viewVars>>

\* ... the wake after it ...
DropWake ==
    /\ kpc = "wake"
    /\ pc' = AllWoken
    /\ kpc' = "drain"
    /\ UNCHANGED <<fsVars, sharedVars, ring, flagVars, nextId, job, failures, entries, entry,
                   item, up, ends, coordVars, sqVars, ops, viewVars>>

\* Mutant: the drop waits for the walk to finish and drains the ring only then.
DropDrainLate ==
    /\ kpc = "drain" /\ finished
    /\ \/ Pop /\ UNCHANGED kpc
       \/ ring = <<>> /\ kpc' = "join" /\ UNCHANGED <<ring, viewVars>>
    /\ UNCHANGED <<fsVars, sharedVars, flagVars, nextId, workVars, coordVars, sqVars, ops>>

\* ... the drain until `finished` and once more ...
DropDrain ==
    /\ kpc = "drain"
    /\ \/ /\ Pop
          /\ UNCHANGED kpc
       \/ /\ ring = <<>> /\ finished
          /\ kpc' = "join"
          /\ UNCHANGED <<ring, viewVars>>
    /\ UNCHANGED <<fsVars, sharedVars, flagVars, nextId, workVars, coordVars, sqVars, ops>>

\* Mutant: the submission thread is not joined.
DropJoinOne ==
    /\ kpc = "join" /\ cpc = "done"
    /\ kpc' = "gone"
    /\ UNCHANGED <<fsVars, sharedVars, ring, flagVars, nextId, workVars, coordVars, sqVars,
                   ops, viewVars>>

\* ... and the joins of the coordinator and of the submission thread.
DropJoin ==
    /\ kpc = "join" /\ cpc = "done" /\ spc = "done"
    /\ kpc' = "gone"
    /\ UNCHANGED <<fsVars, sharedVars, ring, flagVars, nextId, workVars, coordVars, sqVars,
                   ops, viewVars>>

Dropping == DropHalt \/ DropWake \/ DropDrain \/ DropJoin

Gone == kpc = "gone" /\ UNCHANGED vars

Client == ClientPop \/ ClientSubmit \/ DropHandle \/ Dropping \/ Gone

Next == (\E w \in Workers : Worker(w)) \/ Coordinator \/ SqThread \/ Client

\* The operating system runs every engine thread, and a thread inside Drop goes on.
EngineFairness ==
    /\ \A w \in Workers : WF_vars(Worker(w))
    /\ WF_vars(Coordinator) /\ WF_vars(SqThread) /\ WF_vars(Dropping)

Spec == Init /\ [][Next]_vars /\ EngineFairness
=============================================================================
