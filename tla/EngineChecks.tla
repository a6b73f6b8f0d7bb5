---------------------------- MODULE EngineChecks ----------------------------
(***************************************************************************)
(* The properties of the walking engine: what its accounting, its stream   *)
(* of completions and its teardown must satisfy.                           *)
(***************************************************************************)
EXTENDS Engine

CONSTANTS MaxContainers,    \* bound on the containers the walk of an instance creates
          MaxDepth          \* bound on the depth of the reference walk

\* A listed directory resolves where the one that lists it does: to that one's path and its name.
ASSUME RealPathAssumption ==
    /\ \A d \in DOMAIN RealPath : RealPath[d] \in Seq(Names)
    /\ \A d \in Dirs : \A e \in Entries[d] : e.kind = "dir" =>
         /\ d \in DOMAIN RealPath <=> e.target \in DOMAIN RealPath
         /\ d \in DOMAIN RealPath => RealPath[e.target] = Append(RealPath[d], e.name)

\* A directory lists a name once.
ASSUME ListingAssumption == \A d \in Dirs : \A e, f \in Entries[d] : e.name = f.name => e = f

ASSUME BoundsAssumption == MaxContainers \in Nat /\ MaxDepth \in Nat

TypeOK ==
    /\ denied \subseteq MayDeny /\ unread \subseteq MayLose
    /\ stack \in Seq(Job)
    /\ outstanding \in Nat /\ nextId \in Nat \ {0}
    /\ cancelled \in BOOLEAN /\ finished \in BOOLEAN /\ cancel \in BOOLEAN /\ fatal \in BOOLEAN
    /\ \A id \in DOMAIN containers :
         /\ id \in Containers
         /\ containers[id] \in [parent : Containers \cup {NoContainer}, refcount : Nat \ {0}]
    /\ \A id \in DOMAIN open : id \in Containers /\ open[id] \in Nat
    /\ visited \subseteq FileIds
    /\ lock \in Workers \cup {NoOne}
    /\ ring \in Seq(Item) /\ Len(ring) <= Capacity
    /\ fatalError \subseteq ErrorItem

-----------------------------------------------------------------------------
(* Accounting *)

Busy == {w \in Workers : pc[w] \notin {"next", "waiting", "exit"}}

\* A worker that has not yet given up its job's own share of the reference count.
Scanning == {w \in Busy : pc[w] \in {"enumerate", "offer", "push", "opened", "scan",
                                      "descend", "launch", "notify", "release"}}

\* The containers whose own scan is still to be released.
Pending == {stack[i].container : i \in DOMAIN stack}
             \cup {job[w].container : w \in Scanning}

Children(id) == {c \in DOMAIN containers : containers[c].parent = id}

\* `outstanding` counts the jobs on the stack and those in some worker's hands, so that 0
\* means the walk is over (D-9): an early 0 would drop a subtree, a late one would hang.
OutstandingIsExact == outstanding = Len(stack) + Cardinality(Busy)

\* A reference count is one for the container's own unreleased scan plus one per child
\* still accounted for, whatever the order in which workers launch and release; so `release`
\* finds every container it walks up to and its `expect` never panics.
RefcountIsExact ==
    /\ lock = NoOne =>
           \A id \in DOMAIN containers :
               containers[id].refcount =
                   Cardinality(Children(id)) + (IF id \in Pending THEN 1 ELSE 0)
    /\ \A w \in Workers : pc[w] = "cascade" => up[w] \in DOMAIN containers

\* request_cancel has let go of the lock, and its notify_all is still to come.
WakingAll == spc = "wake" \/ kpc = "wake" \/ \E w \in Workers : pc[w] = "wake"

\* No scan waits for a worker while one sleeps: as long as some worker is waiting, every
\* job on the stack has a worker of its own on its way to take it, or to wake one, or a
\* cancel is about to wake them all: the notify_one of launch_child and the notify_all of
\* request_cancel, which come after the unlock, are never lost.
NoScanIsStranded ==
    (\E w \in Workers : pc[w] = "waiting") =>
        \/ Len(stack) <= Cardinality({w \in Workers : pc[w] \in {"next", "notify"}})
        \/ WakingAll

\* Links that lead back up do not make the walk endless: a followed link is entered once per
\* identity, so the walk creates no more containers than directories and links allow (D-51).
WalkIsBounded == nextId - 1 <= MaxContainers

-----------------------------------------------------------------------------
(* The stream of completions *)

\* What the client knows of the containers above each live one, and its latest item.
LiveAbove == [c \in DOMAIN live |-> live[c].above]

LastSeen ==
    [kind |-> last.type,
     container |-> CASE last.type \in {"Enter", "End"} -> last.id
                     [] last.type \in {"Match", "Blocked", "Error"} -> last.container
                     [] OTHER -> NoContainer]

Stream == INSTANCE CompletionStream WITH
    Containers <- 1..MaxContainers, live <- DOMAIN live, above <- LiveAbove, last <- LastSeen

\* The items the client pops keep the promises of the completion queue, however workers,
\* the coordinator, a cancel and a full ring interleave (D-61, D-64, D-71).
StreamContract == Stream!Spec

\* Ends come bottom-up: a container does not end while a container below it is live
\* (README "ContainerEnds cascade bottom-up", D-64, tests/engine.rs:123).
BottomUpEnds ==
    [][\A id \in ended' \ ended : \A c \in DOMAIN live \ {id} : id \notin live[c].above]_vars

\* What a cancelled walk leaves open the coordinator ends bottom-up: no container below the
\* one it ends is still open (engine.rs:648, D-64).
LeftoversEndBottomUp ==
    cpc = "end" =>
        \A c \in leftovers : c \in DOMAIN containers /\ containers[c].parent # closing

-----------------------------------------------------------------------------
(* The reports a query asks for *)

\* A trail is the sequence of entries that lead from a root to a directory.
Listed == UNION {Entries[d] : d \in Dirs}
Trails == UNION {[1..n -> Listed] : n \in 0..MaxDepth}

\* The scan that the first n entries of a trail lead to.
ScanAt(r, trail, n) ==
    [dir |-> IF n = 0 THEN RootDirs[r] ELSE trail[n].target,
     path |-> [k \in 1..n |-> trail[k].name], root |-> r]

\* Each entry is read where the ones before it lead, Into lets the walk enter it, and it is no
\* link that the trail has followed before.
IsTrail(Into(_, _), r, trail) ==
    \A n \in DOMAIN trail :
        LET scan == ScanAt(r, trail, n - 1) IN
        /\ scan.dir \notin denied /\ trail[n] \in Entries[scan.dir] \ unread
        /\ Into(scan, trail[n])
        /\ \A k \in 1..(n - 1) : ~(HasIdentity(trail[k]) /\ HasIdentity(trail[n])
                                     /\ trail[k].id = trail[n].id)

\* The scans of a sequential walk that enters what Into lets it enter.
Walk(Into(_, _)) ==
    {ScanAt(way[1], way[2], Len(way[2])) :
        way \in {w \in Referenced \X Trails : IsTrail(Into, w[1], w[2])}}

\* Every directory the query admits, and those some pattern may still match below.
Admitted(j, e) == DirCandidate(e) /\ Admits(e) /\ ~Escapes(e)
Wanted(j, e) == Descends(j, e) /\ ~Escapes(e)

Report(type, path, matched) == [type |-> type, path |-> path, matched |-> matched]
PathOf(j) == <<j.root>> \o j.path

\* A match for each entry that some pattern hits.
Matches(j) ==
    {Report("Match", Append(PathOf(j), e.name), HitsOf(j, e)) :
        e \in {f \in Entries[j.dir] \ unread : j.dir \notin denied /\ HitsOf(j, f) # {}}}

\* What the engine trusts the matcher with: on the way to an entry that a pattern hits it prunes
\* nothing (descend_viable, syntax/set.rs:121; lemma PruningIsSound of MatcherProofs).
ASSUME PruningAssumption ==
    \A n \in 1..(MaxDepth + 1) : \A path \in [1..n -> Names] :
        \A p \in Patterns : \A e \in Listed :
            e.name = path[n] /\ Hit(p, path, e) =>
                \A k \in 1..(n - 1) : Viable(p, SubSeq(path, 1, k))

\* An error for the directory or each entry that cannot be read, and a block for each escaping
\* link where the patterns lead.
Faults(j) ==
    IF j.dir \in denied THEN {Report("Error", PathOf(j), {})}
    ELSE {Report("Error", Append(PathOf(j), e.name), {}) : e \in Entries[j.dir] \cap unread}
         \cup {Report("Blocked", Append(PathOf(j), e.name), {}) :
                 e \in {f \in Entries[j.dir] \ unread : Descends(j, f) /\ Escapes(f)}}

\* The matches in any admitted directory, whether or not the engine prunes it, and the faults
\* where the patterns lead.
Expected ==
    (UNION {Matches(j) : j \in Walk(Admitted)}) \cup (UNION {Faults(j) : j \in Walk(Wanted)})

\* A scan that the walk leads to owes the report, whose path bounds the trail.
Asked(report) ==
    \E r \in Referenced : \E n \in 0..Len(report.path) : \E trail \in [1..n -> Listed] :
        /\ IsTrail(Wanted, r, trail)
        /\ report \in Matches(ScanAt(r, trail, n)) \cup Faults(ScanAt(r, trail, n))

\* At any time the client holds only reports the query asks for: nothing from a directory that
\* was not to be read, and every item under the path of the entry it is about.
NothingUnasked == \A report \in BagToSet(got) : Asked(report)

\* It holds none of them twice, whatever a failure, a cancel or a full ring makes a worker repeat.
NothingTwice == \A report \in BagToSet(got) : got[report] = 1

\* A walk that ends Completed dropped nothing: the client holds every report exactly once
\* and every referenced root was opened.
CompletedIsComplete ==
    terminal = "Completed" =>
        /\ got = SetToBag(Expected)
        /\ \A r \in Referenced : RootDirs[r] \notin denied

\* The two conditions under which a walk owes all of `Expected`: no trail outgrows MaxDepth,
ShallowEnough ==
    \A r \in Referenced : \A trail \in [1..(MaxDepth + 1) -> Listed] : ~IsTrail(Wanted, r, trail)

\* and no identity is reached by two trails, for the engine follows the first only.
Ways == {w \in Referenced \X Trails : w[2] # <<>> /\ IsTrail(Wanted, w[1], w[2])}
Latest(way) == way[2][Len(way[2])]

OneWayIn ==
    \A v, w \in Ways :
        HasIdentity(Latest(v)) /\ HasIdentity(Latest(w)) /\ Latest(v).id = Latest(w).id => v = w

\* The instance allows a container for each scan of the sequential walk.
Roomy == IsFiniteSet(Walk(Wanted)) /\ Cardinality(Walk(Wanted)) <= MaxContainers

-----------------------------------------------------------------------------
(* Confinement *)

\* A directory lies where its path says: in a supplied root; or it has none to tell by, which
\* only what lies below a root that has none may lack.
Confined(d) ==
    IF d \in DOMAIN RealPath
    THEN \E r \in Roots :
           /\ RootDirs[r] \in DOMAIN RealPath
           /\ \E n \in 0..Len(RealPath[d]) : SubSeq(RealPath[d], 1, n) = RealPath[RootDirs[r]]
    ELSE \E r \in Roots : RootDirs[r] \notin DOMAIN RealPath

\* A confined walk reads no directory that lies outside the roots, be it a sibling or an ancestor
\* of one or a target that cannot be resolved (D-75).
ConfinedWalk ==
    Confine => \A w \in Workers : pc[w] = "enumerate" => Confined(job[w].dir)

-----------------------------------------------------------------------------
(* Teardown and progress *)

\* Once the client's drop has returned no engine thread runs, the submission queue is
\* abandoned, and the ring was drained of every item down to the terminal, so that every
\* container that was entered has ended.
DropLeavesNothing ==
    kpc = "gone" => /\ Joined /\ cpc = "done" /\ spc = "done"
                    /\ ring = <<>> /\ terminal # "none" /\ DOMAIN live = {}

\* A client that keeps draining, or drops its handle, sees the terminal.
Termination == WF_vars(ClientPop) => <>(terminal # "none")

\* A dropped handle is torn down although nobody else drains the ring.
DropReturns == kpc \in {"halt", "wake", "drain"} ~> kpc = "gone"

\* A submitted Cancel ends the reports for good, although a full ring holds up every worker
\* and the client does not drain it: no worker is left that waits to push one.
CancelIsHonoured ==
    (\E n \in DOMAIN sq : sq[n] = "Cancel") ~>
        [](\A w \in Workers : pc[w] \notin {"offer", "push"})
=============================================================================
