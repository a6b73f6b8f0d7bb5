------------------------------ MODULE WalkProofs ------------------------------
(***************************************************************************)
(* What the walk reads and reports (engine.rs): proofs that a confined     *)
(* walk stays in its roots; that the client is told only what the query    *)
(* asks for, each of it once and, when the walk ends Completed, all of it; *)
(* and that a walk creates a container for each scan the query asks for    *)
(* and no other, for every pool of workers, ring capacity, file system,    *)
(* query and matcher.                                                      *)
(***************************************************************************)
EXTENDS EngineProofs, WellFoundedInduction

-----------------------------------------------------------------------------
(* The engine forgets a scan when it is done while its items still travel   *)
(* through the ring; so the invariant speaks of a memory of all the scans   *)
(* ever launched, each with the trail that led to it.                      *)

IsMemory(scans) == scans \in [Ids -> [job : Job, trail : Seq(Listed)]]

\* The identities that a trail has followed.
Followed(trail) == {trail[n].id : n \in {k \in DOMAIN trail : HasIdentity(trail[k])}}

\* The path of a container, in the client's eyes.
Place(scans, c) == IF c = NoContainer THEN <<>> ELSE PathOf(scans[c].job)

Recorded(scans, c) ==
    LET j == scans[c].job
        trail == scans[c].trail
    IN /\ j.container = c
       /\ j.root \in Referenced /\ IsTrail(Wanted, j.root, trail)
       /\ j.dir = ScanAt(j.root, trail, Len(trail)).dir
       /\ j.path = ScanAt(j.root, trail, Len(trail)).path
       /\ Confine => Confined(j.dir)
       /\ Followed(trail) \subseteq visited
       /\ j.parent \in Ids \cup {NoContainer}
       /\ PathOf(j) = Append(Place(scans, j.parent), j.name)

Remembered(scans) ==
    /\ IsMemory(scans)
    /\ \A c \in Ids : Recorded(scans, c)
    /\ \A i \in DOMAIN stack : /\ stack[i].container \in Ids
                               /\ stack[i] = scans[stack[i].container].job
    /\ \A w \in Workers : pc[w] \notin Idle => /\ job[w].container \in Ids
                                               /\ job[w] = scans[job[w].container].job

-----------------------------------------------------------------------------
(* What a worker has read, and what it may say                              *)

\* The directory is open: what is left of its listing.
Reading(w) == \/ pc[w] \in {"opened", "scan", "descend", "launch", "notify"}
              \/ Offering(w) /\ item[w].type # "Error"
              \/ Offering(w) /\ item[w].container = job[w].container

\* An entry of the listing is in hand.
Holding(w) == pc[w] \in {"descend", "launch"} \/ (Offering(w) /\ item[w].type = "Match")

Reads(scans, w) ==
    LET j == job[w] IN
    /\ Reading(w) => /\ j.dir \notin denied
                     /\ failures[w] \subseteq Entries[j.dir] \cap unread
                     /\ entries[w] \subseteq Entries[j.dir] \ unread
    /\ Holding(w) => entry[w] \in Entries[j.dir] \ unread
    /\ pc[w] = "launch" =>
         /\ Wanted(j, entry[w])
         /\ HasIdentity(entry[w]) =>
              entry[w].id \in visited /\ entry[w].id \notin Followed(scans[j.container].trail)
    /\ pc[w] = "slot" => j.dir \in denied

Reporting(i) == i.type \in {"Match", "Blocked", "Error"}

\* What the client makes of an item, once it knows the container the item lies in.
Told(scans, i) ==
    Report(i.type, Append(Place(scans, i.container), i.name),
           IF i.type = "Match" THEN i.matched ELSE {})

Sound(scans, i) ==
    /\ i.type = "Enter" => i.id \in Ids /\ i = Enter(scans[i.id].job)
    /\ i.type \in {"Match", "Blocked", "Error"} =>
         i.container \in Ids \cup {NoContainer} /\ Asked(Told(scans, i))

Says(scans) ==
    /\ \A w \in Workers : Offering(w) => Sound(scans, item[w])
    /\ \A k \in DOMAIN ring : Sound(scans, ring[k])
    /\ \A e \in fatalError : Sound(scans, e)

\* What the client knows of the containers.
Knows(scans) == \A c \in DOMAIN live : c \in Ids /\ live[c].path = PathOf(scans[c].job)

Walked(scans) ==
    /\ Remembered(scans)
    /\ \A w \in Workers : Reads(scans, w)
    /\ Says(scans) /\ Knows(scans) /\ NothingUnasked

-----------------------------------------------------------------------------
(* Trails *)

\* A trail goes on with an entry the walk enters.
LEMMA GrownTrail ==
    ASSUME NEW r \in Roots, NEW trail \in Seq(Listed), IsTrail(Wanted, r, trail),
           NEW e \in Listed, NEW j, j = ScanAt(r, trail, Len(trail)),
           j.dir \notin denied, e \in Entries[j.dir] \ unread, Wanted(j, e),
           HasIdentity(e) => e.id \notin Followed(trail)
    PROVE  /\ IsTrail(Wanted, r, Append(trail, e)) /\ Append(trail, e) \in Seq(Listed)
           /\ ScanAt(r, Append(trail, e), Len(trail) + 1).dir = e.target
           /\ ScanAt(r, Append(trail, e), Len(trail) + 1).path = Append(j.path, e.name)
<1>1. PICK long, m : long = Append(trail, e) /\ m = Len(trail)
  OBVIOUS
<1>2. /\ long \in Seq(Listed) /\ Len(long) = m + 1 /\ m \in Nat /\ DOMAIN trail = 1..m
      /\ DOMAIN long = 1..(m + 1) /\ long[m + 1] = e
      /\ \A n \in 1..m : long[n] = trail[n]
  BY <1>1
<1>3. ASSUME NEW n \in 0..m PROVE ScanAt(r, long, n) = ScanAt(r, trail, n)
  <2>1. \A k \in 1..n : long[k] = trail[k]
    BY <1>2, <1>3
  <2>2. [k \in 1..n |-> long[k].name] = [k \in 1..n |-> trail[k].name]
    BY <2>1
  <2>3. n # 0 => long[n] = trail[n]
    BY <1>2, <1>3
  <2>. QED
    BY <2>2, <2>3 DEF ScanAt
<1>4. ASSUME NEW n \in DOMAIN long
      PROVE  LET scan == ScanAt(r, long, n - 1) IN
             /\ scan.dir \notin denied /\ long[n] \in Entries[scan.dir] \ unread
             /\ Wanted(scan, long[n])
             /\ \A k \in 1..(n - 1) : ~(HasIdentity(long[k]) /\ HasIdentity(long[n])
                                          /\ long[k].id = long[n].id)
  <2>1. CASE n \in 1..m
    <3>1. n - 1 \in 0..m /\ \A k \in 1..(n - 1) : long[k] = trail[k]
      BY <1>2, <2>1
    <3>2. ScanAt(r, long, n - 1) = ScanAt(r, trail, n - 1) /\ long[n] = trail[n]
      BY <1>2, <1>3, <2>1, <3>1
    <3>. QED
      BY <1>2, <2>1, <3>1, <3>2 DEF IsTrail
  <2>2. CASE n = m + 1
    <3>1. ScanAt(r, long, n - 1) = j /\ long[n] = e /\ n - 1 = m
      BY <1>1, <1>2, <1>3, <2>2
    <3>2. \A k \in 1..m : HasIdentity(trail[k]) => trail[k].id \in Followed(trail)
      BY <1>2 DEF Followed
    <3>. QED
      BY <1>2, <3>1, <3>2
  <2>. QED
    BY <1>2, <2>1, <2>2
<1>5. IsTrail(Wanted, r, long)
  BY <1>4 DEF IsTrail
<1>6. ScanAt(r, long, m + 1).dir = e.target
  BY <1>2 DEF ScanAt
<1>7. ScanAt(r, long, m + 1).path = Append(j.path, e.name)
  <2>1. j.path = [k \in 1..m |-> trail[k].name]
    BY <1>1 DEF ScanAt
  <2>2. ScanAt(r, long, m + 1).path = [k \in 1..(m + 1) |-> long[k].name]
    BY DEF ScanAt
  <2>3. PICK p, q : p = j.path /\ q = [k \in 1..(m + 1) |-> long[k].name]
    OBVIOUS
  <2>4. Len(p) = m /\ DOMAIN q = 1..(m + 1) /\ q[m + 1] = e.name /\ \A k \in 1..m : q[k] = p[k]
    BY <1>2, <2>1, <2>3
  <2>5. PICK V : V = {p[k] : k \in 1..m} \cup {e.name}
    OBVIOUS
  <2>6. p \in Seq(V) /\ e.name \in V /\ q \in Seq(V) /\ Len(q) = m + 1
    <3>1. p = [k \in 1..m |-> p[k]] /\ q = [k \in 1..(m + 1) |-> q[k]]
      BY <2>1, <2>3
    <3>2. \A k \in 1..m : p[k] \in V
      BY <2>5
    <3>3. \A k \in 1..(m + 1) : q[k] \in V
      BY <1>2, <2>4, <2>5
    <3>4. p \in [1..m -> V] /\ q \in [1..(m + 1) -> V]
      BY <3>1, <3>2, <3>3
    <3>5. \A n \in Nat : [1..n -> V] \subseteq Seq(V)
      OBVIOUS
    <3>6. p \in Seq(V) /\ q \in Seq(V) /\ Len(q) = m + 1
      BY <1>2, <2>4, <3>4, <3>5
    <3>. QED
      BY <2>5, <3>6
  <2>7. q = Append(p, e.name)
    BY <1>2, <2>4, <2>6
  <2>. QED
    BY <2>2, <2>3, <2>7
<1>. QED
  BY <1>1, <1>2, <1>5, <1>6, <1>7

\* The trail of no entries leads to its root.
LEMMA RootTrail ==
    ASSUME NEW r \in Roots
    PROVE  /\ IsTrail(Wanted, r, <<>>) /\ ScanAt(r, <<>>, 0).dir = RootDirs[r]
           /\ ScanAt(r, <<>>, 0).path = <<>> /\ Followed(<<>>) = {}
  BY DEF IsTrail, ScanAt, Followed

\* A root lies in the roots.
LEMMA RootIsConfined ==
    ASSUME NEW r \in Roots
    PROVE  Confined(RootDirs[r])
<1>1. RootDirs[r] \in Dirs
  BY QueryAssumption DEF Roots
<1>2. CASE RootDirs[r] \in DOMAIN RealPath
  <2>1. PICK p : p = RealPath[RootDirs[r]]
    OBVIOUS
  <2>2. p \in Seq(Names)
    BY <1>2, <2>1, RealPathAssumption
  <2>3. Len(p) \in 0..Len(p) /\ SubSeq(p, 1, Len(p)) = p
    BY <2>2
  <2>. QED
    BY <1>2, <2>1, <2>3 DEF Confined
<1>3. CASE RootDirs[r] \notin DOMAIN RealPath
  BY <1>3 DEF Confined
<1>. QED
  BY <1>2, <1>3

\* What a confined walk enters from a directory in the roots lies in the roots: a listed
\* directory below it, a link by the test of its target.
LEMMA EnteredIsConfined ==
    ASSUME Confine, NEW j, j.dir \in Dirs, NEW e \in Entries[j.dir], Confined(j.dir), Wanted(j, e)
    PROVE  Confined(e.target)
<1>1. DirCandidate(e) /\ ~Escapes(e) /\ e \in Entry
  BY TreeAssumption DEF Wanted, Descends
<1>2. CASE e.kind = "link"
  <2>1. FollowLinks
    BY <1>1, <1>2 DEF DirCandidate
  <2>2. e.target \in DOMAIN RealPath
    BY <1>1, <1>2 DEF Escapes
  <2>3. PICK root \in ConfinedRoots : Within(root, RealPath[e.target])
    BY <1>1, <1>2 DEF Escapes
  <2>4. PICK r \in Roots : RootDirs[r] \in DOMAIN RealPath /\ root = RealPath[RootDirs[r]]
    BY <2>1, <2>3 DEF ConfinedRoots
  <2>5. PICK p : p = RealPath[e.target]
    OBVIOUS
  <2>6. p \in Seq(Names) /\ root \in Seq(Names)
    BY <2>2, <2>4, <2>5, RealPathAssumption
  <2>7. Len(root) \in 0..Len(p) /\ SubSeq(p, 1, Len(root)) = root
    BY <2>3, <2>5, <2>6 DEF Within
  <2>. QED
    BY <2>2, <2>4, <2>5, <2>7 DEF Confined
<1>3. CASE e.kind = "dir"
  <2>1. /\ j.dir \in DOMAIN RealPath <=> e.target \in DOMAIN RealPath
        /\ j.dir \in DOMAIN RealPath => RealPath[e.target] = Append(RealPath[j.dir], e.name)
    BY <1>3, RealPathAssumption
  <2>2. CASE j.dir \in DOMAIN RealPath
    <3>1. PICK p, q, a : p = RealPath[j.dir] /\ q = Append(p, e.name) /\ a = e.name
      OBVIOUS
    <3>2. p \in Seq(Names) /\ a \in Names
      BY <1>1, <2>2, <3>1, RealPathAssumption DEF Entry
    <3>3. PICK r \in Roots, n \in 0..Len(p) :
            RootDirs[r] \in DOMAIN RealPath /\ SubSeq(p, 1, n) = RealPath[RootDirs[r]]
      BY <2>2, <3>1 DEF Confined
    <3>4. q = Append(p, a) /\ n \in 0..Len(q)
      BY <3>1, <3>2
    <3>5. SubSeq(q, 1, n) = SubSeq(p, 1, n)
      BY <3>2, <3>4
    <3>. QED
      BY <2>1, <2>2, <3>1, <3>3, <3>4, <3>5 DEF Confined
  <2>3. CASE j.dir \notin DOMAIN RealPath
    BY <2>1, <2>3 DEF Confined
  <2>. QED
    BY <2>2, <2>3
<1>. QED
  BY <1>1, <1>2, <1>3 DEF DirCandidate

\* A report that a remembered scan owes is asked for.
LEMMA ScanAsks ==
    ASSUME NEW scans, Remembered(scans), NEW c \in Ids, NEW j, j = scans[c].job,
           NEW report \in Matches(j) \cup Faults(j)
    PROVE  Asked(report)
<1>1. PICK trail, n : trail = scans[c].trail /\ n = Len(trail)
  OBVIOUS
<1>2. /\ j \in Job /\ trail \in Seq(Listed) /\ j.root \in Referenced
      /\ IsTrail(Wanted, j.root, trail)
  BY <1>1 DEF Remembered, IsMemory, Recorded
<1>3. PICK s : s = ScanAt(j.root, trail, n)
  OBVIOUS
<1>4. s.dir = j.dir /\ s.path = j.path /\ s.root = j.root
  <2>1. s.root = j.root
    BY <1>3 DEF ScanAt
  <2>2. Recorded(scans, c)
    BY DEF Remembered
  <2>. QED
    BY <1>1, <1>3, <2>1, <2>2 DEF Recorded
<1>5. PathOf(s) = PathOf(j) /\ \A e : HitsOf(s, e) = HitsOf(j, e) /\ (Descends(s, e) <=> Descends(j, e))
  BY <1>4 DEF PathOf, HitsOf, Descends
<1>6. report \in Matches(s) \cup Faults(s)
  BY <1>4, <1>5 DEF Matches, Faults
<1>7. n \in Nat /\ trail \in [1..n -> Listed] /\ j.path \in Seq(Names) /\ Len(j.path) = n
  <2>1. j.path = [k \in 1..n |-> trail[k].name]
    BY <1>3, <1>4 DEF ScanAt
  <2>. QED
    BY <1>1, <1>2, <2>1 DEF Job
<1>8. report.path = PathOf(j) \/ \E a : report.path = Append(PathOf(j), a)
  <2>1. CASE report \in Matches(j)
    <3>1. PICK e : report = Report("Match", Append(PathOf(j), e.name), HitsOf(j, e))
      BY <2>1 DEF Matches
    <3>. QED
      BY <3>1 DEF Report
  <2>2. CASE report \in Faults(j)
    <3>1. \/ report = Report("Error", PathOf(j), {})
          \/ \E e : report = Report("Error", Append(PathOf(j), e.name), {})
          \/ \E e : report = Report("Blocked", Append(PathOf(j), e.name), {})
      BY <2>2 DEF Faults
    <3>. QED
      BY <3>1 DEF Report
  <2>. QED
    BY <2>1, <2>2
<1>9. n \in 0..Len(report.path)
  <2>1. PICK p : p = PathOf(j)
    OBVIOUS
  <2>2. p \in Seq(Names \cup Roots) /\ Len(p) = n + 1
    BY <1>2, <1>7, <2>1 DEF PathOf, Job
  <2>3. \A a : Len(Append(p, a)) = n + 2
    BY <1>7, <2>2
  <2>. QED
    BY <1>7, <1>8, <2>1, <2>2, <2>3
<1>. QED
  BY <1>2, <1>3, <1>6, <1>7, <1>9 DEF Asked

-----------------------------------------------------------------------------
(* What a step leaves alone *)

\* The file system's faults do not change, and with them what the walk is to find.
LEMMA SameTrails ==
    ASSUME UNCHANGED fsVars
    PROVE  /\ \A r, trail : IsTrail(Wanted, r, trail)' <=> IsTrail(Wanted, r, trail)
           /\ \A report : Asked(report)' <=> Asked(report)
<1>1. denied' = denied /\ unread' = unread
  BY DEF fsVars
<1>2. \A r, trail : IsTrail(Wanted, r, trail)' <=> IsTrail(Wanted, r, trail)
  BY <1>1 DEF IsTrail
<1>3. ASSUME NEW j PROVE Matches(j)' = Matches(j) /\ Faults(j)' = Faults(j)
  BY <1>1 DEF Matches, Faults
<1>4. ASSUME NEW report PROVE Asked(report)' <=> Asked(report)
  BY <1>2, <1>3 DEF Asked
<1>. QED
  BY <1>2, <1>4

\* A memory that grows keeps what it has recorded.
LEMMA StillRecorded ==
    ASSUME NEW scans, NEW more, Remembered(scans), UNCHANGED fsVars, visited \subseteq visited',
           Ids \subseteq Ids', \A c \in Ids : more[c] = scans[c], NEW c \in Ids
    PROVE  Recorded(more, c)'
<1>1. Recorded(scans, c) /\ more[c] = scans[c]
  BY DEF Remembered
<1>2. Place(more, scans[c].job.parent) = Place(scans, scans[c].job.parent)
  BY <1>1 DEF Recorded, Place
<1>3. \A r, trail : IsTrail(Wanted, r, trail)' <=> IsTrail(Wanted, r, trail)
  BY SameTrails
<1>. QED
  BY <1>1, <1>2, <1>3 DEF Recorded

\* What may be said may still be said.
LEMMA StillSound ==
    ASSUME NEW scans, NEW more, UNCHANGED fsVars, Ids \subseteq Ids',
           \A c \in Ids : more[c] = scans[c], NEW i, Sound(scans, i)
    PROVE  Sound(more, i)'
<1>1. ASSUME i.type \in {"Match", "Blocked", "Error"}
      PROVE  i.container \in Ids' \cup {NoContainer} /\ Asked(Told(more, i))'
  <2>1. Told(more, i) = Told(scans, i)
    BY <1>1 DEF Sound, Told, Place
  <2>. QED
    BY <1>1, <2>1, SameTrails DEF Sound
<1>. QED
  BY <1>1 DEF Sound

\* A worker whose registers stay keeps what it has read.
LEMMA StillReads ==
    ASSUME NEW scans, NEW more, UNCHANGED fsVars, visited \subseteq visited', NEW v \in Workers,
           Reads(scans, v), pc[v] \notin Idle => more[job[v].container] = scans[job[v].container],
           pc'[v] = pc[v], job'[v] = job[v], item'[v] = item[v],
           failures'[v] = failures[v], entries'[v] = entries[v], entry'[v] = entry[v]
    PROVE  Reads(more, v)'
<1>1. (Reading(v)' <=> Reading(v)) /\ (Holding(v)' <=> Holding(v))
  BY DEF Reading, Holding, Offering
<1>2. denied' = denied /\ unread' = unread
  BY DEF fsVars
<1>3. pc[v] = "launch" => more[job[v].container].trail = scans[job[v].container].trail
  BY DEF Idle
<1>. QED
  BY <1>1, <1>2, <1>3 DEF Reads

\* A worker that neither holds a directory nor is about to report one has read nothing.
LEMMA ReadsNothing ==
    ASSUME NEW scans, NEW v \in Workers,
           pc[v] \in Idle \cup {"enumerate", "release", "cascade", "ends", "end", "flag",
                                 "swap", "halt", "wake", "complete"}
    PROVE  Reads(scans, v)
  BY DEF Reads, Reading, Holding, Offering, Idle

-----------------------------------------------------------------------------
(* The steps of a worker *)

\* A worker on a scan that the memory knows: what it needs to know to tell where things lie.
LEMMA KnownScan ==
    ASSUME Types, Accounting, NEW tree, Planted(tree), NEW scans, Remembered(scans),
           NEW w \in Workers, pc[w] \in ScanSteps
    PROVE  /\ job[w] \in Job /\ job[w].container \in Ids /\ job[w].container # NoContainer
           /\ job[w].parent # job[w].container /\ job[w].parent \in Ids \cup {NoContainer}
           /\ job[w] = scans[job[w].container].job
           /\ PathOf(job[w]) = Append(Place(scans, job[w].parent), job[w].name)
           /\ Place(scans, job[w].container) = PathOf(job[w])
<1>1. /\ job[w] \in Job /\ job[w].container \in Ids /\ job[w].container # NoContainer
      /\ job[w].parent # job[w].container
  BY ScannedContainer
<1>2. job[w] = scans[job[w].container].job /\ Recorded(scans, job[w].container)
  BY <1>1 DEF Remembered, ScanSteps, Idle
<1>. QED
  BY <1>1, <1>2 DEF Recorded, Place

\* The directory is opened and read, or refuses and is its parent's error.
LEMMA EnumerateSpeaks ==
    ASSUME Types, Accounting, NEW tree, Planted(tree), NEW scans, Remembered(scans),
           NEW w \in Workers, Enumerate(w)
    PROVE  Reads(scans, w)' /\ (Offering(w)' => Sound(scans, item[w])')
<1>1. PICK j : j = job[w]
  OBVIOUS
<1>2. /\ j \in Job /\ j.container \in Ids /\ j.parent # j.container
      /\ j.parent \in Ids \cup {NoContainer}
      /\ j = scans[j.container].job /\ PathOf(j) = Append(Place(scans, j.parent), j.name)
  BY <1>1, KnownScan DEF Enumerate, ScanSteps
<1>3. /\ DOMAIN pc = Workers /\ DOMAIN item = Workers /\ DOMAIN failures = Workers
      /\ DOMAIN entries = Workers
  BY DEF Types, WorkerTypes
<1>4. UNCHANGED <<fsVars, nextId, job>> /\ Ids' = Ids /\ denied' = denied /\ unread' = unread
  BY DEF Enumerate, fsVars, Ids
<1>5. CASE pc'[w] = "release"
  BY <1>5, ReadsNothing DEF Reads, Reading, Holding, Offering
<1>6. CASE j.dir \in denied /\ Offer(w, OpenError(j))
  <2>1. pc'[w] = "offer" /\ item'[w] = OpenError(j)
    BY <1>3, <1>6 DEF Offer, Goto
  <2>2. Reads(scans, w)'
    BY <1>1, <1>2, <1>4, <2>1 DEF Reads, Reading, Holding, Offering, OpenError
  <2>3. Told(scans, OpenError(j)) = Report("Error", PathOf(j), {})
    BY <1>2 DEF Told, OpenError
  <2>4. Report("Error", PathOf(j), {}) \in Faults(j)
    BY <1>6 DEF Faults
  <2>5. Asked(Told(scans, OpenError(j)))
    BY <1>2, <2>3, <2>4, ScanAsks
  <2>6. Sound(scans, OpenError(j))
    BY <1>2, <2>5 DEF Sound, OpenError
  <2>. QED
    BY <1>4, <2>1, <2>2, <2>6, StillSound
<1>7. CASE /\ j.dir \notin denied
           /\ failures' = [failures EXCEPT ![w] = Entries[j.dir] \cap unread]
           /\ entries' = [entries EXCEPT ![w] = Entries[j.dir] \ unread]
           /\ Offer(w, Enter(j))
  <2>1. pc'[w] = "offer" /\ item'[w] = Enter(j)
    BY <1>3, <1>7 DEF Offer, Goto
  <2>2. Reads(scans, w)'
    BY <1>1, <1>3, <1>4, <1>7, <2>1 DEF Reads, Reading, Holding, Offering, Enter
  <2>3. Sound(scans, Enter(j))
    BY <1>2 DEF Sound, Enter
  <2>. QED
    BY <1>4, <2>1, <2>2, <2>3, StillSound
<1>8. pc'[w] = "release" \/ (j.dir \in denied /\ Offer(w, OpenError(j)))
        \/ (/\ j.dir \notin denied
            /\ failures' = [failures EXCEPT ![w] = Entries[j.dir] \cap unread]
            /\ entries' = [entries EXCEPT ![w] = Entries[j.dir] \ unread]
            /\ Offer(w, Enter(j)))
  BY <1>1, <1>3 DEF Enumerate, Goto
<1>. QED
  BY <1>5, <1>6, <1>7, <1>8

\* An emit that ends goes on with what the worker has in hand.
LEMMA EmitSpeaks ==
    ASSUME Types, NEW scans, NEW w \in Workers, Reads(scans, w),
           Offering(w) => Sound(scans, item[w]), LoadCancel(w) \/ TryPush(w)
    PROVE  Reads(scans, w)' /\ (Offering(w)' => Sound(scans, item[w])')
<1>1. DOMAIN pc = Workers /\ DOMAIN item = Workers /\ Offering(w)
  BY DEF Types, WorkerTypes, LoadCancel, TryPush, Offering
<1>2. /\ UNCHANGED <<fsVars, nextId, job, failures, entries, entry>>
      /\ Ids' = Ids /\ denied' = denied /\ unread' = unread
  BY DEF LoadCancel, TryPush, fsVars, Ids
<1>3. CASE pc'[w] \in {"offer", "push"} /\ item' = item
  <2>1. Reads(scans, w)'
    BY <1>1, <1>2, <1>3 DEF Reads, Reading, Holding, Offering
  <2>. QED
    BY <1>1, <1>2, <1>3, <2>1, StillSound
<1>4. ASSUME NEW pushed \in BOOLEAN, pc'[w] = Resumed(w, pushed)
      PROVE  Reads(scans, w)' /\ ~Offering(w)'
  <2>1. /\ Resumed(w, pushed) \in {"opened", "release", "descend", "scan"}
        /\ item[w].type \in {"Enter", "Match", "Blocked", "Error"}
    BY <1>1, ResumedStep, OfferedTypes DEF Offering
  <2>2. Resumed(w, pushed) = "descend" => item[w].type = "Match"
    BY <2>1 DEF Resumed
  <2>3. Resumed(w, pushed) \in {"opened", "scan"} =>
          item[w].type # "Error" \/ item[w].container = job[w].container
    BY <2>1 DEF Resumed
  <2>4. Reading(w)' => Reading(w)
    BY <1>1, <1>4, <2>1, <2>2, <2>3 DEF Reading, Offering
  <2>5. Holding(w)' => Holding(w)
    BY <1>1, <1>4, <2>1, <2>2 DEF Holding, Offering
  <2>. QED
    BY <1>2, <1>4, <2>1, <2>4, <2>5 DEF Reads, Offering
<1>5. \/ pc'[w] \in {"offer", "push"} /\ item' = item
      \/ pc'[w] = Resumed(w, FALSE) \/ pc'[w] = Resumed(w, TRUE)
  BY <1>1 DEF LoadCancel, TryPush, Goto
<1>. QED
  BY <1>3, <1>4, <1>5

\* The scan: an error for a failed read, a match for a hit.
LEMMA ScanSpeaks ==
    ASSUME Types, Accounting, NEW tree, Planted(tree), NEW scans, Remembered(scans),
           NEW w \in Workers, Reads(scans, w), Scan(w)
    PROVE  Reads(scans, w)' /\ (Offering(w)' => Sound(scans, item[w])')
<1>1. PICK j : j = job[w]
  OBVIOUS
<1>2. /\ j.container \in Ids /\ j.container # NoContainer /\ j = scans[j.container].job
      /\ Place(scans, j.container) = PathOf(j)
  BY <1>1, KnownScan DEF Scan, ScanSteps
<1>3. /\ DOMAIN pc = Workers /\ DOMAIN item = Workers /\ DOMAIN failures = Workers
      /\ DOMAIN entries = Workers /\ DOMAIN entry = Workers
  BY DEF Types, WorkerTypes
<1>4. UNCHANGED <<fsVars, nextId, job>> /\ Ids' = Ids /\ denied' = denied /\ unread' = unread
  BY DEF Scan, fsVars, Ids
<1>5. /\ j.dir \notin denied /\ failures[w] \subseteq Entries[j.dir] \cap unread
      /\ entries[w] \subseteq Entries[j.dir] \ unread
  BY <1>1 DEF Scan, Reads, Reading
<1>6. CASE \E e \in failures[w] : /\ failures' = [failures EXCEPT ![w] = @ \ {e}]
                                  /\ Offer(w, ReadError(j, e))
                                  /\ UNCHANGED <<entries, entry>>
  <2>1. PICK e \in failures[w] : /\ failures' = [failures EXCEPT ![w] = @ \ {e}]
                                 /\ Offer(w, ReadError(j, e)) /\ UNCHANGED <<entries, entry>>
    BY <1>6
  <2>2. pc'[w] = "offer" /\ item'[w] = ReadError(j, e)
    BY <1>3, <2>1 DEF Offer, Goto
  <2>3. Reads(scans, w)'
    BY <1>1, <1>3, <1>4, <1>5, <2>1, <2>2 DEF Reads, Reading, Holding, Offering, ReadError
  <2>4. Told(scans, ReadError(j, e)) = Report("Error", Append(PathOf(j), e.name), {})
    BY <1>2 DEF Told, ReadError
  <2>5. Report("Error", Append(PathOf(j), e.name), {}) \in Faults(j)
    BY <1>5 DEF Faults
  <2>6. Asked(Told(scans, ReadError(j, e)))
    BY <1>2, <2>4, <2>5, ScanAsks
  <2>7. Sound(scans, ReadError(j, e))
    BY <1>2, <2>6 DEF Sound, ReadError
  <2>. QED
    BY <1>4, <2>2, <2>3, <2>7, StillSound
<1>7. CASE pc'[w] = "release"
  BY <1>7, ReadsNothing DEF Reads, Reading, Holding, Offering
<1>8. CASE \E e \in entries[w] : /\ UNCHANGED failures
                                 /\ entries' = [entries EXCEPT ![w] = @ \ {e}]
                                 /\ entry' = [entry EXCEPT ![w] = e]
                                 /\ \/ HitsOf(j, e) # {} /\ Offer(w, Matched(j, e, HitsOf(j, e)))
                                    \/ Goto(w, "descend")
  <2>1. PICK e \in entries[w] : /\ UNCHANGED failures
                                /\ entries' = [entries EXCEPT ![w] = @ \ {e}]
                                /\ entry' = [entry EXCEPT ![w] = e]
                                /\ \/ HitsOf(j, e) # {} /\ Offer(w, Matched(j, e, HitsOf(j, e)))
                                   \/ Goto(w, "descend")
    BY <1>8
  <2>2. entry'[w] = e /\ e \in Entries[j.dir] \ unread /\ entries'[w] \subseteq entries[w]
    BY <1>3, <1>5, <2>1
  <2>3. CASE pc'[w] = "descend"
    BY <1>1, <1>4, <1>5, <2>1, <2>2, <2>3 DEF Reads, Reading, Holding, Offering
  <2>4. CASE HitsOf(j, e) # {} /\ Offer(w, Matched(j, e, HitsOf(j, e)))
    <3>1. PICK i : i = Matched(j, e, HitsOf(j, e))
      OBVIOUS
    <3>2. pc'[w] = "offer" /\ item'[w] = i
      BY <1>3, <2>4, <3>1 DEF Offer, Goto
    <3>3. i.type = "Match" /\ i.container = j.container /\ i.name = e.name
          /\ i.matched = HitsOf(j, e)
      BY <3>1 DEF Matched
    <3>4. Reads(scans, w)'
      BY <1>1, <1>4, <1>5, <2>1, <2>2, <3>2, <3>3 DEF Reads, Reading, Holding, Offering
    <3>5. Told(scans, i) = Report("Match", Append(PathOf(j), e.name), HitsOf(j, e))
      BY <1>2, <3>3 DEF Told
    <3>6. Report("Match", Append(PathOf(j), e.name), HitsOf(j, e)) \in Matches(j)
      BY <1>5, <2>2, <2>4 DEF Matches
    <3>7. Asked(Told(scans, i))
      BY <1>2, <3>5, <3>6, ScanAsks
    <3>8. Sound(scans, i)
      BY <1>2, <3>3, <3>7 DEF Sound
    <3>. QED
      BY <1>4, <3>2, <3>4, <3>8, StillSound
  <2>. QED
    BY <1>3, <2>1, <2>3, <2>4 DEF Goto
<1>. QED
  BY <1>1, <1>3, <1>6, <1>7, <1>8 DEF Scan, Goto

\* The descent: confinement is asked before the identity is spent, and a link that the trail
\* has followed is not launched again, for its identity has been seen.
LEMMA DescendSpeaks ==
    ASSUME Types, Accounting, NEW tree, Planted(tree), NEW scans, Remembered(scans),
           NEW w \in Workers, Reads(scans, w), Descend(w)
    PROVE  Reads(scans, w)' /\ (Offering(w)' => Sound(scans, item[w])')
<1>1. PICK j, e : j = job[w] /\ e = entry[w]
  OBVIOUS
<1>2. /\ j.container \in Ids /\ j.container # NoContainer /\ j = scans[j.container].job
      /\ Place(scans, j.container) = PathOf(j)
  BY <1>1, KnownScan DEF Descend, ScanSteps
<1>3. DOMAIN pc = Workers /\ DOMAIN item = Workers
  BY DEF Types, WorkerTypes
<1>4. /\ UNCHANGED <<fsVars, nextId, job, failures, entries, entry>>
      /\ Ids' = Ids /\ denied' = denied /\ unread' = unread
  BY DEF Descend, fsVars, Ids
<1>5. /\ j.dir \notin denied /\ failures[w] \subseteq Entries[j.dir] \cap unread
      /\ entries[w] \subseteq Entries[j.dir] \ unread /\ e \in Entries[j.dir] \ unread
  BY <1>1 DEF Descend, Reads, Reading, Holding
<1>6. CASE pc'[w] = "scan"
  BY <1>1, <1>4, <1>5, <1>6 DEF Reads, Reading, Holding, Offering
<1>7. CASE Descends(j, e) /\ Escapes(e) /\ Offer(w, Blocked(j, e))
  <2>1. pc'[w] = "offer" /\ item'[w] = Blocked(j, e)
    BY <1>3, <1>7 DEF Offer, Goto
  <2>2. Reads(scans, w)'
    BY <1>1, <1>4, <1>5, <2>1 DEF Reads, Reading, Holding, Offering, Blocked
  <2>3. Told(scans, Blocked(j, e)) = Report("Blocked", Append(PathOf(j), e.name), {})
    BY <1>2 DEF Told, Blocked
  <2>4. Report("Blocked", Append(PathOf(j), e.name), {}) \in Faults(j)
    BY <1>5, <1>7 DEF Faults
  <2>5. Asked(Told(scans, Blocked(j, e)))
    BY <1>2, <2>3, <2>4, ScanAsks
  <2>6. Sound(scans, Blocked(j, e))
    BY <1>2, <2>5 DEF Sound, Blocked
  <2>. QED
    BY <1>4, <2>1, <2>2, <2>6, StillSound
<1>8. CASE /\ pc'[w] = "launch" /\ Descends(j, e) /\ ~Escapes(e)
           /\ HasIdentity(e) => e.id \notin visited /\ e.id \in visited'
  <2>1. Followed(scans[j.container].trail) \subseteq visited
    BY <1>2 DEF Remembered, Recorded
  <2>. QED
    BY <1>1, <1>4, <1>5, <1>8, <2>1 DEF Reads, Reading, Holding, Offering, Wanted
<1>9. \/ pc'[w] = "scan"
      \/ Descends(j, e) /\ Escapes(e) /\ Offer(w, Blocked(j, e))
      \/ /\ pc'[w] = "launch" /\ Descends(j, e) /\ ~Escapes(e)
         /\ HasIdentity(e) => e.id \notin visited /\ e.id \in visited'
  BY <1>1, <1>3 DEF Descend, Goto
<1>. QED
  BY <1>6, <1>7, <1>8, <1>9

\* The other steps on a scan: the container is open, or a child is launched.
LEMMA MarkOpenSpeaks ==
    ASSUME Types, NEW scans, NEW w \in Workers, Reads(scans, w), MarkOpen(w) \/ NotifyOne(w) \/ Launch(w),
           NEW more
    PROVE  Reads(more, w)' /\ ~Offering(w)'
<1>1. DOMAIN pc = Workers
  BY DEF Types, WorkerTypes
<1>2. pc[w] \in {"opened", "notify", "launch"} /\ pc'[w] \in {"scan", "notify"}
  BY <1>1 DEF MarkOpen, NotifyOne, Launch, Goto
<1>3. /\ UNCHANGED <<job, failures, entries, entry>> /\ denied' = denied /\ unread' = unread
  BY DEF MarkOpen, NotifyOne, Launch, fsVars
<1>. QED
  BY <1>2, <1>3 DEF Reads, Reading, Holding, Offering

\* The steps by which a worker ends a job say nothing more about it; a root that goes on to
\* request_fatal could not be opened.
LEMMA EndingSpeaks ==
    ASSUME Types, NEW scans, NEW w \in Workers,
           \/ NextJob(w) \/ Release(w) \/ Cascade(w) \/ EmitEnds(w) \/ PushEnd(w)
           \/ StashError(w) \/ RaiseFatal(w) \/ WorkerCancel(w) \/ WorkerHalt(w)
           \/ WorkerWake(w) \/ CompleteJob(w)
    PROVE  Reads(scans, w)' /\ ~Offering(w)'
<1>1. DOMAIN pc = Workers
  BY DEF Types, WorkerTypes
<1>2. CASE pc'[w] = "slot"
  <2>1. EmitEnds(w) /\ job[w].dir \in denied
    BY <1>1, <1>2 DEF NextJob, Release, Cascade, EmitEnds, PushEnd, StashError, RaiseFatal,
       WorkerCancel, WorkerHalt, WorkerWake, CompleteJob, Goto, AllWoken
  <2>2. UNCHANGED job /\ denied' = denied
    BY <2>1 DEF EmitEnds, fsVars
  <2>. QED
    BY <1>2, <2>1, <2>2 DEF Reads, Reading, Holding, Offering
<1>3. CASE pc'[w] # "slot"
  <2>1. pc'[w] \in {"next", "waiting", "exit", "enumerate", "cascade", "ends", "end", "complete",
                    "flag", "swap", "halt", "wake"}
    <3>1. CASE NextJob(w) \/ WorkerHalt(w) \/ WorkerWake(w) \/ CompleteJob(w)
      BY <1>1, <3>1 DEF NextJob, WorkerHalt, WorkerWake, CompleteJob, Goto, AllWoken
    <3>2. CASE Release(w) \/ Cascade(w) \/ EmitEnds(w) \/ PushEnd(w)
      BY <1>1, <1>3, <3>2 DEF Release, Cascade, EmitEnds, PushEnd, Goto
    <3>3. CASE StashError(w) \/ RaiseFatal(w) \/ WorkerCancel(w)
      BY <1>1, <3>3 DEF StashError, RaiseFatal, WorkerCancel, Goto
    <3>. QED
      BY <3>1, <3>2, <3>3
  <2>. QED
    BY <2>1 DEF Reads, Reading, Holding, Offering
<1>. QED
  BY <1>2, <1>3

\* A step of a worker leaves the registers of the others alone, but may wake them.
LEMMA OthersUntouched ==
    ASSUME Types, NEW w \in Workers, Worker(w), NEW v \in Workers, v # w
    PROVE  /\ job'[v] = job[v] /\ item'[v] = item[v] /\ entry'[v] = entry[v]
           /\ failures'[v] = failures[v] /\ entries'[v] = entries[v]
           /\ pc'[v] = pc[v] \/ pc'[v] = "next"
<1>1. /\ DOMAIN pc = Workers /\ DOMAIN job = Workers /\ DOMAIN item = Workers
      /\ DOMAIN entry = Workers /\ DOMAIN failures = Workers /\ DOMAIN entries = Workers
  BY DEF Types, WorkerTypes
<1>2. CASE \/ NextJob(w) \/ Enumerate(w) \/ LoadCancel(w) \/ TryPush(w) \/ MarkOpen(w)
  BY <1>1, <1>2 DEF NextJob, Enumerate, LoadCancel, TryPush, MarkOpen, Offer, Goto, AllWoken
<1>3. CASE Scan(w) \/ Descend(w) \/ Launch(w) \/ NotifyOne(w) \/ Release(w) \/ Cascade(w)
  BY <1>1, <1>3 DEF Scan, Descend, Launch, NotifyOne, Release, Cascade, Offer, Goto
<1>4. CASE \/ EmitEnds(w) \/ PushEnd(w) \/ StashError(w) \/ RaiseFatal(w) \/ WorkerCancel(w)
           \/ WorkerHalt(w) \/ WorkerWake(w) \/ CompleteJob(w)
  BY <1>1, <1>4 DEF EmitEnds, PushEnd, StashError, RaiseFatal, WorkerCancel, WorkerHalt, WorkerWake,
     CompleteJob, Goto, AllWoken
<1>. QED
  BY <1>2, <1>3, <1>4 DEF Worker

-----------------------------------------------------------------------------
(* The memory *)

\* A step that launches nothing: every scan in hand was in hand or on the stack.
LEMMA SameScansKeepMemory ==
    ASSUME NEW scans, Remembered(scans), UNCHANGED <<fsVars, nextId>>, visited \subseteq visited',
           \A i \in DOMAIN stack' : \E k \in DOMAIN stack : stack'[i] = stack[k],
           \A v \in Workers : pc'[v] \notin Idle =>
             \/ pc[v] \notin Idle /\ job'[v] = job[v]
             \/ \E k \in DOMAIN stack : job'[v] = stack[k]
    PROVE  Remembered(scans)'
<1>1. Ids' = Ids
  BY DEF Ids
<1>2. IsMemory(scans)'
  BY <1>1 DEF Remembered, IsMemory
<1>3. \A c \in Ids : Recorded(scans, c)'
  BY <1>1, StillRecorded
<1>. QED
  BY <1>1, <1>2, <1>3 DEF Remembered

\* No step of a worker but launch_child launches a scan.
LEMMA WorkerKeepsMemory ==
    ASSUME Types, NEW scans, Remembered(scans), NEW w \in Workers, Worker(w), ~Launch(w)
    PROVE  Remembered(scans)' /\ UNCHANGED <<fsVars, nextId>> /\ visited \subseteq visited'
<1>1. DOMAIN pc = Workers /\ DOMAIN job = Workers
  BY DEF Types, WorkerTypes
<1>2. CASE NextJob(w)
  <2>1. UNCHANGED <<fsVars, nextId>> /\ visited' = visited
    BY <1>2 DEF NextJob
  <2>2. CASE /\ stack # <<>>
             /\ job' = [job EXCEPT ![w] = stack[Len(stack)]]
             /\ stack' = SubSeq(stack, 1, Len(stack) - 1)
             /\ Goto(w, "enumerate")
    <3>1. /\ DOMAIN stack = DOMAIN stack' \cup {Len(stack)}
          /\ \A i \in DOMAIN stack' : stack'[i] = stack[i]
      BY <2>2, PoppedStack
    <3>2. ASSUME NEW v \in Workers, pc'[v] \notin Idle
          PROVE  \/ pc[v] \notin Idle /\ job'[v] = job[v]
                 \/ \E k \in DOMAIN stack : job'[v] = stack[k]
      BY <1>1, <2>2, <3>1, <3>2 DEF Goto
    <3>. QED
      BY <2>1, <3>1, <3>2, SameScansKeepMemory
  <2>3. CASE /\ UNCHANGED <<stack, job>>
             /\ \A v \in Workers : pc'[v] \notin Idle => pc[v] \notin Idle
    BY <2>1, <2>3, SameScansKeepMemory
  <2>. QED
    BY <1>1, <1>2, <2>1, <2>2, <2>3 DEF NextJob, Goto, AllWoken, Idle
<1>3. CASE Cascade(w)
  <2>1. UNCHANGED <<fsVars, nextId, stack, visited, job>>
    BY <1>3 DEF Cascade
  <2>2. \A v \in Workers : pc'[v] \notin Idle => pc[v] \notin Idle
    BY <1>1, <1>3 DEF Cascade, Goto, Idle
  <2>. QED
    BY <2>1, <2>2, SameScansKeepMemory
<1>4. CASE ~NextJob(w) /\ ~Cascade(w)
  <2>1. /\ UNCHANGED <<stack, containers, nextId>>
        /\ \A v \in Workers : pc'[v] \notin Idle => pc[v] \notin Idle /\ job'[v] = job[v]
    BY <1>4, WorkerKeepsJob DEF Worker
  <2>2. UNCHANGED fsVars /\ visited \subseteq visited'
    <3>1. CASE \/ Enumerate(w) \/ LoadCancel(w) \/ TryPush(w) \/ MarkOpen(w) \/ Scan(w)
               \/ Descend(w) \/ NotifyOne(w) \/ Release(w)
      BY <3>1 DEF Enumerate, LoadCancel, TryPush, MarkOpen, Scan, Descend, NotifyOne, Release,
         sharedVars
    <3>2. CASE \/ EmitEnds(w) \/ PushEnd(w) \/ StashError(w) \/ RaiseFatal(w) \/ WorkerCancel(w)
               \/ WorkerHalt(w) \/ WorkerWake(w) \/ CompleteJob(w)
      BY <3>2 DEF EmitEnds, PushEnd, StashError, RaiseFatal, WorkerCancel, WorkerHalt, WorkerWake,
         CompleteJob, sharedVars
    <3>. QED
      BY <1>4, <3>1, <3>2 DEF Worker
  <2>. QED
    BY <2>1, <2>2, SameScansKeepMemory
<1>. QED
  BY <1>2, <1>3, <1>4

\* launch_child adds a scan with the trail of its parent and the entry in hand.
LEMMA LaunchGrowsMemory ==
    ASSUME Types, Accounting, NEW tree, Planted(tree), NEW scans, Remembered(scans),
           NEW w \in Workers, Reads(scans, w), Launch(w)
    PROVE  \E more : /\ Remembered(more)' /\ \A c \in Ids : more[c] = scans[c]
                     /\ more[nextId].job = ChildJob(job[w], entry[w], nextId)
                     /\ more[nextId].trail = Append(scans[job[w].container].trail, entry[w])
<1>1. PICK j, e, n : j = job[w] /\ e = entry[w] /\ n = nextId
  OBVIOUS
<1>2. PICK c, trail, child, r :
        c = j.container /\ trail = scans[c].trail /\ child = ChildJob(j, e, n) /\ r = j.root
  OBVIOUS
<1>3. PICK more : more = [d \in 1..n |-> IF d = n THEN [job |-> child, trail |-> Append(trail, e)]
                                                  ELSE scans[d]]
  OBVIOUS
<1>4. /\ j \in Job /\ c \in Ids /\ c # NoContainer /\ j = scans[c].job
      /\ Place(scans, c) = PathOf(j)
  BY <1>1, <1>2, KnownScan DEF Launch, ScanSteps
<1>5. n \in Nat \ {0} /\ Ids = 1..(n - 1) /\ Ids' = 1..n /\ Ids' = Ids \cup {n} /\ n \notin Ids
  BY <1>1 DEF Types, SharedTypes, Launch, Ids
<1>6. /\ \A d \in Ids : more[d] = scans[d]
      /\ more[n].job = child /\ more[n].trail = Append(trail, e) /\ DOMAIN more = 1..n
  BY <1>3, <1>5
<1>7. /\ trail \in Seq(Listed) /\ r \in Referenced /\ IsTrail(Wanted, r, trail)
      /\ j.dir = ScanAt(r, trail, Len(trail)).dir /\ j.path = ScanAt(r, trail, Len(trail)).path
      /\ Confine => Confined(j.dir)
      /\ Followed(trail) \subseteq visited
  BY <1>2, <1>4 DEF Remembered, IsMemory, Recorded
<1>8. /\ j.dir \notin denied /\ e \in Entries[j.dir] \ unread /\ Wanted(j, e)
      /\ HasIdentity(e) => e.id \in visited /\ e.id \notin Followed(trail)
  BY <1>1, <1>2 DEF Launch, Reads, Reading, Holding
<1>9. j.dir \in Dirs /\ e \in Listed /\ e \in Entry /\ r \in Roots
  BY <1>2, <1>4, <1>7, <1>8, TreeAssumption DEF Job, Listed, Referenced
<1>10. PICK s : s = ScanAt(r, trail, Len(trail))
  OBVIOUS
<1>11. s.dir = j.dir /\ s.path = j.path /\ s.root = j.root
  BY <1>2, <1>7, <1>10 DEF ScanAt
<1>12. Wanted(s, e)
  BY <1>8, <1>11 DEF Wanted, Descends
<1>13. PICK long : long = Append(trail, e)
  OBVIOUS
<1>14. /\ IsTrail(Wanted, r, long) /\ long \in Seq(Listed)
       /\ ScanAt(r, long, Len(trail) + 1).dir = e.target
       /\ ScanAt(r, long, Len(trail) + 1).path = Append(s.path, e.name)
  <2>1. s.dir \notin denied /\ e \in Entries[s.dir] \ unread
    BY <1>8, <1>11
  <2>2. HasIdentity(e) => e.id \notin Followed(trail)
    BY <1>8
  <2>3. /\ IsTrail(Wanted, r, Append(trail, e)) /\ Append(trail, e) \in Seq(Listed)
        /\ ScanAt(r, Append(trail, e), Len(trail) + 1).dir = e.target
        /\ ScanAt(r, Append(trail, e), Len(trail) + 1).path = Append(s.path, e.name)
    BY <1>7, <1>9, <1>10, <1>12, <2>1, <2>2, GrownTrail
  <2>. QED
    BY <1>13, <2>3
<1>15. /\ Len(long) = Len(trail) + 1 /\ DOMAIN long = DOMAIN trail \cup {Len(trail) + 1}
       /\ long[Len(trail) + 1] = e /\ \A k \in DOMAIN trail : long[k] = trail[k]
  BY <1>7, <1>9, <1>13
<1>16. Followed(long) \subseteq visited
  BY <1>7, <1>8, <1>15 DEF Followed
<1>17. /\ child.container = n /\ child.root = r /\ child.dir = e.target /\ child.parent = c
       /\ child.path = Append(j.path, e.name) /\ child.name = e.name
  BY <1>2 DEF ChildJob
<1>18. child \in Job
  <2>1. Append(j.path, e.name) \in Seq(Names) /\ e.target \in Dirs /\ e.name \in Names
    BY <1>4, <1>9 DEF Job, Entry
  <2>2. n \in Containers /\ c \in Containers
    BY <1>2, <1>4, <1>5 DEF Containers, NoContainer, Job
  <2>. QED
    BY <1>2, <1>4, <1>9, <2>1, <2>2 DEF ChildJob, Job, Label
<1>19. PathOf(child) = Append(PathOf(j), e.name)
  <2>1. PICK p, q : p = j.path /\ q = e.name
    OBVIOUS
  <2>2. p \in Seq(Names) /\ q \in Names
    BY <1>4, <1>9, <2>1 DEF Job, Entry
  <2>3. <<r>> \in Seq(Names \cup {r}) /\ p \in Seq(Names \cup {r}) /\ q \in Names \cup {r}
    BY <2>2
  <2>4. <<r>> \o Append(p, q) = Append(<<r>> \o p, q)
    BY <2>3
  <2>. QED
    BY <1>2, <1>17, <2>1, <2>4 DEF PathOf
<1>20. Confine => Confined(e.target)
  BY <1>7, <1>8, <1>9, EnteredIsConfined
<1>21. /\ UNCHANGED <<fsVars, visited, job>> /\ stack' = Append(stack, child)
       /\ stack \in Seq(Job)
       /\ \A v \in Workers : pc'[v] \notin Idle => pc[v] \notin Idle
  BY <1>1, <1>2 DEF Types, SharedTypes, WorkerTypes, Launch, Goto, Idle
<1>22. IsMemory(more)'
  <2>1. \A d \in 1..n : more[d] \in [job : Job, trail : Seq(Listed)]
    BY <1>3, <1>5, <1>6, <1>14, <1>13, <1>18 DEF Remembered, IsMemory
  <2>. QED
    BY <1>3, <1>5, <2>1 DEF IsMemory
<1>23. Recorded(more, n)'
  <2>1. Place(more, c) = PathOf(j)
    BY <1>4, <1>6 DEF Place
  <2>2. IsTrail(Wanted, r, long)'
    BY <1>14, <1>21, SameTrails
  <2>3. PathOf(child) = Append(Place(more, c), e.name)
    BY <1>19, <2>1
  <2>. QED
    BY <1>4, <1>5, <1>6, <1>7, <1>11, <1>13, <1>14, <1>15, <1>16, <1>17, <1>20, <1>21, <2>2, <2>3 DEF Recorded
<1>24. \A d \in Ids' : Recorded(more, d)'
  <2>1. ASSUME NEW d \in Ids PROVE Recorded(more, d)'
    BY <1>5, <1>6, <1>21, StillRecorded
  <2>. QED
    BY <1>5, <1>23, <2>1
<1>25. \A i \in DOMAIN stack' : /\ stack'[i].container \in Ids'
                                /\ stack'[i] = more[stack'[i].container].job
  <2>1. /\ DOMAIN stack' = DOMAIN stack \cup {Len(stack) + 1} /\ stack'[Len(stack) + 1] = child
        /\ \A i \in DOMAIN stack : stack'[i] = stack[i]
    BY <1>18, <1>21
  <2>. QED
    BY <1>5, <1>6, <1>17, <2>1 DEF Remembered
<1>26. \A v \in Workers : pc'[v] \notin Idle => /\ job'[v].container \in Ids'
                                                /\ job'[v] = more[job'[v].container].job
  BY <1>5, <1>6, <1>21 DEF Remembered
<1>. QED
  BY <1>1, <1>2, <1>6, <1>22, <1>24, <1>25, <1>26 DEF Remembered

-----------------------------------------------------------------------------
(* What has been said, and what the client makes of it *)

\* A push of a sound item, or none, leaves every item in the ring sound.
LEMMA StillSays ==
    ASSUME Types, NEW scans, NEW more, Says(scans), UNCHANGED fsVars, Ids \subseteq Ids',
           \A c \in Ids : more[c] = scans[c],
           \A v \in Workers : Offering(v)' => Sound(more, item[v])',
           UNCHANGED ring \/ \E i : ring' = Append(ring, i) /\ Sound(scans, i),
           \A e \in fatalError' : Sound(scans, e)
    PROVE  Says(more)'
<1>1. \A i : Sound(scans, i) => Sound(more, i)'
  BY StillSound
<1>2. \A k \in DOMAIN ring' : Sound(scans, ring'[k])
  <2>1. CASE UNCHANGED ring
    BY <2>1 DEF Says
  <2>2. CASE \E i : ring' = Append(ring, i) /\ Sound(scans, i)
    <3>1. PICK i : ring' = Append(ring, i) /\ Sound(scans, i)
      BY <2>2
    <3>2. /\ DOMAIN ring' = DOMAIN ring \cup {Len(ring) + 1} /\ ring'[Len(ring) + 1] = i
          /\ \A k \in DOMAIN ring : ring'[k] = ring[k]
      BY <3>1 DEF Types, RingTypes
    <3>. QED
      BY <3>1, <3>2 DEF Says
  <2>. QED
    BY <2>1, <2>2
<1>. QED
  BY <1>1, <1>2 DEF Says

\* Between two pops the client knows what it knew.
LEMMA StillKnows ==
    ASSUME NEW scans, NEW more, Knows(scans), NothingUnasked, UNCHANGED <<fsVars, live, got>>,
           Ids \subseteq Ids', \A c \in Ids : more[c] = scans[c]
    PROVE  Knows(more)' /\ NothingUnasked'
<1>1. Knows(more)'
  BY DEF Knows
<1>2. NothingUnasked'
  BY SameTrails DEF NothingUnasked, BagToSet
<1>. QED
  BY <1>1, <1>2

\* What a pop makes known: the client has been told of the container that a report lies in.
LEMMA PoppedReport ==
    ASSUME Types, NEW tree, StreamInv(tree), NEW scans, Knows(scans), Pop
    PROVE  LET h == ring[1] IN
           /\ 1 \in DOMAIN ring /\ h \in Item
           /\ Reporting(h) => live' = live /\ got' = got (+) SetToBag({Told(scans, h)})
           /\ ~Reporting(h) => got' = got
<1>1. PICK h \in Item : h = Head(ring) /\ See(h) /\ h = ring[1] /\ 1 \in DOMAIN ring
  BY PoppedRing DEF Pop
<1>2. CASE Reporting(h)
  <2>1. PICK c : c = h.container /\ c = Subject(h)
    BY <1>2 DEF Subject, Reporting
  <2>2. /\ c # NoContainer => c \in DOMAIN live
        /\ NoContainer \notin DOMAIN live
    BY <1>1, <2>1, FirstInOrder DEF Pop
  <2>3. At(c) = Place(scans, c)
    BY <2>2 DEF At, Place, Knows
  <2>4. PICK report : report = [type |-> h.type, path |-> Append(At(h.container), h.name),
                                matched |-> IF h.type = "Match" THEN h.matched ELSE {}]
    OBVIOUS
  <2>5. live' = live /\ got' = got (+) SetToBag({report})
    BY <1>1, <1>2, <2>4 DEF See, Reporting
  <2>6. report = Told(scans, h)
    BY <2>1, <2>3, <2>4 DEF Told, Report
  <2>. QED
    BY <1>1, <1>2, <2>5, <2>6
<1>3. CASE ~Reporting(h)
  BY <1>1, <1>3 DEF See, Reporting
<1>. QED
  BY <1>1, <1>2, <1>3

\* A pop tells the client where a container lies, or a report that the query asks for: it has
\* been told of the container before.
LEMMA PopIsKnown ==
    ASSUME Types, NEW tree, StreamInv(tree), NEW scans, Remembered(scans), Says(scans),
           Knows(scans), NothingUnasked, Pop, UNCHANGED <<fsVars, nextId>>
    PROVE  Knows(scans)' /\ NothingUnasked'
<1>1. PICK h \in Item : h = Head(ring) /\ See(h) /\ h = ring[1] /\ 1 \in DOMAIN ring
  BY PoppedRing DEF Pop
<1>2. /\ h.type = "Enter" => h.id \in Ids
      /\ Subject(h) # NoContainer => Subject(h) \in DOMAIN live
      /\ DOMAIN live \subseteq Ids /\ NoContainer \notin Ids
  BY <1>1, FirstInOrder DEF Pop
<1>3. Sound(scans, h) /\ Ids' = Ids
  BY <1>1 DEF Says, Ids
<1>4. ASSUME NEW c, c = Subject(h) PROVE At(c) = Place(scans, c)
  <2>1. CASE c = NoContainer
    BY <1>2, <2>1 DEF At, Place
  <2>2. CASE c # NoContainer
    BY <1>2, <1>4, <2>2 DEF At, Place, Knows
  <2>. QED
    BY <2>1, <2>2
<1>5. CASE h.type = "Enter"
  <2>1. h = Enter(scans[h.id].job) /\ Recorded(scans, h.id)
    BY <1>2, <1>3, <1>5 DEF Sound, Remembered
  <2>2. PICK j : j = scans[h.id].job
    OBVIOUS
  <2>3. h.parent = j.parent /\ h.name = j.name /\ Subject(h) = h.parent
    BY <1>5, <2>1, <2>2 DEF Enter, Subject
  <2>4. Append(At(h.parent), h.name) = PathOf(j)
    BY <1>4, <2>1, <2>2, <2>3 DEF Recorded
  <2>5. /\ live' = Insert(live, h.id, [path |-> Append(At(h.parent), h.name),
                                       above |-> Above(h.parent)])
        /\ got' = got
    BY <1>1, <1>5 DEF See
  <2>6. Knows(scans)'
    <3>1. PICK id, known : /\ id = h.id
                           /\ known = [path |-> Append(At(h.parent), h.name),
                                       above |-> Above(h.parent)]
      OBVIOUS
    <3>2. known.path = PathOf(scans[id].job) /\ id \in Ids
      BY <1>2, <1>5, <2>2, <2>4, <3>1
    <3>3. /\ DOMAIN live' = DOMAIN live \cup {id}
          /\ \A c \in DOMAIN live' : live'[c] = IF c = id THEN known ELSE live[c]
      BY <2>5, <3>1 DEF Insert
    <3>. QED
      BY <1>3, <3>2, <3>3 DEF Knows
  <2>7. NothingUnasked'
    BY <2>5, SameTrails DEF NothingUnasked, BagToSet
  <2>. QED
    BY <2>6, <2>7
<1>6. CASE Reporting(h)
  <2>1. Asked(Told(scans, h))
    BY <1>3, <1>6 DEF Sound, Reporting
  <2>2. live' = live /\ got' = got (+) SetToBag({Told(scans, h)})
    BY <1>1, <1>6, PoppedReport
  <2>3. DOMAIN got' = DOMAIN got \cup {Told(scans, h)}
    BY <2>2 DEF (+), SetToBag
  <2>4. NothingUnasked'
    BY <2>1, <2>3, SameTrails DEF NothingUnasked, BagToSet
  <2>5. Knows(scans)'
    BY <1>3, <2>2 DEF Knows
  <2>. QED
    BY <2>4, <2>5
<1>7. CASE h.type \notin {"Enter", "Match", "Blocked", "Error"}
  <2>1. got' = got /\ (live' = live \/ live' = Delete(live, h.id))
    BY <1>1, <1>7 DEF See
  <2>2. Knows(scans)'
    BY <1>3, <2>1 DEF Knows, Delete, Restrict
  <2>3. NothingUnasked'
    BY <2>1, SameTrails DEF NothingUnasked, BagToSet
  <2>. QED
    BY <2>2, <2>3
<1>. QED
  BY <1>5, <1>6, <1>7 DEF Reporting

-----------------------------------------------------------------------------
(* The invariant, step by step *)

\* What a worker pushes and what it stashes is sound.
LEMMA WorkerSays ==
    ASSUME Types, NEW scans, Remembered(scans), \A v \in Workers : Reads(scans, v), Says(scans),
           NEW w \in Workers, Worker(w)
    PROVE  /\ UNCHANGED ring \/ \E i : ring' = Append(ring, i) /\ Sound(scans, i)
           /\ \A e \in fatalError' : Sound(scans, e)
<1>1. CASE TryPush(w)
  BY <1>1 DEF TryPush, Says, Offering, flagVars
<1>2. CASE PushEnd(w)
  <2>1. item[w].type = "End"
    BY <1>2 DEF Types, WorkerTypes, WorkerType, PushEnd, EndItem
  <2>2. Sound(scans, item[w])
    BY <2>1 DEF Sound
  <2>. QED
    BY <1>2, <2>2 DEF PushEnd, Says, flagVars
<1>3. CASE StashError(w)
  <2>1. PICK j : j = job[w]
    OBVIOUS
  <2>2. pc[w] = "slot" /\ pc[w] \notin Idle
    BY <1>3 DEF StashError, Idle
  <2>3. j.dir \in denied /\ j.container \in Ids /\ j = scans[j.container].job
    BY <2>1, <2>2 DEF Reads, Remembered
  <2>4. Recorded(scans, j.container)
    BY <2>3 DEF Remembered
  <2>5. PathOf(j) = Append(Place(scans, j.parent), j.name) /\ j.parent \in Ids \cup {NoContainer}
    BY <2>3, <2>4 DEF Recorded
  <2>6. Told(scans, OpenError(j)) = Report("Error", PathOf(j), {})
    BY <2>5 DEF Told, OpenError
  <2>7. Report("Error", PathOf(j), {}) \in Faults(j)
    BY <2>3 DEF Faults
  <2>8. Asked(Told(scans, OpenError(j)))
    BY <2>3, <2>6, <2>7, ScanAsks
  <2>9. Sound(scans, OpenError(j))
    BY <2>5, <2>8 DEF Sound, OpenError
  <2>. QED
    BY <1>3, <2>1, <2>9 DEF StashError, Says
<1>4. CASE ~TryPush(w) /\ ~PushEnd(w) /\ ~StashError(w)
  <2>1. ring' = ring /\ fatalError' = fatalError
    <3>1. CASE \/ NextJob(w) \/ Enumerate(w) \/ LoadCancel(w) \/ MarkOpen(w) \/ Scan(w)
               \/ Descend(w) \/ Launch(w) \/ NotifyOne(w)
      BY <3>1 DEF NextJob, Enumerate, LoadCancel, MarkOpen, Scan, Descend, Launch, NotifyOne,
         flagVars
    <3>2. CASE \/ Release(w) \/ Cascade(w) \/ EmitEnds(w) \/ RaiseFatal(w) \/ WorkerCancel(w)
               \/ WorkerHalt(w) \/ WorkerWake(w) \/ CompleteJob(w)
      BY <3>2 DEF Release, Cascade, EmitEnds, RaiseFatal, WorkerCancel, WorkerHalt, WorkerWake,
         CompleteJob, flagVars
    <3>. QED
      BY <1>4, <3>1, <3>2 DEF Worker
  <2>. QED
    BY <2>1 DEF Says
<1>. QED
  BY <1>1, <1>2, <1>3, <1>4

\* What the worker that takes the step has read and says afterwards.
LEMMA ActingWorker ==
    ASSUME Types, Accounting, NEW tree, Planted(tree), NEW scans, Remembered(scans), Says(scans),
           NEW w \in Workers, Reads(scans, w), Worker(w), ~Launch(w)
    PROVE  Reads(scans, w)' /\ (Offering(w)' => Sound(scans, item[w])')
<1>1. CASE Enumerate(w)
  BY <1>1, EnumerateSpeaks
<1>2. CASE LoadCancel(w) \/ TryPush(w)
  BY <1>2, EmitSpeaks DEF Says
<1>3. CASE Scan(w)
  BY <1>3, ScanSpeaks
<1>4. CASE Descend(w)
  BY <1>4, DescendSpeaks
<1>5. CASE MarkOpen(w) \/ NotifyOne(w)
  BY <1>5, MarkOpenSpeaks
<1>6. CASE \/ NextJob(w) \/ Release(w) \/ Cascade(w) \/ EmitEnds(w) \/ PushEnd(w)
           \/ StashError(w) \/ RaiseFatal(w) \/ WorkerCancel(w) \/ WorkerHalt(w)
           \/ WorkerWake(w) \/ CompleteJob(w)
  BY <1>6, EndingSpeaks
<1>. QED
  BY <1>1, <1>2, <1>3, <1>4, <1>5, <1>6 DEF Worker

\* The scan that a worker launches for the entry in hand.
LaunchedBy(scans, w, scan) ==
    /\ scan.job = ChildJob(job[w], entry[w], nextId)
    /\ scan.trail = Append(scans[job[w].container].trail, entry[w])

\* Every step of a worker, with the memory as it is or with the scan it launches.
LEMMA WorkerKeepsWalked ==
    ASSUME Types, Accounting, NEW tree, Planted(tree), NEW scans, Walked(scans),
           NEW w \in Workers, Worker(w)
    PROVE  \E more : /\ Walked(more)' /\ \A c \in Ids : more[c] = scans[c]
                     /\ IF Launch(w) THEN LaunchedBy(scans, w, more[nextId]) ELSE more = scans
<1>1. PICK more : /\ IF Launch(w) THEN LaunchedBy(scans, w, more[nextId]) ELSE more = scans
                  /\ Remembered(more)' /\ \A c \in Ids : more[c] = scans[c]
                  /\ UNCHANGED fsVars /\ Ids \subseteq Ids' /\ visited \subseteq visited'
                  /\ Reads(more, w)' /\ (Offering(w)' => Sound(more, item[w])')
  <2>1. CASE Launch(w)
    <3>1. PICK more : /\ Remembered(more)' /\ \A c \in Ids : more[c] = scans[c]
                      /\ LaunchedBy(scans, w, more[nextId])
      BY <2>1, LaunchGrowsMemory DEF Walked, LaunchedBy
    <3>2. Reads(more, w)' /\ ~Offering(w)'
      BY <2>1, MarkOpenSpeaks DEF Walked
    <3>3. UNCHANGED fsVars /\ visited' = visited
      BY <2>1 DEF Launch
    <3>4. Ids \subseteq Ids'
      BY <2>1 DEF Launch, Ids, Types, SharedTypes
    <3>. QED
      BY <2>1, <3>1, <3>2, <3>3, <3>4
  <2>2. CASE ~Launch(w)
    <3>1. Remembered(scans)' /\ UNCHANGED <<fsVars, nextId>> /\ visited \subseteq visited'
      BY <2>2, WorkerKeepsMemory DEF Walked
    <3>2. Reads(scans, w)' /\ (Offering(w)' => Sound(scans, item[w])')
      BY <2>2, ActingWorker DEF Walked
    <3>3. Ids' = Ids
      BY <3>1 DEF Ids
    <3>. QED
      BY <2>2, <3>1, <3>2, <3>3
  <2>. QED
    BY <2>1, <2>2
<1>2. ASSUME NEW v \in Workers, v # w
      PROVE  Reads(more, v)' /\ (Offering(v)' => Sound(more, item[v])')
  <2>1. /\ job'[v] = job[v] /\ item'[v] = item[v] /\ entry'[v] = entry[v]
        /\ failures'[v] = failures[v] /\ entries'[v] = entries[v]
        /\ pc'[v] = pc[v] \/ pc'[v] = "next"
    BY <1>2, OthersUntouched
  <2>2. CASE pc'[v] = pc[v]
    <3>1. Reads(scans, v) /\ (Offering(v) => Sound(scans, item[v]))
      BY DEF Walked, Says
    <3>2. pc[v] \notin Idle => more[job[v].container] = scans[job[v].container]
      BY <1>1 DEF Walked, Remembered
    <3>3. Reads(more, v)'
      BY <1>1, <2>1, <2>2, <3>1, <3>2, StillReads
    <3>4. Offering(v)' => Sound(more, item[v])'
      BY <1>1, <2>1, <2>2, <3>1, StillSound DEF Offering
    <3>. QED
      BY <3>3, <3>4
  <2>3. CASE pc'[v] = "next"
    BY <2>3 DEF Reads, Reading, Holding, Offering
  <2>. QED
    BY <2>1, <2>2, <2>3
<1>3. /\ UNCHANGED ring \/ \E i : ring' = Append(ring, i) /\ Sound(scans, i)
      /\ \A e \in fatalError' : Sound(scans, e)
  BY WorkerSays DEF Walked
<1>4. Says(more)'
  BY <1>1, <1>2, <1>3, StillSays DEF Walked
<1>5. UNCHANGED <<live, got>>
  <2>1. CASE \/ NextJob(w) \/ Enumerate(w) \/ LoadCancel(w) \/ TryPush(w) \/ MarkOpen(w)
             \/ Scan(w) \/ Descend(w) \/ Launch(w) \/ NotifyOne(w)
    BY <2>1 DEF NextJob, Enumerate, LoadCancel, TryPush, MarkOpen, Scan, Descend, Launch,
       NotifyOne, clientVars, viewVars
  <2>2. CASE \/ Release(w) \/ Cascade(w) \/ EmitEnds(w) \/ PushEnd(w) \/ StashError(w)
             \/ RaiseFatal(w) \/ WorkerCancel(w) \/ WorkerHalt(w) \/ WorkerWake(w) \/ CompleteJob(w)
    BY <2>2 DEF Release, Cascade, EmitEnds, PushEnd, StashError, RaiseFatal, WorkerCancel,
       WorkerHalt, WorkerWake, CompleteJob, clientVars, viewVars
  <2>. QED
    BY <2>1, <2>2 DEF Worker
<1>6. Knows(more)' /\ NothingUnasked'
  BY <1>1, <1>5, StillKnows DEF Walked
<1>7. \A v \in Workers : Reads(more, v)'
  BY <1>1, <1>2
<1>. QED
  BY <1>1, <1>4, <1>6, <1>7 DEF Walked

\* A step of another thread: it may wake workers, push an item of its own, or pop one.
LEMMA OthersKeepWalked ==
    ASSUME Types, NEW tree, StreamInv(tree), NEW scans, Walked(scans),
           Coordinator \/ SqThread \/ Client \/ UNCHANGED vars
    PROVE  Walked(scans)'
<1>1. /\ UNCHANGED <<fsVars, nextId, stack, visited, job, item, failures, entries, entry>>
      /\ UNCHANGED pc \/ pc' = AllWoken
  <2>1. CASE Coordinator
    BY <2>1 DEF Coordinator, Join, Close, PushLeftover, Conclude, PushCause, PushTerminal, Finish,
       sharedVars, workVars
  <2>2. CASE SqThread
    BY <2>2 DEF SqThread, SqCheck, SqDrain, SqServe, SqHalt, SqWake, sharedVars, workVars
  <2>3. CASE Client
    BY <2>3 DEF Client, ClientPop, ClientSubmit, DropHandle, Dropping, DropHalt, DropWake,
       DropDrain, DropJoin, Gone, vars, sharedVars, workVars
  <2>4. CASE UNCHANGED vars
    BY <2>4 DEF vars, sharedVars, workVars
  <2>. QED
    BY <2>1, <2>2, <2>3, <2>4
<1>2. DOMAIN pc = Workers
  BY DEF Types, WorkerTypes
<1>3. \A v \in Workers : pc'[v] = pc[v] \/ pc'[v] = "next"
  BY <1>1, <1>2 DEF AllWoken
<1>4. Ids' = Ids
  BY <1>1 DEF Ids
<1>5. Remembered(scans)'
  <2>1. \A v \in Workers : pc'[v] \notin Idle => pc[v] \notin Idle /\ job'[v] = job[v]
    BY <1>1, <1>3 DEF Idle
  <2>. QED
    BY <1>1, <2>1, SameScansKeepMemory DEF Walked
<1>6. ASSUME NEW v \in Workers
      PROVE  Reads(scans, v)' /\ (Offering(v)' => Sound(scans, item[v])')
  <2>1. CASE pc'[v] = pc[v]
    <3>1. Reads(scans, v) /\ (Offering(v) => Sound(scans, item[v]))
      BY DEF Walked, Says
    <3>2. Reads(scans, v)'
      BY <1>1, <2>1, <3>1, StillReads
    <3>3. Offering(v)' => Sound(scans, item[v])'
      BY <1>1, <1>4, <2>1, <3>1, StillSound DEF Offering
    <3>. QED
      BY <3>2, <3>3
  <2>2. CASE pc'[v] = "next"
    BY <2>2 DEF Reads, Reading, Holding, Offering
  <2>. QED
    BY <1>3, <2>1, <2>2
<1>7. CASE Pop /\ UNCHANGED fatalError
  <2>1. Knows(scans)' /\ NothingUnasked'
    BY <1>1, <1>7, PopIsKnown DEF Walked
  <2>2. \A k \in DOMAIN ring' : Sound(scans, ring'[k])
    BY <1>7, PoppedRing DEF Walked, Says
  <2>3. \A i : Sound(scans, i) => Sound(scans, i)'
    BY <1>1, <1>4, StillSound
  <2>4. Says(scans)'
    BY <1>6, <1>7, <2>2, <2>3 DEF Walked, Says
  <2>. QED
    BY <1>5, <1>6, <2>1, <2>4 DEF Walked
<1>8. CASE /\ UNCHANGED <<live, got>> /\ fatalError' \subseteq fatalError
           /\ UNCHANGED ring \/ \E i : ring' = Append(ring, i) /\ Sound(scans, i)
  <2>1. Knows(scans)' /\ NothingUnasked'
    BY <1>1, <1>4, <1>8, StillKnows DEF Walked
  <2>2. \A e \in fatalError' : Sound(scans, e)
    BY <1>8 DEF Walked, Says
  <2>3. Says(scans)'
    BY <1>1, <1>4, <1>6, <1>8, <2>2, StillSays DEF Walked
  <2>. QED
    BY <1>5, <1>6, <2>1, <2>3 DEF Walked
<1>9. CASE Coordinator
  <2>1. UNCHANGED <<live, got>> /\ fatalError' \subseteq fatalError
    BY <1>9 DEF Coordinator, Join, Close, PushLeftover, Conclude, PushCause, PushTerminal, Finish,
       clientVars, viewVars, flagVars
  <2>2. UNCHANGED ring \/ \E i : ring' = Append(ring, i) /\ Sound(scans, i)
    <3>1. Sound(scans, End(closing)) /\ Sound(scans, Terminal(reason))
      BY DEF Sound, End, Terminal
    <3>2. \A e \in fatalError : Sound(scans, e)
      BY DEF Walked, Says
    <3>. QED
      BY <1>9, <3>1, <3>2 DEF Coordinator, Join, Close, PushLeftover, Conclude, PushCause,
         PushTerminal, Finish
  <2>. QED
    BY <1>8, <2>1, <2>2
<1>10. CASE SqThread \/ Client \/ UNCHANGED vars
  <2>1. UNCHANGED fatalError /\ (Pop \/ UNCHANGED <<ring, live, got>>)
    BY <1>10 DEF SqThread, SqCheck, SqDrain, SqServe, SqHalt, SqWake, Client, ClientPop,
       ClientSubmit, DropHandle, Dropping, DropHalt, DropWake, DropDrain, DropJoin, Gone, vars,
       flagVars, clientVars, viewVars
  <2>. QED
    BY <1>7, <1>8, <2>1
<1>. QED
  BY <1>9, <1>10

IsRootScan(scans, c, r) == scans[c].job.root = r /\ scans[c].trail = <<>>

\* At the start every scan is a root's, on the trail of no entries, and each root has one.
LEMMA InitWalked ==
    ASSUME Init
    PROVE  \E scans : /\ Walked(scans)
                      /\ \A c \in Ids : scans[c].job.parent = NoContainer
                      /\ \A c, d \in Ids : PathOf(scans[c].job) = PathOf(scans[d].job) => c = d
                      /\ \A i \in DOMAIN stack : stack[i].container = i
                      /\ DOMAIN stack = Ids
                      /\ \A r \in Referenced : \E c \in Ids : IsRootScan(scans, c, r)
<1>1. PICK n : n = Cardinality(Referenced)
  OBVIOUS
<1>2. n \in Nat /\ nextId = n + 1
  BY <1>1, ReferencedIsFinite DEF Init
<1>3. PICK seeds \in [1..n -> Referenced] :
        Increasing(seeds) /\ stack = [k \in DOMAIN seeds |-> RootJob(seeds[k], k)]
  BY <1>1 DEF Init
<1>4. PICK scans : scans = [c \in 1..n |-> [job |-> RootJob(seeds[c], c), trail |-> <<>>]]
  OBVIOUS
<1>5. Ids = 1..n /\ Referenced \subseteq Roots
  BY <1>2 DEF Ids, Referenced
<1>6. /\ pc = [w \in Workers |-> "next"] /\ ring = <<>> /\ fatalError = {} /\ live = <<>>
      /\ got = EmptyBag
  BY DEF Init
<1>7. ASSUME NEW c \in Ids
      PROVE  /\ scans[c].job \in Job /\ scans[c].trail \in Seq(Listed) /\ Recorded(scans, c)
  <2>1. PICK r \in Roots : r = seeds[c] /\ r \in Referenced
    BY <1>3, <1>5
  <2>2. PICK j : j = scans[c].job
    OBVIOUS
  <2>3. /\ j.dir = RootDirs[r] /\ j.path = <<>> /\ j.container = c /\ j.parent = NoContainer
        /\ j.root = r /\ j.name = r
    BY <1>4, <1>5, <2>1, <2>2 DEF RootJob
  <2>4. scans[c].trail = <<>> /\ <<>> \in Seq(Listed) /\ Len(<<>>) = 0
    BY <1>4, <1>5
  <2>5. RootDirs[r] \in Dirs /\ c \in Containers
    BY <1>2, <1>5, QueryAssumption DEF Roots, Containers, NoContainer
  <2>6. scans[c].job \in Job
    <3>1. j = RootJob(r, c)
      BY <1>4, <1>5, <2>1, <2>2
    <3>2. <<>> \in Seq(Names)
      OBVIOUS
    <3>. QED
      BY <2>2, <2>5, <3>1, <3>2 DEF RootJob, Job, Label
  <2>7. PathOf(j) = Append(<<>>, r)
    BY <2>3 DEF PathOf
  <2>8. Recorded(scans, c)
    BY <2>1, <2>2, <2>3, <2>4, <2>7, RootTrail, RootIsConfined DEF Recorded, Place
  <2>. QED
    BY <2>4, <2>6, <2>8
<1>8. IsMemory(scans)
  <2>1. \A c \in 1..n : scans[c] \in [job : Job, trail : Seq(Listed)]
    BY <1>4, <1>5, <1>7
  <2>. QED
    BY <1>4, <1>5, <2>1 DEF IsMemory
<1>9. \A i \in DOMAIN stack : stack[i].container \in Ids /\ stack[i] = scans[stack[i].container].job
  BY <1>3, <1>4, <1>5 DEF RootJob
<1>10. Remembered(scans)
  BY <1>6, <1>7, <1>8, <1>9 DEF Remembered, Idle
<1>11. \A w \in Workers : Reads(scans, w) /\ ~Offering(w)
  BY <1>6 DEF Reads, Reading, Holding, Offering
<1>12. Says(scans) /\ Knows(scans)
  BY <1>6, <1>11 DEF Says, Knows
<1>13. NothingUnasked
  BY <1>6 DEF NothingUnasked, BagToSet, EmptyBag, SetToBag
<1>14. \A c \in Ids : /\ scans[c].job.parent = NoContainer
                      /\ PathOf(scans[c].job) = <<seeds[c]>>
  <2> SUFFICES ASSUME NEW c \in Ids
               PROVE  /\ scans[c].job.parent = NoContainer
                      /\ PathOf(scans[c].job) = <<seeds[c]>>
    OBVIOUS
  <2>1. PICK r : r = seeds[c]
    OBVIOUS
  <2>2. scans[c].job.parent = NoContainer /\ scans[c].job.path = <<>> /\ scans[c].job.root = r
    BY <1>4, <1>5, <2>1 DEF RootJob
  <2>3. <<r>> \o <<>> = <<r>>
    OBVIOUS
  <2>. QED
    BY <2>1, <2>2, <2>3 DEF PathOf
<1>15. \A c, d \in Ids : seeds[c] = seeds[d] => c = d
  <2>1. \A c \in Ids : seeds[c] \in Nat
    BY <1>3, <1>5, QueryAssumption DEF Roots
  <2>2. \A c, d \in Ids : c < d => seeds[c] < seeds[d]
    BY <1>3, <1>5 DEF Increasing
  <2>3. \A c, d \in Ids : c < d \/ d < c \/ c = d
    BY <1>2, <1>5
  <2>. QED
    BY <2>1, <2>2, <2>3
<1>16. \A c, d \in Ids : PathOf(scans[c].job) = PathOf(scans[d].job) => c = d
  <2>1. \A a, b : <<a>> = <<b>> => a = b
    OBVIOUS
  <2>. QED
    BY <1>14, <1>15, <2>1
<1>17. DOMAIN stack = Ids /\ \A i \in DOMAIN stack : stack[i].container = i
  BY <1>3, <1>5 DEF RootJob
<1>18. ASSUME NEW r \in Referenced PROVE \E c \in Ids : IsRootScan(scans, c, r)
  <2>1. PICK c \in 1..n : seeds[c] = r
    <3>1. SUFFICES ASSUME \A c \in 1..n : seeds[c] # r PROVE FALSE
      OBVIOUS
    <3>2. PICK others : others = Referenced \ {r}
      OBVIOUS
    <3>3. IsFiniteSet(others) /\ Cardinality(others) = n - 1
      BY <1>1, <3>2, ReferencedIsFinite, FS_RemoveElement
    <3>4. IsFiniteSet(1..n) /\ Cardinality(1..n) = n
      BY <1>2, FS_Interval
    <3>5. \A c \in 1..n : seeds[c] \in others
      BY <1>3, <3>1, <3>2
    <3>6. PICK f : f = [c \in 1..n |-> seeds[c]]
      OBVIOUS
    <3>7. f \in [1..n -> others]
      BY <3>5, <3>6
    <3>8. PICK c \in 1..n, d \in 1..n : c # d /\ f[c] = f[d]
      BY <1>2, <3>3, <3>4, <3>7, FS_PigeonHole
    <3>. QED
      BY <1>5, <1>15, <3>6, <3>8
  <2>. QED
    BY <1>4, <1>5, <2>1 DEF IsRootScan, RootJob
<1>. QED
  BY <1>10, <1>11, <1>12, <1>13, <1>14, <1>16, <1>17, <1>18 DEF Walked

\* There always is a memory of the scans that all that is read, said and known accords with.
THEOREM WalkInvariance == Spec => [](\E scans : Walked(scans))
<1> DEFINE Inv == \E tree : StreamInv(tree)
           Walks == \E scans : Walked(scans)
<1>1. Init => Walks
  BY InitWalked
<1>2. IInv /\ Accounting /\ Inv /\ Walks /\ [Next]_vars => Walks'
  <2> SUFFICES ASSUME IInv, Accounting, NEW tree, StreamInv(tree), NEW scans, Walked(scans),
                      [Next]_vars
               PROVE  Walks'
    OBVIOUS
  <2>1. Types /\ Planted(tree)
    BY DEF IInv, StreamInv
  <2>2. ASSUME NEW w \in Workers, Worker(w) PROVE Walks'
    BY <2>1, <2>2, WorkerKeepsWalked
  <2>3. CASE Coordinator \/ SqThread \/ Client \/ UNCHANGED vars
    BY <2>1, <2>3, OthersKeepWalked
  <2>. QED
    BY <2>2, <2>3 DEF Next
<1> HIDE DEF Inv, Walks
<1>3. Spec => []Inv
  BY StreamInvariance DEF Inv
<1>4. Spec => []Walks
  BY <1>1, <1>2, <1>3, Invariance, AccountingInvariance, PTL DEF Spec
<1>. QED
  BY <1>4 DEF Walks

\* A confined walk reads no directory outside the query's roots (escapes_confinement,
\* engine.rs:409), in whatever order the scans run.
THEOREM ConfinementCorrect == Spec => []ConfinedWalk
<1>1. (\E scans : Walked(scans)) => ConfinedWalk
  <2> SUFFICES ASSUME NEW scans, Walked(scans), Confine, NEW w \in Workers, pc[w] = "enumerate"
               PROVE  Confined(job[w].dir)
    BY DEF ConfinedWalk
  <2>1. PICK c : c = job[w].container
    OBVIOUS
  <2>2. c \in Ids /\ job[w] = scans[c].job
    BY <2>1 DEF Walked, Remembered, Idle
  <2>. QED
    BY <2>2 DEF Walked, Remembered, Recorded
<1>2. Spec => [](\E scans : Walked(scans))
  BY WalkInvariance
<1>. QED
  BY <1>1, <1>2, PTL

\* Whatever is cancelled, refused or read in whatever order, the client is told only what some
\* scan of the walk owes, and in the place it is owed (process, engine.rs:244).
THEOREM ReportsCorrect == Spec => []NothingUnasked
<1>1. (\E scans : Walked(scans)) => NothingUnasked
  BY DEF Walked
<1>2. Spec => [](\E scans : Walked(scans))
  BY WalkInvariance
<1>. QED
  BY <1>1, <1>2, PTL

-----------------------------------------------------------------------------
(* Each report once.  A scan owes its reports, no two scans owe the same,    *)
(* and what a scan has said is behind it.                                   *)

Owes(j) == Matches(j) \cup Faults(j)

\* No two scans lie in the same place, and a scan was launched for an entry of its parent's.
Apart(scans) ==
    /\ \A c, d \in Ids : PathOf(scans[c].job) = PathOf(scans[d].job) => c = d
    /\ \A c \in Ids : scans[c].job.parent \in Ids =>
         \E e \in Entries[scans[scans[c].job.parent].job.dir] \ unread :
             e.name = scans[c].job.name

\* A scan is on the stack or in the hands of one worker.
InOneHand ==
    /\ \A i, k \in DOMAIN stack : stack[i].container = stack[k].container => i = k
    /\ \A v, w \in Workers :
         pc[v] \notin Idle /\ pc[w] \notin Idle /\ job[v].container = job[w].container => v = w
    /\ \A i \in DOMAIN stack : \A w \in Workers :
         pc[w] \notin Idle => stack[i].container # job[w].container

Childless(scans, c) == \A d \in Ids : scans[d].job.parent # c

\* What has been said: to the client, in the ring, or in the slot of the fatal error.
Said(scans) ==
    BagToSet(got)
      \cup {Told(scans, ring[k]) : k \in {l \in DOMAIN ring : Reporting(ring[l])}}
      \cup {Told(scans, e) : e \in fatalError}

SaidOf(scans, j) == Said(scans) \cap Owes(j)

\* A root that could not be opened, on the way to request_fatal.
Failed(w) ==
    /\ pc[w] \in {"release", "cascade", "ends", "end", "slot"}
    /\ job[w].dir \in denied /\ job[w].parent = NoContainer

\* Where an entry lies.
Spot(j, e) == Append(PathOf(j), e.name)

\* What is left of a listing has neither been said nor launched ...
ListingAhead(scans, w) ==
    /\ \A e \in entries[w] : \A r \in SaidOf(scans, job[w]) :
         r.path = Spot(job[w], e) => r.type = "Error"
    /\ \A e \in failures[w] : \A r \in SaidOf(scans, job[w]) :
         r.path = Spot(job[w], e) => r.type # "Error"
    /\ \A e \in entries[w] : \A d \in Ids :
         scans[d].job.parent = job[w].container => scans[d].job.name # e.name

\* ... the entry in hand has not been blocked or launched ...
EntryAhead(scans, w) ==
    /\ entry[w] \notin entries[w]
    /\ \A r \in SaidOf(scans, job[w]) : r.path = Spot(job[w], entry[w]) => r.type # "Blocked"
    /\ \A d \in Ids :
         scans[d].job.parent = job[w].container => scans[d].job.name # entry[w].name

\* ... and the report on offer is new, and its entry is behind the scan.
ItemAhead(scans, w) ==
    /\ Told(scans, item[w]) \in Owes(job[w]) \ Said(scans)
    /\ item[w].container = job[w].container =>
         \A e \in (IF item[w].type = "Error" THEN failures[w] ELSE entries[w]) :
             e.name # item[w].name

Ahead(scans, w) ==
    /\ pc[w] = "enumerate" => SaidOf(scans, job[w]) = {} /\ Childless(scans, job[w].container)
    /\ Failed(w) => SaidOf(scans, job[w]) = {}
    /\ Reading(w) => ListingAhead(scans, w)
    /\ Holding(w) => EntryAhead(scans, w)
    /\ Offering(w) /\ Reporting(item[w]) => ItemAhead(scans, w)

\* What has been said is owed by some scan, and stands in one place only.
Once(scans) ==
    /\ \A r \in Said(scans) : \E c \in Ids : r \in Owes(scans[c].job)
    /\ NothingTwice
    /\ \A k \in DOMAIN ring : Reporting(ring[k]) =>
         /\ Told(scans, ring[k]) \notin BagToSet(got)
         /\ \A e \in fatalError : Told(scans, e) # Told(scans, ring[k])
         /\ \A l \in DOMAIN ring :
              Reporting(ring[l]) /\ Told(scans, ring[l]) = Told(scans, ring[k]) => l = k
    /\ \A e \in fatalError : Told(scans, e) \notin BagToSet(got)

Single(scans) ==
    /\ Apart(scans) /\ InOneHand
    /\ \A i \in DOMAIN stack : /\ SaidOf(scans, stack[i]) = {}
                               /\ Childless(scans, stack[i].container)
    /\ \A w \in Workers : Ahead(scans, w)
    /\ Once(scans)

-----------------------------------------------------------------------------
(* Places and reports *)

\* A path tells the path above it and its last name.
LEMMA LastOfPath ==
    ASSUME NEW S, NEW p \in Seq(S), NEW q \in Seq(S), NEW a \in S, NEW b \in S,
           Append(p, a) = Append(q, b)
    PROVE  p = q /\ a = b
<1>1. Len(p) = Len(q)
  OBVIOUS
<1>2. Append(p, a)[Len(p) + 1] = a /\ Append(q, b)[Len(p) + 1] = b
  BY <1>1
<1>3. \A i \in 1..Len(p) : p[i] = Append(p, a)[i] /\ q[i] = Append(q, b)[i]
  BY <1>1
<1>. QED
  BY <1>1, <1>2, <1>3

\* A scan's path begins with its root.
LEMMA PathOfJob ==
    ASSUME NEW j \in Job
    PROVE  PathOf(j) \in Seq(Label) /\ PathOf(j) # <<>>
<1>1. PICK r, p : r = j.root /\ p = j.path
  OBVIOUS
<1>2. r \in Label /\ p \in Seq(Label)
  BY <1>1 DEF Job, Label
<1>3. <<r>> \o p \in Seq(Label) /\ Len(<<r>> \o p) = Len(p) + 1 /\ Len(p) \in Nat
  BY <1>2
<1>4. <<r>> \o p # <<>>
  BY <1>3
<1>. QED
  BY <1>1, <1>3, <1>4 DEF PathOf

\* Entries of one directory lie in different spots, and those of different scans too.
LEMMA SpotsApart ==
    ASSUME NEW i \in Job, NEW j \in Job, NEW e \in Entry, NEW f \in Entry, Spot(i, e) = Spot(j, f)
    PROVE  PathOf(i) = PathOf(j) /\ e.name = f.name
<1>1. PICK p, q, a, b : p = PathOf(i) /\ q = PathOf(j) /\ a = e.name /\ b = f.name
  OBVIOUS
<1>2. p \in Seq(Label) /\ q \in Seq(Label)
  BY <1>1, PathOfJob
<1>3. a \in Label /\ b \in Label
  BY <1>1 DEF Entry, Label
<1>4. Append(p, a) = Append(q, b)
  BY <1>1 DEF Spot
<1>5. p = q /\ a = b
  BY <1>2, <1>3, <1>4, LastOfPath
<1>. QED
  BY <1>1, <1>5

\* What a report of a scan says about where it lies.
LEMMA OwedPath ==
    ASSUME NEW j, j.dir \in Dirs, NEW r \in Owes(j)
    PROVE  \/ r.type = "Error" /\ r.path = PathOf(j) /\ j.dir \in denied
           \/ r.type = "Error" /\ \E e \in Entries[j.dir] \cap unread : r.path = Spot(j, e)
           \/ r.type # "Error" /\ \E e \in Entries[j.dir] \ unread : r.path = Spot(j, e)
<1>1. CASE r \in Matches(j)
  <2>1. PICK e \in Entries[j.dir] \ unread : r = Report("Match", Append(PathOf(j), e.name), HitsOf(j, e))
    BY <1>1 DEF Matches
  <2>. QED
    BY <2>1 DEF Report, Spot
<1>2. CASE r \in Faults(j)
  <2>1. \/ j.dir \in denied /\ r = Report("Error", PathOf(j), {})
        \/ \E e \in Entries[j.dir] \cap unread : r = Report("Error", Append(PathOf(j), e.name), {})
        \/ \E e \in Entries[j.dir] \ unread : r = Report("Blocked", Append(PathOf(j), e.name), {})
    BY <1>2 DEF Faults
  <2>. QED
    BY <2>1 DEF Report, Spot
<1>. QED
  BY <1>1, <1>2 DEF Owes

\* A scan lies below its parent, and a root below nobody.
LEMMA Below ==
    ASSUME NEW scans, Remembered(scans), NEW c \in Ids, NEW d \in Ids, NEW a \in Label,
           PathOf(scans[d].job) = Append(PathOf(scans[c].job), a), Apart(scans), NoContainer \notin Ids
    PROVE  scans[d].job.parent = c /\ scans[d].job.name = a
<1>1. PICK i, j : i = scans[c].job /\ j = scans[d].job
  OBVIOUS
<1>2. i \in Job /\ j \in Job /\ Recorded(scans, d)
  BY <1>1 DEF Remembered, IsMemory
<1>3. /\ j.parent \in Ids \cup {NoContainer}
      /\ PathOf(j) = Append(Place(scans, j.parent), j.name)
  BY <1>1, <1>2 DEF Recorded
<1>4. PICK p, q, b : p = PathOf(i) /\ q = Place(scans, j.parent) /\ b = j.name
  OBVIOUS
<1>5. p \in Seq(Label) /\ p # <<>> /\ b \in Label
  BY <1>2, <1>4, PathOfJob DEF Job
<1>6. q \in Seq(Label)
  <2>1. CASE j.parent = NoContainer
    BY <1>4, <2>1 DEF Place
  <2>2. CASE j.parent \in Ids
    <3>1. scans[j.parent].job \in Job
      BY <2>2 DEF Remembered, IsMemory
    <3>. QED
      BY <1>4, <2>2, <3>1, PathOfJob DEF Place
  <2>. QED
    BY <1>3, <2>1, <2>2
<1>7. Append(q, b) = Append(p, a)
  BY <1>1, <1>3, <1>4
<1>8. q = p /\ b = a
  BY <1>5, <1>6, <1>7, LastOfPath
<1>9. j.parent # NoContainer
  BY <1>4, <1>5, <1>8 DEF Place
<1>10. PathOf(scans[j.parent].job) = PathOf(scans[c].job)
  BY <1>1, <1>4, <1>8, <1>9 DEF Place
<1>. QED
  BY <1>1, <1>3, <1>4, <1>8, <1>9, <1>10 DEF Apart

\* Two scans owe the same report only if they lie in one place, or one lies at an entry of the
\* other's that could not be read.
LEMMA OwesDiffer ==
    ASSUME NEW i \in Job, NEW j \in Job, PathOf(i) # PathOf(j),
           \A e \in Entries[i.dir] \cap unread : PathOf(j) # Spot(i, e),
           \A e \in Entries[j.dir] \cap unread : PathOf(i) # Spot(j, e),
           NEW r, r \in Owes(i), r \in Owes(j)
    PROVE  FALSE
<1>1. i.dir \in Dirs /\ j.dir \in Dirs
  BY DEF Job
<1>2. Entries[i.dir] \subseteq Entry /\ Entries[j.dir] \subseteq Entry
  BY <1>1, TreeAssumption
<1>3. \A e \in Entries[i.dir], f \in Entries[j.dir] : Spot(i, e) # Spot(j, f)
  BY <1>2, SpotsApart
<1>4. /\ \/ r.type = "Error" /\ r.path = PathOf(i)
         \/ r.type = "Error" /\ \E e \in Entries[i.dir] \cap unread : r.path = Spot(i, e)
         \/ r.type # "Error" /\ \E e \in Entries[i.dir] \ unread : r.path = Spot(i, e)
      /\ \/ r.type = "Error" /\ r.path = PathOf(j)
         \/ r.type = "Error" /\ \E e \in Entries[j.dir] \cap unread : r.path = Spot(j, e)
         \/ r.type # "Error" /\ \E e \in Entries[j.dir] \ unread : r.path = Spot(j, e)
  BY <1>1, OwedPath
<1>. QED
  BY <1>3, <1>4

\* No two scans owe the same report: an entry that cannot be read is never entered.
LEMMA OwesApart ==
    ASSUME NEW scans, Remembered(scans), Apart(scans), NoContainer \notin Ids,
           NEW c \in Ids, NEW d \in Ids,
           NEW r, r \in Owes(scans[c].job), r \in Owes(scans[d].job)
    PROVE  c = d
<1>1. \A b \in Ids : scans[b].job \in Job /\ scans[b].job.dir \in Dirs
  BY DEF Remembered, IsMemory, Job
<1>2. ASSUME NEW a \in Ids, NEW b \in Ids, NEW e \in Entries[scans[a].job.dir] \cap unread
      PROVE  PathOf(scans[b].job) # Spot(scans[a].job, e)
  <2>1. e \in Entry /\ e.name \in Label /\ e \in Entries[scans[a].job.dir]
    BY <1>1, TreeAssumption DEF Entry, Label
  <2>2. SUFFICES ASSUME PathOf(scans[b].job) = Spot(scans[a].job, e) PROVE FALSE
    OBVIOUS
  <2>3. scans[b].job.parent = a /\ scans[b].job.name = e.name
    BY <2>1, <2>2, Below DEF Spot
  <2>4. PICK f \in Entries[scans[a].job.dir] \ unread : f.name = scans[b].job.name
    BY <2>3 DEF Apart
  <2>5. f = e
    BY <1>1, <2>1, <2>3, <2>4, ListingAssumption
  <2>. QED
    BY <2>4, <2>5
<1>3. c # d => PathOf(scans[c].job) # PathOf(scans[d].job)
  BY DEF Apart
<1>4. PICK i, j : i = scans[c].job /\ j = scans[d].job
  OBVIOUS
<1>5. /\ i \in Job /\ j \in Job
      /\ \A e \in Entries[i.dir] \cap unread : PathOf(j) # Spot(i, e)
      /\ \A e \in Entries[j.dir] \cap unread : PathOf(i) # Spot(j, e)
  BY <1>1, <1>2, <1>4
<1>. QED
  BY <1>3, <1>4, <1>5, OwesDiffer

\* A scan that is launched lies in a place of its own, and owes what no other does.
LEMMA ChildApart ==
    ASSUME NEW scans, Remembered(scans), Apart(scans), NoContainer \notin Ids, NEW c \in Ids,
           NEW j, j = scans[c].job, NEW e \in Entries[j.dir] \ unread, NEW child \in Job,
           PathOf(child) = Spot(j, e),
           \A d \in Ids : scans[d].job.parent = c => scans[d].job.name # e.name,
           NEW d \in Ids
    PROVE  /\ PathOf(scans[d].job) # PathOf(child)
           /\ Owes(scans[d].job) \cap Owes(child) = {}
<1>1. \A b \in Ids : scans[b].job \in Job /\ scans[b].job.dir \in Dirs
  BY DEF Remembered, IsMemory, Job
<1>2. \A x \in Dirs : Entries[x] \subseteq Entry
  BY TreeAssumption
<1>3. e \in Entry /\ e.name \in Label /\ j.dir \in Dirs /\ child.dir \in Dirs
  BY <1>1, <1>2 DEF Entry, Label, Job
<1>4. ASSUME NEW b \in Ids PROVE PathOf(scans[b].job) # PathOf(child)
  <2>1. PathOf(scans[b].job) = Append(PathOf(scans[c].job), e.name) =>
          scans[b].job.parent = c /\ scans[b].job.name = e.name
    BY <1>3, Below
  <2>. QED
    BY <2>1 DEF Spot
<1>5. ASSUME NEW f \in Entries[scans[d].job.dir] \cap unread
      PROVE  PathOf(child) # Spot(scans[d].job, f)
  <2>1. SUFFICES ASSUME Spot(j, e) = Spot(scans[d].job, f) PROVE FALSE
    OBVIOUS
  <2>2. f \in Entry /\ j \in Job
    BY <1>1, <1>2
  <2>3. PathOf(j) = PathOf(scans[d].job) /\ e.name = f.name
    BY <1>1, <1>3, <2>1, <2>2, SpotsApart
  <2>4. d = c
    BY <2>3 DEF Apart
  <2>5. e = f
    BY <1>3, <2>3, <2>4, ListingAssumption
  <2>. QED
    BY <2>5
<1>6. ASSUME NEW f \in Entries[child.dir] \cap unread
      PROVE  PathOf(scans[d].job) # Spot(child, f)
  <2>1. SUFFICES ASSUME PathOf(scans[d].job) = Append(PathOf(child), f.name) PROVE FALSE
    BY DEF Spot
  <2>2. PICK i : i = scans[d].job
    OBVIOUS
  <2>3. /\ i.parent \in Ids \cup {NoContainer} /\ i \in Job
        /\ PathOf(i) = Append(Place(scans, i.parent), i.name)
    BY <1>1, <2>2 DEF Remembered, Recorded
  <2>4. PICK p, q, a, b : /\ p = PathOf(child) /\ a = f.name /\ q = Place(scans, i.parent)
                          /\ b = i.name
    OBVIOUS
  <2>5. p \in Seq(Label) /\ p # <<>> /\ a \in Label /\ b \in Label
    BY <1>2, <1>3, <2>3, <2>4, PathOfJob DEF Entry, Label, Job
  <2>6. q = <<>> \/ (i.parent \in Ids /\ q = PathOf(scans[i.parent].job))
    BY <2>3, <2>4 DEF Place
  <2>7. q \in Seq(Label)
    <3>1. CASE q = <<>>
      BY <3>1
    <3>2. CASE i.parent \in Ids /\ q = PathOf(scans[i.parent].job)
      BY <1>1, <3>2, PathOfJob
    <3>. QED
      BY <2>6, <3>1, <3>2
  <2>8. Append(p, a) = Append(q, b)
    BY <2>1, <2>2, <2>3, <2>4
  <2>9. q = p
    BY <2>5, <2>7, <2>8, LastOfPath
  <2>. QED
    BY <1>4, <2>4, <2>5, <2>6, <2>9
<1>. QED
  BY <1>1, <1>4, <1>5, <1>6, OwesDiffer

-----------------------------------------------------------------------------
(* What a step leaves to be said *)

\* What a worker's items say does not depend on what is launched later.
LEMMA SameTold ==
    ASSUME NEW scans, NEW more, \A c \in Ids : more[c] = scans[c],
           NEW i, Sound(scans, i), Reporting(i)
    PROVE  Told(more, i) = Told(scans, i)
  BY DEF Sound, Reporting, Told, Place

\* What a scan owes does not change.
LEMMA SameOwed ==
    ASSUME UNCHANGED fsVars, NEW j
    PROVE  Owes(j)' = Owes(j)
<1>1. denied' = denied /\ unread' = unread
  BY DEF fsVars
<1>. QED
  BY <1>1 DEF Owes, Matches, Faults

\* An error in the slot of the fatal error is a report.
LEMMA CauseReports ==
    ASSUME Types, NEW e \in fatalError
    PROVE  Reporting(e)
  BY DEF Types, FlagTypes, ErrorItem, Reporting

\* With the ring, the slot and the client as they are, the same has been said.
LEMMA SameSaid ==
    ASSUME Types, NEW scans, Says(scans), NEW more, \A c \in Ids : more[c] = scans[c],
           UNCHANGED <<ring, got, fatalError>>
    PROVE  Said(more)' = Said(scans)
<1>1. \A k \in DOMAIN ring : Reporting(ring[k]) => Told(more, ring[k]) = Told(scans, ring[k])
  BY SameTold DEF Says
<1>2. \A e \in fatalError : Told(more, e) = Told(scans, e)
  BY SameTold, CauseReports DEF Says
<1>3. BagToSet(got)' = BagToSet(got)
  BY DEF BagToSet
<1>. QED
  BY <1>1, <1>2, <1>3 DEF Said

\* A push says what its item reports, and an error put into the slot what it reports.
LEMMA SaidGrows ==
    ASSUME Types, NEW scans, UNCHANGED got, NEW New,
           UNCHANGED ring \/ \E i : /\ ring' = Append(ring, i)
                                    /\ Reporting(i) => Told(scans, i) \in Said(scans) \cup New,
           \A e \in fatalError' : e \in fatalError \/ Told(scans, e) \in New
    PROVE  Said(scans)' \subseteq Said(scans) \cup New
<1>1. BagToSet(got)' = BagToSet(got)
  BY DEF BagToSet
<1>2. \A k \in DOMAIN ring' : Reporting(ring'[k]) => Told(scans, ring'[k]) \in Said(scans) \cup New
  <2>1. CASE UNCHANGED ring
    BY <2>1 DEF Said
  <2>2. CASE \E i : /\ ring' = Append(ring, i)
                    /\ Reporting(i) => Told(scans, i) \in Said(scans) \cup New
    <3>1. PICK i : /\ ring' = Append(ring, i)
                   /\ Reporting(i) => Told(scans, i) \in Said(scans) \cup New
      BY <2>2
    <3>2. /\ DOMAIN ring' = DOMAIN ring \cup {Len(ring) + 1} /\ ring'[Len(ring) + 1] = i
          /\ \A k \in DOMAIN ring : ring'[k] = ring[k]
      BY <3>1 DEF Types, RingTypes
    <3>. QED
      BY <3>1, <3>2 DEF Said
  <2>. QED
    BY <2>1, <2>2
<1>3. \A e \in fatalError' : Told(scans, e) \in Said(scans) \cup New
  BY DEF Said
<1>4. \A r \in Said(scans)' :
        \/ r \in BagToSet(got)'
        \/ \E k \in DOMAIN ring' : Reporting(ring'[k]) /\ r = Told(scans, ring'[k])
        \/ \E e \in fatalError' : r = Told(scans, e)
  BY DEF Said
<1>. QED
  BY <1>1, <1>2, <1>3, <1>4 DEF Said

\* A worker keeps what is ahead of it, if it goes on with no more than it had in hand and
\* nobody else says or launches any of it.
LEMMA StillAhead ==
    ASSUME NEW scans, NEW more, UNCHANGED fsVars, NEW v \in Workers, Ahead(scans, v),
           job'[v] = job[v], pc'[v] = "enumerate" => pc[v] = "enumerate",
           Failed(v)' => Failed(v),
           Reading(v)' => /\ Reading(v)
                          /\ failures'[v] = failures[v] /\ entries'[v] = entries[v],
           Holding(v)' => Holding(v) /\ entry'[v] = entry[v] /\ entries'[v] = entries[v],
           Offering(v)' => /\ Offering(v) /\ item'[v] = item[v]
                           /\ failures'[v] = failures[v] /\ entries'[v] = entries[v]
                           /\ Reporting(item[v]) => Told(more, item[v]) = Told(scans, item[v]),
           NEW New, Said(more)' \subseteq Said(scans) \cup New, New \cap Owes(job[v]) = {},
           \A d \in Ids' : more[d].job.parent = job[v].container =>
             d \in Ids /\ more[d].job = scans[d].job
    PROVE  Ahead(more, v)'
<1>1. PICK j : j = job[v]
  OBVIOUS
<1>2. Owes(j)' = Owes(j)
  BY SameOwed
<1>3. SaidOf(more, j)' \subseteq SaidOf(scans, j)
  BY <1>1, <1>2 DEF SaidOf
<1>4. PICK said : said = SaidOf(more, j)'
  OBVIOUS
<1>5. \A d \in Ids' : more[d].job.parent = j.container => d \in Ids /\ more[d].job = scans[d].job
  BY <1>1
<1>6. pc'[v] = "enumerate" => said = {} /\ Childless(more, j.container)'
  BY <1>1, <1>3, <1>4, <1>5 DEF Ahead, Childless
<1>7. Failed(v)' => said = {}
  BY <1>1, <1>3, <1>4 DEF Ahead
<1>8. SaidOf(more, job[v])' = said
  BY <1>1, <1>4 DEF SaidOf
<1>9. ASSUME Reading(v)' PROVE ListingAhead(more, v)'
  <2>1. ListingAhead(scans, v) /\ failures'[v] = failures[v] /\ entries'[v] = entries[v]
    BY <1>9 DEF Ahead
  <2>2. said \subseteq SaidOf(scans, job[v])
    BY <1>1, <1>3, <1>4
  <2>. QED
    BY <1>1, <1>5, <1>8, <2>1, <2>2 DEF ListingAhead
<1>10. ASSUME Holding(v)' PROVE EntryAhead(more, v)'
  <2>1. EntryAhead(scans, v) /\ entry'[v] = entry[v] /\ entries'[v] = entries[v]
    BY <1>10 DEF Ahead
  <2>2. said \subseteq SaidOf(scans, job[v])
    BY <1>1, <1>3, <1>4
  <2>. QED
    BY <1>1, <1>5, <1>8, <2>1, <2>2 DEF EntryAhead
<1>11. ASSUME Offering(v)', Reporting(item[v])' PROVE ItemAhead(more, v)'
  <2>1. PICK i : i = item[v]
    OBVIOUS
  <2>2. /\ item'[v] = i /\ Reporting(i) /\ ItemAhead(scans, v) /\ Told(more, i) = Told(scans, i)
        /\ failures'[v] = failures[v] /\ entries'[v] = entries[v]
    BY <1>11, <2>1 DEF Ahead, Reporting
  <2>3. Told(scans, i) \in Owes(j) /\ Told(scans, i) \notin Said(scans)
    BY <1>1, <2>1, <2>2 DEF ItemAhead
  <2>4. Told(more, i) \in Owes(j)' /\ Told(more, i) \notin Said(more)'
    BY <1>1, <1>2, <2>2, <2>3
  <2>5. Told(more, item[v])' = Told(more, i)
    BY <2>2 DEF Told
  <2>6. Told(more, item[v])' \in Owes(job[v])' \ Said(more)'
    BY <1>1, <2>4, <2>5 DEF Owes, Matches, Faults
  <2>. QED
    BY <1>1, <2>1, <2>2, <2>6 DEF ItemAhead
<1>. QED
  BY <1>1, <1>6, <1>7, <1>8, <1>9, <1>10, <1>11 DEF Ahead

-----------------------------------------------------------------------------
(* What is ahead of the worker that takes a step *)

\* What a step of a worker may push, and that nothing is popped.
LEMMA WorkerPushes ==
    ASSUME Types, NEW w \in Workers, Worker(w)
    PROVE  /\ UNCHANGED <<fsVars, got>>
           /\ ~TryPush(w) /\ ~PushEnd(w) => UNCHANGED ring
           /\ ~StashError(w) => UNCHANGED fatalError
<1>1. CASE \/ NextJob(w) \/ Enumerate(w) \/ LoadCancel(w) \/ MarkOpen(w) \/ Scan(w)
           \/ Descend(w) \/ Launch(w) \/ NotifyOne(w)
  BY <1>1 DEF NextJob, Enumerate, LoadCancel, MarkOpen, Scan, Descend, Launch, NotifyOne,
     flagVars, clientVars, viewVars
<1>2. CASE \/ Release(w) \/ Cascade(w) \/ EmitEnds(w) \/ RaiseFatal(w) \/ WorkerCancel(w)
           \/ WorkerHalt(w) \/ WorkerWake(w) \/ CompleteJob(w)
  BY <1>2 DEF Release, Cascade, EmitEnds, RaiseFatal, WorkerCancel, WorkerHalt, WorkerWake,
     CompleteJob, flagVars, clientVars, viewVars
<1>3. CASE TryPush(w) \/ PushEnd(w) \/ StashError(w)
  BY <1>3 DEF TryPush, PushEnd, StashError, flagVars, clientVars, viewVars
<1>. QED
  BY <1>1, <1>2, <1>3 DEF Worker

\* An item that a worker comes to offer is ahead of it.
LEMMA NewItemAhead ==
    ASSUME NEW scans, NEW w \in Workers, NEW i, item'[w] = i, NEW j, job'[w] = j,
           UNCHANGED fsVars, Said(scans)' = Said(scans), Told(scans, i) \in Owes(j) \ Said(scans),
           i.container = j.container =>
             \A e \in (IF i.type = "Error" THEN failures'[w] ELSE entries'[w]) : e.name # i.name
    PROVE  ItemAhead(scans, w)'
<1>1. Owes(j)' = Owes(j)
  BY SameOwed
<1>2. Owes(job[w])' = Owes(j)'
  BY DEF Owes, Matches, Faults
<1>3. Told(scans, item[w])' = Told(scans, i)
  BY DEF Told
<1>. QED
  BY <1>1, <1>2, <1>3 DEF ItemAhead

\* A scan that starts has said nothing and launched nothing.
LEMMA EnumerateAhead ==
    ASSUME Types, Accounting, NEW tree, Planted(tree), NEW scans, Remembered(scans), Says(scans),
           NEW w \in Workers, Ahead(scans, w), Enumerate(w)
    PROVE  Ahead(scans, w)'
<1>1. PICK j : j = job[w]
  OBVIOUS
<1>2. /\ j \in Job /\ j.container \in Ids /\ j.parent # j.container
      /\ PathOf(j) = Append(Place(scans, j.parent), j.name)
  BY <1>1, KnownScan DEF Enumerate, ScanSteps
<1>3. /\ DOMAIN pc = Workers /\ DOMAIN item = Workers /\ pc[w] = "enumerate"
  BY DEF Types, WorkerTypes, Enumerate
<1>4. /\ UNCHANGED <<fsVars, nextId, job, ring, got, fatalError>> /\ Ids' = Ids
  BY DEF Enumerate, fsVars, flagVars, clientVars, viewVars, Ids
<1>5. SaidOf(scans, j) = {} /\ Childless(scans, j.container)
  BY <1>1, <1>3 DEF Ahead
<1>6. Said(scans)' = Said(scans) /\ Owes(j)' = Owes(j)
  BY <1>4, SameSaid, SameOwed
<1>7. SaidOf(scans, j)' = {}
  BY <1>5, <1>6 DEF SaidOf
<1>8. SaidOf(scans, job[w])' = {}
  BY <1>1, <1>4, <1>7 DEF SaidOf, Owes, Matches, Faults
<1>9. CASE pc'[w] = "release"
  BY <1>8, <1>9 DEF Ahead, Failed, Reading, Holding, Offering
<1>10. CASE j.dir \in denied /\ Offer(w, OpenError(j))
  <2>1. PICK i : i = OpenError(j)
    OBVIOUS
  <2>2. pc'[w] = "offer" /\ item'[w] = i /\ i.type = "Error" /\ i.container = j.parent
    BY <1>3, <1>10, <2>1 DEF Offer, Goto, OpenError
  <2>3. Told(scans, i) = Report("Error", PathOf(j), {})
    BY <1>2, <2>1 DEF Told, OpenError
  <2>4. Told(scans, i) \in Owes(j)
    BY <1>10, <2>3 DEF Owes, Faults
  <2>5. Told(scans, i) \notin Said(scans)
    BY <1>5, <2>4 DEF SaidOf
  <2>6. ItemAhead(scans, w)'
    BY <1>1, <1>2, <1>4, <1>6, <2>2, <2>4, <2>5, NewItemAhead
  <2>7. ~Reading(w)' /\ ~Holding(w)' /\ ~Failed(w)'
    BY <1>1, <1>2, <1>4, <2>2 DEF Reading, Holding, Failed, Offering
  <2>. QED
    BY <2>2, <2>6, <2>7 DEF Ahead
<1>11. CASE Offer(w, Enter(j))
  <2>1. pc'[w] = "offer" /\ item'[w].type = "Enter"
    BY <1>3, <1>11 DEF Offer, Goto, Enter
  <2>2. ListingAhead(scans, w)'
    BY <1>1, <1>4, <1>5, <1>8 DEF ListingAhead, Childless
  <2>3. ~Holding(w)' /\ ~Failed(w)' /\ ~Reporting(item[w])'
    BY <2>1 DEF Holding, Failed, Offering, Reporting
  <2>. QED
    BY <2>1, <2>2, <2>3 DEF Ahead
<1>12. pc'[w] = "release" \/ (j.dir \in denied /\ Offer(w, OpenError(j))) \/ Offer(w, Enter(j))
  BY <1>1, <1>3 DEF Enumerate, Goto
<1>. QED
  BY <1>9, <1>10, <1>11, <1>12

\* A turn of the loops takes an entry off the listing: nothing has been said of it, and the
\* listing has no other of its name.
LEMMA ScanAhead ==
    ASSUME Types, Accounting, NEW tree, Planted(tree), NEW scans, Remembered(scans), Says(scans),
           NEW w \in Workers, Reads(scans, w), Ahead(scans, w), Scan(w)
    PROVE  Ahead(scans, w)'
<1>1. PICK j : j = job[w]
  OBVIOUS
<1>2. /\ j \in Job /\ j.container \in Ids /\ j.container # NoContainer
      /\ Place(scans, j.container) = PathOf(j)
  BY <1>1, KnownScan DEF Scan, ScanSteps
<1>3. /\ DOMAIN pc = Workers /\ DOMAIN item = Workers /\ DOMAIN failures = Workers
      /\ DOMAIN entries = Workers /\ DOMAIN entry = Workers /\ pc[w] = "scan"
  BY DEF Types, WorkerTypes, Scan
<1>4. UNCHANGED <<fsVars, nextId, job, ring, got, fatalError>> /\ Ids' = Ids
  BY DEF Scan, fsVars, flagVars, clientVars, viewVars, Ids
<1>5. /\ j.dir \notin denied /\ failures[w] \subseteq Entries[j.dir] \cap unread
      /\ entries[w] \subseteq Entries[j.dir] \ unread
      /\ \A e, f \in Entries[j.dir] : e.name = f.name => e = f
  BY <1>1, <1>2, <1>3, ListingAssumption DEF Reads, Reading, Job
<1>6. ListingAhead(scans, w)
  BY <1>3 DEF Ahead, Reading
<1>7. Said(scans)' = Said(scans) /\ Owes(j)' = Owes(j) /\ denied' = denied
  BY <1>4, SameSaid, SameOwed DEF fsVars
<1>8. SaidOf(scans, j)' = SaidOf(scans, j)
  BY <1>7 DEF SaidOf
<1>9. SaidOf(scans, job[w])' = SaidOf(scans, j)
  BY <1>1, <1>4, <1>8 DEF SaidOf, Owes, Matches, Faults
<1>10. CASE \E e \in failures[w] : /\ failures' = [failures EXCEPT ![w] = @ \ {e}]
                                   /\ Offer(w, ReadError(j, e))
                                   /\ UNCHANGED <<entries, entry>>
  <2>1. PICK e \in failures[w] : /\ failures' = [failures EXCEPT ![w] = @ \ {e}]
                                 /\ Offer(w, ReadError(j, e)) /\ UNCHANGED <<entries, entry>>
    BY <1>10
  <2>2. PICK i : i = ReadError(j, e)
    OBVIOUS
  <2>3. /\ pc'[w] = "offer" /\ item'[w] = i /\ i.type = "Error" /\ i.container = j.container
        /\ i.name = e.name
    BY <1>3, <2>1, <2>2 DEF Offer, Goto, ReadError
  <2>4. PICK r : r = Told(scans, i)
    OBVIOUS
  <2>5. r = Report("Error", Spot(j, e), {})
    BY <1>2, <2>3, <2>4 DEF Told, Spot
  <2>6. r.type = "Error" /\ r.path = Spot(j, e)
    BY <2>5 DEF Report
  <2>7. r \in Owes(j)
    BY <1>5, <2>5 DEF Owes, Faults, Spot
  <2>8. r \notin Said(scans)
    BY <1>1, <1>6, <2>6, <2>7 DEF SaidOf, ListingAhead
  <2>9. failures'[w] = failures[w] \ {e} /\ entries'[w] = entries[w]
    BY <1>3, <2>1
  <2>10. \A f \in failures'[w] : f.name # i.name
    BY <1>5, <2>3, <2>9
  <2>11. ItemAhead(scans, w)'
    BY <1>1, <1>4, <1>7, <2>3, <2>4, <2>7, <2>8, <2>10, NewItemAhead
  <2>12. ListingAhead(scans, w)'
    BY <1>1, <1>4, <1>6, <1>9, <2>9 DEF ListingAhead
  <2>13. ~Holding(w)' /\ ~Failed(w)'
    BY <2>3 DEF Holding, Failed, Offering
  <2>. QED
    BY <2>3, <2>11, <2>12, <2>13 DEF Ahead
<1>11. CASE pc'[w] = "release"
  BY <1>1, <1>4, <1>5, <1>7, <1>11 DEF Ahead, Failed, Reading, Holding, Offering
<1>12. CASE \E e \in entries[w] : /\ UNCHANGED failures
                                  /\ entries' = [entries EXCEPT ![w] = @ \ {e}]
                                  /\ entry' = [entry EXCEPT ![w] = e]
                                  /\ \/ HitsOf(j, e) # {} /\ Offer(w, Matched(j, e, HitsOf(j, e)))
                                     \/ Goto(w, "descend")
  <2>1. PICK e \in entries[w] : /\ UNCHANGED failures
                                /\ entries' = [entries EXCEPT ![w] = @ \ {e}]
                                /\ entry' = [entry EXCEPT ![w] = e]
                                /\ \/ HitsOf(j, e) # {} /\ Offer(w, Matched(j, e, HitsOf(j, e)))
                                   \/ Goto(w, "descend")
    BY <1>12
  <2>2. /\ entry'[w] = e /\ entries'[w] = entries[w] \ {e} /\ failures'[w] = failures[w]
        /\ e \in Entries[j.dir] \ unread
    BY <1>3, <1>5, <2>1
  <2>3. ListingAhead(scans, w)'
    BY <1>1, <1>4, <1>6, <1>9, <2>2 DEF ListingAhead
  <2>4. EntryAhead(scans, w)'
    BY <1>1, <1>4, <1>6, <1>9, <2>2 DEF ListingAhead, EntryAhead
  <2>5. CASE pc'[w] = "descend"
    BY <2>3, <2>4, <2>5 DEF Ahead, Failed, Offering
  <2>6. CASE HitsOf(j, e) # {} /\ Offer(w, Matched(j, e, HitsOf(j, e)))
    <3>1. PICK i : i = Matched(j, e, HitsOf(j, e))
      OBVIOUS
    <3>2. /\ pc'[w] = "offer" /\ item'[w] = i /\ i.type = "Match" /\ i.container = j.container
          /\ i.name = e.name /\ i.matched = HitsOf(j, e)
      BY <1>3, <2>6, <3>1 DEF Offer, Goto, Matched
    <3>3. PICK r : r = Told(scans, i)
      OBVIOUS
    <3>4. r = Report("Match", Spot(j, e), HitsOf(j, e))
      BY <1>2, <3>2, <3>3 DEF Told, Spot
    <3>5. r.type # "Error" /\ r.path = Spot(j, e)
      BY <3>4 DEF Report
    <3>6. r \in Owes(j)
      BY <1>5, <2>2, <2>6, <3>4 DEF Owes, Matches, Spot
    <3>7. r \notin Said(scans)
      BY <1>1, <1>6, <3>5, <3>6 DEF SaidOf, ListingAhead
    <3>8. \A f \in entries'[w] : f.name # i.name
      BY <1>5, <2>2, <3>2
    <3>9. ItemAhead(scans, w)'
      BY <1>1, <1>4, <1>7, <3>2, <3>3, <3>6, <3>7, <3>8, NewItemAhead
    <3>10. ~Failed(w)' /\ pc'[w] # "enumerate"
      BY <3>2 DEF Failed
    <3>. QED
      BY <2>3, <2>4, <3>9, <3>10 DEF Ahead
  <2>. QED
    BY <1>3, <2>1, <2>5, <2>6 DEF Goto
<1>. QED
  BY <1>1, <1>3, <1>10, <1>11, <1>12 DEF Scan, Goto

\* The same where nothing is said or launched.
LEMMA GoesOnAhead ==
    ASSUME NEW scans, UNCHANGED fsVars, NEW v \in Workers, Ahead(scans, v), Ids' = Ids,
           job'[v] = job[v], pc'[v] = "enumerate" => pc[v] = "enumerate",
           Failed(v)' => Failed(v),
           Reading(v)' => /\ Reading(v)
                          /\ failures'[v] = failures[v] /\ entries'[v] = entries[v],
           Holding(v)' => Holding(v) /\ entry'[v] = entry[v] /\ entries'[v] = entries[v],
           Offering(v)' => /\ Offering(v) /\ item'[v] = item[v]
                           /\ failures'[v] = failures[v] /\ entries'[v] = entries[v],
           Said(scans)' \subseteq Said(scans)
    PROVE  Ahead(scans, v)'
<1>1. PICK New : New = {}
  OBVIOUS
<1>2. Said(scans)' \subseteq Said(scans) \cup New /\ New \cap Owes(job[v]) = {}
  BY <1>1
<1>. QED
  BY <1>2, StillAhead

\* The entry in hand has been neither blocked nor launched, so it may be blocked now.
LEMMA DescendAhead ==
    ASSUME Types, Accounting, NEW tree, Planted(tree), NEW scans, Remembered(scans), Says(scans),
           NEW w \in Workers, Reads(scans, w), Ahead(scans, w), Descend(w)
    PROVE  Ahead(scans, w)'
<1>1. PICK j, e : j = job[w] /\ e = entry[w]
  OBVIOUS
<1>2. /\ j \in Job /\ j.container \in Ids /\ j.container # NoContainer
      /\ Place(scans, j.container) = PathOf(j)
  BY <1>1, KnownScan DEF Descend, ScanSteps
<1>3. DOMAIN pc = Workers /\ DOMAIN item = Workers /\ pc[w] = "descend"
  BY DEF Types, WorkerTypes, Descend
<1>4. /\ UNCHANGED <<fsVars, nextId, job, failures, entries, entry, ring, got, fatalError>>
      /\ Ids' = Ids
  BY DEF Descend, fsVars, flagVars, clientVars, viewVars, Ids
<1>5. /\ j.dir \notin denied /\ entries[w] \subseteq Entries[j.dir] \ unread
      /\ e \in Entries[j.dir] \ unread
      /\ \A f, g \in Entries[j.dir] : f.name = g.name => f = g
  BY <1>1, <1>2, <1>3, ListingAssumption DEF Reads, Reading, Holding, Job
<1>6. ListingAhead(scans, w) /\ EntryAhead(scans, w)
  BY <1>3 DEF Ahead, Reading, Holding
<1>7. Said(scans)' = Said(scans) /\ Owes(j)' = Owes(j)
  BY <1>4, SameSaid, SameOwed
<1>8. SaidOf(scans, j)' = SaidOf(scans, j)
  BY <1>7 DEF SaidOf
<1>9. SaidOf(scans, job[w])' = SaidOf(scans, j)
  BY <1>1, <1>4, <1>8 DEF SaidOf, Owes, Matches, Faults
<1>10. ListingAhead(scans, w)' /\ EntryAhead(scans, w)'
  BY <1>1, <1>4, <1>6, <1>9 DEF ListingAhead, EntryAhead
<1>11. CASE pc'[w] \in {"scan", "launch"}
  BY <1>10, <1>11 DEF Ahead, Failed, Offering
<1>12. CASE Descends(j, e) /\ Escapes(e) /\ Offer(w, Blocked(j, e))
  <2>1. PICK i : i = Blocked(j, e)
    OBVIOUS
  <2>2. /\ pc'[w] = "offer" /\ item'[w] = i /\ i.type = "Blocked" /\ i.container = j.container
        /\ i.name = e.name
    BY <1>3, <1>12, <2>1 DEF Offer, Goto, Blocked
  <2>3. PICK r : r = Told(scans, i)
    OBVIOUS
  <2>4. r = Report("Blocked", Spot(j, e), {})
    BY <1>2, <2>2, <2>3 DEF Told, Spot
  <2>5. r.type = "Blocked" /\ r.path = Spot(j, e)
    BY <2>4 DEF Report
  <2>6. r \in Owes(j)
    BY <1>5, <1>12, <2>4 DEF Owes, Faults, Spot
  <2>7. r \notin Said(scans)
    BY <1>1, <1>6, <2>5, <2>6 DEF SaidOf, EntryAhead
  <2>8. e \notin entries[w] /\ entries'[w] = entries[w]
    BY <1>1, <1>4, <1>6 DEF EntryAhead
  <2>9. \A f \in entries'[w] : f.name # i.name
    BY <1>5, <2>2, <2>8
  <2>10. ItemAhead(scans, w)'
    BY <1>1, <1>4, <1>7, <2>2, <2>3, <2>6, <2>7, <2>9, NewItemAhead
  <2>11. ~Failed(w)' /\ pc'[w] # "enumerate"
    BY <2>2 DEF Failed
  <2>. QED
    BY <1>10, <2>10, <2>11 DEF Ahead
<1>13. \/ pc'[w] \in {"scan", "launch"}
       \/ Descends(j, e) /\ Escapes(e) /\ Offer(w, Blocked(j, e))
  BY <1>1, <1>3 DEF Descend, Goto
<1>. QED
  BY <1>11, <1>12, <1>13

\* A worker whose emit ends without a word, or stays, goes on with what it had in hand; one that
\* gives a directory up is no failed root.
LEMMA UnsaidAhead ==
    ASSUME Types, NEW scans, Says(scans), NEW w \in Workers, Stage(w), Reads(scans, w),
           Ahead(scans, w), LoadCancel(w) \/ TryPush(w), Said(scans)' \subseteq Said(scans)
    PROVE  Ahead(scans, w)'
<1>1. DOMAIN pc = Workers /\ DOMAIN item = Workers /\ Offering(w) /\ pc[w] \in {"offer", "push"}
  BY DEF Types, WorkerTypes, LoadCancel, TryPush, Offering
<1>2. /\ UNCHANGED <<fsVars, nextId, job, failures, entries, entry>>
      /\ Ids' = Ids /\ denied' = denied
  BY DEF LoadCancel, TryPush, fsVars, Ids
<1>3. CASE pc'[w] \in {"offer", "push"} /\ item' = item
  <2>1. /\ Offering(w)' /\ (Reading(w)' => Reading(w)) /\ (Holding(w)' => Holding(w))
        /\ ~Failed(w)' /\ pc'[w] # "enumerate"
    BY <1>1, <1>2, <1>3 DEF Reading, Holding, Offering, Failed
  <2>. QED
    BY <1>1, <1>2, <1>3, <2>1, GoesOnAhead
<1>4. ASSUME NEW pushed \in BOOLEAN, pc'[w] = Resumed(w, pushed)
      PROVE  Ahead(scans, w)'
  <2>1. /\ Resumed(w, pushed) \in {"opened", "release", "descend", "scan"}
        /\ item[w].type \in {"Enter", "Match", "Blocked", "Error"}
    BY <1>1, ResumedStep, OfferedTypes DEF Offering
  <2>2. Resumed(w, pushed) = "descend" => item[w].type = "Match"
    BY <2>1 DEF Resumed
  <2>3. Resumed(w, pushed) \in {"opened", "scan"} =>
          item[w].type # "Error" \/ item[w].container = job[w].container
    BY <2>1 DEF Resumed
  <2>4. Reading(w)' => Reading(w)
    BY <1>1, <1>4, <2>1, <2>2, <2>3 DEF Reading, Offering
  <2>5. Holding(w)' => Holding(w)
    BY <1>1, <1>4, <2>1, <2>2 DEF Holding, Offering
  <2>6. ~Failed(w)'
    <3>1. CASE Reading(w)
      BY <1>2, <3>1 DEF Reads, Failed
    <3>2. CASE ~Reading(w)
      <4>1. GivesUp(w)
        BY <1>1, <3>2 DEF Reading, GivesUp
      <4>. QED
        BY <1>2, <4>1 DEF Stage, Failed
    <3>. QED
      BY <3>1, <3>2
  <2>7. ~Offering(w)' /\ pc'[w] # "enumerate"
    BY <1>4, <2>1 DEF Offering
  <2>. QED
    BY <1>2, <2>4, <2>5, <2>6, <2>7, GoesOnAhead
<1>5. \/ pc'[w] \in {"offer", "push"} /\ item' = item
      \/ pc'[w] = Resumed(w, FALSE) \/ pc'[w] = Resumed(w, TRUE)
  BY <1>1 DEF LoadCancel, TryPush, Goto
<1>. QED
  BY <1>3, <1>4, <1>5

\* A report that is pushed is about an entry that is behind the scan.
LEMMA SaidAhead ==
    ASSUME Types, Accounting, NEW tree, Planted(tree), NEW scans, Remembered(scans), Says(scans),
           NEW w \in Workers, Stage(w), Reads(scans, w), Ahead(scans, w),
           TryPush(w), Room, Reporting(item[w])
    PROVE  Ahead(scans, w)'
<1>1. PICK j, i : j = job[w] /\ i = item[w]
  OBVIOUS
<1>2. PICK r : r = Told(scans, i)
  OBVIOUS
<1>3. /\ j \in Job /\ j.container \in Ids /\ Place(scans, j.container) = PathOf(j)
  BY <1>1, KnownScan DEF TryPush, ScanSteps
<1>4. /\ DOMAIN pc = Workers /\ Offering(w) /\ pc[w] = "push"
      /\ pc'[w] = Resumed(w, TRUE) /\ ring' = Append(ring, i)
  BY <1>1 DEF Types, WorkerTypes, TryPush, Goto, Offering
<1>5. /\ UNCHANGED <<fsVars, nextId, job, failures, entries, entry, got, fatalError>>
      /\ Ids' = Ids /\ denied' = denied
  BY DEF TryPush, fsVars, flagVars, clientVars, viewVars, Ids
<1>6. Said(scans)' \subseteq Said(scans) \cup {r}
  BY <1>2, <1>4, <1>5, SaidGrows
<1>7. r.type = i.type /\ r.path = Append(Place(scans, i.container), i.name)
  BY <1>2 DEF Told, Report
<1>8. i.type \in {"Match", "Blocked", "Error"} /\ i.name \in Label
  <2>1. i \in Bailable /\ i.type \in {"Match", "Blocked", "Error"}
    BY <1>1, <1>4 DEF Types, WorkerTypes, WorkerType, Reporting
  <2>. QED
    BY <2>1 DEF Bailable, EnterItem, MatchItem, BlockItem, ErrorItem, Label
<1>9. i.type # "Error" => i.container = j.container
  BY <1>1, <1>4, <1>8 DEF Stage, Inside, Announces, GivesUp
<1>10. Owes(j)' = Owes(j)
  BY <1>5, SameOwed
<1>11. SaidOf(scans, j)' \subseteq SaidOf(scans, j) \cup {r}
  BY <1>6, <1>10 DEF SaidOf
<1>12. SaidOf(scans, job[w])' \subseteq SaidOf(scans, j) \cup {r}
  BY <1>1, <1>5, <1>11 DEF SaidOf, Owes, Matches, Faults
<1>13. Resumed(w, TRUE) =
         CASE i.type = "Match" -> "descend" [] i.type = "Blocked" -> "scan"
           [] i.type = "Error" -> IF i.container = j.container THEN "scan" ELSE "release"
  BY <1>1, <1>8 DEF Resumed
<1>14. CASE i.container # j.container
  <2>1. i.type = "Error" /\ pc'[w] = "release" /\ GivesUp(w)
    BY <1>1, <1>4, <1>9, <1>13, <1>14 DEF GivesUp
  <2>2. ~Failed(w)'
    BY <1>5, <2>1 DEF Stage, Failed
  <2>. QED
    BY <2>1, <2>2 DEF Ahead, Reading, Holding, Offering
<1>15. CASE i.container = j.container
  <2>1. Reading(w) /\ ListingAhead(scans, w) /\ ItemAhead(scans, w)
    BY <1>1, <1>4, <1>15 DEF Ahead, Reading
  <2>2. /\ failures[w] \subseteq Entries[j.dir] /\ entries[w] \subseteq Entries[j.dir]
        /\ Entries[j.dir] \subseteq Entry
    BY <1>1, <1>3, <2>1, TreeAssumption DEF Reads, Job
  <2>3. ASSUME NEW e \in Entry, e.name # i.name PROVE r.path # Spot(j, e)
    <3>1. PICK p, a, b : p = PathOf(j) /\ a = i.name /\ b = e.name
      OBVIOUS
    <3>2. p \in Seq(Label) /\ a \in Label /\ b \in Label
      BY <1>3, <1>8, <3>1, PathOfJob DEF Entry, Label
    <3>3. Append(p, a) # Append(p, b)
      BY <2>3, <3>1, <3>2, LastOfPath
    <3>. QED
      BY <1>3, <1>7, <1>15, <3>1, <3>3 DEF Spot
  <2>4. /\ r.type # "Error" => \A e \in entries[w] : r.path # Spot(j, e)
        /\ r.type = "Error" => \A e \in failures[w] : r.path # Spot(j, e)
    BY <1>1, <1>7, <1>15, <2>1, <2>2, <2>3 DEF ItemAhead
  <2>5. ListingAhead(scans, w)'
    BY <1>1, <1>5, <1>12, <2>1, <2>4 DEF ListingAhead
  <2>6. CASE i.type = "Match"
    <3>1. pc'[w] = "descend" /\ Holding(w)
      BY <1>1, <1>4, <1>13, <2>6 DEF Holding
    <3>2. EntryAhead(scans, w)
      BY <3>1 DEF Ahead
    <3>3. EntryAhead(scans, w)'
      BY <1>1, <1>5, <1>7, <1>12, <2>6, <3>2 DEF EntryAhead
    <3>. QED
      BY <2>5, <3>1, <3>3 DEF Ahead, Failed, Offering
  <2>7. CASE i.type # "Match"
    <3>1. pc'[w] = "scan"
      BY <1>4, <1>8, <1>13, <1>15, <2>7
    <3>. QED
      BY <2>5, <3>1 DEF Ahead, Failed, Holding, Offering
  <2>. QED
    BY <2>6, <2>7
<1>. QED
  BY <1>14, <1>15

\* The steps by which a worker ends a job: a failed root is still one.
LEMMA EndingAhead ==
    ASSUME Types, NEW scans, Says(scans), NEW w \in Workers, Ahead(scans, w),
           \/ Release(w) \/ Cascade(w) \/ EmitEnds(w) \/ PushEnd(w)
           \/ StashError(w) \/ RaiseFatal(w) \/ WorkerCancel(w) \/ WorkerHalt(w)
           \/ WorkerWake(w) \/ CompleteJob(w)
    PROVE  Ahead(scans, w)'
<1>1. DOMAIN pc = Workers
  BY DEF Types, WorkerTypes
<1>2. CASE StashError(w) \/ RaiseFatal(w) \/ WorkerCancel(w) \/ WorkerHalt(w) \/ WorkerWake(w)
           \/ CompleteJob(w)
  <2>1. pc'[w] \in {"flag", "swap", "halt", "wake", "complete", "next"}
    BY <1>1, <1>2 DEF StashError, RaiseFatal, WorkerCancel, WorkerHalt, WorkerWake, CompleteJob,
       Goto, AllWoken
  <2>. QED
    BY <2>1 DEF Ahead, Failed, Reading, Holding, Offering
<1>3. CASE Release(w) \/ Cascade(w) \/ EmitEnds(w) \/ PushEnd(w)
  <2>1. /\ UNCHANGED <<fsVars, nextId, job, got, fatalError>> /\ denied' = denied /\ Ids' = Ids
        /\ UNCHANGED ring \/ PushEnd(w)
    BY <1>3 DEF Release, Cascade, EmitEnds, PushEnd, fsVars, flagVars, clientVars, viewVars, Ids
  <2>2. Said(scans)' \subseteq Said(scans)
    <3>1. CASE UNCHANGED ring
      BY <2>1, <3>1, SameSaid
    <3>2. CASE PushEnd(w)
      <4>1. ring' = Append(ring, item[w]) /\ ~Reporting(item[w])
        BY <3>2 DEF Types, WorkerTypes, WorkerType, PushEnd, EndItem, Reporting
      <4>2. Said(scans)' \subseteq Said(scans) \cup {}
        BY <2>1, <4>1, SaidGrows
      <4>. QED
        BY <4>2
    <3>. QED
      BY <2>1, <3>1, <3>2
  <2>3. pc[w] \in {"release", "cascade", "ends", "end"}
    BY <1>3 DEF Release, Cascade, EmitEnds, PushEnd
  <2>4. pc'[w] \in {"cascade", "ends", "end", "slot", "complete"}
    BY <1>1, <1>3, <2>3 DEF Release, Cascade, EmitEnds, PushEnd, Goto
  <2>5. Failed(w)' => Failed(w)
    BY <2>1, <2>3 DEF Failed
  <2>6. ~Reading(w)' /\ ~Holding(w)' /\ ~Offering(w)' /\ pc'[w] # "enumerate"
    BY <2>4 DEF Reading, Holding, Offering
  <2>. QED
    BY <2>1, <2>2, <2>5, <2>6, GoesOnAhead
<1>. QED
  BY <1>2, <1>3

\* A worker that takes a scan takes one that has said nothing.
LEMMA TakenAhead ==
    ASSUME Types, NEW scans, Says(scans), NEW w \in Workers, NextJob(w),
           \A i \in DOMAIN stack : /\ SaidOf(scans, stack[i]) = {}
                                   /\ Childless(scans, stack[i].container)
    PROVE  Ahead(scans, w)'
<1>1. DOMAIN pc = Workers /\ DOMAIN job = Workers
  BY DEF Types, WorkerTypes
<1>2. CASE pc'[w] \in {"exit", "waiting"}
  BY <1>2 DEF Ahead, Failed, Reading, Holding, Offering
<1>3. CASE /\ stack # <<>> /\ job' = [job EXCEPT ![w] = stack[Len(stack)]]
           /\ Goto(w, "enumerate")
  <2>1. Len(stack) \in DOMAIN stack
    BY <1>3 DEF Types, SharedTypes
  <2>2. PICK j : j = stack[Len(stack)]
    OBVIOUS
  <2>3. SaidOf(scans, j) = {} /\ Childless(scans, j.container)
    BY <2>1, <2>2
  <2>4. UNCHANGED <<fsVars, nextId, ring, got, fatalError>> /\ Ids' = Ids
    BY DEF NextJob, flagVars, clientVars, viewVars, Ids
  <2>5. Said(scans)' = Said(scans) /\ Owes(j)' = Owes(j)
    BY <2>4, SameSaid, SameOwed
  <2>6. SaidOf(scans, j)' = {}
    BY <2>3, <2>5 DEF SaidOf
  <2>7. job'[w] = j /\ pc'[w] = "enumerate"
    BY <1>1, <1>3, <2>2 DEF Goto
  <2>8. SaidOf(scans, job[w])' = {}
    BY <2>6, <2>7 DEF SaidOf, Owes, Matches, Faults
  <2>. QED
    BY <2>3, <2>4, <2>7, <2>8 DEF Ahead, Childless, Failed, Reading, Holding, Offering
<1>. QED
  BY <1>1, <1>2, <1>3 DEF NextJob, Goto, AllWoken

-----------------------------------------------------------------------------
(* Each report once, step by step                                          *)

\* The container of a root's parent is none.
LEMMA NoneIsNoId ==
    ASSUME Types
    PROVE  NoContainer \notin Ids
  BY DEF Types, SharedTypes, Ids, NoContainer

\* What a worker's scan owes, neither another worker's does nor one on the stack.
LEMMA OthersOwe ==
    ASSUME Types, NEW scans, Remembered(scans), Apart(scans), InOneHand,
           NEW w \in Workers, pc[w] \notin Idle
    PROVE  /\ \A v \in Workers : pc[v] \notin Idle /\ v # w => Owes(job[w]) \cap Owes(job[v]) = {}
           /\ \A i \in DOMAIN stack : Owes(job[w]) \cap Owes(stack[i]) = {}
<1>1. PICK c : c = job[w].container
  OBVIOUS
<1>2. c \in Ids /\ job[w] = scans[c].job
  BY <1>1 DEF Remembered
<1>3. \A d \in Ids : d # c => Owes(scans[c].job) \cap Owes(scans[d].job) = {}
  BY <1>2, NoneIsNoId, OwesApart
<1>4. ASSUME NEW v \in Workers, pc[v] \notin Idle, v # w
      PROVE  Owes(job[w]) \cap Owes(job[v]) = {}
  <2>1. job[v].container \in Ids /\ job[v] = scans[job[v].container].job
    BY <1>4 DEF Remembered
  <2>2. job[v].container # c
    BY <1>1, <1>4 DEF InOneHand
  <2>. QED
    BY <1>2, <1>3, <2>1, <2>2
<1>5. ASSUME NEW i \in DOMAIN stack PROVE Owes(job[w]) \cap Owes(stack[i]) = {}
  <2>1. stack[i].container \in Ids /\ stack[i] = scans[stack[i].container].job
    BY DEF Remembered
  <2>2. stack[i].container # c
    BY <1>1 DEF InOneHand
  <2>. QED
    BY <1>2, <1>3, <2>1, <2>2
<1>. QED
  BY <1>4, <1>5

\* Scans only leave the stack or a worker's hands, or go from the one to the other.
LEMMA StillInOneHand ==
    ASSUME InOneHand, DOMAIN stack' \subseteq DOMAIN stack, \A i \in DOMAIN stack' : stack'[i] = stack[i],
           \A v \in Workers : pc'[v] \notin Idle => pc[v] \notin Idle /\ job'[v] = job[v]
    PROVE  InOneHand'
  BY DEF InOneHand

\* A scan on the stack stays untold, if what is said is owed by another and nothing is launched.
LEMMA StillUntold ==
    ASSUME NEW scans, UNCHANGED <<fsVars, nextId>>,
           \A i \in DOMAIN stack : /\ SaidOf(scans, stack[i]) = {}
                                   /\ Childless(scans, stack[i].container),
           \A i \in DOMAIN stack' : i \in DOMAIN stack /\ stack'[i] = stack[i],
           NEW New, Said(scans)' \subseteq Said(scans) \cup New,
           \A i \in DOMAIN stack : New \cap Owes(stack[i]) = {}
    PROVE  \A i \in DOMAIN stack' : /\ SaidOf(scans, stack[i])' = {}
                                    /\ Childless(scans, stack[i].container)'
<1> SUFFICES ASSUME NEW i \in DOMAIN stack'
             PROVE  /\ SaidOf(scans, stack[i])' = {}
                    /\ Childless(scans, stack[i].container)'
  OBVIOUS
<1>1. PICK j : j = stack[i]
  OBVIOUS
<1>2. i \in DOMAIN stack /\ stack'[i] = j
  BY <1>1
<1>3. Owes(j)' = Owes(j)
  BY SameOwed
<1>4. SaidOf(scans, j)' = {}
  BY <1>1, <1>2, <1>3 DEF SaidOf
<1>5. SaidOf(scans, stack[i])' = {}
  BY <1>2, <1>4 DEF SaidOf, Owes, Matches, Faults
<1>6. Childless(scans, j.container)
  BY <1>1, <1>2
<1>. QED
  BY <1>2, <1>5, <1>6 DEF Childless, Ids

\* Nothing said: each report stands where it stood.
LEMMA SameOnce ==
    ASSUME Types, NEW scans, Says(scans), Once(scans), NEW more, \A c \in Ids : more[c] = scans[c],
           Ids \subseteq Ids', UNCHANGED <<fsVars, ring, got, fatalError>>
    PROVE  Once(more)'
<1>1. Said(more)' = Said(scans)
  BY SameSaid
<1>2. \A k \in DOMAIN ring : Reporting(ring[k]) => Told(more, ring[k]) = Told(scans, ring[k])
  BY SameTold DEF Says
<1>3. \A e \in fatalError : Told(more, e) = Told(scans, e)
  BY SameTold, CauseReports DEF Says
<1>4. \A j : Owes(j)' = Owes(j)
  BY SameOwed
<1>5. \A r \in Said(more)' : \E c \in Ids' : r \in Owes(more[c].job)'
  <2> SUFFICES ASSUME NEW r \in Said(scans) PROVE \E c \in Ids' : r \in Owes(more[c].job)'
    BY <1>1
  <2>1. PICK c \in Ids : r \in Owes(scans[c].job)
    BY DEF Once
  <2>2. r \in Owes(more[c].job)'
    BY <1>4, <2>1
  <2>. QED
    BY <2>1, <2>2
<1>6. /\ ring' = ring /\ got' = got /\ fatalError' = fatalError
      /\ BagToSet(got)' = BagToSet(got) /\ NothingTwice'
  BY DEF Once, NothingTwice, BagToSet
<1>7. \A k \in DOMAIN ring' : Reporting(ring'[k]) =>
         /\ Told(more, ring'[k]) \notin BagToSet(got)'
         /\ \A e \in fatalError' : Told(more, e) # Told(more, ring'[k])
         /\ \A l \in DOMAIN ring' :
              Reporting(ring'[l]) /\ Told(more, ring'[l]) = Told(more, ring'[k]) => l = k
  BY <1>2, <1>3, <1>6 DEF Once
<1>8. \A e \in fatalError' : Told(more, e) \notin BagToSet(got)'
  BY <1>3, <1>6 DEF Once
<1>. QED
  BY <1>5, <1>6, <1>7, <1>8 DEF Once

\* A push of a report that nobody has made yet.
LEMMA PushKeepsOnce ==
    ASSUME Types, NEW scans, Once(scans), UNCHANGED <<fsVars, nextId, got, fatalError>>,
           NEW i, ring' = Append(ring, i),
           Reporting(i) => /\ Told(scans, i) \notin Said(scans)
                           /\ \E c \in Ids : Told(scans, i) \in Owes(scans[c].job)
    PROVE  Once(scans)'
<1>1. PICK n \in Nat : n = Len(ring)
  BY DEF Types, RingTypes
<1>2. /\ DOMAIN ring = 1..n /\ DOMAIN ring' = DOMAIN ring \cup {n + 1} /\ ring'[n + 1] = i
      /\ \A k \in DOMAIN ring : ring'[k] = ring[k]
  BY <1>1 DEF Types, RingTypes
<1>3. PICK New : New = IF Reporting(i) THEN {Told(scans, i)} ELSE {}
  OBVIOUS
<1>4. Said(scans)' \subseteq Said(scans) \cup New
  BY <1>3, SaidGrows
<1>5. BagToSet(got)' = BagToSet(got) /\ NothingTwice' /\ Ids' = Ids /\ fatalError' = fatalError
  BY DEF Once, NothingTwice, BagToSet, Ids
<1>6. \A j : Owes(j)' = Owes(j)
  BY SameOwed
<1>7. \A r \in Said(scans)' : \E c \in Ids' : r \in Owes(scans[c].job)'
  <2> SUFFICES ASSUME NEW r \in Said(scans) \cup New PROVE \E c \in Ids' : r \in Owes(scans[c].job)'
    BY <1>4
  <2>1. PICK c \in Ids : r \in Owes(scans[c].job)
    BY <1>3 DEF Once
  <2>2. r \in Owes(scans[c].job)'
    BY <1>6, <2>1
  <2>. QED
    BY <1>5, <2>1, <2>2
<1>8. Reporting(i) =>
         /\ Told(scans, i) \notin BagToSet(got)
         /\ \A e \in fatalError : Told(scans, e) # Told(scans, i)
         /\ \A k \in DOMAIN ring : Reporting(ring[k]) => Told(scans, ring[k]) # Told(scans, i)
  BY DEF Said
<1>9. \A k \in DOMAIN ring' : Reporting(ring'[k]) =>
         /\ Told(scans, ring'[k]) \notin BagToSet(got)'
         /\ \A e \in fatalError' : Told(scans, e) # Told(scans, ring'[k])
         /\ \A l \in DOMAIN ring' :
              Reporting(ring'[l]) /\ Told(scans, ring'[l]) = Told(scans, ring'[k]) => l = k
  BY <1>2, <1>5, <1>8 DEF Once
<1>10. \A e \in fatalError' : Told(scans, e) \notin BagToSet(got)'
  BY <1>5 DEF Once
<1>. QED
  BY <1>5, <1>7, <1>9, <1>10 DEF Once

\* The first error goes into the slot.
LEMMA StashKeepsOnce ==
    ASSUME Types, NEW scans, Once(scans), UNCHANGED <<fsVars, nextId, got, ring>>,
           NEW e, fatalError = {}, fatalError' = {e}, Told(scans, e) \notin Said(scans),
           \E c \in Ids : Told(scans, e) \in Owes(scans[c].job)
    PROVE  Once(scans)'
<1>1. Said(scans)' \subseteq Said(scans) \cup {Told(scans, e)}
  BY SaidGrows
<1>2. BagToSet(got)' = BagToSet(got) /\ NothingTwice' /\ Ids' = Ids /\ ring' = ring
  BY DEF Once, NothingTwice, BagToSet, Ids
<1>3. \A j : Owes(j)' = Owes(j)
  BY SameOwed
<1>4. \A r \in Said(scans)' : \E c \in Ids' : r \in Owes(scans[c].job)'
  <2> SUFFICES ASSUME NEW r \in Said(scans) \cup {Told(scans, e)}
               PROVE  \E c \in Ids' : r \in Owes(scans[c].job)'
    BY <1>1
  <2>1. PICK c \in Ids : r \in Owes(scans[c].job)
    BY DEF Once
  <2>2. r \in Owes(scans[c].job)'
    BY <1>3, <2>1
  <2>. QED
    BY <1>2, <2>1, <2>2
<1>5. /\ Told(scans, e) \notin BagToSet(got)
      /\ \A k \in DOMAIN ring : Reporting(ring[k]) => Told(scans, ring[k]) # Told(scans, e)
  BY DEF Said
<1>6. \A k \in DOMAIN ring' : Reporting(ring'[k]) =>
         /\ Told(scans, ring'[k]) \notin BagToSet(got)'
         /\ \A f \in fatalError' : Told(scans, f) # Told(scans, ring'[k])
         /\ \A l \in DOMAIN ring' :
              Reporting(ring'[l]) /\ Told(scans, ring'[l]) = Told(scans, ring'[k]) => l = k
  BY <1>2, <1>5 DEF Once
<1>7. \A f \in fatalError' : Told(scans, f) \notin BagToSet(got)'
  BY <1>2, <1>5
<1>. QED
  BY <1>2, <1>4, <1>6, <1>7 DEF Once

\* The coordinator takes the error out of the slot and pushes it.
LEMMA CauseKeepsOnce ==
    ASSUME Types, NEW scans, Once(scans), UNCHANGED <<fsVars, nextId, got>>,
           NEW i \in fatalError, ring' = Append(ring, i), fatalError' = {}
    PROVE  Once(scans)' /\ Said(scans)' \subseteq Said(scans)
<1>1. PICK n \in Nat : n = Len(ring)
  BY DEF Types, RingTypes
<1>2. /\ DOMAIN ring = 1..n /\ DOMAIN ring' = DOMAIN ring \cup {n + 1} /\ ring'[n + 1] = i
      /\ \A k \in DOMAIN ring : ring'[k] = ring[k]
  BY <1>1 DEF Types, RingTypes
<1>3. Told(scans, i) \in Said(scans)
  BY DEF Said
<1>4. Said(scans)' \subseteq Said(scans) \cup {}
  BY <1>3, SaidGrows
<1>5. BagToSet(got)' = BagToSet(got) /\ NothingTwice' /\ Ids' = Ids
  BY DEF Once, NothingTwice, BagToSet, Ids
<1>6. \A j : Owes(j)' = Owes(j)
  BY SameOwed
<1>7. \A r \in Said(scans)' : \E c \in Ids' : r \in Owes(scans[c].job)'
  <2> SUFFICES ASSUME NEW r \in Said(scans) PROVE \E c \in Ids' : r \in Owes(scans[c].job)'
    BY <1>4
  <2>1. PICK c \in Ids : r \in Owes(scans[c].job)
    BY DEF Once
  <2>2. r \in Owes(scans[c].job)'
    BY <1>6, <2>1
  <2>. QED
    BY <1>5, <2>1, <2>2
<1>8. \A k \in DOMAIN ring' : Reporting(ring'[k]) =>
         /\ Told(scans, ring'[k]) \notin BagToSet(got)'
         /\ \A e \in fatalError' : Told(scans, e) # Told(scans, ring'[k])
         /\ \A l \in DOMAIN ring' :
              Reporting(ring'[l]) /\ Told(scans, ring'[l]) = Told(scans, ring'[k]) => l = k
  BY <1>2, <1>5 DEF Once
<1>. QED
  BY <1>4, <1>5, <1>7, <1>8 DEF Once

\* A pop moves a report from the ring to the client, which did not hold it.
LEMMA PopKeepsOnce ==
    ASSUME Types, NEW tree, StreamInv(tree), NEW scans, Knows(scans), Once(scans), Pop,
           UNCHANGED <<fsVars, nextId, fatalError>>
    PROVE  Once(scans)' /\ Said(scans)' \subseteq Said(scans)
<1>1. PICK h \in Item : /\ h = ring[1] /\ 1 \in DOMAIN ring
                        /\ Reporting(h) => got' = got (+) SetToBag({Told(scans, h)})
                        /\ ~Reporting(h) => got' = got
  BY PoppedReport
<1>2. \A k \in DOMAIN ring' : k \in Nat \ {0} /\ k + 1 \in DOMAIN ring /\ ring'[k] = ring[k + 1]
  BY PoppedRing
<1>3. Reporting(h) =>
        /\ Told(scans, h) \notin BagToSet(got)
        /\ \A e \in fatalError : Told(scans, e) # Told(scans, h)
        /\ \A k \in DOMAIN ring :
             Reporting(ring[k]) /\ Told(scans, ring[k]) = Told(scans, h) => k = 1
  BY <1>1 DEF Once
<1>4. /\ BagToSet(got)' = IF Reporting(h) THEN BagToSet(got) \cup {Told(scans, h)}
                                          ELSE BagToSet(got)
      /\ NothingTwice'
  <2>1. CASE ~Reporting(h)
    BY <1>1, <2>1 DEF Once, NothingTwice, BagToSet
  <2>2. CASE Reporting(h)
    <3>1. PICK r : r = Told(scans, h)
      OBVIOUS
    <3>2. r \notin DOMAIN got /\ \A q \in DOMAIN got : got[q] = 1
      BY <1>3, <2>2, <3>1 DEF Once, NothingTwice, BagToSet
    <3>3. /\ DOMAIN got' = DOMAIN got \cup {r}
          /\ got'[r] = 0 + 1 /\ \A q \in DOMAIN got : got'[q] = got[q] + 0
      BY <1>1, <2>2, <3>1, <3>2 DEF (+), SetToBag
    <3>. QED
      BY <2>2, <3>1, <3>2, <3>3 DEF NothingTwice, BagToSet
  <2>. QED
    BY <2>1, <2>2
<1>5. Ids' = Ids /\ fatalError' = fatalError
  BY DEF Ids
<1>6. Said(scans)' \subseteq Said(scans)
  <2> SUFFICES ASSUME NEW r \in Said(scans)' PROVE r \in Said(scans)
    OBVIOUS
  <2>1. CASE r \in BagToSet(got)'
    BY <1>1, <1>4, <2>1 DEF Said
  <2>2. CASE \E k \in DOMAIN ring' : Reporting(ring'[k]) /\ r = Told(scans, ring'[k])
    BY <1>2, <2>2 DEF Said
  <2>3. CASE \E e \in fatalError' : r = Told(scans, e)
    BY <1>5, <2>3 DEF Said
  <2>. QED
    BY <2>1, <2>2, <2>3 DEF Said
<1>7. \A j : Owes(j)' = Owes(j)
  BY SameOwed
<1>8. \A r \in Said(scans)' : \E c \in Ids' : r \in Owes(scans[c].job)'
  <2> SUFFICES ASSUME NEW r \in Said(scans) PROVE \E c \in Ids' : r \in Owes(scans[c].job)'
    BY <1>6
  <2>1. PICK c \in Ids : r \in Owes(scans[c].job)
    BY DEF Once
  <2>2. r \in Owes(scans[c].job)'
    BY <1>7, <2>1
  <2>. QED
    BY <1>5, <2>1, <2>2
<1>9. ASSUME NEW k \in DOMAIN ring', Reporting(ring'[k])
      PROVE  /\ Told(scans, ring'[k]) \notin BagToSet(got)'
             /\ \A e \in fatalError' : Told(scans, e) # Told(scans, ring'[k])
             /\ \A l \in DOMAIN ring' :
                  Reporting(ring'[l]) /\ Told(scans, ring'[l]) = Told(scans, ring'[k]) => l = k
  <2>1. k + 1 \in DOMAIN ring /\ ring'[k] = ring[k + 1] /\ k + 1 # 1
    BY <1>2
  <2>2. /\ Told(scans, ring[k + 1]) \notin BagToSet(got)
        /\ \A e \in fatalError : Told(scans, e) # Told(scans, ring[k + 1])
        /\ \A l \in DOMAIN ring :
             Reporting(ring[l]) /\ Told(scans, ring[l]) = Told(scans, ring[k + 1]) => l = k + 1
    BY <1>9, <2>1 DEF Once
  <2>3. Told(scans, ring'[k]) \notin BagToSet(got)'
    BY <1>3, <1>4, <1>9, <2>1, <2>2
  <2>4. ASSUME NEW l \in DOMAIN ring', Reporting(ring'[l]),
               Told(scans, ring'[l]) = Told(scans, ring'[k])
        PROVE  l = k
    <3>1. l \in Nat /\ l + 1 \in DOMAIN ring /\ ring'[l] = ring[l + 1]
      BY <1>2
    <3>2. l + 1 = k + 1
      BY <2>1, <2>2, <2>4, <3>1
    <3>. QED
      BY <1>2, <3>1, <3>2
  <2>. QED
    BY <1>5, <2>1, <2>2, <2>3, <2>4
<1>10. \A e \in fatalError' : Told(scans, e) \notin BagToSet(got)'
  BY <1>3, <1>4, <1>5 DEF Once
<1>. QED
  BY <1>4, <1>6, <1>8, <1>9, <1>10 DEF Once

\* What a worker's step makes said is new and owed by its own scan.
LEMMA SaysItsOwn ==
    ASSUME Types, Accounting, NEW tree, Planted(tree), NEW scans, Remembered(scans), Says(scans),
           Once(scans), NEW w \in Workers, Stage(w), Reads(scans, w), Ahead(scans, w), Worker(w),
           Ids' = Ids, UNCHANGED nextId
    PROVE  /\ Once(scans)'
           /\ \E New : /\ Said(scans)' \subseteq Said(scans) \cup New
                       /\ New # {} => pc[w] \notin Idle /\ New \subseteq Owes(job[w])
<1>1. UNCHANGED <<fsVars, got>>
  BY WorkerPushes
<1>2. CASE TryPush(w) /\ Room
  <2>1. PICK i, j : i = item[w] /\ j = job[w]
    OBVIOUS
  <2>2. ring' = Append(ring, i) /\ UNCHANGED fatalError /\ pc[w] = "push" /\ Offering(w)
    BY <1>2, <2>1 DEF TryPush, flagVars, Offering
  <2>3. j.container \in Ids /\ j = scans[j.container].job
    BY <2>1, <2>2 DEF Remembered, Idle
  <2>4. Reporting(i) => Told(scans, i) \in Owes(j) \ Said(scans)
    BY <2>1, <2>2 DEF Ahead, ItemAhead
  <2>5. Once(scans)'
    BY <1>1, <2>2, <2>3, <2>4, PushKeepsOnce
  <2>6. PICK New : New = IF Reporting(i) THEN {Told(scans, i)} ELSE {}
    OBVIOUS
  <2>7. Said(scans)' \subseteq Said(scans) \cup New
    BY <1>1, <2>2, <2>6, SaidGrows
  <2>. QED
    BY <2>1, <2>2, <2>4, <2>5, <2>6, <2>7 DEF Idle
<1>3. CASE PushEnd(w)
  <2>1. /\ ring' = Append(ring, item[w]) /\ ~Reporting(item[w]) /\ UNCHANGED fatalError
    BY <1>3 DEF Types, WorkerTypes, WorkerType, PushEnd, EndItem, Reporting, flagVars
  <2>2. Once(scans)'
    BY <1>1, <2>1, PushKeepsOnce
  <2>3. PICK New : New = {}
    OBVIOUS
  <2>4. Said(scans)' \subseteq Said(scans) \cup New
    BY <1>1, <2>1, SaidGrows
  <2>. QED
    BY <2>2, <2>3, <2>4
<1>4. CASE StashError(w) /\ fatalError = {}
  <2>1. PICK j, e : j = job[w] /\ e = OpenError(j)
    OBVIOUS
  <2>2. fatalError' = {e} /\ UNCHANGED ring /\ pc[w] = "slot"
    BY <1>4, <2>1 DEF StashError
  <2>3. j.container \in Ids /\ j = scans[j.container].job /\ j.dir \in denied
        /\ j.parent = NoContainer
    BY <2>1, <2>2 DEF Remembered, Idle, Reads, Stage
  <2>4. PathOf(j) = Append(Place(scans, j.parent), j.name)
    BY <2>3 DEF Remembered, Recorded
  <2>5. Told(scans, e) = Report("Error", PathOf(j), {})
    BY <2>1, <2>4 DEF Told, OpenError
  <2>6. Told(scans, e) \in Owes(j)
    BY <2>3, <2>5 DEF Owes, Faults
  <2>7. Failed(w)
    BY <2>1, <2>2, <2>3 DEF Failed
  <2>8. Told(scans, e) \notin Said(scans)
    BY <2>1, <2>6, <2>7 DEF Ahead, SaidOf
  <2>9. Once(scans)'
    BY <1>1, <1>4, <2>2, <2>3, <2>6, <2>8, StashKeepsOnce
  <2>10. PICK New : New = {Told(scans, e)}
    OBVIOUS
  <2>11. Said(scans)' \subseteq Said(scans) \cup New
    BY <1>1, <2>2, <2>10, SaidGrows
  <2>. QED
    BY <2>1, <2>2, <2>6, <2>9, <2>10, <2>11 DEF Idle
<1>5. CASE UNCHANGED <<ring, fatalError>>
  <2>1. Once(scans)' /\ Said(scans)' = Said(scans)
    BY <1>1, <1>5, SameOnce, SameSaid
  <2>2. PICK New : New = {}
    OBVIOUS
  <2>3. Said(scans)' \subseteq Said(scans) \cup New
    BY <2>1, <2>2
  <2>. QED
    BY <2>1, <2>2, <2>3
<1>6. \/ TryPush(w) /\ Room
      \/ PushEnd(w)
      \/ StashError(w) /\ fatalError = {}
      \/ UNCHANGED <<ring, fatalError>>
  <2>1. TryPush(w) /\ ~Room => UNCHANGED <<ring, fatalError>>
    BY DEF TryPush, flagVars
  <2>2. StashError(w) /\ fatalError # {} => UNCHANGED <<ring, fatalError>>
    BY DEF StashError
  <2>. QED
    BY <2>1, <2>2, WorkerPushes DEF PushEnd
<1>. QED
  BY <1>2, <1>3, <1>4, <1>5, <1>6

\* What is ahead of the worker that takes a step, launch_child aside.
LEMMA ActingAhead ==
    ASSUME Types, Accounting, NEW tree, Planted(tree), NEW scans, Remembered(scans), Says(scans),
           NEW w \in Workers, Stage(w), Reads(scans, w), Ahead(scans, w), Worker(w), ~Launch(w),
           \A i \in DOMAIN stack : /\ SaidOf(scans, stack[i]) = {}
                                   /\ Childless(scans, stack[i].container)
    PROVE  Ahead(scans, w)'
<1>1. CASE NextJob(w)
  BY <1>1, TakenAhead
<1>2. CASE Enumerate(w)
  BY <1>2, EnumerateAhead
<1>3. CASE TryPush(w) /\ Room /\ Reporting(item[w])
  BY <1>3, SaidAhead
<1>4. CASE LoadCancel(w) \/ (TryPush(w) /\ ~(Room /\ Reporting(item[w])))
  <2>1. Said(scans)' \subseteq Said(scans)
    <3>1. UNCHANGED <<got, fatalError>>
      BY <1>4, WorkerPushes DEF LoadCancel, TryPush, flagVars, clientVars, viewVars
    <3>2. UNCHANGED ring \/ (ring' = Append(ring, item[w]) /\ ~Reporting(item[w]))
      BY <1>4 DEF LoadCancel, TryPush
    <3>3. CASE UNCHANGED ring
      BY <3>1, <3>3, SameSaid
    <3>4. CASE ring' = Append(ring, item[w]) /\ ~Reporting(item[w])
      <4>1. Said(scans)' \subseteq Said(scans) \cup {}
        BY <3>1, <3>4, SaidGrows
      <4>. QED
        BY <4>1
    <3>. QED
      BY <3>2, <3>3, <3>4
  <2>. QED
    BY <1>4, <2>1, UnsaidAhead
<1>5. CASE Scan(w)
  BY <1>5, ScanAhead
<1>6. CASE Descend(w)
  BY <1>6, DescendAhead
<1>7. CASE MarkOpen(w) \/ NotifyOne(w)
  <2>1. /\ UNCHANGED <<fsVars, nextId, job, failures, entries, ring, got, fatalError>> /\ Ids' = Ids
        /\ pc'[w] = "scan" /\ pc[w] \in {"opened", "notify"}
    BY <1>7 DEF Types, WorkerTypes, MarkOpen, NotifyOne, Goto, fsVars, flagVars, clientVars,
       viewVars, Ids
  <2>2. Said(scans)' = Said(scans)
    BY <2>1, SameSaid
  <2>3. Reading(w) /\ ~Holding(w)' /\ ~Offering(w)' /\ ~Failed(w)'
    BY <2>1 DEF Reading, Holding, Offering, Failed
  <2>. QED
    BY <2>1, <2>2, <2>3, GoesOnAhead
<1>8. CASE \/ Release(w) \/ Cascade(w) \/ EmitEnds(w) \/ PushEnd(w) \/ StashError(w)
           \/ RaiseFatal(w) \/ WorkerCancel(w) \/ WorkerHalt(w) \/ WorkerWake(w) \/ CompleteJob(w)
  BY <1>8, EndingAhead
<1>. QED
  BY <1>1, <1>2, <1>3, <1>4, <1>5, <1>6, <1>7, <1>8 DEF Worker

\* A step of a worker that launches nothing moves at most the top of the stack into its hands.
LEMMA WorkerKeepsHands ==
    ASSUME Types, NEW w \in Workers, Worker(w), ~Launch(w), InOneHand
    PROVE  /\ InOneHand'
           /\ \A i \in DOMAIN stack' : i \in DOMAIN stack /\ stack'[i] = stack[i]
<1>1. DOMAIN pc = Workers /\ DOMAIN job = Workers
  BY DEF Types, WorkerTypes
<1>2. CASE NextJob(w)
  <2>1. CASE /\ stack # <<>>
             /\ job' = [job EXCEPT ![w] = stack[Len(stack)]]
             /\ stack' = SubSeq(stack, 1, Len(stack) - 1)
             /\ Goto(w, "enumerate")
    <3>1. PICK n : n = Len(stack)
      OBVIOUS
    <3>2. /\ DOMAIN stack = DOMAIN stack' \cup {n} /\ n \notin DOMAIN stack'
          /\ \A i \in DOMAIN stack' : stack'[i] = stack[i]
      BY <2>1, <3>1, PoppedStack
    <3>3. /\ pc[w] = "next" /\ job'[w] = stack[n]
          /\ \A v \in Workers : v # w => pc'[v] = pc[v] /\ job'[v] = job[v]
      BY <1>1, <1>2, <2>1, <3>1 DEF NextJob, Goto
    <3>4. InOneHand'
      BY <3>2, <3>3 DEF InOneHand
    <3>. QED
      BY <3>2, <3>4
  <2>2. CASE /\ UNCHANGED <<stack, job>>
             /\ \A v \in Workers : pc'[v] \notin Idle => pc[v] \notin Idle
    BY <2>2, StillInOneHand
  <2>. QED
    BY <1>1, <1>2, <2>1, <2>2 DEF NextJob, Goto, AllWoken, Idle
<1>3. CASE Cascade(w)
  <2>1. UNCHANGED <<stack, job>> /\ \A v \in Workers : pc'[v] \notin Idle => pc[v] \notin Idle
    BY <1>1, <1>3 DEF Cascade, Goto, Idle
  <2>. QED
    BY <2>1, StillInOneHand
<1>4. CASE ~NextJob(w) /\ ~Cascade(w)
  <2>1. /\ UNCHANGED stack
        /\ \A v \in Workers : pc'[v] \notin Idle => pc[v] \notin Idle /\ job'[v] = job[v]
    BY <1>4, WorkerKeepsJob DEF Worker
  <2>. QED
    BY <2>1, StillInOneHand
<1>. QED
  BY <1>2, <1>3, <1>4

\* Every step of a worker but launch_child.
LEMMA WorkerKeepsSingle ==
    ASSUME Types, Accounting, NEW tree, Planted(tree), Stages, NEW scans, Walked(scans),
           Single(scans), NEW w \in Workers, Worker(w), ~Launch(w)
    PROVE  Single(scans)'
<1>1. /\ UNCHANGED <<fsVars, nextId>> /\ Ids' = Ids /\ unread' = unread
      /\ Remembered(scans) /\ Says(scans) /\ Reads(scans, w) /\ Stage(w) /\ Ahead(scans, w)
      /\ Apart(scans) /\ InOneHand /\ Once(scans)
      /\ \A i \in DOMAIN stack : /\ SaidOf(scans, stack[i]) = {}
                                 /\ Childless(scans, stack[i].container)
  BY WorkerKeepsMemory DEF Walked, Single, Stages, fsVars, Ids
<1>2. Apart(scans)'
  BY <1>1 DEF Apart
<1>3. /\ InOneHand'
      /\ \A i \in DOMAIN stack' : i \in DOMAIN stack /\ stack'[i] = stack[i]
  BY <1>1, WorkerKeepsHands
<1>4. PICK New : /\ Said(scans)' \subseteq Said(scans) \cup New
                 /\ New # {} => pc[w] \notin Idle /\ New \subseteq Owes(job[w])
  BY <1>1, SaysItsOwn
<1>5. Once(scans)'
  BY <1>1, SaysItsOwn
<1>6. /\ \A v \in Workers : pc[v] \notin Idle /\ v # w => New \cap Owes(job[v]) = {}
      /\ \A i \in DOMAIN stack : New \cap Owes(stack[i]) = {}
  <2>1. CASE New = {}
    BY <2>1
  <2>2. CASE New # {}
    BY <1>1, <1>4, <2>2, OthersOwe
  <2>. QED
    BY <2>1, <2>2
<1>7. \A i \in DOMAIN stack' : /\ SaidOf(scans, stack[i])' = {}
                               /\ Childless(scans, stack[i].container)'
  BY <1>1, <1>3, <1>4, <1>6, StillUntold
<1>8. Ahead(scans, w)'
  BY <1>1, ActingAhead
<1>9. ASSUME NEW v \in Workers, v # w PROVE Ahead(scans, v)'
  <2>1. /\ job'[v] = job[v] /\ item'[v] = item[v] /\ entry'[v] = entry[v]
        /\ failures'[v] = failures[v] /\ entries'[v] = entries[v]
        /\ pc'[v] = pc[v] \/ pc'[v] = "next"
    BY <1>9, OthersUntouched
  <2>2. CASE pc'[v] = pc[v] /\ pc[v] \notin Idle
    <3>1. Ahead(scans, v) /\ New \cap Owes(job[v]) = {}
      BY <1>6, <1>9, <2>2 DEF Single
    <3>2. denied' = denied
      BY <1>1 DEF fsVars
    <3>3. /\ Failed(v)' => Failed(v)
          /\ Reading(v)' => Reading(v)
          /\ Holding(v)' => Holding(v)
          /\ Offering(v)' => Offering(v)
      BY <2>1, <2>2, <3>2 DEF Failed, Reading, Holding, Offering
    <3>. QED
      BY <1>1, <1>4, <2>1, <2>2, <3>1, <3>3, StillAhead
  <2>3. CASE pc'[v] \in Idle
    BY <2>3 DEF Ahead, Failed, Reading, Holding, Offering, Idle
  <2>. QED
    BY <2>1, <2>2, <2>3 DEF Idle
<1>10. \A v \in Workers : Ahead(scans, v)'
  BY <1>8, <1>9
<1>. QED
  BY <1>2, <1>3, <1>5, <1>7, <1>10 DEF Single

\* launch_child: the scan it adds lies where no scan lies yet, and its parent goes on without
\* the entry it was launched for.
LEMMA LaunchKeepsSingle ==
    ASSUME Types, Accounting, NEW tree, Planted(tree), NEW scans, Walked(scans), Single(scans),
           NEW w \in Workers, Launch(w), NEW more, Remembered(more)', \A c \in Ids : more[c] = scans[c],
           more[nextId].job = ChildJob(job[w], entry[w], nextId)
    PROVE  Single(more)'
<1>1. PICK j, e, n, c, child :
        /\ j = job[w] /\ e = entry[w] /\ n = nextId /\ c = j.container
        /\ child = ChildJob(j, e, n)
  OBVIOUS
<1>2. /\ Remembered(scans) /\ Says(scans) /\ Reads(scans, w) /\ Ahead(scans, w)
      /\ Apart(scans) /\ InOneHand /\ Once(scans) /\ NoContainer \notin Ids
  BY NoneIsNoId DEF Walked, Single
<1>3. /\ j \in Job /\ c \in Ids /\ c # NoContainer /\ j = scans[c].job
      /\ Place(scans, c) = PathOf(j)
  BY <1>1, <1>2, KnownScan DEF Launch, ScanSteps
<1>4. n \in Nat \ {0} /\ Ids' = Ids \cup {n} /\ n \notin Ids /\ n # NoContainer
  BY <1>1 DEF Types, SharedTypes, Launch, Ids, NoContainer
<1>5. /\ child.container = n /\ child.parent = c /\ child.name = e.name
      /\ more[n].job = child
  BY <1>1 DEF ChildJob
<1>6. /\ UNCHANGED <<fsVars, job, failures, entries, entry, item, ring, got, fatalError>>
      /\ denied' = denied /\ unread' = unread
      /\ stack' = Append(stack, child) /\ stack \in Seq(Job) /\ pc' = [pc EXCEPT ![w] = "notify"]
      /\ pc[w] = "launch" /\ DOMAIN pc = Workers
  BY <1>1 DEF Types, SharedTypes, WorkerTypes, Launch, Goto, fsVars, flagVars, clientVars, viewVars
<1>7. child \in Job /\ PathOf(child) = Spot(j, e)
  <2>1. more[n].job \in Job /\ Recorded(more, n)'
    BY <1>4 DEF Remembered, IsMemory
  <2>2. PathOf(child) = Append(Place(more, c), e.name)
    BY <1>5, <2>1 DEF Recorded
  <2>3. Place(more, c) = PathOf(j)
    BY <1>3 DEF Place
  <2>. QED
    BY <1>5, <2>1, <2>2, <2>3 DEF Spot
<1>8. /\ e \in Entries[j.dir] \ unread /\ entries[w] \subseteq Entries[j.dir]
      /\ ListingAhead(scans, w) /\ EntryAhead(scans, w)
      /\ \A f, g \in Entries[j.dir] : f.name = g.name => f = g
  BY <1>1, <1>2, <1>3, <1>6, ListingAssumption DEF Reads, Ahead, Reading, Holding, Job
<1>9. \A d \in Ids : scans[d].job.parent = c => scans[d].job.name # e.name
  BY <1>1, <1>8 DEF EntryAhead
<1>10. \A d \in Ids : /\ PathOf(scans[d].job) # PathOf(child)
                      /\ Owes(scans[d].job) \cap Owes(child) = {}
  BY <1>2, <1>3, <1>7, <1>8, <1>9, ChildApart
<1>11. \A d \in Ids : scans[d].job.parent \in Ids \cup {NoContainer}
  BY <1>2 DEF Remembered, Recorded
<1>12. Apart(more)'
  <2>1. \A a, b \in Ids' : PathOf(more[a].job) = PathOf(more[b].job) => a = b
    BY <1>2, <1>4, <1>5, <1>10 DEF Apart
  <2>2. ASSUME NEW a \in Ids', more[a].job.parent \in Ids'
        PROVE  \E f \in Entries[more[more[a].job.parent].job.dir] \ unread : f.name = more[a].job.name
    <3>1. CASE a \in Ids
      <4>1. scans[a].job.parent \in Ids
        BY <1>4, <1>11, <2>2, <3>1
      <4>. QED
        BY <1>2, <3>1, <4>1 DEF Apart
    <3>2. CASE a = n
      BY <1>3, <1>5, <1>8, <3>2
    <3>. QED
      BY <1>4, <3>1, <3>2
  <2>. QED
    BY <1>6, <2>1, <2>2 DEF Apart
<1>13. PICK m : m = Len(stack)
  OBVIOUS
<1>14. /\ DOMAIN stack' = DOMAIN stack \cup {m + 1} /\ stack'[m + 1] = child
       /\ \A i \in DOMAIN stack : stack'[i] = stack[i] /\ i # m + 1
  BY <1>6, <1>7, <1>13
<1>15. /\ \A i \in DOMAIN stack : /\ stack[i].container \in Ids
                                  /\ stack[i] = scans[stack[i].container].job
       /\ \A v \in Workers : pc[v] \notin Idle => /\ job[v].container \in Ids
                                                  /\ job[v] = scans[job[v].container].job
  BY <1>2 DEF Remembered
<1>16. /\ \A v \in Workers : pc'[v] \notin Idle => pc[v] \notin Idle
       /\ \A v \in Workers : v # w => pc'[v] = pc[v]
  BY <1>6 DEF Idle
<1>17. InOneHand'
  <2>1. ASSUME NEW i \in DOMAIN stack', NEW k \in DOMAIN stack',
               stack'[i].container = stack'[k].container
        PROVE  i = k
    BY <1>2, <1>4, <1>5, <1>14, <1>15, <2>1 DEF InOneHand
  <2>2. ASSUME NEW i \in DOMAIN stack', NEW v \in Workers, pc'[v] \notin Idle
        PROVE  stack'[i].container # job'[v].container
    BY <1>2, <1>4, <1>5, <1>6, <1>14, <1>15, <1>16, <2>2 DEF InOneHand
  <2>. QED
    BY <1>2, <1>6, <1>16, <2>1, <2>2 DEF InOneHand
<1>18. Said(more)' = Said(scans) /\ \A i : Owes(i)' = Owes(i)
  BY <1>2, <1>6, SameSaid, SameOwed
<1>19. ASSUME NEW i \in DOMAIN stack'
       PROVE  SaidOf(more, stack[i])' = {} /\ Childless(more, stack[i].container)'
  <2>1. PICK k : k = stack'[i]
    OBVIOUS
  <2>2. CASE i = m + 1
    <3>1. k = child
      BY <1>14, <2>1, <2>2
    <3>2. \A r \in Said(scans) : r \notin Owes(child)
      BY <1>2, <1>10 DEF Once
    <3>3. SaidOf(more, child)' = {}
      BY <1>18, <3>2 DEF SaidOf
    <3>4. \A d \in Ids' : more[d].job.parent # n
      BY <1>3, <1>4, <1>5, <1>11
    <3>. QED
      BY <1>5, <2>1, <3>1, <3>3, <3>4 DEF SaidOf, Childless, Owes, Matches, Faults
  <2>3. CASE i \in DOMAIN stack
    <3>1. /\ k = stack[i] /\ SaidOf(scans, k) = {} /\ Childless(scans, k.container)
      BY <1>14, <2>1, <2>3 DEF Single
    <3>2. SaidOf(more, k)' = {}
      BY <1>18, <3>1 DEF SaidOf
    <3>3. k.container # c
      BY <1>1, <1>2, <1>6, <2>3, <3>1 DEF InOneHand, Idle
    <3>4. \A d \in Ids' : more[d].job.parent # k.container
      BY <1>4, <1>5, <3>1, <3>3 DEF Childless
    <3>. QED
      BY <2>1, <3>2, <3>4 DEF SaidOf, Childless, Owes, Matches, Faults
  <2>. QED
    BY <1>14, <2>2, <2>3
<1>20. Ahead(more, w)'
  <2>1. SaidOf(more, j)' = SaidOf(scans, j)
    BY <1>18 DEF SaidOf
  <2>2. SaidOf(more, job[w])' = SaidOf(scans, j)
    BY <1>1, <1>6, <2>1 DEF SaidOf, Owes, Matches, Faults
  <2>3. \A f \in entries[w] : \A d \in Ids' : more[d].job.parent = c => more[d].job.name # f.name
    <3>1. e \notin entries[w]
      BY <1>1, <1>8 DEF EntryAhead
    <3>2. \A f \in entries[w] : f.name # e.name
      BY <1>8, <3>1
    <3>3. \A f \in entries[w] : \A d \in Ids : scans[d].job.parent = c => scans[d].job.name # f.name
      BY <1>1, <1>8 DEF ListingAhead
    <3>. QED
      BY <1>4, <1>5, <3>2, <3>3
  <2>4. ListingAhead(more, w)'
    BY <1>1, <1>6, <1>8, <2>2, <2>3 DEF ListingAhead
  <2>5. pc'[w] = "notify"
    BY <1>6
  <2>. QED
    BY <2>4, <2>5 DEF Ahead, Failed, Holding, Offering
<1>21. ASSUME NEW v \in Workers, v # w PROVE Ahead(more, v)'
  <2>1. CASE pc[v] \in Idle
    BY <1>16, <1>21, <2>1 DEF Ahead, Failed, Reading, Holding, Offering, Idle
  <2>2. CASE pc[v] \notin Idle
    <3>1. Ahead(scans, v) /\ pc'[v] = pc[v] /\ (Offering(v) => Sound(scans, item[v]))
      BY <1>2, <1>16, <1>21 DEF Single, Says
    <3>2. /\ Failed(v)' => Failed(v)
          /\ Reading(v)' => Reading(v)
          /\ Holding(v)' => Holding(v)
          /\ Offering(v)' => Offering(v)
      BY <1>6, <3>1 DEF Failed, Reading, Holding, Offering
    <3>3. job[v].container # c
      BY <1>1, <1>2, <1>6, <1>21, <2>2 DEF InOneHand, Idle
    <3>4. \A d \in Ids' : more[d].job.parent = job[v].container =>
            d \in Ids /\ more[d].job = scans[d].job
      BY <1>4, <1>5, <3>3
    <3>5. Offering(v) /\ Reporting(item[v]) => Told(more, item[v]) = Told(scans, item[v])
      BY <3>1, SameTold
    <3>6. PICK New : New = {}
      OBVIOUS
    <3>7. Said(more)' \subseteq Said(scans) \cup New /\ New \cap Owes(job[v]) = {}
      BY <1>18, <3>6
    <3>8. /\ job'[v] = job[v] /\ (pc'[v] = "enumerate" => pc[v] = "enumerate")
          /\ failures'[v] = failures[v] /\ entries'[v] = entries[v]
          /\ entry'[v] = entry[v] /\ item'[v] = item[v]
      BY <1>6, <3>1
    <3>9. Ahead(scans, v) /\ UNCHANGED fsVars
      BY <1>6, <3>1
    <3>10. \A d \in Ids' : more[d].job.parent = job[v].container =>
             d \in Ids /\ more[d].job = scans[d].job
      BY <3>4
    <3>. QED
      BY <3>2, <3>5, <3>7, <3>8, <3>9, <3>10, StillAhead
  <2>. QED
    BY <2>1, <2>2
<1>22. Once(more)'
  BY <1>2, <1>4, <1>6, SameOnce
<1>. QED
  BY <1>12, <1>17, <1>19, <1>20, <1>21, <1>22 DEF Single

\* Nothing is said, and each root lies in its own place.
LEMMA InitSingle ==
    ASSUME Init
    PROVE  \E scans : Walked(scans) /\ Single(scans)
<1>1. PICK scans : /\ Walked(scans)
                   /\ \A c \in Ids : scans[c].job.parent = NoContainer
                   /\ \A c, d \in Ids : PathOf(scans[c].job) = PathOf(scans[d].job) => c = d
                   /\ \A i \in DOMAIN stack : stack[i].container = i
  BY InitWalked
<1>2. pc = [w \in Workers |-> "next"] /\ ring = <<>> /\ fatalError = {} /\ got = EmptyBag
  BY DEF Init
<1>3. NoContainer \notin Ids
  BY DEF Ids, NoContainer
<1>4. BagToSet(got) = {}
  BY <1>2 DEF BagToSet, EmptyBag, SetToBag
<1>5. Said(scans) = {}
  BY <1>2, <1>4 DEF Said
<1>6. Apart(scans)
  BY <1>1, <1>3 DEF Apart
<1>7. InOneHand
  BY <1>1, <1>2 DEF InOneHand, Idle
<1>8. \A i \in DOMAIN stack : SaidOf(scans, stack[i]) = {} /\ Childless(scans, stack[i].container)
  <2>1. \A i \in DOMAIN stack : stack[i].container \in Ids
    BY <1>1 DEF Walked, Remembered
  <2>. QED
    BY <1>1, <1>3, <1>5, <2>1 DEF SaidOf, Childless
<1>9. \A w \in Workers : Ahead(scans, w)
  BY <1>2 DEF Ahead, Failed, Reading, Holding, Offering
<1>10. Once(scans)
  BY <1>2, <1>4, <1>5 DEF Once, NothingTwice
<1>. QED
  BY <1>1, <1>6, <1>7, <1>8, <1>9, <1>10 DEF Single

\* A step of another thread: it says nothing new, though it may carry on what was said.
LEMMA OthersKeepSingle ==
    ASSUME Types, NEW tree, StreamInv(tree), NEW scans, Walked(scans), Single(scans),
           Coordinator \/ SqThread \/ Client \/ UNCHANGED vars
    PROVE  Single(scans)'
<1>1. /\ UNCHANGED <<fsVars, nextId, stack, job, item, failures, entries, entry>>
      /\ UNCHANGED pc \/ pc' = AllWoken
  <2>1. CASE Coordinator
    BY <2>1 DEF Coordinator, Join, Close, PushLeftover, Conclude, PushCause, PushTerminal, Finish,
       sharedVars, workVars
  <2>2. CASE SqThread
    BY <2>2 DEF SqThread, SqCheck, SqDrain, SqServe, SqHalt, SqWake, sharedVars, workVars
  <2>3. CASE Client
    BY <2>3 DEF Client, ClientPop, ClientSubmit, DropHandle, Dropping, DropHalt, DropWake,
       DropDrain, DropJoin, Gone, vars, sharedVars, workVars
  <2>4. CASE UNCHANGED vars
    BY <2>4 DEF vars, sharedVars, workVars
  <2>. QED
    BY <2>1, <2>2, <2>3, <2>4
<1>2. DOMAIN pc = Workers
  BY DEF Types, WorkerTypes
<1>3. \A v \in Workers : pc'[v] = pc[v] \/ pc'[v] = "next"
  BY <1>1, <1>2 DEF AllWoken
<1>4. Ids' = Ids /\ unread' = unread /\ denied' = denied
  BY <1>1 DEF Ids, fsVars
<1>5. /\ Says(scans) /\ Knows(scans) /\ Apart(scans) /\ InOneHand /\ Once(scans)
      /\ \A i \in DOMAIN stack : /\ SaidOf(scans, stack[i]) = {}
                                 /\ Childless(scans, stack[i].container)
  BY DEF Walked, Single
<1>6. Once(scans)' /\ Said(scans)' \subseteq Said(scans)
  <2>1. CASE Pop /\ UNCHANGED fatalError
    BY <1>1, <1>5, <2>1, PopKeepsOnce
  <2>2. CASE UNCHANGED <<ring, got, fatalError>>
    BY <1>1, <1>4, <1>5, <2>2, SameOnce, SameSaid
  <2>3. CASE /\ UNCHANGED <<got, fatalError>>
             /\ \E i : ring' = Append(ring, i) /\ ~Reporting(i)
    <3>1. PICK i : ring' = Append(ring, i) /\ ~Reporting(i)
      BY <2>3
    <3>2. Once(scans)'
      BY <1>1, <1>5, <2>3, <3>1, PushKeepsOnce
    <3>3. Said(scans)' \subseteq Said(scans) \cup {}
      BY <2>3, <3>1, SaidGrows
    <3>. QED
      BY <3>2, <3>3
  <2>4. CASE /\ UNCHANGED got /\ fatalError' = {}
             /\ \E e \in fatalError : ring' = Append(ring, e)
    BY <1>1, <1>5, <2>4, CauseKeepsOnce
  <2>5. CASE Coordinator
    <3>1. ~Reporting(End(closing)) /\ ~Reporting(Terminal(reason))
      BY DEF Reporting, End, Terminal
    <3>2. UNCHANGED got
      BY <2>5 DEF Coordinator, Join, Close, PushLeftover, Conclude, PushCause, PushTerminal,
         Finish, clientVars, viewVars
    <3>3. CASE Join \/ Close \/ Conclude \/ Finish
      BY <2>2, <3>2, <3>3 DEF Join, Close, Conclude, Finish, flagVars
    <3>4. CASE PushLeftover \/ PushTerminal
      BY <2>3, <3>1, <3>2, <3>4 DEF PushLeftover, PushTerminal, flagVars
    <3>5. CASE PushCause
      BY <2>2, <2>4, <3>2, <3>5 DEF PushCause
    <3>. QED
      BY <2>5, <3>3, <3>4, <3>5 DEF Coordinator
  <2>6. CASE SqThread \/ Client \/ UNCHANGED vars
    <3>1. UNCHANGED fatalError /\ (Pop \/ UNCHANGED <<ring, got>>)
      BY <2>6 DEF SqThread, SqCheck, SqDrain, SqServe, SqHalt, SqWake, Client, ClientPop,
         ClientSubmit, DropHandle, Dropping, DropHalt, DropWake, DropDrain, DropJoin, Gone, vars,
         flagVars, clientVars, viewVars
    <3>. QED
      BY <2>1, <2>2, <3>1
  <2>. QED
    BY <2>5, <2>6
<1>7. Apart(scans)'
  BY <1>4, <1>5 DEF Apart
<1>8. InOneHand'
  <2>1. \A v \in Workers : pc'[v] \notin Idle => pc[v] \notin Idle /\ job'[v] = job[v]
    BY <1>1, <1>3 DEF Idle
  <2>. QED
    BY <1>1, <1>5, <2>1, StillInOneHand
<1>9. \A i \in DOMAIN stack' : /\ SaidOf(scans, stack[i])' = {}
                               /\ Childless(scans, stack[i].container)'
  <2>1. PICK New : New = {}
    OBVIOUS
  <2>2. Said(scans)' \subseteq Said(scans) \cup New /\ \A i \in DOMAIN stack : New \cap Owes(stack[i]) = {}
    BY <1>6, <2>1
  <2>3. \A i \in DOMAIN stack' : i \in DOMAIN stack /\ stack'[i] = stack[i]
    BY <1>1
  <2>. QED
    BY <1>1, <1>5, <2>2, <2>3, StillUntold
<1>10. ASSUME NEW v \in Workers PROVE Ahead(scans, v)'
  <2>1. CASE pc'[v] = pc[v]
    <3>1. /\ Failed(v)' => Failed(v)
          /\ Reading(v)' => Reading(v)
          /\ Holding(v)' => Holding(v)
          /\ Offering(v)' => Offering(v)
      BY <1>1, <1>4, <2>1 DEF Failed, Reading, Holding, Offering
    <3>2. /\ job'[v] = job[v] /\ (pc'[v] = "enumerate" => pc[v] = "enumerate")
          /\ failures'[v] = failures[v] /\ entries'[v] = entries[v]
          /\ entry'[v] = entry[v] /\ item'[v] = item[v]
      BY <1>1, <2>1
    <3>3. Ahead(scans, v) /\ UNCHANGED fsVars
      BY <1>1 DEF Single
    <3>. QED
      BY <1>4, <1>6, <3>1, <3>2, <3>3, GoesOnAhead
  <2>2. CASE pc'[v] = "next"
    BY <2>2 DEF Ahead, Failed, Reading, Holding, Offering
  <2>. QED
    BY <1>3, <2>1, <2>2
<1>. QED
  BY <1>6, <1>7, <1>8, <1>9, <1>10 DEF Single

\* There always is a memory of the scans in which each has one place and one hand, and what it
\* has said is behind it.
THEOREM SingleInvariance == Spec => [](\E scans : Walked(scans) /\ Single(scans))
<1> DEFINE Inv == \E tree : StreamInv(tree)
           Singles == \E scans : Walked(scans) /\ Single(scans)
<1>1. Init => Singles
  BY InitSingle
<1>2. IInv /\ Accounting /\ Inv /\ Singles /\ [Next]_vars => Singles'
  <2> SUFFICES ASSUME IInv, Accounting, NEW tree, StreamInv(tree), NEW scans, Walked(scans),
                      Single(scans), [Next]_vars
               PROVE  Singles'
    OBVIOUS
  <2>1. Types /\ Planted(tree) /\ Stages
    BY DEF IInv, StreamInv, Books
  <2>2. ASSUME NEW w \in Workers, Worker(w) PROVE Singles'
    <3>1. PICK more : /\ Walked(more)' /\ \A c \in Ids : more[c] = scans[c]
                      /\ IF Launch(w) THEN LaunchedBy(scans, w, more[nextId]) ELSE more = scans
      BY <2>1, <2>2, WorkerKeepsWalked
    <3>2. CASE Launch(w)
      <4>1. Remembered(more)'
        BY <3>1 DEF Walked
      <4>2. Single(more)'
        BY <2>1, <2>2, <3>1, <3>2, <4>1, LaunchKeepsSingle DEF LaunchedBy
      <4>. QED
        BY <3>1, <4>2
    <3>3. CASE ~Launch(w)
      <4>1. Single(scans)'
        BY <2>1, <2>2, <3>3, WorkerKeepsSingle
      <4>. QED
        BY <3>1, <3>3, <4>1
    <3>. QED
      BY <3>2, <3>3
  <2>3. CASE Coordinator \/ SqThread \/ Client \/ UNCHANGED vars
    BY <2>1, <2>3, OthersKeepWalked, OthersKeepSingle
  <2>. QED
    BY <2>2, <2>3 DEF Next
<1> HIDE DEF Inv, Singles
<1>3. Spec => []Inv
  BY StreamInvariance DEF Inv
<1>4. Spec => []Singles
  BY <1>1, <1>2, <1>3, Invariance, AccountingInvariance, PTL DEF Spec
<1>. QED
  BY <1>4 DEF Singles

\* No report reaches the client twice (emit, engine.rs:138), whatever a full ring, a cancel or
\* a fatal error makes a worker do over: an item that was pushed is not offered again, no scan
\* runs twice, and no two scans owe the same report.
THEOREM OnceCorrect == Spec => []NothingTwice
<1>1. (\E scans : Walked(scans) /\ Single(scans)) => NothingTwice
  BY DEF Single, Once
<1>2. Spec => [](\E scans : Walked(scans) /\ Single(scans))
  BY SingleInvariance
<1>. QED
  BY <1>1, <1>2, PTL

-----------------------------------------------------------------------------
(* The invariant.  As long as nothing was given up, each entry of each     *)
(* listing that was read is dealt with, in hand, or still to be looked at. *)

\* Nothing has been given up: no cancel, or none before the outcome was read.
Kept == ~cancel \/ (cpc \notin {"join", "close", "end"} /\ reason = "Completed")

\* The scan that an entry leads to has been launched.
Launched(scans, c, e) ==
    \E d \in Ids : /\ scans[d].job.root = scans[c].job.root
                   /\ scans[d].trail = Append(scans[c].trail, e)

Hits(j, e) == Report("Match", Spot(j, e), HitsOf(j, e))

\* All that an entry of a scan's directory calls for has been said and launched.
Dealt(scans, c, e) ==
    LET j == scans[c].job IN
    /\ e \in unread => Report("Error", Spot(j, e), {}) \in Said(scans)
    /\ e \notin unread =>
         /\ HitsOf(j, e) # {} => Hits(j, e) \in Said(scans)
         /\ Descends(j, e) /\ Escapes(e) => Report("Blocked", Spot(j, e), {}) \in Said(scans)
         /\ Wanted(j, e) =>
              Launched(scans, c, e) \/ (HasIdentity(e) /\ e.id \in visited)

Done(scans, c) ==
    LET j == scans[c].job IN
    IF j.dir \in denied
    THEN j.parent # NoContainer /\ Report("Error", PathOf(j), {}) \in Said(scans)
    ELSE \A e \in Entries[j.dir] : Dealt(scans, c, e)

\* A scan that waits on the stack or is in the hands of a worker.
Unfinished(c) ==
    \/ \E i \in DOMAIN stack : stack[i].container = c
    \/ \E w \in Workers : pc[w] \notin Idle /\ job[w].container = c

\* The entry that a worker is dealing with: its failure is on offer, its match is, or the match
\* is out and the descent is next.
InHand(scans, w, e) ==
    \/ Offering(w) /\ e \in unread /\ item[w] = ReadError(job[w], e)
    \/ /\ e = entry[w] /\ e \notin unread
       /\ \/ Offering(w) /\ item[w] = Matched(job[w], e, HitsOf(job[w], e))
          \/ /\ \/ pc[w] \in {"descend", "launch"}
                \/ Offering(w) /\ item[w] = Blocked(job[w], e) /\ Escapes(e)
             /\ HitsOf(job[w], e) # {} => Hits(job[w], e) \in Said(scans)

Leaving == {"release", "cascade", "ends", "end", "slot", "flag", "swap"}

\* What a worker has behind it.  A root that could not be opened has nothing: it is on the way
\* to raise the cancel flag.
Behind(scans, w) ==
    LET j == job[w] IN
    /\ Reading(w) => \A e \in Entries[j.dir] : \/ e \in failures[w] \cup entries[w]
                                               \/ InHand(scans, w, e)
                                               \/ Dealt(scans, j.container, e)
    /\ GivesUp(w) => item[w] = OpenError(j) /\ j.dir \in denied /\ j.parent # NoContainer
    /\ pc[w] \in Leaving =>
         Done(scans, j.container) \/ (j.dir \in denied /\ j.parent = NoContainer)
    /\ pc[w] = "complete" => Done(scans, j.container)

Lossless(scans) ==
    /\ \A c \in Ids : Unfinished(c) \/ Done(scans, c)
    /\ \A w \in Workers : Behind(scans, w)
    /\ (\E w \in Workers : pc[w] = "exit") => outstanding = 0

\* An identity is spent by the link that a trail followed last or is about to follow.
Follows(trail, id) ==
    trail # <<>> /\ HasIdentity(trail[Len(trail)]) /\ trail[Len(trail)].id = id

Spent(scans) ==
    \A id \in visited :
        \/ \E d \in Ids : Follows(scans[d].trail, id)
        \/ \E w \in Workers : pc[w] = "launch" /\ HasIdentity(entry[w]) /\ entry[w].id = id

Rooted(scans) == \A r \in Referenced : \E c \in Ids : IsRootScan(scans, c, r)

\* The memory of a walk that loses nothing unless it is cancelled.
Whole(scans) == Rooted(scans) /\ Spent(scans) /\ (Kept => Lossless(scans))

\* Whatever stops the workers has raised the flag first, and the reason the client is told is
\* the one the coordinator read, after the error behind a fatal stop is out.
Concluded ==
    /\ \/ cancelled \/ spc = "halt" \/ kpc = "halt"
       \/ \E w \in Workers : pc[w] \in {"halt", "wake"}
       => cancel
    /\ \A e, f \in fatalError : e = f
    /\ cpc \in {"terminal", "finish", "done"} => fatalError = {}
    /\ \A k \in DOMAIN ring : ring[k].type = "Terminal" => ring[k].reason = reason
    /\ terminal # "none" => terminal = reason
    /\ got = [r \in DOMAIN got |-> got[r]]

-----------------------------------------------------------------------------
(* What stays *)

\* What has been dealt with stays so, while more is said, launched and followed.
LEMMA StillDealt ==
    ASSUME NEW scans, NEW more, UNCHANGED fsVars, visited \subseteq visited', Ids \subseteq Ids',
           \A c \in Ids : more[c] = scans[c], Said(scans) \subseteq Said(more)', NEW c \in Ids,
           NEW e, Dealt(scans, c, e)
    PROVE  Dealt(more, c, e)'
<1>1. unread' = unread /\ more[c] = scans[c]
  BY DEF fsVars
<1>2. Launched(scans, c, e) => Launched(more, c, e)'
  BY DEF Launched
<1>3. PICK old, new : old = Said(scans) /\ new = Said(more)'
  OBVIOUS
<1>4. old \subseteq new
  BY <1>3
<1>5. Dealt(scans, c, e)
  OBVIOUS
<1>. QED
  BY <1>1, <1>2, <1>3, <1>4, <1>5 DEF Dealt, Hits

LEMMA StillDone ==
    ASSUME NEW scans, NEW more, UNCHANGED fsVars, visited \subseteq visited', Ids \subseteq Ids',
           \A c \in Ids : more[c] = scans[c], Said(scans) \subseteq Said(more)', NEW c \in Ids,
           Done(scans, c)
    PROVE  Done(more, c)'
<1>1. denied' = denied /\ more[c] = scans[c]
  BY DEF fsVars
<1>2. \A e : Dealt(scans, c, e) => Dealt(more, c, e)'
  BY StillDealt
<1>. QED
  BY <1>1, <1>2 DEF Done

\* A worker that does not move keeps what it has behind it.
LEMMA StillBehind ==
    ASSUME NEW scans, NEW more, UNCHANGED fsVars, visited \subseteq visited', Ids \subseteq Ids',
           \A c \in Ids : more[c] = scans[c], Said(scans) \subseteq Said(more)',
           NEW v \in Workers, job[v].container \in Ids, Behind(scans, v),
           pc'[v] = pc[v], job'[v] = job[v], item'[v] = item[v],
           failures'[v] = failures[v], entries'[v] = entries[v], entry'[v] = entry[v]
    PROVE  Behind(more, v)'
<1>1. denied' = denied /\ unread' = unread
  BY DEF fsVars
<1>2. \A e : Dealt(scans, job[v].container, e) => Dealt(more, job[v].container, e)'
  BY StillDealt
<1>3. Done(scans, job[v].container) => Done(more, job[v].container)'
  BY StillDone
<1>4. (Reading(v)' <=> Reading(v)) /\ (Offering(v)' <=> Offering(v)) /\ (GivesUp(v)' <=> GivesUp(v))
  BY DEF Reading, Offering, GivesUp
<1>5. \A e : InHand(scans, v, e) => InHand(more, v, e)'
  BY <1>1, <1>4 DEF InHand
<1>6. Behind(scans, v)
  OBVIOUS
<1>7. PICK j : j = job[v]
  OBVIOUS
<1>8. job'[v] = j
  BY <1>7
<1>. QED
  BY <1>1, <1>2, <1>3, <1>4, <1>5, <1>6, <1>7, <1>8 DEF Behind

-----------------------------------------------------------------------------
(* What has been said stays said *)

\* A push says what its item reports.
LEMMA PushSays ==
    ASSUME Types, NEW scans, NEW i, ring' = Append(ring, i), UNCHANGED <<got, fatalError>>
    PROVE  /\ Said(scans) \subseteq Said(scans)'
           /\ Reporting(i) => Told(scans, i) \in Said(scans)'
<1>1. /\ DOMAIN ring' = DOMAIN ring \cup {Len(ring) + 1} /\ ring'[Len(ring) + 1] = i
      /\ \A k \in DOMAIN ring : ring'[k] = ring[k]
  BY DEF Types, RingTypes
<1>2. BagToSet(got)' = BagToSet(got)
  BY DEF BagToSet
<1>. QED
  BY <1>1, <1>2 DEF Said

\* A worker takes back nothing of what has been said.
LEMMA WorkerTakesNothingBack ==
    ASSUME Types, NEW scans, Says(scans), NEW more, \A c \in Ids : more[c] = scans[c],
           NEW w \in Workers, Worker(w), Launch(w) \/ more = scans
    PROVE  Said(scans) \subseteq Said(more)'
<1>1. CASE UNCHANGED <<ring, got, fatalError>>
  BY <1>1, SameSaid
<1>2. CASE TryPush(w) \/ PushEnd(w)
  <2>1. UNCHANGED <<got, fatalError>> /\ more = scans
    <3>1. ~Launch(w) /\ ~StashError(w)
      BY <1>2 DEF TryPush, PushEnd, Launch, StashError
    <3>. QED
      BY <3>1, WorkerPushes
  <2>2. UNCHANGED ring \/ ring' = Append(ring, item[w])
    BY <1>2 DEF TryPush, PushEnd
  <2>. QED
    BY <1>1, <2>1, <2>2, PushSays
<1>3. CASE StashError(w)
  <2>1. UNCHANGED <<ring, got>> /\ more = scans /\ fatalError \subseteq fatalError'
    BY <1>3 DEF StashError, Launch, clientVars, viewVars
  <2>2. BagToSet(got)' = BagToSet(got)
    BY <2>1 DEF BagToSet
  <2>. QED
    BY <2>1, <2>2 DEF Said
<1>. QED
  BY <1>1, <1>2, <1>3, WorkerPushes

\* A pop carries a report over to the client.
LEMMA PopTakesNothingBack ==
    ASSUME Types, NEW tree, StreamInv(tree), NEW scans, Knows(scans), Pop, UNCHANGED fatalError
    PROVE  Said(scans) \subseteq Said(scans)'
<1>1. PICK h : h = ring[1]
  OBVIOUS
<1>2. /\ 1 \in DOMAIN ring
      /\ Reporting(h) => got' = got (+) SetToBag({Told(scans, h)})
      /\ ~Reporting(h) => got' = got
  BY <1>1, PoppedReport
<1>3. /\ ring \in Seq(Item) /\ ring' = Tail(ring) /\ ring # <<>>
  BY DEF Types, RingTypes, Pop
<1>4. \A k \in DOMAIN ring : k # 1 => k - 1 \in DOMAIN ring' /\ ring'[k - 1] = ring[k]
  BY <1>3
<1>5. BagToSet(got) \subseteq BagToSet(got)' /\ (Reporting(h) => Told(scans, h) \in BagToSet(got)')
  <2>1. CASE Reporting(h)
    <3>1. PICK told : told = Told(scans, h)
      OBVIOUS
    <3>2. DOMAIN got' = DOMAIN got \cup {told}
      BY <1>2, <2>1, <3>1 DEF (+), SetToBag
    <3>. QED
      BY <3>1, <3>2 DEF BagToSet
  <2>2. CASE ~Reporting(h)
    BY <1>2, <2>2 DEF BagToSet
  <2>. QED
    BY <2>1, <2>2
<1>6. ASSUME NEW k \in DOMAIN ring, Reporting(ring[k]) PROVE Told(scans, ring[k]) \in Said(scans)'
  <2>1. CASE k = 1
    BY <1>1, <1>5, <1>6, <2>1 DEF Said
  <2>2. CASE k # 1
    <3>1. k - 1 \in DOMAIN ring' /\ ring'[k - 1] = ring[k]
      BY <1>4, <2>2
    <3>. QED
      BY <1>6, <3>1 DEF Said
  <2>. QED
    BY <2>1, <2>2
<1>7. BagToSet(got) \subseteq Said(scans)' /\ \A e \in fatalError : Told(scans, e) \in Said(scans)'
  BY <1>5 DEF Said
<1>. QED
  BY <1>6, <1>7 DEF Said

\* The other threads take back nothing either: the coordinator passes the causing error on.
LEMMA OthersTakeNothingBack ==
    ASSUME Types, NEW tree, StreamInv(tree), NEW scans, Walked(scans),
           Concluded, Coordinator \/ SqThread \/ Client \/ UNCHANGED vars
    PROVE  Said(scans) \subseteq Said(scans)'
<1>1. CASE UNCHANGED <<ring, got, fatalError>>
  BY <1>1, SameSaid DEF Walked
<1>2. CASE \/ Join \/ Close \/ PushLeftover \/ Conclude \/ PushTerminal \/ Finish
  <2>1. /\ UNCHANGED <<got, fatalError>>
        /\ UNCHANGED ring \/ \E i : ring' = Append(ring, i)
    BY <1>2 DEF Join, Close, PushLeftover, Conclude, PushTerminal, Finish, flagVars, clientVars,
       viewVars
  <2>. QED
    BY <1>1, <2>1, PushSays
<1>3. CASE PushCause
  <2>1. CASE fatalError = {}
    BY <1>1, <1>3, <2>1 DEF PushCause, clientVars, viewVars
  <2>2. CASE fatalError # {}
    <3>1. PICK e \in fatalError : ring' = Append(ring, e) /\ fatalError' = {} /\ UNCHANGED got
      BY <1>3, <2>2 DEF PushCause, clientVars, viewVars
    <3>2. \A f \in fatalError : f = e
      BY DEF Concluded
    <3>3. /\ DOMAIN ring' = DOMAIN ring \cup {Len(ring) + 1} /\ ring'[Len(ring) + 1] = e
          /\ \A k \in DOMAIN ring : ring'[k] = ring[k]
      BY <3>1 DEF Types, RingTypes
    <3>4. BagToSet(got)' = BagToSet(got) /\ Reporting(e)
      BY <3>1, CauseReports DEF BagToSet
    <3>. QED
      BY <3>2, <3>3, <3>4 DEF Said
  <2>. QED
    BY <2>1, <2>2
<1>4. CASE SqThread \/ Client \/ UNCHANGED vars
  <2>1. UNCHANGED fatalError /\ (Pop \/ UNCHANGED <<ring, got>>)
    BY <1>4 DEF SqThread, SqCheck, SqDrain, SqServe, SqHalt, SqWake, Client, ClientPop,
       ClientSubmit, DropHandle, Dropping, DropHalt, DropWake, DropDrain, DropJoin, Gone, vars,
       flagVars, clientVars, viewVars
  <2>. QED
    BY <1>1, <2>1, PopTakesNothingBack DEF Walked
<1>. QED
  BY <1>2, <1>3, <1>4 DEF Coordinator

-----------------------------------------------------------------------------
(* What the worker that takes a step has behind it *)

\* The directory is open, its whole listing ahead; or it refuses, and the error is on offer.
LEMMA EnumerateBehind ==
    ASSUME Types, Accounting, NEW tree, Planted(tree), NEW scans, Remembered(scans),
           NEW w \in Workers, Enumerate(w)
    PROVE  Behind(scans, w)'
<1>1. PICK j : j = job[w]
  OBVIOUS
<1>2. j.parent # j.container
  BY <1>1, KnownScan DEF Enumerate, ScanSteps
<1>3. /\ DOMAIN pc = Workers /\ DOMAIN item = Workers /\ DOMAIN failures = Workers
      /\ DOMAIN entries = Workers
  BY DEF Types, WorkerTypes
<1>4. job'[w] = j /\ denied' = denied /\ unread' = unread
  BY <1>1 DEF Enumerate, fsVars
<1>5. CASE pc'[w] = "release" /\ j.dir \in denied /\ j.parent = NoContainer
  BY <1>4, <1>5 DEF Behind, Reading, Offering, GivesUp
<1>6. CASE j.dir \in denied /\ j.parent # NoContainer /\ Offer(w, OpenError(j))
  <2>1. pc'[w] = "offer" /\ item'[w] = OpenError(j)
    BY <1>3, <1>6 DEF Offer, Goto
  <2>. QED
    BY <1>2, <1>4, <1>6, <2>1 DEF Behind, Reading, Offering, GivesUp, OpenError, Leaving
<1>7. CASE /\ j.dir \notin denied
           /\ failures' = [failures EXCEPT ![w] = Entries[j.dir] \cap unread]
           /\ entries' = [entries EXCEPT ![w] = Entries[j.dir] \ unread]
           /\ Offer(w, Enter(j))
  <2>1. pc'[w] = "offer" /\ item'[w] = Enter(j)
    BY <1>3, <1>7 DEF Offer, Goto
  <2>2. failures'[w] \cup entries'[w] = Entries[j.dir]
    BY <1>3, <1>7
  <2>. QED
    BY <1>4, <2>1, <2>2 DEF Behind, Offering, GivesUp, Enter, Leaving
<1>. QED
  BY <1>1, <1>3, <1>5, <1>6, <1>7 DEF Enumerate, Goto

\* An emit that is refused by a full ring, and no other is while nothing is cancelled.
LEMMA RefusedBehind ==
    ASSUME Types, NEW scans, Walked(scans), NEW w \in Workers, Behind(scans, w), pc[w] \notin Idle,
           (LoadCancel(w) /\ ~cancel) \/ (TryPush(w) /\ ~Room)
    PROVE  Behind(scans, w)'
<1>1. PICK j : j = job[w]
  OBVIOUS
<1>2. /\ UNCHANGED <<fsVars, visited, nextId, job, failures, entries, entry, item, ring, got,
                     fatalError>>
      /\ pc[w] \in {"offer", "push"} /\ pc'[w] \in {"offer", "push"}
  BY DEF Types, WorkerTypes, LoadCancel, TryPush, Goto, sharedVars, flagVars, clientVars, viewVars
<1>3. denied' = denied /\ unread' = unread /\ Ids' = Ids /\ visited' = visited
  BY <1>2 DEF fsVars, Ids
<1>4. Said(scans)' = Said(scans)
  BY <1>2, SameSaid DEF Walked
<1>5. /\ Reading(w)' <=> Reading(w)
      /\ GivesUp(w)' <=> GivesUp(w)
      /\ Offering(w) /\ Offering(w)'
  BY <1>2 DEF Reading, GivesUp, Offering
<1>6. \A e : InHand(scans, w, e) => InHand(scans, w, e)'
  BY <1>2, <1>3, <1>4, <1>5 DEF InHand
<1>7. \A e : Dealt(scans, j.container, e) => Dealt(scans, j.container, e)'
  <2>1. j.container \in Ids
    BY <1>1 DEF Walked, Remembered
  <2>. QED
    BY <1>2, <1>3, <1>4, <2>1, StillDealt
<1>. QED
  BY <1>1, <1>2, <1>3, <1>5, <1>6, <1>7 DEF Behind, Leaving

\* An emit that ends with a push: what was on offer is said, and its entry dealt with, but for
\* the descent that follows a match.
LEMMA PushedBehind ==
    ASSUME Types, Accounting, NEW tree, Planted(tree), NEW scans, Walked(scans),
           NEW w \in Workers, Stage(w), Behind(scans, w), TryPush(w), Room
    PROVE  Behind(scans, w)'
<1>1. PICK j, i, c : j = job[w] /\ i = item[w] /\ c = j.container
  OBVIOUS
<1>2. /\ j \in Job /\ c \in Ids /\ c # NoContainer /\ j.parent # c /\ j = scans[c].job
      /\ PathOf(j) = Append(Place(scans, j.parent), j.name) /\ Place(scans, c) = PathOf(j)
  BY <1>1, KnownScan DEF TryPush, ScanSteps, Walked
<1>3. /\ UNCHANGED <<fsVars, visited, nextId, job, failures, entries, entry, got, fatalError>>
      /\ ring' = Append(ring, i) /\ Offering(w) /\ pc'[w] = Resumed(w, TRUE)
  BY <1>1 DEF Types, WorkerTypes, TryPush, Goto, sharedVars, flagVars, clientVars, viewVars,
     Offering
<1>4. denied' = denied /\ unread' = unread /\ Ids' = Ids /\ visited' = visited
  BY <1>3 DEF fsVars, Ids
<1>5. /\ Said(scans) \subseteq Said(scans)'
      /\ Reporting(i) => Told(scans, i) \in Said(scans)'
  BY <1>3, PushSays
<1>6. i.type \in {"Enter", "Match", "Blocked", "Error"}
  BY <1>1, <1>3, OfferedTypes
<1>7. \A e : Dealt(scans, c, e) => Dealt(scans, c, e)'
  BY <1>2, <1>3, <1>4, <1>5, StillDealt
<1>8. PICK said : said = Said(scans)'
  OBVIOUS
<1>9. CASE GivesUp(w)
  <2>1. i = OpenError(j) /\ j.dir \in denied /\ j.parent # NoContainer
    BY <1>1, <1>9 DEF Behind
  <2>2. i.type = "Error" /\ i.container = j.parent /\ i.name = j.name
    BY <2>1 DEF OpenError
  <2>3. Told(scans, i) = Report("Error", PathOf(j), {})
    BY <1>2, <2>2 DEF Told
  <2>4. Done(scans, c)'
    BY <1>2, <1>4, <1>5, <2>1, <2>2, <2>3 DEF Done, Reporting
  <2>5. pc'[w] = "release"
    BY <1>1, <1>2, <1>3, <2>2 DEF Resumed
  <2>. QED
    BY <1>1, <1>3, <2>4, <2>5 DEF Behind, Reading, Offering, GivesUp
<1>10. CASE ~GivesUp(w)
  <2>1. Reading(w) /\ (i.type = "Error" => i.container = c)
    BY <1>1, <1>3, <1>10 DEF GivesUp, Reading
  <2>2. pc'[w] = CASE i.type = "Enter" -> "opened" [] i.type = "Match" -> "descend"
                   [] OTHER -> "scan"
    BY <1>1, <1>3, <1>6, <2>1 DEF Resumed
  <2>3. pc'[w] \in {"opened", "descend", "scan"}
    BY <2>2
  <2>4. ASSUME NEW e \in Entries[j.dir], e \notin failures[w] \cup entries[w]
        PROVE  InHand(scans, w, e)' \/ Dealt(scans, c, e)'
    <3>1. InHand(scans, w, e) \/ Dealt(scans, c, e)
      BY <1>1, <2>1, <2>4 DEF Behind
    <3>2. CASE e \in unread /\ i = ReadError(j, e)
      <4>1. i.type = "Error" /\ i.container = c /\ i.name = e.name
        BY <1>1, <3>2 DEF ReadError
      <4>2. Told(scans, i) = Report("Error", Spot(j, e), {})
        BY <1>2, <4>1 DEF Told, Spot
      <4>. QED
        BY <1>2, <1>4, <1>5, <3>2, <4>1, <4>2 DEF Dealt, Reporting
    <3>3. CASE e = entry[w] /\ e \notin unread /\ i = Matched(j, e, HitsOf(j, e))
      <4>1. i.type = "Match" /\ i.container = c /\ i.name = e.name /\ i.matched = HitsOf(j, e)
        BY <1>1, <3>3 DEF Matched
      <4>2. Told(scans, i) = Hits(j, e)
        BY <1>2, <4>1 DEF Told, Spot, Hits
      <4>3. pc'[w] = "descend" /\ Hits(j, e) \in Said(scans)'
        BY <1>5, <2>2, <4>1, <4>2 DEF Reporting
      <4>4. entry'[w] = e /\ job'[w] = j
        BY <1>1, <1>3, <3>3
      <4>. QED
        BY <1>4, <3>3, <4>3, <4>4 DEF InHand, Hits
    <3>4. CASE /\ e = entry[w] /\ e \notin unread /\ i = Blocked(j, e) /\ Escapes(e)
               /\ HitsOf(j, e) # {} => Hits(j, e) \in Said(scans)
      <4>1. i.type = "Blocked" /\ i.container = c /\ i.name = e.name
        BY <1>1, <3>4 DEF Blocked
      <4>2. Told(scans, i) = Report("Blocked", Spot(j, e), {})
        BY <1>2, <4>1 DEF Told, Spot
      <4>3. Report("Blocked", Spot(j, e), {}) \in Said(scans)'
        BY <1>5, <4>1, <4>2 DEF Reporting
      <4>4. ~Wanted(j, e)
        BY <3>4 DEF Wanted
      <4>. QED
        BY <1>2, <1>4, <1>5, <3>4, <4>3, <4>4 DEF Dealt, Hits
    <3>5. CASE Dealt(scans, c, e)
      BY <1>7, <3>5
    <3>. QED
      BY <1>1, <1>3, <3>1, <3>2, <3>3, <3>4, <3>5 DEF InHand, Offering
  <2>. QED
    BY <1>1, <1>3, <2>3, <2>4 DEF Behind, Offering, GivesUp, Leaving
<1>. QED
  BY <1>9, <1>10

\* The scan takes one entry in hand; it leaves when nothing is left of the listing.
LEMMA ScanBehind ==
    ASSUME Types, Accounting, NEW tree, Planted(tree), NEW scans, Walked(scans),
           NEW w \in Workers, Behind(scans, w), Scan(w), ~cancel
    PROVE  Behind(scans, w)'
<1>1. PICK j, c : j = job[w] /\ c = j.container
  OBVIOUS
<1>2. c \in Ids /\ j = scans[c].job
  BY <1>1, KnownScan DEF Scan, ScanSteps, Walked
<1>3. /\ DOMAIN pc = Workers /\ DOMAIN item = Workers /\ DOMAIN failures = Workers
      /\ DOMAIN entries = Workers /\ DOMAIN entry = Workers
  BY DEF Types, WorkerTypes
<1>4. /\ UNCHANGED <<fsVars, visited, nextId, job, ring, got, fatalError>>
      /\ denied' = denied /\ unread' = unread /\ Ids' = Ids
  BY DEF Scan, fsVars, Ids, sharedVars, flagVars, clientVars, viewVars
<1>5. /\ j.dir \notin denied /\ failures[w] \subseteq unread
      /\ entries[w] \subseteq Entries[j.dir] \ unread
  BY <1>1 DEF Scan, Walked, Reads, Reading
<1>6. Said(scans)' = Said(scans)
  BY <1>4, SameSaid DEF Walked
<1>7. \A e : Dealt(scans, c, e) => Dealt(scans, c, e)'
  BY <1>2, <1>4, <1>6, StillDealt
<1>8. \A e \in Entries[j.dir] : e \in failures[w] \cup entries[w] \/ Dealt(scans, c, e)
  BY <1>1 DEF Scan, Behind, Reading, InHand, Offering
<1>9. CASE \E e \in failures[w] : /\ failures' = [failures EXCEPT ![w] = @ \ {e}]
                                  /\ Offer(w, ReadError(j, e))
                                  /\ UNCHANGED <<entries, entry>>
  <2>1. PICK e \in failures[w] : /\ failures' = [failures EXCEPT ![w] = @ \ {e}]
                                 /\ Offer(w, ReadError(j, e)) /\ UNCHANGED <<entries, entry>>
    BY <1>9
  <2>2. pc'[w] = "offer" /\ item'[w] = ReadError(j, e) /\ failures'[w] = failures[w] \ {e}
    BY <1>3, <2>1 DEF Offer, Goto
  <2>3. InHand(scans, w, e)'
    BY <1>1, <1>4, <1>5, <2>1, <2>2 DEF InHand, Offering
  <2>4. ~GivesUp(w)'
    BY <1>1, <1>4, <2>2 DEF GivesUp, ReadError
  <2>. QED
    BY <1>1, <1>4, <1>7, <1>8, <2>1, <2>2, <2>3, <2>4 DEF Behind, Leaving
<1>10. CASE pc'[w] = "release" /\ failures[w] = {} /\ entries[w] = {}
  <2>1. Done(scans, c)'
    BY <1>2, <1>4, <1>5, <1>7, <1>8, <1>10 DEF Done
  <2>. QED
    BY <1>1, <1>4, <1>10, <2>1 DEF Behind, Reading, GivesUp, Offering
<1>11. CASE \E e \in entries[w] : /\ UNCHANGED failures
                                  /\ entries' = [entries EXCEPT ![w] = @ \ {e}]
                                  /\ entry' = [entry EXCEPT ![w] = e]
                                  /\ \/ Offer(w, Matched(j, e, HitsOf(j, e)))
                                     \/ HitsOf(j, e) = {} /\ Goto(w, "descend")
  <2>1. PICK e \in entries[w] : /\ UNCHANGED failures
                                /\ entries' = [entries EXCEPT ![w] = @ \ {e}]
                                /\ entry' = [entry EXCEPT ![w] = e]
                                /\ \/ Offer(w, Matched(j, e, HitsOf(j, e)))
                                   \/ HitsOf(j, e) = {} /\ Goto(w, "descend")
    BY <1>11
  <2>2. entry'[w] = e /\ e \notin unread /\ entries'[w] = entries[w] \ {e} /\ job'[w] = j
    BY <1>1, <1>3, <1>4, <1>5, <2>1
  <2>3. \/ pc'[w] = "offer" /\ item'[w] = Matched(j, e, HitsOf(j, e))
        \/ pc'[w] = "descend" /\ HitsOf(j, e) = {}
    BY <1>3, <2>1 DEF Offer, Goto
  <2>4. InHand(scans, w, e)'
    BY <1>4, <2>2, <2>3 DEF InHand, Offering
  <2>5. ~GivesUp(w)' /\ pc'[w] \notin Leaving \cup {"complete"}
    BY <2>3 DEF GivesUp, Offering, Matched, Leaving
  <2>. QED
    BY <1>1, <1>4, <1>7, <1>8, <2>1, <2>2, <2>4, <2>5 DEF Behind
<1>. QED
  BY <1>1, <1>3, <1>9, <1>10, <1>11 DEF Scan, Goto

\* The descent: nothing leads on, the target escapes and is on offer as blocked, its identity is
\* spent, or it is next to be launched.
LEMMA DescendBehind ==
    ASSUME Types, Accounting, NEW tree, Planted(tree), NEW scans, Walked(scans),
           NEW w \in Workers, Behind(scans, w), Descend(w)
    PROVE  Behind(scans, w)'
<1>1. PICK j, c, e : j = job[w] /\ c = j.container /\ e = entry[w]
  OBVIOUS
<1>2. c \in Ids /\ j = scans[c].job
  BY <1>1, KnownScan DEF Descend, ScanSteps, Walked
<1>3. DOMAIN pc = Workers /\ DOMAIN item = Workers
  BY DEF Types, WorkerTypes
<1>4. /\ UNCHANGED <<fsVars, nextId, job, failures, entries, entry, ring, got, fatalError>>
      /\ denied' = denied /\ unread' = unread /\ Ids' = Ids
  BY DEF Descend, fsVars, Ids, flagVars, clientVars, viewVars
<1>5. visited \subseteq visited' /\ pc[w] = "descend"
  BY DEF Descend
<1>6. e \in Entries[j.dir] \ unread
  BY <1>1, <1>5 DEF Walked, Reads, Holding
<1>7. Said(scans)' = Said(scans)
  BY <1>4, SameSaid DEF Walked
<1>8. \A f : Dealt(scans, c, f) => Dealt(scans, c, f)'
  BY <1>2, <1>4, <1>5, <1>7, StillDealt
<1>9. /\ \A f \in Entries[j.dir] : f \in failures[w] \cup entries[w] \/ f = e \/ Dealt(scans, c, f)
      /\ e \in failures[w] \cup entries[w] \/ Dealt(scans, c, e)
           \/ (HitsOf(j, e) # {} => Hits(j, e) \in Said(scans))
  BY <1>1, <1>5, <1>6 DEF Behind, Reading, InHand, Offering
<1>10. CASE pc'[w] = "scan" /\ (~Descends(j, e) \/ (Wanted(j, e) /\ HasIdentity(e) /\ e.id \in visited))
  <2>1. (HitsOf(j, e) # {} => Hits(j, e) \in Said(scans)) => Dealt(scans, c, e)
    BY <1>2, <1>6, <1>10 DEF Dealt, Wanted
  <2>. QED
    BY <1>1, <1>4, <1>8, <1>9, <1>10, <2>1 DEF Behind, Offering, GivesUp, Leaving
<1>11. CASE Descends(j, e) /\ Escapes(e) /\ Offer(w, Blocked(j, e))
  <2>1. pc'[w] = "offer" /\ item'[w] = Blocked(j, e)
    BY <1>3, <1>11 DEF Offer, Goto
  <2>2. (HitsOf(j, e) # {} => Hits(j, e) \in Said(scans)) => InHand(scans, w, e)'
    BY <1>1, <1>4, <1>6, <1>7, <1>11, <2>1 DEF InHand, Offering
  <2>3. ~GivesUp(w)' /\ pc'[w] \notin Leaving \cup {"complete"}
    BY <2>1 DEF GivesUp, Blocked, Leaving
  <2>. QED
    BY <1>1, <1>4, <1>8, <1>9, <2>2, <2>3 DEF Behind
<1>12. CASE pc'[w] = "launch"
  <2>1. (HitsOf(j, e) # {} => Hits(j, e) \in Said(scans)) => InHand(scans, w, e)'
    BY <1>1, <1>4, <1>6, <1>7, <1>12 DEF InHand, Offering
  <2>. QED
    BY <1>1, <1>4, <1>8, <1>9, <1>12, <2>1 DEF Behind, GivesUp, Offering, Leaving
<1>. QED
  BY <1>1, <1>3, <1>10, <1>11, <1>12 DEF Descend, Goto, Wanted

\* The launch deals with the entry in hand.
LEMMA LaunchBehind ==
    ASSUME Types, Accounting, NEW tree, Planted(tree), NEW scans, Walked(scans),
           NEW w \in Workers, Behind(scans, w), Launch(w), NEW more,
           \A c \in Ids : more[c] = scans[c], LaunchedBy(scans, w, more[nextId]),
           Said(scans) \subseteq Said(more)'
    PROVE  Behind(more, w)'
<1>1. PICK j, c, e : j = job[w] /\ c = j.container /\ e = entry[w]
  OBVIOUS
<1>2. c \in Ids /\ j = scans[c].job
  BY <1>1, KnownScan DEF Launch, ScanSteps, Walked
<1>3. /\ UNCHANGED <<fsVars, visited, job, failures, entries>> /\ pc'[w] = "notify"
      /\ denied' = denied /\ unread' = unread /\ pc[w] = "launch"
  BY DEF Types, WorkerTypes, Launch, fsVars, Goto
<1>4. Ids' = Ids \cup {nextId}
  BY DEF Types, SharedTypes, Launch, Ids
<1>5. \A f : Dealt(scans, c, f) => Dealt(more, c, f)'
  BY <1>2, <1>3, <1>4, StillDealt
<1>6. Launched(more, c, e)'
  <2>1. PICK n, trail : n = nextId /\ trail = scans[c].trail
    OBVIOUS
  <2>2. more[n].job = ChildJob(j, e, n) /\ more[n].trail = Append(trail, e)
    BY <1>1, <2>1 DEF LaunchedBy
  <2>3. more[n].job.root = j.root
    BY <2>2 DEF ChildJob
  <2>4. n \in Ids' /\ more[c] = scans[c]
    BY <1>2, <1>4, <2>1
  <2>. QED
    BY <1>2, <2>1, <2>2, <2>3, <2>4 DEF Launched
<1>7. ~Escapes(e) /\ e \notin unread
  BY <1>1, <1>3 DEF Walked, Reads, Holding, Wanted
<1>8. InHand(scans, w, e) => Dealt(more, c, e)'
  <2>1. PICK old, new : old = Said(scans) /\ new = Said(more)'
    OBVIOUS
  <2>2. InHand(scans, w, e) => (HitsOf(j, e) # {} => Hits(j, e) \in old)
    BY <1>1, <1>3, <1>7, <2>1 DEF InHand, Offering
  <2>3. old \subseteq new /\ more[c].job = j
    BY <1>2, <2>1
  <2>. QED
    BY <1>3, <1>6, <1>7, <2>1, <2>2, <2>3 DEF Dealt, Hits
<1>9. \A f \in Entries[j.dir] : f \in failures[w] \cup entries[w] \/ Dealt(more, c, f)'
  <2>1. \A f \in Entries[j.dir] : InHand(scans, w, f) => f = e
    BY <1>1, <1>3 DEF InHand, Offering
  <2>. QED
    BY <1>1, <1>3, <1>5, <1>8, <2>1 DEF Behind, Reading
<1>. QED
  BY <1>1, <1>3, <1>9 DEF Behind, GivesUp, Offering, Leaving

\* The other steps: the container is open, the wake is out, or the scan is being released.
LEMMA OtherBehind ==
    ASSUME Types, Accounting, NEW tree, Planted(tree), NEW scans, Walked(scans),
           NEW w \in Workers, Stage(w), Behind(scans, w), cancelled => cancel, ~cancel, ~cancel',
           \/ NextJob(w) \/ MarkOpen(w) \/ NotifyOne(w) \/ Release(w) \/ Cascade(w) \/ EmitEnds(w)
           \/ PushEnd(w) \/ StashError(w) \/ RaiseFatal(w) \/ CompleteJob(w),
           Said(scans) \subseteq Said(scans)'
    PROVE  Behind(scans, w)'
<1>1. DOMAIN pc = Workers /\ DOMAIN job = Workers
  BY DEF Types, WorkerTypes
<1>2. CASE NextJob(w) \/ CompleteJob(w)
  <2>1. pc'[w] \in Idle \cup {"enumerate"}
    BY <1>1, <1>2 DEF NextJob, CompleteJob, Goto, AllWoken, Idle
  <2>. QED
    BY <2>1 DEF Behind, Reading, Offering, GivesUp, Idle, Leaving
<1>3. PICK j, c : j = job[w] /\ c = j.container
  OBVIOUS
<1>4. CASE \/ MarkOpen(w) \/ NotifyOne(w) \/ Release(w) \/ Cascade(w) \/ EmitEnds(w)
           \/ PushEnd(w) \/ StashError(w) \/ RaiseFatal(w)
  <2>1. /\ UNCHANGED <<fsVars, visited, nextId, job, failures, entries>>
        /\ denied' = denied /\ unread' = unread /\ Ids' = Ids
    BY <1>4 DEF MarkOpen, NotifyOne, Release, Cascade, EmitEnds, PushEnd, StashError, RaiseFatal,
       fsVars, sharedVars, Ids
  <2>2. c \in Ids
    <3>1. pc[w] \notin Idle
      BY <1>4 DEF MarkOpen, NotifyOne, Release, Cascade, EmitEnds, PushEnd, StashError, RaiseFatal,
         Idle
    <3>. QED
      BY <1>3, <3>1 DEF Walked, Remembered
  <2>3. \A e : Dealt(scans, c, e) => Dealt(scans, c, e)'
    BY <2>1, <2>2, StillDealt
  <2>4. Done(scans, c) => Done(scans, c)'
    BY <2>1, <2>2, StillDone
  <2>5. CASE MarkOpen(w) \/ NotifyOne(w)
    <3>1. pc[w] \in {"opened", "notify"} /\ pc'[w] = "scan"
      BY <1>1, <2>5 DEF MarkOpen, NotifyOne, Goto
    <3>. QED
      BY <1>3, <2>1, <2>3, <3>1 DEF Behind, Reading, InHand, Offering, GivesUp, Leaving
  <2>6. CASE \/ Release(w) \/ Cascade(w) \/ EmitEnds(w) \/ PushEnd(w) \/ StashError(w)
             \/ RaiseFatal(w)
    <3>1. /\ pc[w] \in Leaving
          /\ \/ pc'[w] \in Leaving
             \/ pc'[w] = "complete" /\ ~(j.dir \in denied /\ j.parent = NoContainer)
      BY <1>1, <1>3, <2>6 DEF Release, Cascade, EmitEnds, PushEnd, StashError, RaiseFatal, Goto,
         Leaving
    <3>2. Done(scans, c) \/ (j.dir \in denied /\ j.parent = NoContainer)
      BY <1>3, <3>1 DEF Behind
    <3>. QED
      BY <1>3, <2>1, <2>4, <3>1, <3>2 DEF Behind, Reading, Offering, GivesUp, Leaving
  <2>. QED
    BY <1>4, <2>5, <2>6
<1>. QED
  BY <1>2, <1>4

-----------------------------------------------------------------------------
(* The invariant, step by step *)

\* While a worker has a step to take the coordinator waits, so nothing kept means no cancel.
LEMMA KeptIsUncancelled ==
    ASSUME Closing, NEW w \in Workers, Worker(w), Kept'
    PROVE  ~cancel' /\ ~cancel /\ cpc = "join"
<1>1. pc[w] # "exit"
  BY DEF Worker, NextJob, Enumerate, LoadCancel, TryPush, MarkOpen, Scan, Descend, Launch,
     NotifyOne, Release, Cascade, EmitEnds, PushEnd, StashError, RaiseFatal, WorkerCancel,
     WorkerHalt, WorkerWake, CompleteJob
<1>2. cpc = "join"
  BY <1>1, CoordinatorWaits
<1>3. cpc' = cpc /\ (cancel' = cancel \/ cancel' = TRUE)
  <2>1. CASE \/ NextJob(w) \/ Enumerate(w) \/ LoadCancel(w) \/ TryPush(w) \/ MarkOpen(w)
             \/ Scan(w) \/ Descend(w) \/ Launch(w) \/ NotifyOne(w)
    BY <2>1 DEF NextJob, Enumerate, LoadCancel, TryPush, MarkOpen, Scan, Descend, Launch,
       NotifyOne, coordVars, flagVars
  <2>2. CASE \/ Release(w) \/ Cascade(w) \/ EmitEnds(w) \/ PushEnd(w) \/ StashError(w)
             \/ RaiseFatal(w) \/ WorkerCancel(w) \/ WorkerHalt(w) \/ WorkerWake(w) \/ CompleteJob(w)
    BY <2>2 DEF Release, Cascade, EmitEnds, PushEnd, StashError, RaiseFatal, WorkerCancel,
       WorkerHalt, WorkerWake, CompleteJob, coordVars, flagVars
  <2>. QED
    BY <2>1, <2>2 DEF Worker
<1>. QED
  BY <1>2, <1>3 DEF Kept

\* What the worker that takes a step has behind it.
LEMMA ActingBehind ==
    ASSUME Types, Accounting, NEW tree, Planted(tree), NEW scans, Walked(scans), Concluded,
           NEW w \in Workers, Stage(w), Behind(scans, w), Worker(w), ~Launch(w), ~cancel, ~cancel',
           Said(scans) \subseteq Said(scans)'
    PROVE  Behind(scans, w)'
<1>1. CASE Enumerate(w)
  BY <1>1, EnumerateBehind DEF Walked
<1>2. CASE LoadCancel(w) \/ TryPush(w)
  <2>1. pc[w] \notin Idle
    BY <1>2 DEF LoadCancel, TryPush, Idle
  <2>2. ASSUME LoadCancel(w) \/ ~Room PROVE Behind(scans, w)'
    <3>1. (LoadCancel(w) /\ ~cancel) \/ (TryPush(w) /\ ~Room)
      BY <1>2, <2>2
    <3>. QED
      BY <2>1, <3>1, RefusedBehind
  <2>3. ASSUME TryPush(w), Room PROVE Behind(scans, w)'
    BY <2>3, PushedBehind
  <2>. QED
    BY <1>2, <2>2, <2>3
<1>3. CASE Scan(w)
  BY <1>3, ScanBehind
<1>4. CASE Descend(w)
  BY <1>4, DescendBehind
<1>5. CASE \/ NextJob(w) \/ MarkOpen(w) \/ NotifyOne(w) \/ Release(w) \/ Cascade(w) \/ EmitEnds(w)
           \/ PushEnd(w) \/ StashError(w) \/ RaiseFatal(w) \/ CompleteJob(w)
  BY <1>5, OtherBehind DEF Concluded
<1>6. ~WorkerCancel(w) /\ ~WorkerHalt(w) /\ ~WorkerWake(w)
  BY DEF WorkerCancel, WorkerHalt, WorkerWake, Concluded
<1>. QED
  BY <1>1, <1>2, <1>3, <1>4, <1>5, <1>6 DEF Worker

\* A scan that was unfinished is so still, or its worker has completed it.
LEMMA LeftUnfinished ==
    ASSUME Types, NEW w \in Workers, Worker(w), NEW c, Unfinished(c)
    PROVE  Unfinished(c)' \/ (CompleteJob(w) /\ job[w].container = c)
<1>1. DOMAIN pc = Workers /\ DOMAIN job = Workers /\ stack \in Seq(Job)
  BY DEF Types, WorkerTypes, SharedTypes
<1>2. ASSUME \A i \in DOMAIN stack : i \in DOMAIN stack' /\ stack'[i] = stack[i],
             \A v \in Workers : pc[v] \notin Idle => pc'[v] \notin Idle /\ job'[v] = job[v]
      PROVE  Unfinished(c)'
  BY <1>2 DEF Unfinished
<1>3. CASE NextJob(w)
  <2>1. pc[w] = "next" /\ pc[w] \in Idle
    BY <1>3 DEF NextJob, Idle
  <2>2. CASE /\ stack # <<>>
             /\ job' = [job EXCEPT ![w] = stack[Len(stack)]]
             /\ stack' = SubSeq(stack, 1, Len(stack) - 1)
             /\ Goto(w, "enumerate")
    <3>1. /\ DOMAIN stack = DOMAIN stack' \cup {Len(stack)}
          /\ \A i \in DOMAIN stack' : stack'[i] = stack[i]
      BY <2>2, PoppedStack
    <3>2. /\ pc'[w] \notin Idle /\ job'[w] = stack[Len(stack)]
          /\ \A v \in Workers : v # w => pc'[v] = pc[v] /\ job'[v] = job[v]
      BY <1>1, <2>2 DEF Goto, Idle
    <3>. QED
      BY <2>1, <3>1, <3>2 DEF Unfinished
  <2>3. CASE /\ UNCHANGED <<stack, job>>
             /\ \A v \in Workers : pc[v] \notin Idle => pc'[v] \notin Idle
    BY <1>2, <2>3
  <2>. QED
    BY <1>1, <1>3, <2>1, <2>2, <2>3 DEF NextJob, Goto, AllWoken, Idle
<1>4. CASE Launch(w)
  <2>1. /\ stack' = Append(stack, ChildJob(job[w], entry[w], nextId)) /\ job' = job
        /\ \A v \in Workers : pc[v] \notin Idle => pc'[v] \notin Idle
    BY <1>1, <1>4 DEF Launch, Goto, Idle
  <2>. QED
    BY <1>1, <1>2, <2>1
<1>5. CASE CompleteJob(w)
  <2>1. /\ UNCHANGED stack
        /\ \A v \in Workers : v # w /\ pc[v] \notin Idle => pc'[v] \notin Idle /\ job'[v] = job[v]
    BY <1>1, <1>5 DEF CompleteJob, AllWoken, Idle
  <2>. QED
    BY <1>5, <2>1 DEF Unfinished
<1>6. CASE \/ Enumerate(w) \/ LoadCancel(w) \/ TryPush(w) \/ MarkOpen(w) \/ Scan(w) \/ Descend(w)
           \/ NotifyOne(w)
  <2>1. UNCHANGED <<stack, job>>
    BY <1>6 DEF Enumerate, LoadCancel, TryPush, MarkOpen, Scan, Descend, NotifyOne, sharedVars
  <2>2. CASE \/ Enumerate(w) \/ MarkOpen(w) \/ Scan(w) \/ Descend(w) \/ NotifyOne(w)
    <3>1. \A v \in Workers : pc[v] \notin Idle => pc'[v] \notin Idle
      BY <1>1, <2>2 DEF Enumerate, MarkOpen, Scan, Descend, NotifyOne, Offer, Goto, Idle
    <3>. QED
      BY <1>2, <2>1, <3>1
  <2>3. CASE LoadCancel(w) \/ TryPush(w)
    <3>1. \A pushed \in BOOLEAN : Resumed(w, pushed) \notin Idle
      <4>1. Offering(w)
        BY <2>3 DEF LoadCancel, TryPush, Offering
      <4>. QED
        BY <4>1, ResumedStep DEF Offering, Idle
    <3>2. \A v \in Workers : pc[v] \notin Idle => pc'[v] \notin Idle
      BY <1>1, <2>3, <3>1 DEF LoadCancel, TryPush, Goto, Idle
    <3>. QED
      BY <1>2, <2>1, <3>2
  <2>. QED
    BY <1>6, <2>2, <2>3
<1>7. CASE \/ Release(w) \/ Cascade(w) \/ EmitEnds(w) \/ PushEnd(w) \/ StashError(w)
           \/ RaiseFatal(w) \/ WorkerCancel(w) \/ WorkerHalt(w) \/ WorkerWake(w)
  <2>1. UNCHANGED <<stack, job>>
    BY <1>7 DEF Release, Cascade, EmitEnds, PushEnd, StashError, RaiseFatal, WorkerCancel,
       WorkerHalt, WorkerWake, sharedVars
  <2>2. \A v \in Workers : pc[v] \notin Idle => pc'[v] \notin Idle
    BY <1>1, <1>7 DEF Release, Cascade, EmitEnds, PushEnd, StashError, RaiseFatal, WorkerCancel,
       WorkerHalt, WorkerWake, AllWoken, Goto, Idle
  <2>. QED
    BY <1>2, <2>1, <2>2
<1>. QED
  BY <1>3, <1>4, <1>5, <1>6, <1>7 DEF Worker

\* An exit means that no job is left: the last one was completed before anybody left.
LEMMA ExitMeansDone ==
    ASSUME IInv, NEW w \in Workers, Worker(w), ~cancelled,
           (\E v \in Workers : pc[v] = "exit") => outstanding = 0,
           \E v \in Workers : pc'[v] = "exit"
    PROVE  outstanding' = 0
<1>1. DOMAIN pc = Workers /\ stack \in Seq(Job) /\ outstanding = Len(stack) + Cardinality(Busy)
  BY DEF IInv, Types, WorkerTypes, SharedTypes, OutstandingIsExact
<1>2. outstanding = 0 => w \notin Busy /\ stack = <<>>
  <2>1. Len(stack) \in Nat /\ Cardinality(Busy) \in Nat /\ IsFiniteSet(Busy)
    BY <1>1, BusyIsFinite DEF IInv
  <2>2. w \in Busy => Cardinality(Busy) # 0
    BY <2>1, FS_EmptySet
  <2>. QED
    BY <1>1, <2>1, <2>2
<1>3. CASE NextJob(w)
  <2>1. outstanding' = outstanding
    BY <1>3 DEF NextJob
  <2>2. (\E v \in Workers : pc[v] = "exit") \/ outstanding = 0
    BY <1>1, <1>3 DEF NextJob, Goto, AllWoken
  <2>. QED
    BY <2>1, <2>2
<1>4. CASE ~NextJob(w)
  <2>1. w \in Busy
    BY <1>4 DEF Worker, Enumerate, LoadCancel, TryPush, MarkOpen, Scan, Descend, Launch,
       NotifyOne, Release, Cascade, EmitEnds, PushEnd, StashError, RaiseFatal, WorkerCancel,
       WorkerHalt, WorkerWake, CompleteJob, Busy
  <2>2. ~\E v \in Workers : pc[v] = "exit"
    BY <1>2, <2>1
  <2>3. \A v \in Workers : v # w => pc'[v] # "exit"
    <3>1. \A v \in Workers : v # w => pc'[v] = pc[v] \/ pc'[v] = "next"
      BY OthersUntouched DEF IInv
    <3>. QED
      BY <2>2, <3>1
  <2>4. pc'[w] # "exit"
    <3>1. CASE \/ Enumerate(w) \/ MarkOpen(w) \/ Scan(w) \/ Descend(w) \/ Launch(w) \/ NotifyOne(w)
      BY <1>1, <3>1 DEF Enumerate, MarkOpen, Scan, Descend, Launch, NotifyOne, Offer, Goto
    <3>2. CASE LoadCancel(w) \/ TryPush(w)
      <4>1. \A pushed \in BOOLEAN : Resumed(w, pushed) # "exit"
        <5>1. pc[w] \in {"offer", "push"}
          BY <3>2 DEF LoadCancel, TryPush
        <5>. QED
          BY <5>1, ResumedStep DEF IInv
      <4>. QED
        BY <1>1, <3>2, <4>1 DEF LoadCancel, TryPush, Goto
    <3>3. CASE \/ Release(w) \/ Cascade(w) \/ EmitEnds(w) \/ PushEnd(w) \/ StashError(w)
               \/ RaiseFatal(w) \/ WorkerCancel(w) \/ WorkerHalt(w) \/ WorkerWake(w)
               \/ CompleteJob(w)
      <4>1. pc[w] # "exit"
        BY <2>2
      <4>. QED
        BY <1>1, <3>3, <4>1 DEF Release, Cascade, EmitEnds, PushEnd, StashError, RaiseFatal,
           WorkerCancel, WorkerHalt, WorkerWake, CompleteJob, AllWoken, Goto
    <3>. QED
      BY <1>4, <3>1, <3>2, <3>3 DEF Worker
  <2>. QED
    BY <2>3, <2>4
<1>. QED
  BY <1>3, <1>4

\* Each step of a worker loses nothing that is kept.
LEMMA WorkerKeepsLossless ==
    ASSUME IInv, Accounting, NEW tree, Planted(tree), Stages, Closing, NEW scans, Walked(scans),
           Concluded, Kept => Lossless(scans), NEW w \in Workers, Worker(w), NEW more,
           Remembered(more)', \A c \in Ids : more[c] = scans[c],
           IF Launch(w) THEN LaunchedBy(scans, w, more[nextId]) ELSE more = scans, Kept'
    PROVE  Lossless(more)'
<1>1. ~cancel' /\ ~cancel /\ ~cancelled /\ Types /\ Stage(w) /\ Lossless(scans)
  BY KeptIsUncancelled DEF Concluded, IInv, Stages, Kept
<1>2. Says(scans) /\ Remembered(scans) /\ Behind(scans, w)
  BY <1>1 DEF Walked, Lossless
<1>3. Said(scans) \subseteq Said(more)'
  BY <1>1, <1>2, WorkerTakesNothingBack
<1>4. UNCHANGED fsVars /\ visited \subseteq visited' /\ Ids \subseteq Ids'
  <2>1. CASE Launch(w)
    BY <1>1, <2>1 DEF Launch, Types, SharedTypes, Ids
  <2>2. CASE ~Launch(w)
    BY <1>1, <1>2, <2>2, WorkerKeepsMemory DEF Ids
  <2>. QED
    BY <2>1, <2>2
<1>5. Behind(more, w)'
  <2>1. CASE Launch(w)
    BY <1>1, <1>2, <1>3, <2>1, LaunchBehind
  <2>2. CASE ~Launch(w)
    <3>1. Behind(scans, w)'
      BY <1>1, <1>2, <1>3, <2>2, ActingBehind
    <3>. QED
      BY <2>2, <3>1
  <2>. QED
    BY <2>1, <2>2
<1>6. ASSUME NEW v \in Workers, v # w PROVE Behind(more, v)'
  <2>1. /\ job'[v] = job[v] /\ item'[v] = item[v] /\ entry'[v] = entry[v]
        /\ failures'[v] = failures[v] /\ entries'[v] = entries[v]
        /\ pc'[v] = pc[v] \/ pc'[v] = "next"
    BY <1>1, <1>6, OthersUntouched
  <2>2. CASE pc'[v] = pc[v] /\ pc[v] \notin Idle
    <3>1. job[v].container \in Ids /\ Behind(scans, v)
      BY <1>1, <1>2, <2>2 DEF Remembered, Lossless
    <3>. QED
      BY <1>3, <1>4, <2>1, <2>2, <3>1, StillBehind
  <2>3. CASE pc'[v] \in Idle
    BY <2>3 DEF Behind, Reading, Offering, GivesUp, Idle, Leaving
  <2>. QED
    BY <2>1, <2>2, <2>3 DEF Idle
<1>7. ASSUME NEW c \in Ids PROVE Unfinished(c)' \/ Done(more, c)'
  <2>1. CASE Done(scans, c)
    BY <1>3, <1>4, <2>1, StillDone
  <2>2. CASE Unfinished(c)
    <3>1. Unfinished(c)' \/ (CompleteJob(w) /\ job[w].container = c)
      BY <1>1, <2>2, LeftUnfinished
    <3>2. CompleteJob(w) /\ job[w].container = c => Done(scans, c)
      BY <1>2 DEF CompleteJob, Behind
    <3>. QED
      BY <2>1, <3>1, <3>2
  <2>. QED
    BY <1>1, <2>1, <2>2 DEF Lossless
<1>8. \A c \in Ids' : c \in Ids \/ Unfinished(c)'
  <2>1. CASE Launch(w)
    <3>1. Ids' = Ids \cup {nextId}
      BY <1>1, <2>1 DEF Launch, Types, SharedTypes, Ids
    <3>2. PICK child : child = ChildJob(job[w], entry[w], nextId)
      OBVIOUS
    <3>3. stack' = Append(stack, child) /\ child.container = nextId /\ stack \in Seq(Job)
      BY <1>1, <2>1, <3>2 DEF Launch, ChildJob, Types, SharedTypes
    <3>4. Len(stack) + 1 \in DOMAIN stack' /\ stack'[Len(stack) + 1] = child
      BY <3>3
    <3>. QED
      BY <3>1, <3>3, <3>4 DEF Unfinished
  <2>2. CASE ~Launch(w)
    BY <1>1, <1>2, <2>2, WorkerKeepsMemory DEF Ids
  <2>. QED
    BY <2>1, <2>2
<1>9. (\E v \in Workers : pc'[v] = "exit") => outstanding' = 0
  BY <1>1, ExitMeansDone DEF Lossless
<1>. QED
  BY <1>5, <1>6, <1>7, <1>8, <1>9 DEF Lossless

\* Another thread wakes workers at most, and says nothing new.
LEMMA OthersKeepLossless ==
    ASSUME IInv, NEW tree, StreamInv(tree), NEW scans, Walked(scans), Concluded, Lossless(scans),
           Coordinator \/ SqThread \/ Client \/ UNCHANGED vars
    PROVE  Lossless(scans)'
<1>1. /\ UNCHANGED <<fsVars, nextId, stack, outstanding, visited, job, item, failures, entries, entry>>
      /\ UNCHANGED pc \/ pc' = AllWoken
  <2>1. CASE Coordinator
    BY <2>1 DEF Coordinator, Join, Close, PushLeftover, Conclude, PushCause, PushTerminal, Finish,
       sharedVars, workVars
  <2>2. CASE SqThread
    BY <2>2 DEF SqThread, SqCheck, SqDrain, SqServe, SqHalt, SqWake, sharedVars, workVars
  <2>3. CASE Client
    BY <2>3 DEF Client, ClientPop, ClientSubmit, DropHandle, Dropping, DropHalt, DropWake,
       DropDrain, DropJoin, Gone, vars, sharedVars, workVars
  <2>4. CASE UNCHANGED vars
    BY <2>4 DEF vars, sharedVars, workVars
  <2>. QED
    BY <2>1, <2>2, <2>3, <2>4
<1>2. DOMAIN pc = Workers /\ Types
  BY DEF IInv, Types, WorkerTypes
<1>3. \A v \in Workers : pc'[v] = pc[v] \/ (pc[v] = "waiting" /\ pc'[v] = "next")
  BY <1>1, <1>2 DEF AllWoken
<1>4. Ids' = Ids
  BY <1>1 DEF Ids
<1>5. Said(scans) \subseteq Said(scans)'
  BY <1>2, OthersTakeNothingBack
<1>6. ASSUME NEW v \in Workers PROVE Behind(scans, v)'
  <2>1. CASE pc'[v] = pc[v] /\ pc[v] \notin Idle
    <3>1. job[v].container \in Ids /\ Behind(scans, v)
      BY <2>1 DEF Walked, Remembered, Lossless
    <3>. QED
      BY <1>1, <1>4, <1>5, <2>1, <3>1, StillBehind
  <2>2. CASE pc'[v] \in Idle
    BY <2>2 DEF Behind, Reading, Offering, GivesUp, Idle, Leaving
  <2>. QED
    BY <1>3, <2>1, <2>2 DEF Idle
<1>7. \A c \in Ids : Done(scans, c) => Done(scans, c)'
  BY <1>1, <1>4, <1>5, StillDone
<1>8. \A c : Unfinished(c) => Unfinished(c)'
  BY <1>1, <1>3 DEF Unfinished, Idle
<1>9. (\E v \in Workers : pc'[v] = "exit") => outstanding' = 0
  BY <1>1, <1>3 DEF Lossless
<1>. QED
  BY <1>4, <1>6, <1>7, <1>8, <1>9 DEF Lossless

\* An identity stays spent: the link in hand becomes the last of the trail that is launched.
LEMMA WorkerKeepsSpent ==
    ASSUME Types, NEW scans, Remembered(scans), Spent(scans), NEW w \in Workers, Worker(w),
           NEW more, \A c \in Ids : more[c] = scans[c],
           IF Launch(w) THEN LaunchedBy(scans, w, more[nextId]) ELSE more = scans
    PROVE  Spent(more)'
<1>1. \A v \in Workers : v # w =>
        /\ entry'[v] = entry[v] /\ (pc[v] = "launch" => pc'[v] = "launch" \/ pc'[v] = "next")
  BY OthersUntouched
<1>2. DOMAIN pc = Workers /\ DOMAIN entry = Workers /\ \A v \in Workers : pc[v] \in Steps
  BY DEF Types, WorkerTypes
<1>3. \A v \in Workers : v # w /\ pc[v] = "launch" => pc'[v] = "launch"
  BY <1>2 DEF Worker, NextJob, Enumerate, LoadCancel, TryPush, MarkOpen, Scan, Descend, Launch,
     NotifyOne, Release, Cascade, EmitEnds, PushEnd, StashError, RaiseFatal, WorkerCancel,
     WorkerHalt, WorkerWake, CompleteJob, AllWoken, Goto, Offer
<1>4. CASE Launch(w)
  <2>1. PICK j, e, n : j = job[w] /\ e = entry[w] /\ n = nextId
    OBVIOUS
  <2>2. PICK trail : trail = scans[j.container].trail
    OBVIOUS
  <2>3. more[n].trail = Append(trail, e)
    BY <1>4, <2>1, <2>2 DEF LaunchedBy
  <2>4. visited' = visited /\ entry' = entry /\ pc[w] = "launch" /\ Ids' = Ids \cup {n}
    BY <1>4, <2>1 DEF Launch, Types, SharedTypes, Ids
  <2>5. trail \in Seq(Listed)
    <3>1. j.container \in Ids
      BY <2>1, <2>4 DEF Remembered, Idle
    <3>. QED
      BY <2>2, <3>1 DEF Remembered, IsMemory
  <2>6. PICK long : long = more[n].trail
    OBVIOUS
  <2>7. long # <<>> /\ long[Len(long)] = e
    <3>1. PICK S : S = Listed \cup {e}
      OBVIOUS
    <3>2. trail \in Seq(S) /\ e \in S
      BY <2>5, <3>1
    <3>3. long = Append(trail, e)
      BY <2>3, <2>6
    <3>. QED
      BY <3>2, <3>3
  <2>8. HasIdentity(e) => Follows(more[n].trail, e.id)
    BY <2>6, <2>7 DEF Follows
  <2>. QED
    BY <1>3, <2>1, <2>4, <2>8 DEF Spent
<1>5. CASE Descend(w)
  <2>1. entry' = entry /\ Ids' = Ids /\ pc[w] = "descend"
    BY <1>5 DEF Descend, Ids
  <2>2. more = scans
    BY <1>5 DEF Descend, Launch
  <2>3. ASSUME NEW id \in visited', id \notin visited
        PROVE  pc'[w] = "launch" /\ HasIdentity(entry[w]) /\ entry[w].id = id
    BY <1>2, <1>5, <2>3 DEF Descend, Goto
  <2>. QED
    BY <1>3, <2>1, <2>2, <2>3 DEF Spent
<1>6. CASE ~Launch(w) /\ ~Descend(w)
  <2>1. pc[w] # "launch" /\ visited' = visited /\ Ids' = Ids /\ more = scans
    <3>1. CASE \/ NextJob(w) \/ Enumerate(w) \/ LoadCancel(w) \/ TryPush(w) \/ MarkOpen(w)
               \/ Scan(w) \/ NotifyOne(w)
      BY <1>6, <3>1 DEF NextJob, Enumerate, LoadCancel, TryPush, MarkOpen, Scan, NotifyOne,
         sharedVars, Ids
    <3>2. CASE \/ Release(w) \/ Cascade(w) \/ EmitEnds(w) \/ PushEnd(w) \/ StashError(w)
               \/ RaiseFatal(w) \/ WorkerCancel(w) \/ WorkerHalt(w) \/ WorkerWake(w)
               \/ CompleteJob(w)
      BY <1>6, <3>2 DEF Release, Cascade, EmitEnds, PushEnd, StashError, RaiseFatal, WorkerCancel,
         WorkerHalt, WorkerWake, CompleteJob, sharedVars, Ids
    <3>. QED
      BY <1>6, <3>1, <3>2 DEF Worker
  <2>. QED
    BY <1>1, <1>3, <2>1 DEF Spent
<1>. QED
  BY <1>4, <1>5, <1>6

\* Another thread launches no scan and takes no link in hand.
LEMMA OthersKeepSpent ==
    ASSUME Types, NEW scans, Spent(scans), Coordinator \/ SqThread \/ Client \/ UNCHANGED vars
    PROVE  Spent(scans)'
<1>1. UNCHANGED <<nextId, visited, entry>> /\ (UNCHANGED pc \/ pc' = AllWoken)
  <2>1. CASE Coordinator
    BY <2>1 DEF Coordinator, Join, Close, PushLeftover, Conclude, PushCause, PushTerminal, Finish,
       sharedVars, workVars
  <2>2. CASE SqThread
    BY <2>2 DEF SqThread, SqCheck, SqDrain, SqServe, SqHalt, SqWake, sharedVars, workVars
  <2>3. CASE Client
    BY <2>3 DEF Client, ClientPop, ClientSubmit, DropHandle, Dropping, DropHalt, DropWake,
       DropDrain, DropJoin, Gone, vars, sharedVars, workVars
  <2>4. CASE UNCHANGED vars
    BY <2>4 DEF vars, sharedVars, workVars
  <2>. QED
    BY <2>1, <2>2, <2>3, <2>4
<1>2. \A v \in Workers : pc[v] = "launch" => pc'[v] = "launch"
  BY <1>1 DEF Types, WorkerTypes, AllWoken
<1>. QED
  BY <1>1, <1>2 DEF Spent, Ids

\* What another thread keeps is kept already: the coordinator reads the outcome from the flags.
LEMMA KeptBefore ==
    ASSUME Types, Coordinator \/ SqThread \/ Client \/ UNCHANGED vars, Kept'
    PROVE  Kept
<1>1. cancel \in BOOLEAN /\ cancel' \in BOOLEAN /\ (cancel' = cancel \/ cancel' = TRUE)
  <2>1. CASE Coordinator
    BY <2>1 DEF Coordinator, Join, Close, PushLeftover, Conclude, PushCause, PushTerminal, Finish,
       flagVars, Types, FlagTypes
  <2>2. CASE SqThread
    BY <2>2 DEF SqThread, SqCheck, SqDrain, SqServe, SqHalt, SqWake, flagVars, Types, FlagTypes
  <2>3. CASE Client \/ UNCHANGED vars
    BY <2>3 DEF Client, ClientPop, ClientSubmit, DropHandle, Dropping, DropHalt, DropWake,
       DropDrain, DropJoin, Gone, vars, flagVars, Types, FlagTypes
  <2>. QED
    BY <2>1, <2>2, <2>3
<1>2. CASE Conclude
  BY <1>1, <1>2 DEF Conclude, Outcome, Kept, flagVars
<1>3. CASE \/ Join \/ Close \/ PushLeftover \/ PushCause \/ PushTerminal \/ Finish
  BY <1>1, <1>3 DEF Join, Close, PushLeftover, PushCause, PushTerminal, Finish, Kept
<1>4. CASE SqThread \/ Client \/ UNCHANGED vars
  <2>1. UNCHANGED <<cpc, reason>>
    BY <1>4 DEF SqThread, SqCheck, SqDrain, SqServe, SqHalt, SqWake, Client, ClientPop,
       ClientSubmit, DropHandle, Dropping, DropHalt, DropWake, DropDrain, DropJoin, Gone, vars,
       coordVars
  <2>. QED
    BY <1>1, <2>1 DEF Kept
<1>. QED
  BY <1>2, <1>3, <1>4 DEF Coordinator

\* A worker has a step to take as long as the coordinator waits, and leaves it and the client alone.
LEMMA WorkerIsWaitedFor ==
    ASSUME Closing, NEW w \in Workers, Worker(w)
    PROVE  cpc = "join" /\ UNCHANGED <<cpc, reason, spc, kpc, got, last, live, terminal>>
<1>1. pc[w] # "exit"
  BY DEF Worker, NextJob, Enumerate, LoadCancel, TryPush, MarkOpen, Scan, Descend, Launch,
     NotifyOne, Release, Cascade, EmitEnds, PushEnd, StashError, RaiseFatal, WorkerCancel,
     WorkerHalt, WorkerWake, CompleteJob
<1>2. CASE \/ NextJob(w) \/ Enumerate(w) \/ LoadCancel(w) \/ TryPush(w) \/ MarkOpen(w)
           \/ Scan(w) \/ Descend(w) \/ Launch(w) \/ NotifyOne(w)
  BY <1>1, <1>2, CoordinatorWaits DEF NextJob, Enumerate, LoadCancel, TryPush, MarkOpen, Scan,
     Descend, Launch, NotifyOne, coordVars, sqVars, clientVars, viewVars
<1>3. CASE \/ Release(w) \/ Cascade(w) \/ EmitEnds(w) \/ PushEnd(w) \/ StashError(w)
           \/ RaiseFatal(w) \/ WorkerCancel(w) \/ WorkerHalt(w) \/ WorkerWake(w) \/ CompleteJob(w)
  BY <1>1, <1>3, CoordinatorWaits DEF Release, Cascade, EmitEnds, PushEnd, StashError, RaiseFatal,
     WorkerCancel, WorkerHalt, WorkerWake, CompleteJob, coordVars, sqVars, clientVars, viewVars
<1>. QED
  BY <1>2, <1>3 DEF Worker

\* A worker raises the flag before it halts the others, and only the first error of a root stays.
LEMMA WorkerKeepsConcluded ==
    ASSUME Types, Accounting, NEW tree, StreamInv(tree), Concluded, NEW w \in Workers, Worker(w)
    PROVE  Concluded'
<1>1. cpc = "join" /\ UNCHANGED <<cpc, reason, spc, kpc, got, last, live, terminal>>
  BY WorkerIsWaitedFor DEF StreamInv, Books
<1>2. \A k \in DOMAIN ring' : ring'[k].type # "Terminal"
  <2>1. Finishing'
    BY WorkerKeepsFinishing DEF StreamInv
  <2>. QED
    BY <1>1, <2>1 DEF Finishing
<1>3. terminal = "none"
  BY <1>1, NotYetFinishing DEF StreamInv
<1>4. \A e, f \in fatalError' : e = f
  <2>1. CASE StashError(w)
    BY <2>1 DEF StashError, Concluded
  <2>2. CASE UNCHANGED fatalError
    BY <2>2 DEF Concluded
  <2>. QED
    BY <2>1, <2>2, WorkerPushes
<1>5. DOMAIN pc = Workers /\ cancel \in BOOLEAN /\ cancelled \in BOOLEAN
  BY DEF Types, WorkerTypes, FlagTypes
<1>6. \A v \in Workers : v # w /\ pc'[v] \in {"halt", "wake"} => pc[v] = pc'[v]
  BY OthersUntouched
<1>7. CASE WorkerCancel(w) \/ WorkerHalt(w) \/ WorkerWake(w)
  <2>1. cancel' = TRUE
    BY <1>5, <1>7 DEF WorkerCancel, WorkerHalt, WorkerWake, flagVars, Concluded
  <2>. QED
    BY <1>1, <1>2, <1>3, <1>4, <2>1 DEF Concluded
<1>8. CASE ~WorkerCancel(w) /\ ~WorkerHalt(w) /\ ~WorkerWake(w)
  <2>1. UNCHANGED <<cancel, cancelled>> /\ pc'[w] \notin {"halt", "wake"}
    <3>1. CASE \/ NextJob(w) \/ Enumerate(w) \/ MarkOpen(w) \/ Scan(w) \/ Descend(w) \/ Launch(w)
               \/ NotifyOne(w)
      BY <1>5, <3>1 DEF NextJob, Enumerate, MarkOpen, Scan, Descend, Launch, NotifyOne, Offer,
         Goto, AllWoken, flagVars, sharedVars
    <3>2. CASE LoadCancel(w) \/ TryPush(w)
      <4>1. \A pushed \in BOOLEAN : Resumed(w, pushed) \notin {"halt", "wake"}
        <5>1. pc[w] \in {"offer", "push"}
          BY <3>2 DEF LoadCancel, TryPush
        <5>. QED
          BY <5>1, ResumedStep
      <4>. QED
        BY <1>5, <3>2, <4>1 DEF LoadCancel, TryPush, Goto, flagVars, sharedVars
    <3>3. CASE \/ Release(w) \/ Cascade(w) \/ EmitEnds(w) \/ PushEnd(w) \/ StashError(w)
               \/ RaiseFatal(w) \/ CompleteJob(w)
      BY <1>5, <3>3 DEF Release, Cascade, EmitEnds, PushEnd, StashError, RaiseFatal,
         CompleteJob, Goto, AllWoken, flagVars, sharedVars
    <3>. QED
      BY <1>8, <3>1, <3>2, <3>3 DEF Worker
  <2>. QED
    BY <1>1, <1>2, <1>3, <1>4, <1>6, <2>1 DEF Concluded
<1>. QED
  BY <1>7, <1>8

\* The coordinator concludes before it tells the reason, and after the terminal reads no flag.
LEMMA CoordinatorKeepsConcluded ==
    ASSUME Types, Finishing, Concluded, Coordinator
    PROVE  Concluded'
<1>1. UNCHANGED <<cancelled, cancel, spc, kpc, pc, terminal, got>>
  BY DEF Coordinator, Join, Close, PushLeftover, Conclude, PushCause, PushTerminal, Finish,
     sharedVars, flagVars, sqVars, clientVars, viewVars, workVars
<1>2. fatalError' \subseteq fatalError /\ (cpc' \in {"terminal", "finish", "done"} => fatalError' = {})
  <2>1. CASE PushCause
    BY <2>1 DEF PushCause
  <2>2. CASE \/ Join \/ Close \/ PushLeftover \/ Conclude \/ PushTerminal \/ Finish
    BY <2>2 DEF Join, Close, PushLeftover, Conclude, PushTerminal, Finish, flagVars, Concluded
  <2>. QED
    BY <2>1, <2>2 DEF Coordinator
<1>3. /\ \A k \in DOMAIN ring' : ring'[k].type = "Terminal" => ring'[k].reason = reason'
      /\ terminal # "none" => terminal = reason'
  <2>1. CASE Conclude
    BY <2>1, NotYetFinishing DEF Conclude
  <2>2. CASE Join \/ Close \/ Finish
    BY <2>2 DEF Join, Close, Finish, Concluded
  <2>3. CASE \/ PushLeftover \/ PushCause \/ PushTerminal
    <3>1. UNCHANGED reason
      BY <2>3 DEF PushLeftover, PushCause, PushTerminal
    <3>2. UNCHANGED ring \/ \E i : /\ ring' = Append(ring, i)
                                   /\ i.type = "Terminal" => i.reason = reason
      <4>1. /\ End(closing).type = "End" /\ Terminal(reason).reason = reason
            /\ \A e \in fatalError : e.type = "Error"
        BY DEF End, Terminal, Types, FlagTypes, ErrorItem
      <4>. QED
        BY <2>3, <4>1 DEF PushLeftover, PushCause, PushTerminal
    <3>3. ASSUME NEW i, ring' = Append(ring, i), i.type = "Terminal" => i.reason = reason
          PROVE  \A k \in DOMAIN ring' : ring'[k].type = "Terminal" => ring'[k].reason = reason
      <4>1. /\ DOMAIN ring' = DOMAIN ring \cup {Len(ring) + 1} /\ ring'[Len(ring) + 1] = i
            /\ \A k \in DOMAIN ring : ring'[k] = ring[k]
        BY <3>3 DEF Types, RingTypes
      <4>. QED
        BY <3>3, <4>1 DEF Concluded
    <3>. QED
      BY <3>1, <3>2, <3>3 DEF Concluded
  <2>. QED
    BY <2>1, <2>2, <2>3 DEF Coordinator
<1>. QED
  BY <1>1, <1>2, <1>3 DEF Concluded

\* What the client has is a function of the reports, whatever it pops.
LEMMA PopKeepsConcluded ==
    ASSUME Types, Concluded, Pop
    PROVE  /\ \A k \in DOMAIN ring' : ring'[k].type = "Terminal" => ring'[k].reason = reason
           /\ terminal' # "none" => terminal' = reason
           /\ got' = [r \in DOMAIN got' |-> got'[r]]
<1>1. PICK h : h = ring[1] /\ See(h) /\ 1 \in DOMAIN ring
  BY PoppedRing DEF Pop
<1>2. \A k \in DOMAIN ring' : k + 1 \in DOMAIN ring /\ ring'[k] = ring[k + 1]
  BY PoppedRing
<1>3. terminal' # "none" => terminal' = reason
  BY <1>1 DEF See, Concluded
<1>4. got' = [r \in DOMAIN got' |-> got'[r]]
  <2>1. CASE UNCHANGED got
    BY <2>1 DEF Concluded
  <2>2. CASE \E more : got' = got (+) more
    <3>1. PICK more : got' = got (+) more
      BY <2>2
    <3>. QED
      BY <3>1 DEF (+)
  <2>. QED
    BY <1>1, <2>1, <2>2 DEF See
<1>. QED
  BY <1>2, <1>3, <1>4 DEF Concluded

\* The submission thread and the client raise the flag before they halt the workers.
LEMMA OthersKeepConcluded ==
    ASSUME Types, Finishing, Concluded, SqThread \/ Client \/ UNCHANGED vars
    PROVE  Concluded'
<1>1. /\ UNCHANGED <<cpc, reason, fatalError>>
      /\ Pop \/ UNCHANGED <<ring, terminal, got>>
  BY DEF SqThread, SqCheck, SqDrain, SqServe, SqHalt, SqWake, Client, ClientPop, ClientSubmit,
     DropHandle, Dropping, DropHalt, DropWake, DropDrain, DropJoin, Gone, vars, flagVars,
     coordVars, clientVars, viewVars
<1>2. DOMAIN pc = Workers /\ cancel \in BOOLEAN
  BY DEF Types, WorkerTypes, FlagTypes
<1>3. \A v \in Workers : pc'[v] \in {"halt", "wake"} => pc[v] = pc'[v]
  BY <1>2 DEF SqThread, SqCheck, SqDrain, SqServe, SqHalt, SqWake, Client, ClientPop, ClientSubmit,
     DropHandle, Dropping, DropHalt, DropWake, DropDrain, DropJoin, Gone, vars, workVars, AllWoken
<1>4. \/ cancelled' \/ spc' = "halt" \/ kpc' = "halt"
      \/ \E v \in Workers : pc'[v] \in {"halt", "wake"}
      => cancel'
  <2>1. CASE SqThread
    BY <1>2, <1>3, <2>1 DEF SqThread, SqCheck, SqDrain, SqServe, SqHalt, SqWake, flagVars,
       sharedVars, clientVars, Concluded
  <2>2. CASE Client
    BY <1>2, <1>3, <2>2 DEF Client, ClientPop, ClientSubmit, DropHandle, Dropping, DropHalt,
       DropWake, DropDrain, DropJoin, Gone, vars, flagVars, sharedVars, sqVars, clientVars,
       Concluded
  <2>3. CASE UNCHANGED vars
    BY <1>3, <2>3 DEF vars, flagVars, sharedVars, sqVars, clientVars, Concluded
  <2>. QED
    BY <2>1, <2>2, <2>3
<1>5. /\ \A k \in DOMAIN ring' : ring'[k].type = "Terminal" => ring'[k].reason = reason'
      /\ terminal' # "none" => terminal' = reason'
      /\ got' = [r \in DOMAIN got' |-> got'[r]]
  BY <1>1, PopKeepsConcluded DEF Concluded
<1>6. /\ \A e, f \in fatalError' : e = f
      /\ cpc' \in {"terminal", "finish", "done"} => fatalError' = {}
  BY <1>1 DEF Concluded
<1>. QED
  BY <1>4, <1>5, <1>6 DEF Concluded

\* At the start every scan waits on the stack, and nothing is read or said.
LEMMA InitWhole ==
    ASSUME Init
    PROVE  (\E scans : Walked(scans) /\ Whole(scans)) /\ Concluded
<1>1. PICK scans : /\ Walked(scans)
                   /\ \A i \in DOMAIN stack : stack[i].container = i
                   /\ DOMAIN stack = Ids
                   /\ \A r \in Referenced : \E c \in Ids : IsRootScan(scans, c, r)
  BY InitWalked
<1>2. /\ pc = [w \in Workers |-> "next"] /\ ring = <<>> /\ fatalError = {} /\ got = EmptyBag
      /\ visited = {} /\ ~cancelled /\ spc = "check" /\ kpc = "serving" /\ cpc = "join"
      /\ terminal = "none"
  BY DEF Init
<1>3. \A c \in Ids : Unfinished(c)
  BY <1>1 DEF Unfinished
<1>4. \A w \in Workers : Behind(scans, w)
  BY <1>2 DEF Behind, Reading, Offering, GivesUp, Leaving
<1>5. Lossless(scans)
  BY <1>2, <1>3, <1>4 DEF Lossless
<1>6. Rooted(scans) /\ Spent(scans)
  BY <1>1, <1>2 DEF Rooted, Spent
<1>7. Concluded
  <2>1. EmptyBag = [r \in DOMAIN EmptyBag |-> EmptyBag[r]]
    BY DEF EmptyBag, SetToBag
  <2>. QED
    BY <1>2, <2>1 DEF Concluded
<1>. QED
  BY <1>1, <1>5, <1>6, <1>7 DEF Whole

\* A launch adds to the scans, and takes no root's away.
LEMMA RootsStay ==
    ASSUME NEW scans, Rooted(scans), NEW more, Ids \subseteq Ids', \A c \in Ids : more[c] = scans[c]
    PROVE  Rooted(more)'
<1>. SUFFICES ASSUME NEW r \in Referenced PROVE \E c \in Ids' : IsRootScan(more, c, r)
  BY DEF Rooted
<1>1. PICK c \in Ids : IsRootScan(scans, c, r)
  BY DEF Rooted
<1>. QED
  BY <1>1 DEF IsRootScan

\* There always is a memory of the scans that loses nothing, unless something was given up.
THEOREM WholeInvariance == Spec => []((\E scans : Walked(scans) /\ Whole(scans)) /\ Concluded)
<1> DEFINE Inv == \E tree : StreamInv(tree)
           Wholes == (\E scans : Walked(scans) /\ Whole(scans)) /\ Concluded
<1>1. Init => Wholes
  BY InitWhole
<1>2. IInv /\ Accounting /\ Inv /\ Wholes /\ [Next]_vars => Wholes'
  <2> SUFFICES ASSUME IInv, Accounting, NEW tree, StreamInv(tree), NEW scans, Walked(scans),
                      Whole(scans), Concluded, [Next]_vars
               PROVE  Wholes'
    OBVIOUS
  <2>1. Types /\ Planted(tree) /\ Books(tree) /\ Stages /\ Closing /\ Finishing
    BY DEF IInv, StreamInv, Books
  <2>2. ASSUME NEW w \in Workers, Worker(w) PROVE Wholes'
    <3>1. PICK more : /\ Walked(more)' /\ \A c \in Ids : more[c] = scans[c]
                      /\ IF Launch(w) THEN LaunchedBy(scans, w, more[nextId]) ELSE more = scans
      BY <2>1, <2>2, WorkerKeepsWalked
    <3>2. Remembered(scans) /\ Remembered(more)'
      BY <3>1 DEF Walked
    <3>3. Spent(more)'
      BY <2>1, <2>2, <3>1, <3>2, WorkerKeepsSpent DEF Whole
    <3>4. Ids \subseteq Ids'
      <4>1. CASE Launch(w)
        BY <2>1, <4>1 DEF Launch, Types, SharedTypes, Ids
      <4>2. CASE ~Launch(w)
        BY <2>1, <2>2, <3>2, <4>2, WorkerKeepsMemory DEF Ids
      <4>. QED
        BY <4>1, <4>2
    <3>5. Rooted(more)'
      BY <3>1, <3>4, RootsStay DEF Whole
    <3>6. Kept' => Lossless(more)'
      BY <2>1, <2>2, <3>1, <3>2, WorkerKeepsLossless DEF Whole
    <3>7. Concluded'
      BY <2>1, <2>2, WorkerKeepsConcluded
    <3>. QED
      BY <3>1, <3>3, <3>5, <3>6, <3>7 DEF Whole
  <2>3. ASSUME Coordinator \/ SqThread \/ Client \/ UNCHANGED vars PROVE Wholes'
    <3>1. Walked(scans)'
      BY <2>1, <2>3, OthersKeepWalked
    <3>2. Spent(scans)'
      BY <2>1, <2>3, OthersKeepSpent DEF Whole
    <3>3. Ids' = Ids
      BY <2>3 DEF Coordinator, Join, Close, PushLeftover, Conclude, PushCause, PushTerminal,
         Finish, SqThread, SqCheck, SqDrain, SqServe, SqHalt, SqWake, Client, ClientPop,
         ClientSubmit, DropHandle, Dropping, DropHalt, DropWake, DropDrain, DropJoin, Gone, vars,
         Ids
    <3>4. Rooted(scans)'
      BY <3>3, RootsStay DEF Whole
    <3>5. Kept' => Lossless(scans)'
      BY <2>1, <2>3, KeptBefore, OthersKeepLossless DEF Whole
    <3>6. Concluded'
      BY <2>1, <2>3, CoordinatorKeepsConcluded, OthersKeepConcluded
    <3>. QED
      BY <3>1, <3>2, <3>4, <3>5, <3>6 DEF Whole
  <2>. QED
    BY <2>2, <2>3 DEF Next
<1> HIDE DEF Inv, Wholes
<1>3. Spec => []Inv
  BY StreamInvariance DEF Inv
<1>4. Spec => []Wholes
  BY <1>1, <1>2, <1>3, Invariance, AccountingInvariance, PTL DEF Spec
<1>. QED
  BY <1>4 DEF Wholes

-----------------------------------------------------------------------------
(* Induction over the naturals, for a set of them rather than a predicate.  *)

Smaller == OpToRel(<, Nat)

\* A set of naturals that is not empty has a least member.
LEMMA Least ==
    ASSUME NEW T, T \subseteq Nat, T # {}
    PROVE  \E m \in T : \A n \in T : m <= n
<1>1. PICK m \in T : \A n \in T : ~(<<n, m>> \in Smaller)
  <2>1. PICK R : R = Smaller
    OBVIOUS
  <2>2. IsWellFoundedOn(R, Nat)
    BY <2>1, NatLessThanWellFounded DEF Smaller
  <2>. QED
    BY <2>1, <2>2, WFMin
<1>2. ASSUME NEW n \in T, n < m PROVE FALSE
  <2>1. n \in Nat /\ m \in Nat /\ <<n, m>> \in Nat \X Nat
    OBVIOUS
  <2>2. <<n, m>> \in Smaller
    BY <1>2, <2>1 DEF Smaller, OpToRel
  <2>. QED
    BY <1>1, <2>2
<1>. QED
  BY <1>2

\* A set that holds 0, and with each natural the next, holds them all.
LEMMA SetInduction ==
    ASSUME NEW T, 0 \in T, \A n \in Nat : n \in T => n + 1 \in T
    PROVE  Nat \subseteq T
<1>. SUFFICES ASSUME Nat \ T # {} PROVE FALSE
  OBVIOUS
<1>1. PICK m \in Nat \ T : \A n \in Nat \ T : m <= n
  <2>1. PICK S : S = Nat \ T
    OBVIOUS
  <2>. QED
    BY <2>1, Least
<1>2. m # 0 /\ m - 1 \in Nat
  BY <1>1
<1>3. m - 1 \in T
  BY <1>1, <1>2
<1>. QED
  BY <1>1, <1>2, <1>3

-----------------------------------------------------------------------------
(* What a completed walk has told *)

\* At the end of a walk that completed no scan is unfinished, all is told, and no link is in hand.
LEMMA AtRest ==
    ASSUME IInv, NEW tree, StreamInv(tree), NEW scans, Whole(scans), Concluded,
           terminal = "Completed"
    PROVE  /\ \A c \in Ids : Done(scans, c)
           /\ Said(scans) = BagToSet(got)
           /\ \A id \in visited : \E d \in Ids : Follows(scans[d].trail, id)
<1>1. ring = <<>> /\ cpc \in {"finish", "done"}
  BY DEF StreamInv, Finishing
<1>2. reason = "Completed" /\ fatalError = {}
  BY <1>1 DEF Concluded
<1>3. Lossless(scans)
  BY <1>1, <1>2 DEF Whole, Kept
<1>4. \A w \in Workers : pc[w] = "exit"
  BY <1>1 DEF StreamInv, Books, Closing, Joined
<1>5. outstanding = 0
  BY <1>3, <1>4, WorkersAssumption DEF Lossless
<1>6. stack = <<>>
  <2>1. Busy = {} /\ stack \in Seq(Job)
    BY <1>4 DEF Busy, IInv, Types, SharedTypes
  <2>2. Cardinality(Busy) = 0 /\ Len(stack) \in Nat
    BY <2>1, FS_EmptySet
  <2>. QED
    BY <1>5, <2>1, <2>2 DEF IInv, OutstandingIsExact
<1>7. \A c \in Ids : ~Unfinished(c)
  BY <1>4, <1>6 DEF Unfinished, Idle
<1>8. \A id \in visited : \E d \in Ids : Follows(scans[d].trail, id)
  BY <1>4 DEF Whole, Spent
<1>9. Said(scans) = BagToSet(got)
  BY <1>1, <1>2 DEF Said
<1>. QED
  BY <1>3, <1>7, <1>8, <1>9 DEF Lossless

\* The first entries of a trail lead where they did.
LEMMA CutTrail ==
    ASSUME NEW r, NEW m \in Nat, NEW trail \in [1..m -> Listed], IsTrail(Wanted, r, trail),
           NEW n \in 0..m, NEW cut, cut = [k \in 1..n |-> trail[k]]
    PROVE  /\ cut \in [1..n -> Listed] /\ IsTrail(Wanted, r, cut)
           /\ \A k \in 0..n : ScanAt(r, cut, k) = ScanAt(r, trail, k)
<1>1. /\ DOMAIN trail = 1..m /\ DOMAIN cut = 1..n /\ cut \in [1..n -> Listed]
      /\ \A k \in 1..n : k \in 1..m /\ cut[k] = trail[k]
  OBVIOUS
<1>2. ASSUME NEW k \in 0..n PROVE ScanAt(r, cut, k) = ScanAt(r, trail, k)
  <2>1. \A i \in 1..k : cut[i] = trail[i]
    BY <1>1
  <2>2. [i \in 1..k |-> cut[i].name] = [i \in 1..k |-> trail[i].name]
    BY <2>1
  <2>3. k # 0 => cut[k] = trail[k]
    BY <1>1
  <2>4. PICK p, q : p = [i \in 1..k |-> cut[i].name] /\ q = [i \in 1..k |-> trail[i].name]
    OBVIOUS
  <2>5. /\ ScanAt(r, cut, k) = [dir |-> IF k = 0 THEN RootDirs[r] ELSE cut[k].target,
                                path |-> p, root |-> r]
        /\ ScanAt(r, trail, k) = [dir |-> IF k = 0 THEN RootDirs[r] ELSE trail[k].target,
                                  path |-> q, root |-> r]
    BY <2>4 DEF ScanAt
  <2>. QED
    BY <2>2, <2>3, <2>4, <2>5
<1>3. ASSUME NEW k \in 1..n
      PROVE  LET scan == ScanAt(r, cut, k - 1) IN
             /\ scan.dir \notin denied /\ cut[k] \in Entries[scan.dir] \ unread
             /\ Wanted(scan, cut[k])
             /\ \A i \in 1..(k - 1) : ~(HasIdentity(cut[i]) /\ HasIdentity(cut[k])
                                          /\ cut[i].id = cut[k].id)
  <2>1. k - 1 \in 0..n /\ \A i \in 1..(k - 1) : i \in 1..n
    OBVIOUS
  <2>2. ScanAt(r, cut, k - 1) = ScanAt(r, trail, k - 1) /\ cut[k] = trail[k] /\ k \in 1..m
    BY <1>1, <1>2, <2>1
  <2>3. \A i \in 1..(k - 1) : cut[i] = trail[i]
    BY <1>1, <2>1
  <2>. QED
    BY <1>1, <2>2, <2>3 DEF IsTrail
<1>. QED
  BY <1>1, <1>2, <1>3 DEF IsTrail

\* No trail outgrows the bound: its first entries would.
LEMMA NoLongTrail ==
    ASSUME ShallowEnough, NEW r \in Referenced, NEW m \in Nat, NEW trail \in [1..m -> Listed],
           IsTrail(Wanted, r, trail)
    PROVE  m <= MaxDepth
<1>1. SUFFICES ASSUME MaxDepth + 1 \in 0..m PROVE FALSE
  BY BoundsAssumption
<1>2. PICK n \in 0..m : n = MaxDepth + 1
  BY <1>1
<1>3. PICK cut : cut = [k \in 1..n |-> trail[k]]
  OBVIOUS
<1>4. cut \in [1..n -> Listed] /\ IsTrail(Wanted, r, cut)
  BY <1>3, CutTrail, SMTT(60)
<1>. QED
  BY <1>2, <1>4 DEF ShallowEnough

\* What the memory records of a scan is what the trail says.
LEMMA ScanOfTrail ==
    ASSUME NEW scans, Remembered(scans), NEW c \in Ids
    PROVE  LET j == scans[c].job
               s == ScanAt(j.root, scans[c].trail, Len(scans[c].trail))
           IN /\ j \in Job /\ j.root \in Referenced
              /\ s.dir = j.dir /\ s.path = j.path /\ s.root = j.root
              /\ scans[c].trail \in [1..Len(scans[c].trail) -> Listed]
              /\ Len(scans[c].trail) \in Nat
              /\ IsTrail(Wanted, j.root, scans[c].trail)
<1>1. PICK j, trail : j = scans[c].job /\ trail = scans[c].trail
  OBVIOUS
<1>2. j \in Job /\ trail \in Seq(Listed)
  BY <1>1 DEF Remembered, IsMemory
<1>3. /\ j.root \in Referenced /\ IsTrail(Wanted, j.root, trail)
      /\ j.dir = ScanAt(j.root, trail, Len(trail)).dir
      /\ j.path = ScanAt(j.root, trail, Len(trail)).path
  BY <1>1 DEF Remembered, Recorded
<1>4. ScanAt(j.root, trail, Len(trail)).root = j.root
  BY DEF ScanAt
<1>5. trail \in [1..Len(trail) -> Listed] /\ Len(trail) \in Nat
  BY <1>2
<1>. QED
  BY <1>1, <1>2, <1>3, <1>4, <1>5

\* What a scan descends into and reports depends on its root and path only.
LEMMA SameScan ==
    ASSUME NEW i, NEW j, i.dir = j.dir, i.path = j.path, i.root = j.root
    PROVE  /\ PathOf(i) = PathOf(j) /\ Matches(i) = Matches(j) /\ Faults(i) = Faults(j)
           /\ \A e : Wanted(i, e) <=> Wanted(j, e)
<1>1. /\ PathOf(i) = PathOf(j) /\ \A e : HitsOf(i, e) = HitsOf(j, e)
      /\ \A e : Descends(i, e) <=> Descends(j, e)
  BY DEF PathOf, HitsOf, Descends
<1>. QED
  BY <1>1 DEF Matches, Faults, Wanted

HasScan(scans, r, trail) == \E c \in Ids : scans[c].job.root = r /\ scans[c].trail = trail

\* A trail that goes on from one that has a scan has one: the entry was launched, or its identity
\* was spent by the only trail that leads to it.
LEMMA LongerHasScan ==
    ASSUME NEW scans, Remembered(scans), \A c \in Ids : Done(scans, c), ShallowEnough, OneWayIn,
           \A id \in visited : \E d \in Ids : Follows(scans[d].trail, id),
           NEW n \in Nat, NEW r \in Referenced, NEW trail \in [1..(n + 1) -> Listed],
           IsTrail(Wanted, r, trail), HasScan(scans, r, [k \in 1..n |-> trail[k]])
    PROVE  HasScan(scans, r, trail)
<1>1. PICK cut, e : cut = [k \in 1..n |-> trail[k]] /\ e = trail[n + 1]
  OBVIOUS
<1>2. /\ cut \in [1..n -> Listed] /\ IsTrail(Wanted, r, cut)
      /\ ScanAt(r, cut, n) = ScanAt(r, trail, n)
  BY <1>1, CutTrail
<1>3. PICK c \in Ids : scans[c].job.root = r /\ scans[c].trail = cut
  BY <1>1 DEF HasScan
<1>4. PICK j, s : j = scans[c].job /\ s = ScanAt(r, trail, n)
  OBVIOUS
<1>5. /\ cut \in Seq(Listed) /\ Len(cut) = n
      /\ trail \in Seq(Listed) /\ Len(trail) = n + 1 /\ DOMAIN trail = 1..(n + 1)
  BY <1>2
<1>6. s.dir = j.dir /\ s.path = j.path /\ s.root = j.root
  BY <1>2, <1>3, <1>4, <1>5, ScanOfTrail
<1>7. s.dir \notin denied /\ e \in Entries[s.dir] \ unread /\ Wanted(s, e)
  <2>1. n + 1 \in DOMAIN trail /\ (n + 1) - 1 = n
    BY <1>5
  <2>. QED
    BY <1>1, <1>4, <2>1 DEF IsTrail
<1>8. Launched(scans, c, e) \/ (HasIdentity(e) /\ e.id \in visited)
  <2>1. Done(scans, c)
    OBVIOUS
  <2>2. Wanted(j, e)
    BY <1>6, <1>7, SameScan
  <2>3. Dealt(scans, c, e)
    BY <1>4, <1>6, <1>7, <2>1 DEF Done
  <2>. QED
    BY <1>4, <1>7, <2>2, <2>3 DEF Dealt
<1>9. CASE Launched(scans, c, e)
  <2>1. Append(cut, e) = trail
    BY <1>1, <1>5
  <2>. QED
    BY <1>3, <1>9, <2>1 DEF Launched, HasScan
<1>10. CASE HasIdentity(e) /\ e.id \in visited
  <2>1. PICK d \in Ids : Follows(scans[d].trail, e.id)
    BY <1>10
  <2>2. PICK q, other : q = scans[d].job.root /\ other = scans[d].trail
    OBVIOUS
  <2>3. /\ q \in Referenced /\ other \in [1..Len(other) -> Listed] /\ Len(other) \in Nat
        /\ IsTrail(Wanted, q, other)
    BY <2>2, ScanOfTrail
  <2>4. Len(other) \in 0..MaxDepth /\ n + 1 \in 0..MaxDepth
    BY <2>3, NoLongTrail, BoundsAssumption
  <2>5. other \in Trails /\ trail \in Trails
    BY <2>3, <2>4 DEF Trails
  <2>6. PICK v, w : v = <<q, other>> /\ w = <<r, trail>>
    OBVIOUS
  <2>7. v \in Ways /\ w \in Ways
    <3>1. trail # <<>>
      BY <1>5
    <3>2. other # <<>>
      BY <2>1, <2>2 DEF Follows
    <3>. QED
      BY <2>3, <2>5, <2>6, <3>1, <3>2 DEF Ways
  <2>8. HasIdentity(Latest(v)) /\ HasIdentity(Latest(w)) /\ Latest(v).id = Latest(w).id
    <3>1. Latest(w) = e
      BY <1>1, <1>5, <2>6 DEF Latest
    <3>2. Latest(v) = other[Len(other)]
      BY <2>6 DEF Latest
    <3>. QED
      BY <1>10, <2>1, <2>2, <3>1, <3>2 DEF Follows
  <2>9. v = w
    BY <2>7, <2>8 DEF OneWayIn
  <2>10. q = r /\ other = trail
    BY <2>6, <2>9
  <2>. QED
    BY <2>2, <2>10 DEF HasScan
<1>. QED
  BY <1>8, <1>9, <1>10

\* Every trail that the query wants has a scan, by induction over its length.
LEMMA EveryTrailHasScan ==
    ASSUME NEW scans, Remembered(scans), Rooted(scans), \A c \in Ids : Done(scans, c),
           ShallowEnough, OneWayIn,
           \A id \in visited : \E d \in Ids : Follows(scans[d].trail, id)
    PROVE  \A n \in Nat : \A r \in Referenced : \A trail \in [1..n -> Listed] :
             IsTrail(Wanted, r, trail) => HasScan(scans, r, trail)
<1> DEFINE AllHave(n) == \A r \in Referenced : \A trail \in [1..n -> Listed] :
                            IsTrail(Wanted, r, trail) => HasScan(scans, r, trail)
<1>1. AllHave(0)
  <2> SUFFICES ASSUME NEW r \in Referenced, NEW trail \in [1..0 -> Listed]
               PROVE  HasScan(scans, r, trail)
    OBVIOUS
  <2>1. trail = <<>>
    OBVIOUS
  <2>. QED
    BY <2>1 DEF Rooted, IsRootScan, HasScan
<1>2. ASSUME NEW n \in Nat, AllHave(n) PROVE AllHave(n + 1)
  <2> SUFFICES ASSUME NEW r \in Referenced, NEW trail \in [1..(n + 1) -> Listed],
                      IsTrail(Wanted, r, trail)
               PROVE  HasScan(scans, r, trail)
    OBVIOUS
  <2>1. PICK cut : cut = [k \in 1..n |-> trail[k]]
    OBVIOUS
  <2>2. cut \in [1..n -> Listed] /\ IsTrail(Wanted, r, cut)
    <3>1. PICK m \in Nat : m = n + 1
      OBVIOUS
    <3>2. n \in 0..m /\ trail \in [1..m -> Listed]
      BY <3>1
    <3>. QED
      BY <2>1, <3>2, CutTrail
  <2>3. HasScan(scans, r, cut)
    BY <1>2, <2>2
  <2>. QED
    BY <2>1, <2>3, LongerHasScan
<1> HIDE DEF AllHave
<1>3. PICK T : T = {n \in Nat : AllHave(n)}
  OBVIOUS
<1>4. 0 \in T /\ \A n \in Nat : n \in T => n + 1 \in T
  BY <1>1, <1>2, <1>3
<1>5. Nat \subseteq T
  BY <1>4, SetInduction
<1>. QED
  BY <1>3, <1>5 DEF AllHave

\* The trail to an entry that some pattern hits is one that the patterns lead along.
LEMMA HitIsWanted ==
    ASSUME NEW r \in Referenced, NEW n \in 0..MaxDepth, NEW trail \in [1..n -> Listed],
           IsTrail(Admitted, r, trail), NEW s, s = ScanAt(r, trail, n),
           NEW e \in Listed, HitsOf(s, e) # {}
    PROVE  IsTrail(Wanted, r, trail)
<1>1. PICK p \in HitsOf(s, e) : TRUE
  OBVIOUS
<1>2. PICK long : long = Append(s.path, e.name)
  OBVIOUS
<1>3. p \in Patterns /\ r \in PatternRoots[p] /\ Hit(p, long, e)
  BY <1>1, <1>2 DEF HitsOf, ScanAt
<1>4. n \in Nat /\ n + 1 \in 1..(MaxDepth + 1) /\ DOMAIN trail = 1..n
  BY BoundsAssumption
<1>5. Listed \subseteq Entry
  BY TreeAssumption DEF Listed
<1>6. ASSUME NEW k \in 0..n
      PROVE  ScanAt(r, trail, k).path \in Seq(Names) /\ Len(ScanAt(r, trail, k).path) = k
             /\ \A i \in 1..k : ScanAt(r, trail, k).path[i] = trail[i].name
  <2>1. PICK q : q = [i \in 1..k |-> trail[i].name]
    OBVIOUS
  <2>2. \A i \in 1..k : trail[i].name \in Names
    BY <1>4, <1>5 DEF Entry
  <2>3. q \in [1..k -> Names] /\ k \in Nat
    BY <1>4, <2>1, <2>2
  <2>4. q \in Seq(Names) /\ Len(q) = k
    BY <2>3
  <2>5. ScanAt(r, trail, k).path = q
    BY <2>1 DEF ScanAt
  <2>. QED
    BY <2>1, <2>4, <2>5
<1>7. /\ long \in Seq(Names) /\ Len(long) = n + 1 /\ long[n + 1] = e.name
      /\ \A i \in 1..n : long[i] = trail[i].name
  <2>1. PICK q : q = s.path
    OBVIOUS
  <2>2. q \in Seq(Names) /\ Len(q) = n /\ \A i \in 1..n : q[i] = trail[i].name
    BY <1>4, <1>6, <2>1
  <2>3. e.name \in Names
    BY <1>5 DEF Entry
  <2>. QED
    BY <1>2, <1>4, <2>1, <2>2, <2>3
<1>8. \A k \in 1..n : Viable(p, SubSeq(long, 1, k))
  <2>1. PICK m \in 1..(MaxDepth + 1) : m = n + 1
    BY <1>4
  <2>2. long \in [1..m -> Names] /\ e.name = long[m] /\ m - 1 = n
    BY <1>4, <1>7, <2>1
  <2>. QED
    BY <1>3, <2>2, PruningAssumption
<1>9. ASSUME NEW k \in 1..n
      PROVE  SubSeq(long, 1, k) = Append(ScanAt(r, trail, k - 1).path, trail[k].name)
  <2>1. k - 1 \in 0..n /\ (k - 1) + 1 = k /\ k \in Nat
    BY <1>4
  <2>2. PICK q, a : q = ScanAt(r, trail, k - 1).path /\ a = trail[k].name
    OBVIOUS
  <2>3. q \in Seq(Names) /\ Len(q) = k - 1 /\ \A i \in 1..(k - 1) : q[i] = trail[i].name
    BY <1>6, <2>1, <2>2
  <2>4. a \in Names /\ long[k] = a
    BY <1>4, <1>5, <1>7, <2>2 DEF Entry
  <2>5. PICK c : c = SubSeq(long, 1, k)
    OBVIOUS
  <2>6. c \in Seq(Names) /\ Len(c) = k /\ \A i \in 1..k : c[i] = long[i]
    BY <1>4, <1>7, <2>5
  <2>7. PICK d : d = Append(q, a)
    OBVIOUS
  <2>8. d \in Seq(Names) /\ Len(d) = k /\ d[k] = a /\ \A i \in 1..(k - 1) : d[i] = q[i]
    BY <2>1, <2>3, <2>4, <2>7
  <2>9. \A i \in 1..k : c[i] = d[i]
    BY <1>7, <2>1, <2>3, <2>4, <2>6, <2>8
  <2>10. c = d
    BY <2>6, <2>8, <2>9
  <2>. QED
    BY <2>2, <2>5, <2>7, <2>10
<1>10. \A k \in 1..n : Wanted(ScanAt(r, trail, k - 1), trail[k])
  <2> SUFFICES ASSUME NEW k \in 1..n PROVE Wanted(ScanAt(r, trail, k - 1), trail[k])
    OBVIOUS
  <2>1. Admitted(ScanAt(r, trail, k - 1), trail[k])
    BY <1>4 DEF IsTrail
  <2>2. Viable(p, Append(ScanAt(r, trail, k - 1).path, trail[k].name))
    BY <1>8, <1>9
  <2>3. ScanAt(r, trail, k - 1).root = r
    BY DEF ScanAt
  <2>. QED
    BY <1>3, <2>1, <2>2, <2>3 DEF Admitted, Wanted, Descends
<1>. QED
  BY <1>4, <1>10 DEF IsTrail

\* Each report that a walk owes has been said by the scan on its trail.
LEMMA ExpectedIsSaid ==
    ASSUME NEW scans, Remembered(scans), \A c \in Ids : Done(scans, c),
           \A n \in Nat : \A r \in Referenced : \A trail \in [1..n -> Listed] :
             IsTrail(Wanted, r, trail) => HasScan(scans, r, trail),
           NEW report \in Expected
    PROVE  report \in Said(scans)
<1>1. ASSUME NEW r \in Referenced, NEW trail \in Trails, IsTrail(Wanted, r, trail),
             NEW s, s = ScanAt(r, trail, Len(trail)), report \in Matches(s) \cup Faults(s)
      PROVE  report \in Said(scans)
  <2>1. PICK n \in 0..MaxDepth : trail \in [1..n -> Listed]
    BY <1>1 DEF Trails
  <2>2. n \in Nat /\ HasScan(scans, r, trail)
    BY <1>1, <2>1, BoundsAssumption
  <2>3. PICK c \in Ids : scans[c].job.root = r /\ scans[c].trail = trail
    BY <2>2 DEF HasScan
  <2>4. PICK j : j = scans[c].job
    OBVIOUS
  <2>5. s.dir = j.dir /\ s.path = j.path /\ s.root = j.root
    BY <1>1, <2>3, <2>4, ScanOfTrail
  <2>6. report \in Matches(j) \cup Faults(j)
    BY <1>1, <2>5, SameScan
  <2>7. Done(scans, c)
    OBVIOUS
  <2>8. CASE j.dir \in denied
    <3>1. report = Report("Error", PathOf(j), {})
      BY <2>6, <2>8 DEF Matches, Faults
    <3>. QED
      BY <2>4, <2>7, <2>8, <3>1 DEF Done
  <2>9. CASE j.dir \notin denied
    <3>1. \/ \E e \in Entries[j.dir] \ unread : HitsOf(j, e) # {} /\ report = Hits(j, e)
          \/ \E e \in Entries[j.dir] \cap unread : report = Report("Error", Spot(j, e), {})
          \/ \E e \in Entries[j.dir] \ unread :
               Descends(j, e) /\ Escapes(e) /\ report = Report("Blocked", Spot(j, e), {})
      BY <2>6, <2>9 DEF Matches, Faults, Hits, Spot
    <3>2. \A e \in Entries[j.dir] : Dealt(scans, c, e)
      BY <2>4, <2>7, <2>9 DEF Done
    <3>. QED
      BY <2>4, <3>1, <3>2 DEF Dealt
  <2>. QED
    BY <2>8, <2>9
<1>2. CASE \E j \in Walk(Wanted) : report \in Faults(j)
  <2>1. PICK r \in Referenced, trail \in Trails :
          IsTrail(Wanted, r, trail) /\ report \in Faults(ScanAt(r, trail, Len(trail)))
    BY <1>2 DEF Walk
  <2>. QED
    BY <1>1, <2>1
<1>3. CASE \E j \in Walk(Admitted) : report \in Matches(j)
  <2>1. PICK r \in Referenced, trail \in Trails :
          IsTrail(Admitted, r, trail) /\ report \in Matches(ScanAt(r, trail, Len(trail)))
    BY <1>3 DEF Walk
  <2>2. PICK s : s = ScanAt(r, trail, Len(trail))
    OBVIOUS
  <2>3. PICK e \in Entries[s.dir] : HitsOf(s, e) # {}
    BY <2>1, <2>2 DEF Matches
  <2>4. PICK n \in 0..MaxDepth : trail \in [1..n -> Listed]
    BY DEF Trails
  <2>5. Len(trail) = n
    BY <2>4, BoundsAssumption
  <2>6. Listed \subseteq Entry /\ Referenced \subseteq Roots
    BY TreeAssumption DEF Listed, Referenced
  <2>7. s.dir \in Dirs
    <3>1. CASE n = 0
      BY <2>2, <2>5, <2>6, <3>1, QueryAssumption DEF ScanAt, Roots
    <3>2. CASE n # 0
      <4>1. trail[n] \in Listed
        BY <2>4, <3>2, BoundsAssumption
      <4>. QED
        BY <2>2, <2>5, <2>6, <3>2, <4>1 DEF ScanAt, Entry
    <3>. QED
      BY <3>1, <3>2
  <2>8. e \in Listed
    BY <2>3, <2>7 DEF Listed
  <2>9. IsTrail(Wanted, r, trail)
    BY <2>1, <2>2, <2>3, <2>4, <2>5, <2>8, HitIsWanted
  <2>. QED
    BY <1>1, <2>1, <2>9
<1>4. PICK m, f : /\ m = UNION {Matches(j) : j \in Walk(Admitted)}
                  /\ f = UNION {Faults(j) : j \in Walk(Wanted)}
  OBVIOUS
<1>5. report \in m \/ report \in f
  BY <1>4 DEF Expected
<1>. QED
  BY <1>2, <1>3, <1>4, <1>5

\* What is asked for at any time is what a walk owes in all, for no trail outgrows the bound.
LEMMA AskedIsExpected ==
    ASSUME ShallowEnough, NEW report, Asked(report)
    PROVE  report \in Expected
<1>1. PICK r \in Referenced, n \in 0..Len(report.path) : \E trail \in [1..n -> Listed] :
         /\ IsTrail(Wanted, r, trail)
         /\ report \in Matches(ScanAt(r, trail, n)) \cup Faults(ScanAt(r, trail, n))
  BY DEF Asked
<1>2. PICK trail \in [1..n -> Listed] :
         /\ IsTrail(Wanted, r, trail)
         /\ report \in Matches(ScanAt(r, trail, n)) \cup Faults(ScanAt(r, trail, n))
  BY <1>1
<1>3. n \in Nat
  OBVIOUS
<1>4. n \in 0..MaxDepth
  BY <1>2, <1>3, NoLongTrail, BoundsAssumption
<1>5. trail \in Trails /\ Len(trail) = n
  BY <1>3, <1>4 DEF Trails
<1>6. IsTrail(Admitted, r, trail)
  BY <1>2 DEF IsTrail, Wanted, Admitted, Descends
<1>7. ScanAt(r, trail, n) \in Walk(Wanted) /\ ScanAt(r, trail, n) \in Walk(Admitted)
  <2>1. PICK way : way = <<r, trail>>
    OBVIOUS
  <2>2. way \in Referenced \X Trails /\ way[1] = r /\ way[2] = trail
    BY <1>5, <2>1
  <2>. QED
    BY <1>2, <1>5, <1>6, <2>2 DEF Walk
<1>8. PICK s : s = ScanAt(r, trail, n)
  OBVIOUS
<1>9. PICK m, f : /\ m = UNION {Matches(j) : j \in Walk(Admitted)}
                  /\ f = UNION {Faults(j) : j \in Walk(Wanted)}
  OBVIOUS
<1>10. Matches(s) \subseteq m /\ Faults(s) \subseteq f
  BY <1>7, <1>8, <1>9
<1>11. report \in m \cup f
  BY <1>2, <1>8, <1>10
<1>. QED
  BY <1>9, <1>11 DEF Expected

\* A root that completed was opened: its failure would have been fatal.
LEMMA RootsWereOpened ==
    ASSUME NEW scans, Remembered(scans), Rooted(scans), \A c \in Ids : Done(scans, c),
           NoContainer \notin Ids, NEW r \in Referenced
    PROVE  RootDirs[r] \notin denied
<1>1. PICK c \in Ids : scans[c].job.root = r /\ scans[c].trail = <<>>
  BY DEF Rooted, IsRootScan
<1>2. PICK j : j = scans[c].job
  OBVIOUS
<1>3. /\ j \in Job /\ j.parent \in Ids \cup {NoContainer}
      /\ PathOf(j) = Append(Place(scans, j.parent), j.name)
  BY <1>2 DEF Remembered, IsMemory, Recorded
<1>4. j.dir = RootDirs[r] /\ j.path = <<>>
  <2>1. ScanAt(r, <<>>, 0).dir = RootDirs[r] /\ ScanAt(r, <<>>, 0).path = <<>> /\ Len(<<>>) = 0
    BY DEF ScanAt
  <2>2. j.root = r /\ Recorded(scans, c)
    BY <1>1, <1>2 DEF Remembered
  <2>. QED
    BY <1>1, <1>2, <2>1, <2>2 DEF Recorded
<1>5. j.parent = NoContainer
  <2>1. SUFFICES ASSUME j.parent \in Ids PROVE FALSE
    BY <1>3
  <2>2. PICK i, p, a : i = scans[j.parent].job /\ p = PathOf(i) /\ a = j.name
    OBVIOUS
  <2>3. i \in Job
    BY <2>1, <2>2 DEF Remembered, IsMemory
  <2>4. p \in Seq(Label) /\ p # <<>> /\ a \in Label
    BY <1>3, <2>2, <2>3, PathOfJob DEF Job
  <2>5. PathOf(j) = Append(p, a)
    BY <1>3, <2>1, <2>2 DEF Place
  <2>6. PathOf(j) = <<r>>
    <3>1. <<r>> \o <<>> = <<r>>
      OBVIOUS
    <3>. QED
      BY <1>1, <1>2, <1>4, <3>1 DEF PathOf
  <2>7. Len(Append(p, a)) = Len(p) + 1 /\ Len(p) \in Nat /\ Len(p) # 0
    BY <2>4
  <2>8. Len(<<r>>) = 1
    OBVIOUS
  <2>. QED
    BY <2>5, <2>6, <2>7, <2>8
<1>6. Done(scans, c)
  OBVIOUS
<1>. QED
  BY <1>2, <1>4, <1>5, <1>6 DEF Done

\* The faults of the file system are settled at the start.
LEMMA FaultsStay ==
    ASSUME [Next]_vars
    PROVE  UNCHANGED fsVars
<1>1. ASSUME NEW w \in Workers, Worker(w) PROVE UNCHANGED fsVars
  BY <1>1 DEF Worker, NextJob, Enumerate, LoadCancel, TryPush, MarkOpen, Scan, Descend, Launch,
     NotifyOne, Release, Cascade, EmitEnds, PushEnd, StashError, RaiseFatal, WorkerCancel,
     WorkerHalt, WorkerWake, CompleteJob
<1>2. CASE Coordinator \/ SqThread \/ Client \/ UNCHANGED vars
  BY <1>2 DEF Coordinator, Join, Close, PushLeftover, Conclude, PushCause, PushTerminal, Finish,
     SqThread, SqCheck, SqDrain, SqServe, SqHalt, SqWake, Client, ClientPop, ClientSubmit,
     DropHandle, Dropping, DropHalt, DropWake, DropDrain, DropJoin, Gone, vars
<1>. QED
  BY <1>1, <1>2 DEF Next

\* So are the trails, and with them the bounds of the instance.
LEMMA SameBounds ==
    ASSUME UNCHANGED fsVars
    PROVE  /\ ShallowEnough' <=> ShallowEnough
           /\ OneWayIn' <=> OneWayIn
           /\ Roomy' <=> Roomy
<1>1. \A r, trail : IsTrail(Wanted, r, trail)' <=> IsTrail(Wanted, r, trail)
  BY SameTrails
<1>2. Ways' = Ways
  BY <1>1 DEF Ways
<1>3. Walk(Wanted)' = Walk(Wanted)
  BY <1>1 DEF Walk
<1>. QED
  BY <1>1, <1>2, <1>3 DEF ShallowEnough, OneWayIn, Roomy

\* A walk that ends Completed has told the client all that the query asks for, each report once,
\* and opened every referenced root (spawn, engine.rs:659): no scan is lost between the stack and the
\* workers, no entry between a listing and the ring, however workers interleave and a full ring
\* makes them start an emit over.  It holds of the file systems where no trail is longer than the
\* walk of reference goes and no link's identity is reached in two ways.
THEOREM CompletenessCorrect == Spec /\ ShallowEnough /\ OneWayIn => []CompletedIsComplete
<1> DEFINE Inv == \E tree : StreamInv(tree)
           Wholes == (\E scans : Walked(scans) /\ Whole(scans)) /\ Concluded
<1>1. IInv /\ Inv /\ Wholes /\ NothingTwice => (ShallowEnough /\ OneWayIn => CompletedIsComplete)
  <2> SUFFICES ASSUME IInv, NEW tree, StreamInv(tree), NEW scans, Walked(scans), Whole(scans),
                      Concluded, NothingTwice, ShallowEnough, OneWayIn, terminal = "Completed"
               PROVE  /\ got = SetToBag(Expected)
                      /\ \A r \in Referenced : RootDirs[r] \notin denied
    BY DEF CompletedIsComplete
  <2>1. /\ \A c \in Ids : Done(scans, c)
        /\ Said(scans) = BagToSet(got)
        /\ \A id \in visited : \E d \in Ids : Follows(scans[d].trail, id)
    BY AtRest
  <2>2. Remembered(scans) /\ Rooted(scans) /\ NothingUnasked /\ NoContainer \notin Ids
    BY NoneIsNoId DEF Walked, Whole, IInv
  <2>3. \A n \in Nat : \A r \in Referenced : \A trail \in [1..n -> Listed] :
          IsTrail(Wanted, r, trail) => HasScan(scans, r, trail)
    BY <2>1, <2>2, EveryTrailHasScan
  <2>4. Expected \subseteq DOMAIN got
    <3>1. \A report \in Expected : report \in Said(scans)
      BY <2>1, <2>2, <2>3, ExpectedIsSaid
    <3>. QED
      BY <2>1, <3>1 DEF BagToSet
  <2>5. DOMAIN got \subseteq Expected
    BY <2>2, AskedIsExpected DEF NothingUnasked, BagToSet
  <2>6. \A r \in DOMAIN got : got[r] = 1
    BY DEF NothingTwice, BagToSet
  <2>7. got = SetToBag(Expected)
    <3>1. PICK E : E = Expected
      OBVIOUS
    <3>2. got = [r \in E |-> 1]
      BY <2>4, <2>5, <2>6, <3>1 DEF Concluded
    <3>. QED
      BY <3>1, <3>2 DEF SetToBag
  <2>8. \A r \in Referenced : RootDirs[r] \notin denied
    BY <2>1, <2>2, RootsWereOpened
  <2>. QED
    BY <2>7, <2>8
<1>2. ShallowEnough /\ OneWayIn /\ [Next]_vars => (ShallowEnough /\ OneWayIn)'
  BY FaultsStay, SameBounds
<1> HIDE DEF Inv, Wholes
<1>3. Spec => []Inv
  BY StreamInvariance DEF Inv
<1>4. Spec => []Wholes
  BY WholeInvariance DEF Wholes
<1>. QED
  BY <1>1, <1>2, <1>3, <1>4, Invariance, OnceCorrect, PTL DEF Spec

\* Each scan has a trail of its own: the walk creates no container that the sequential one does
\* not (launch_child, engine.rs:213), so a link that leads back up does not make it endless.
THEOREM BoundCorrect == Spec /\ ShallowEnough /\ Roomy => []WalkIsBounded
<1> DEFINE Singles == \E scans : Walked(scans) /\ Single(scans)
<1>1. IInv /\ Singles /\ ShallowEnough /\ Roomy => WalkIsBounded
  <2> SUFFICES ASSUME IInv, NEW scans, Walked(scans), Single(scans), ShallowEnough, Roomy
               PROVE  WalkIsBounded
    OBVIOUS
  <2>1. PICK W, m : W = Walk(Wanted) /\ m = Cardinality(W)
    OBVIOUS
  <2>2. IsFiniteSet(W) /\ m \in Nat /\ m <= MaxContainers
    BY <2>1, FS_CardinalityType DEF Roomy
  <2>3. PICK f : f = [c \in Ids |-> ScanAt(scans[c].job.root, scans[c].trail, Len(scans[c].trail))]
    OBVIOUS
  <2>4. Remembered(scans) /\ Apart(scans)
    BY DEF Walked, Single
  <2>5. ASSUME NEW c \in Ids
        PROVE  f[c] \in W /\ f[c].path = scans[c].job.path /\ f[c].root = scans[c].job.root
    <3>1. PICK r, trail, n : r = scans[c].job.root /\ trail = scans[c].trail /\ n = Len(trail)
      OBVIOUS
    <3>2. /\ r \in Referenced /\ IsTrail(Wanted, r, trail) /\ n \in Nat
          /\ trail \in [1..n -> Listed]
          /\ f[c] = ScanAt(r, trail, n)
          /\ f[c].path = scans[c].job.path /\ f[c].root = scans[c].job.root
      BY <2>3, <2>4, <3>1, ScanOfTrail
    <3>3. n \in 0..MaxDepth
      BY <3>2, NoLongTrail, BoundsAssumption
    <3>4. PICK way : way = <<r, trail>>
      OBVIOUS
    <3>5. way \in Referenced \X Trails /\ way[1] = r /\ way[2] = trail
      BY <3>2, <3>3, <3>4 DEF Trails
    <3>. QED
      BY <2>1, <3>1, <3>2, <3>5 DEF Walk
  <2>6. f \in [Ids -> W]
    BY <2>3, <2>5
  <2>7. ASSUME NEW c \in Ids, NEW d \in Ids, f[c] = f[d] PROVE c = d
    <3>1. PathOf(scans[c].job) = PathOf(scans[d].job)
      BY <2>5, <2>7 DEF PathOf
    <3>. QED
      BY <2>4, <3>1 DEF Apart
  <2>8. nextId \in Nat \ {0} /\ IsFiniteSet(Ids) /\ Cardinality(Ids) = nextId - 1
    <3>1. nextId \in Nat \ {0}
      BY DEF IInv, Types, SharedTypes
    <3>2. IsFiniteSet(1..(nextId - 1)) /\ Cardinality(1..(nextId - 1)) = nextId - 1
      BY <3>1, FS_Interval
    <3>. QED
      BY <3>1, <3>2 DEF Ids
  <2>9. SUFFICES ASSUME m < Cardinality(Ids) PROVE FALSE
    BY <2>2, <2>8, BoundsAssumption DEF WalkIsBounded
  <2>10. \E c, d \in Ids : c # d /\ f[c] = f[d]
    BY <2>1, <2>2, <2>6, <2>8, <2>9, FS_PigeonHole
  <2>. QED
    BY <2>7, <2>10
<1>2. ShallowEnough /\ Roomy /\ [Next]_vars => (ShallowEnough /\ Roomy)'
  BY FaultsStay, SameBounds
<1> HIDE DEF Singles
<1>3. Spec => []Singles
  BY SingleInvariance DEF Singles
<1>. QED
  BY <1>1, <1>2, <1>3, Invariance, PTL DEF Spec

\* So the stream keeps its contract on every instance whose bounds the walk fits in, whatever
\* the workers, the ring, a cancel or a fault do.
THEOREM BoundedContractCorrect == Spec /\ ShallowEnough /\ Roomy => StreamContract
  BY BoundCorrect, ContractCorrect, PTL
=============================================================================
