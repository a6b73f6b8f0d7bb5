------------------------------ MODULE Enumerate ------------------------------
(***************************************************************************)
(* Reading one directory (src/crates/globazog/src/sys.rs) with the backend *)
(* of Linux (names and their d_type first, then a statx of just the        *)
(* entries that need one), of Windows (batches of complete records) or the *)
(* portable one (std's ReadDir, a name and its metadata at a time), under  *)
(* the plan the engine derives from a query. Meanwhile entries vanish and  *)
(* reads fail.                                                             *)
(***************************************************************************)
EXTENDS Predicate, NativeNames

CONSTANTS
    Scenes,         \* what is read, see `scene`
    Needles,        \* names to look for in the names read
    MinI64, MaxI64, \* the ends of the signed times
    NanosPerSec,
    NanosPerTick,
    Epoch           \* the ticks of a FILETIME at the Unix epoch

VARIABLES
    scene,      \* backend; query [emit: a set of conjunctions, descend, shape, follow, cycles];
                \* spelling: the names listed; disk: the files of those but `.` and `..`;
                \* serial: the volume tells its serial number
    gone,       \* the names removed since
    phase,      \* "list", "stat", "ok" or "err"
    unlisted,   \* names the listing has not given yet
    names,      \* Linux: names listed and not yet handled, with their d_type
    entries,    \* the entries read
    errors      \* the names that failed; NoName for a fault of the directory

vars == <<scene, gone, phase, unlisted, names, entries, errors>>

\* A file is [kind, typed: the listing tells its type, size, mtime, atime, ctime, btime, inode];
\* the inode is 0 where statx does not report one, a time is <<sec, nsec>>, on Windows <<ticks>>,
\* and <<>> where the file system keeps none (on Windows, no ticks). A link may be to a directory
\* or to a file.
Links == {"dirlink", "filelink"}

Query == scene.query
File(n) == scene.disk[n]
Spelling(n) == scene.spelling[n]
Listed == DOMAIN scene.spelling
OnWindows == scene.backend = "windows"
Decoded(n) == DecodeName(scene.backend, Spelling(n))

NoName == <<>>

\* `.` and `..`, as bytes or units
IsDotEntry(spelling) == spelling \in {<<46>>, <<46, 46>>}

\* What a conjunction may test of an entry; its depth is the engine's to know.
LeafTests == {"name", "nameInSet", "type", "reparse", "tag", "allSet", "allClear", "size"} \cup Times

\* <<sec, nsec>>, and <<ticks>> on Windows, not zero: the first is a signed word.
IsTime(backend, t) ==
    t # <<>> => /\ t[1] \in MinI64..MaxI64
                /\ IF backend = "windows" THEN t[1] # 0 ELSE t[2] \in 0..(NanosPerSec - 1)

\* A directory lists each file under a name of its own, in units or in bytes.
NativeUnits(backend) == {u \in Nat : u < (IF backend = "windows" THEN 65536 ELSE 256)}
ASSUME NamesAssumption ==
    \A s \in Scenes :
        /\ IsFiniteSet(DOMAIN s.spelling)
        /\ DOMAIN s.disk = {n \in DOMAIN s.spelling : ~IsDotEntry(s.spelling[n])}
        /\ \A n \in DOMAIN s.disk : s.spelling[n] \in Seq(NativeUnits(s.backend)) \ {<<>>}
        /\ \A m, n \in DOMAIN s.disk : s.spelling[m] = s.spelling[n] => m = n
ASSUME ScenesAssumption ==
    \A s \in Scenes :
        /\ s.backend \in {"linux", "portable", "windows"}
        /\ s.query.shape \subseteq Fields
        /\ \A c \in s.query.emit \cup {s.query.descend} : \A leaf \in c : leaf.is \in LeafTests
        /\ \A n \in DOMAIN s.disk : /\ s.disk[n].kind # "unknown"
                                   /\ \A field \in Times : IsTime(s.backend, s.disk[n][field])
MaxChar == 1114111      \* char::MAX

\* Needles are texts; a dot is a dot in any case (upcase.rs maps it to itself, and nothing else).
ASSUME NeedlesAssumption ==
    /\ Needles \subseteq Seq(Nat)
    /\ \A cp \in 0..MaxChar : Fold(cp) = Fold(46) => cp = 46
ASSUME TimesAssumption ==
    /\ MinI64 \in Int /\ MaxI64 \in Int /\ MinI64 <= 0 /\ 0 <= MaxI64
    /\ NanosPerSec \in Nat /\ NanosPerTick \in Nat /\ Epoch \in 0..MaxI64

Plan(q) ==
    [wantStat |-> FetchMask(q) \cap StatFields # {},
     wantFileId |-> FALSE,
     wantReparseFileId |-> q.cycles /\ q.follow]

WantsAnyFileId(plan) == plan.wantFileId \/ plan.wantReparseFileId

WantsFileIdFor(plan, isReparse) == plan.wantFileId \/ (isReparse /\ plan.wantReparseFileId)

-----------------------------------------------------------------------------
(* Times *)

Clamped(t) == IF t < MinI64 THEN MinI64 ELSE IF t > MaxI64 THEN MaxI64 ELSE t

\* What a difference of two signed words makes where it does not fit one: it leaves the range by
\* less than its width. (A build that checks for overflows panics instead.)
Wrapped(t) ==
    LET width == MaxI64 - MinI64 + 1
    IN IF t < MinI64 THEN t + width ELSE IF t > MaxI64 THEN t - width ELSE t

\* Mutant: the product wraps around.
WrappingTime(t) ==
    LET width == MaxI64 - MinI64 + 1
    IN IF t = <<>> THEN 0
       ELSE Clamped(((t[1] * NanosPerSec - MinI64) % width) + MinI64 + t[2])

\* Saturates twice: the product, then the sum.
StatxTime(t) == IF t = <<>> THEN 0 ELSE Clamped(Clamped(t[1] * NanosPerSec) + t[2])

Nanos(t) == IF t = <<>> THEN 0 ELSE Clamped(t[1] * NanosPerSec + t[2])

\* The difference is unchecked, the product saturates.
FiletimeToUnixNanos(t) ==
    IF t = <<>> THEN 0 ELSE Clamped(Wrapped(t[1] - Epoch) * NanosPerTick)

-----------------------------------------------------------------------------
(* Building an entry *)

Volume == 3
Unknown == <<0, 0>>     \* the volume and the file's number are zero together

Type(kind) == IF kind \in {"dir", "file"} THEN kind ELSE "other"

\* d_type, or a file type: a link is a link whatever it leads to.
DType(file) == IF file.typed THEN file.kind ELSE "unknown"

\* An entry of which the listing alone is known.
BareEntry(n, kind) ==
    [name |-> Decoded(n), type |-> Type(kind), reparse |-> kind \in Links, tag |-> 0,
     attrs |-> {}, size |-> 0, mtime |-> 0, atime |-> 0, ctime |-> 0, btime |-> 0,
     id |-> Unknown]

LinuxEntry(n) ==
    [BareEntry(n, File(n).kind) EXCEPT
        !.size = File(n).size, !.mtime = StatxTime(File(n).mtime),
        !.atime = StatxTime(File(n).atime), !.ctime = StatxTime(File(n).ctime),
        !.btime = StatxTime(File(n).btime),
        !.id = IF File(n).inode = 0 THEN Unknown ELSE <<Volume, File(n).inode>>]

PortableEntry(n) ==
    [BareEntry(n, File(n).kind) EXCEPT
        !.size = File(n).size, !.mtime = Nanos(File(n).mtime), !.atime = Nanos(File(n).atime),
        !.ctime = StatxTime(File(n).ctime), !.btime = Nanos(File(n).btime),
        !.id = <<Volume, File(n).inode>>]

\* FILE_ATTRIBUTE_*
Attributes(file) ==
    (IF file.kind \in {"dir", "dirlink"} THEN {"directory"} ELSE {})
        \cup (IF file.kind \in Links THEN {"reparse"} ELSE {})
TagOf(file) == IF file.kind \in Links THEN 5 ELSE 0

\* Mutant: the volume counts as zero when it is not told.
VolumeOrZero(plan) == IF scene.serial THEN {Volume} ELSE {0}

\* The volume serial: asked for with any identity, and perhaps refused.
VolumeSerial(plan) == IF WantsAnyFileId(plan) /\ scene.serial THEN {Volume} ELSE {}

WindowsEntry(n, plan) ==
    LET attrs == Attributes(File(n))
        reparse == "reparse" \in attrs
        ids == {<<v, File(n).inode>> : v \in {v \in VolumeSerial(plan) :
                                                 WantsFileIdFor(plan, reparse)}}
    IN [name |-> Decoded(n), type |-> IF "directory" \in attrs THEN "dir" ELSE "file",
        reparse |-> reparse, tag |-> TagOf(File(n)), attrs |-> attrs, size |-> File(n).size,
        mtime |-> FiletimeToUnixNanos(File(n).mtime),
        atime |-> FiletimeToUnixNanos(File(n).atime),
        ctime |-> FiletimeToUnixNanos(File(n).ctime),
        btime |-> FiletimeToUnixNanos(File(n).btime),
        id |-> IF ids = {} THEN Unknown ELSE CHOOSE id \in ids : TRUE]

-----------------------------------------------------------------------------
Init ==
    /\ scene \in Scenes
    /\ gone = {}
    /\ phase = "list"
    /\ unlisted = Listed
    /\ names = <<>>
    /\ entries = {} /\ errors = <<>>

\* The directory cannot be opened.
OpenFails ==
    /\ phase = "list" /\ unlisted = Listed /\ errors = <<>>
    /\ phase' = "err"
    /\ UNCHANGED <<scene, gone, unlisted, names, entries, errors>>

\* Another process removes a file.
Vanish ==
    /\ phase \in {"list", "stat"}
    /\ \E n \in DOMAIN scene.disk \ gone : gone' = gone \cup {n}
    /\ UNCHANGED <<scene, phase, unlisted, names, entries, errors>>

-----------------------------------------------------------------------------
(* Linux: getdents64, then statx *)

\* getdents gives the next name still there, in any order.
ReadName ==
    /\ scene.backend = "linux" /\ phase = "list"
    /\ \E n \in unlisted \ gone :
         /\ names' = IF IsDotEntry(Spelling(n)) THEN names
                     ELSE Append(names, [name |-> n, dtype |-> DType(File(n))])
         /\ unlisted' = unlisted \ {n}
    /\ UNCHANGED <<scene, gone, phase, entries, errors>>

\* Mutant: a failure ends the listing as if it were complete.
ReadFailsSilently ==
    /\ scene.backend = "linux" /\ phase = "list"
    /\ phase' = IF names = <<>> THEN "err" ELSE "stat"
    /\ UNCHANGED <<scene, gone, unlisted, names, entries, errors>>

\* getdents fails: without any name the enumeration fails, else it keeps what it has.
ReadFails ==
    /\ scene.backend = "linux" /\ phase = "list"
    /\ IF names = <<>> THEN phase' = "err" /\ UNCHANGED errors
                       ELSE phase' = "stat" /\ errors' = Append(errors, NoName)
    /\ UNCHANGED <<scene, gone, unlisted, names, entries>>

ReadEnds ==
    /\ scene.backend = "linux" /\ phase = "list" /\ unlisted \ gone = {}
    /\ phase' = "stat"
    /\ UNCHANGED <<scene, gone, unlisted, names, entries, errors>>

\* Mutant: an entry that vanished before its statx is skipped without a word.
StatOneOrSkip ==
    /\ phase = "stat" /\ names # <<>>
    /\ names' = Tail(names)
    /\ LET n == Head(names).name
       IN entries' = IF n \in gone THEN entries ELSE entries \cup {LinuxEntry(n)}
    /\ UNCHANGED <<scene, gone, phase, unlisted, errors>>

\* One turn of the second loop: statx only where the plan or the d_type asks for it.
StatOne ==
    /\ phase = "stat" /\ names # <<>>
    /\ names' = Tail(names)
    /\ LET n == Head(names).name
           dtype == Head(names).dtype
           needStat == \/ Plan(Query).wantStat
                       \/ WantsFileIdFor(Plan(Query), dtype \in Links)
                       \/ dtype = "unknown"
       IN \/ /\ ~needStat
             /\ entries' = entries \cup {BareEntry(n, dtype)}
             /\ UNCHANGED errors
          \/ /\ needStat /\ n \notin gone
             /\ entries' = entries \cup {LinuxEntry(n)}
             /\ UNCHANGED errors
          \/ /\ needStat
             /\ errors' = Append(errors, Decoded(n))     \* it vanished, or statx failed
             /\ UNCHANGED entries
    /\ UNCHANGED <<scene, gone, phase, unlisted>>

StatEnds ==
    /\ phase = "stat" /\ names = <<>>
    /\ phase' = "ok"
    /\ UNCHANGED <<scene, gone, unlisted, names, entries, errors>>

-----------------------------------------------------------------------------
(* Windows: GetFileInformationByHandleEx *)

ReadBatch ==
    /\ OnWindows /\ phase = "list"
    /\ \E batch \in SUBSET (unlisted \ gone) \ {{}} :
         /\ entries' = entries \cup {WindowsEntry(n, Plan(Query)) :
                                         n \in {m \in batch : ~IsDotEntry(Spelling(m))}}
         /\ unlisted' = unlisted \ batch
    /\ UNCHANGED <<scene, gone, phase, names, errors>>

BatchFails ==
    /\ OnWindows /\ phase = "list"
    /\ IF entries = {} THEN phase' = "err" /\ UNCHANGED errors
                       ELSE phase' = "ok" /\ errors' = Append(errors, NoName)
    /\ UNCHANGED <<scene, gone, unlisted, names, entries>>

-----------------------------------------------------------------------------
(* Portable: fs::read_dir, which leaves `.` and `..` out *)

ReadOneEntry ==
    /\ scene.backend = "portable" /\ phase = "list"
    /\ \E n \in {m \in unlisted \ gone : ~IsDotEntry(Spelling(m))} :
         LET needStat == \/ Plan(Query).wantStat
                         \/ WantsFileIdFor(Plan(Query), File(n).kind \in Links)
         IN /\ unlisted' = unlisted \ {n}
            /\ \/ /\ entries' = entries \cup {IF needStat THEN PortableEntry(n)
                                                          ELSE BareEntry(n, File(n).kind)}
                  /\ UNCHANGED errors
               \/ /\ needStat \/ ~File(n).typed          \* file_type or metadata fails
                  /\ errors' = Append(errors, Decoded(n))
                  /\ UNCHANGED entries
    /\ UNCHANGED <<scene, gone, phase, names>>

\* The iterator fails: one error without a name, and after it the iterator has ended.
IterationFails ==
    /\ scene.backend = "portable" /\ phase = "list"
    /\ phase' = "ok" /\ errors' = Append(errors, NoName)
    /\ UNCHANGED <<scene, gone, unlisted, names, entries>>

\* ERROR_NO_MORE_FILES, or the end of the iterator
ListingEnds ==
    /\ OnWindows \/ scene.backend = "portable"
    /\ phase = "list" /\ \A n \in unlisted \ gone : ~OnWindows /\ IsDotEntry(Spelling(n))
    /\ phase' = "ok"
    /\ UNCHANGED <<scene, gone, unlisted, names, entries, errors>>

-----------------------------------------------------------------------------
Done == phase \in {"ok", "err"} /\ UNCHANGED vars

Next ==
    \/ OpenFails \/ Vanish
    \/ ReadName \/ ReadFails \/ ReadEnds \/ StatOne \/ StatEnds
    \/ ReadBatch \/ BatchFails
    \/ ReadOneEntry \/ IterationFails
    \/ ListingEnds
    \/ Done

Spec == Init /\ [][Next]_vars

-----------------------------------------------------------------------------
(* Properties *)

Files == DOMAIN scene.disk
Failed == ToSet(errors)

\* The entry of n with everything fetched that its backend can tell.
Full(n) ==
    CASE scene.backend = "linux" -> LinuxEntry(n)
      [] scene.backend = "portable" -> PortableEntry(n)
      [] OnWindows -> WindowsEntry(n, [wantFileId |-> TRUE])

FileOf(e) == CHOOSE n \in Files : Decoded(n) = e.name

\* Each name the listing gave ends as one entry or as one error, never as both or neither:
\* one failed statx does not cost its siblings (D-53).
AccountsForEachName ==
    phase = "ok" =>
        /\ {Decoded(n) : n \in Files \ unlisted} = {e.name : e \in entries} \cup (Failed \ {NoName})
        /\ Cardinality(Files \ unlisted) + (IF NoName \in Failed THEN 1 ELSE 0) =
               Cardinality(entries) + Len(errors)

\* A name missing from a successful listing vanished, or an error tells that the listing
\* was cut short; a failed enumeration has read nothing.
NoSilentTruncation ==
    /\ phase = "ok" => Files \cap unlisted \subseteq gone \/ NoName \in Failed
    /\ phase = "err" => Files \subseteq unlisted /\ entries = {} /\ errors = <<>>

\* The lazy fetch changes no decision: each conjunction of the query holds of an entry as
\* read exactly when it holds of the entry with everything fetched, and the fields a match
\* says are present carry their values (D-62).
LazyFetchIsSound ==
    \A e \in entries :
        LET full == Full(FileOf(e)) IN
        /\ \A c \in Query.emit \cup {Query.descend} : EvalAll(c, e) <=> EvalAll(c, full)
        /\ \A f \in FetchMask(Query) : e[f] = full[f]

\* A link the walk may follow under cycle detection comes with the identity the visited set
\* needs whenever the system tells it, and no entry with half of one: a number without its
\* volume would be taken for another file's (D-51).
FollowedLinkHasIdentity ==
    \A e \in entries :
        \/ e.id = <<Volume, File(FileOf(e)).inode>>
        \/ /\ e.id = Unknown
           /\ Query.follow /\ Query.cycles /\ e.reparse =>
                  IF OnWindows THEN ~scene.serial ELSE File(FileOf(e)).inode = 0

\* Encoding a decoded name spells the file it was read from, however ill-formed, and tells no
\* two files apart wrongly: the engine opens the directory that was listed, and never `.` or `..`
\* (D-46 "reversible").
NamesOpenThemselves ==
    \A e \in entries : \E n \in Files :
        EncodeName(scene.backend, e.name) = Spelling(n) /\ Spelling(n) \notin {<<46>>, <<46, 46>>}

\* The nanoseconds a native time stands for, without a bound.
Exact(t) == IF OnWindows THEN (t[1] - Epoch) * NanosPerTick ELSE t[1] * NanosPerSec + t[2]

\* What the code reports of times far before 1970 is not where they lie: Linux, and the portable
\* backend of a change time, add the fraction to a second that was already cut off; Windows
\* subtracts the epoch from ticks that are too few.
SaturatesTwice(field) ==
    \/ scene.backend = "linux"
    \/ scene.backend = "portable" /\ field = "ctime"

Misread(field, t) ==
    \/ SaturatesTwice(field) /\ t[1] * NanosPerSec < MinI64 /\ t[2] # 0
    \/ OnWindows /\ t[1] - Epoch < MinI64

\* A time lies outside the signed range or not: it is reported as its nanoseconds, cut off at the
\* nearer end (sys.rs:251-253 "saturate rather than wrap, matching the native backends").
TimesSaturate ==
    \A e \in entries, field \in Times :
        LET t == File(FileOf(e))[field]
        IN Plan(Query).wantStat /\ t # <<>> => e[field] = Clamped(Exact(t))

\* Of two files the older is never reported as the newer, and a time within the range is exact,
\* unless the time is one that the backend misreads; of those that Linux and the portable backend
\* misread, as of all their times, the report is late by less than a second (statx_time, nanos,
\* filetime_to_unix_nanos).
TimesKeepOrder ==
    \A e, f \in entries, field \in Times :
        LET s == File(FileOf(e))[field]
            t == File(FileOf(f))[field]
        IN Plan(Query).wantStat /\ s # <<>> /\ t # <<>> =>
               /\ ~Misread(field, s) /\ ~Misread(field, t) =>
                      /\ Exact(s) <= Exact(t) => e[field] <= f[field]
                      /\ Exact(s) \in MinI64..MaxI64 => e[field] = Exact(s)
               /\ ~OnWindows => e[field] - Clamped(Exact(s)) \in 0..(NanosPerSec - 1)

\* What the name conditions say, in terms of the parts of a name.
SameText(a, b, case) == Len(a) = Len(b) /\ \A i \in DOMAIN a : CpEq(a[i], b[i], case)
NameLeavesMean ==
    \A e \in entries, needle \in Needles, case \in {Sensitive, Insensitive} :
        LET Part(i, k) == SubSeq(e.name, i, k) IN
        /\ EvalLeaf(NameExact(needle, case), e) <=> SameText(e.name, needle, case)
        /\ EvalLeaf(NameContains(needle, case), e) <=>
               \E i \in 1..(Len(e.name) - Len(needle) + 1) :
                   SameText(Part(i, i + Len(needle) - 1), needle, case)
        /\ EvalLeaf(NameExtension(46, needle, case), e) <=>
               \E i \in DOMAIN e.name :
                   e.name[i] = 46 /\ SameText(Part(i + 1, Len(e.name)), needle, case)
=============================================================================
