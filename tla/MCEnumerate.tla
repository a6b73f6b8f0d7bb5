---------------------------- MODULE MCEnumerate ----------------------------
(***************************************************************************)
(* Directories read by each backend: two files and the dot entry under     *)
(* small queries, one file of any short name, two files of any two times.  *)
(* An i64 has eight bits, a second ten nanoseconds, a tick two.            *)
(***************************************************************************)
EXTENDS Enumerate, TLC

LeastI64 == -128
Backends == {"linux", "portable", "windows"}
Upper(cp) == IF cp = 97 THEN 65 ELSE cp
SomeNeedles == {<<97>>, <<65, 97>>}

\* No field of a file is 0, so that a field left at 0 shows.
Timed(kind, typed, inode, time) ==
    [kind |-> kind, typed |-> typed, size |-> 1, mtime |-> time, atime |-> time, ctime |-> time,
     btime |-> time, inode |-> inode]
OnDisk(backend, kind, typed, inode) ==
    Timed(kind, typed, inode, IF backend = "windows" THEN <<4>> ELSE <<0, 1>>)

-----------------------------------------------------------------------------
(* Small queries *)

Sized == [is |-> "size", op |-> "gt", value |-> 0]
IsDir == [is |-> "type", type |-> "dir", negate |-> FALSE]
Leaves ==
    {Sized, IsDir,
     [is |-> "mtime", op |-> "gt", value |-> 0], [is |-> "btime", op |-> "ne", value |-> 0],
     [is |-> "reparse", negate |-> TRUE], [is |-> "tag", tag |-> 5, negate |-> FALSE],
     [is |-> "allSet", mask |-> {"directory"}], [is |-> "allClear", mask |-> {"reparse"}],
     [NameExact(<<120>>, Sensitive) EXCEPT !.negate = TRUE],
     NameInSet({<<121>>, <<122>>}, Insensitive)}

Asking(emit, descend, shape) ==
    {q \in [emit : {emit}, descend : {descend}, shape : {shape}, follow : BOOLEAN,
            cycles : BOOLEAN] : q.cycles => q.follow}
Plain == [emit |-> {{}}, descend |-> {}, shape |-> {}, follow |-> FALSE, cycles |-> FALSE]
SmallQueries ==
    Asking({{}}, {}, {}) \cup Asking({{}}, {}, {"ctime"}) \cup Asking({{IsDir}}, {}, {"atime"})
      \cup UNION {Asking({{leaf}, {}}, {}, {}) : leaf \in Leaves}
      \cup UNION {Asking({{}}, {leaf}, {}) : leaf \in {Sized, IsDir}}

-----------------------------------------------------------------------------
(* Scenes *)

Scene(backend, query, spelling, disk, serial) ==
    [backend |-> backend, query |-> query, spelling |-> spelling, disk |-> disk,
     serial |-> serial]

\* Links of both kinds, a d_type that is missing, an inode that is not reported.
FilesOf(backend) ==
    {OnDisk(backend, k, TRUE, 7) : k \in {"dir", "dirlink"}}
      \cup (CASE backend = "linux" -> {OnDisk(backend, "dir", FALSE, 7),
                                       OnDisk(backend, "filelink", FALSE, 7),
                                       OnDisk(backend, "filelink", TRUE, 0),
                                       OnDisk(backend, "other", TRUE, 7)}
             [] backend = "portable" -> {OnDisk(backend, "filelink", FALSE, 7)}
             [] backend = "windows" -> {OnDisk(backend, "filelink", TRUE, 7)})

Listings ==
    UNION {{Scene(b, q, ("x" :> <<120>>) @@ ("y" :> <<121>>) @@ ("." :> <<46>>),
                  ("x" :> f) @@ ("y" :> OnDisk(b, "file", TRUE, 8)), serial) :
                q \in SmallQueries, f \in FilesOf(b),
                serial \in IF b = "windows" THEN BOOLEAN ELSE {TRUE}} :
           b \in Backends}

\* `.`, letters, and the leads, continuations and surrogates that decoding tells apart.
Units == {46, 65, 97, 55296, 56319, 56320, 57343}
Bytes == {46, 65, 97, 195, 169, 226, 130, 237, 240, 159, 255}
UpToThree(S) == {<<a>> : a \in S} \cup {<<a, b>> : a, b \in S} \cup {<<a, b, c>> : a, b, c \in S}
Spellings(backend) ==
    IF backend = "windows" THEN UpToThree(Units)
    ELSE UpToThree(Bytes) \cup {<<240, 159, b, c>> : b, c \in Bytes}

Spelled ==
    UNION {{Scene(b, Plain, ("x" :> name) @@ (".." :> <<46, 46>>),
                  "x" :> OnDisk(b, "file", TRUE, 7), TRUE) :
                name \in {s \in Spellings(b) : ~IsDotEntry(s)}} :
           b \in Backends}

\* Times at both ends of the range, beyond them and at the epoch, and of the ticks the fewest.
SomeTimes(backend) ==
    IF backend = "windows" THEN {<<n>> : n \in {-128, -126, -125, -60, 1, 3, 66, 67, 90}} \cup {<<>>}
    ELSE {<<-20, 0>>, <<-20, 9>>, <<-13, 0>>, <<-13, 5>>, <<-12, 0>>, <<-12, 9>>, <<-1, 9>>,
          <<0, 0>>, <<12, 7>>, <<12, 8>>, <<14, 3>>, <<>>}
ByTime == [Plain EXCEPT !.shape = Times]

Timings ==
    UNION {{Scene(b, ByTime, ("x" :> <<120>>) @@ ("y" :> <<121>>),
                  ("x" :> Timed("file", TRUE, 7, s)) @@ ("y" :> Timed("file", TRUE, 8, t)), TRUE) :
                s, t \in SomeTimes(b)} :
           b \in Backends}

LinuxTimings == {one \in Timings : one.backend = "linux"}
SmallScenes == Listings \cup Spelled \cup Timings
=============================================================================
