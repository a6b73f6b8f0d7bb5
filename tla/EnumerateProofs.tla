--------------------------- MODULE EnumerateProofs ---------------------------
(***************************************************************************)
(* Proofs about reading a directory (sys.rs, sys/linux.rs, sys/win.rs):    *)
(* no name is lost, whatever fails and whatever vanishes, and fetching     *)
(* only what a query needs changes no decision, for every directory, query *)
(* and backend.                                                            *)
(***************************************************************************)
EXTENDS Enumerate, MatcherProofs, FiniteSetTheorems

-----------------------------------------------------------------------------
(* The books of an enumeration *)

NeedsStat(n, kind) ==
    \/ Plan(Query).wantStat
    \/ WantsFileIdFor(Plan(Query), kind \in Links)
    \/ kind = "unknown"

\* What a file is read as: the plan leaves no choice.
EntryOf(n) ==
    CASE scene.backend = "linux" -> IF NeedsStat(n, DType(File(n))) THEN LinuxEntry(n)
                                    ELSE BareEntry(n, DType(File(n)))
      [] scene.backend = "portable" -> IF NeedsStat(n, File(n).kind) THEN PortableEntry(n)
                                       ELSE BareEntry(n, File(n).kind)
      [] OnWindows -> WindowsEntry(n, Plan(Query))

Held == {n \in Files : EntryOf(n) \in entries}      \* read
Lost == {n \in Files : Decoded(n) \in Failed}       \* failed
Waiting == {names[i].name : i \in DOMAIN names}     \* listed, to be read yet

\* Each name that has been listed is read, failed or waiting, and nothing else is there.
Tally ==
    /\ \A e \in entries : \E n \in Files : e = EntryOf(n)
    /\ Failed \subseteq {Decoded(n) : n \in Files} \cup {NoName}
    /\ \A i, j \in DOMAIN errors : errors[i] = errors[j] => i = j
    /\ Held \cap Lost = {}
    /\ Held \cup Lost = Files \ (unlisted \cup Waiting)

\* The names that wait are of files, and each waits once.
Queue ==
    /\ \A i \in DOMAIN names : /\ names[i].name \in Files \ unlisted
                               /\ names[i].dtype = DType(File(names[i].name))
    /\ \A i, j \in DOMAIN names : names[i].name = names[j].name => i = j

\* What each phase finds.
Stages ==
    /\ phase = "list" =>
           /\ NoName \notin Failed
           /\ scene.backend = "linux" => entries = {} /\ errors = <<>>
           /\ scene.backend = "windows" => errors = <<>>
    /\ phase = "stat" => scene.backend = "linux"
    /\ names # <<>> => scene.backend = "linux" /\ phase \in {"list", "stat"}
    /\ phase \in {"stat", "ok"} => Files \cap unlisted \subseteq gone \/ NoName \in Failed
    /\ phase = "err" => Files \subseteq unlisted /\ entries = {} /\ errors = <<>>

Kept ==
    /\ scene \in Scenes /\ phase \in {"list", "stat", "ok", "err"}
    /\ unlisted \subseteq Listed
    /\ names \in Seq([name : Files, dtype : {DType(File(n)) : n \in Files}])
    /\ errors \in Seq({Decoded(n) : n \in Files} \cup {NoName})

IInv == Kept /\ Tally /\ Queue /\ Stages

-----------------------------------------------------------------------------
(* Names: decoding loses nothing *)

\* Joining lists of units: what is joined of the first k lists.
Joined(parts, f) ==
    \A i \in 1..Len(parts) : f[i] = IF i = 1 THEN parts[i] ELSE f[i - 1] \o parts[i]

LEMMA JoinedExists ==
    ASSUME NEW parts, NEW U, parts \in Seq(Seq(U)), Len(parts) # 0
    PROVE  \E f \in [1..Len(parts) -> Seq(U)] : Joined(parts, f)
<1>. DEFINE Part(k) == {f \in [1..k -> Seq(U)] :
                          \A i \in 1..k : f[i] = IF i = 1 THEN parts[i] ELSE f[i - 1] \o parts[i]}
            T == {k \in Nat : k <= Len(parts) => Part(k) # {}}
<1>0. Len(parts) \in Nat /\ \A i \in 1..Len(parts) : parts[i] \in Seq(U)
  BY LenProperties, ElementOfSeq
<1>1. 0 \in T
  <2>1. [i \in {} |-> <<>>] \in Part(0)
    OBVIOUS
  <2>. QED
    BY <2>1
<1>2. ASSUME NEW k \in Nat, k \in T PROVE k + 1 \in T
  <2>. SUFFICES ASSUME k + 1 <= Len(parts) PROVE Part(k + 1) # {}
    OBVIOUS
  <2>1. PICK f \in Part(k) : TRUE
    <3>1. k <= Len(parts)
      BY <1>0
    <3>. HIDE DEF Part
    <3>. QED
      BY <1>2, <3>1
  <2>. DEFINE g == [i \in 1..(k + 1) |->
                      IF i = k + 1 THEN (IF i = 1 THEN parts[i] ELSE f[i - 1] \o parts[i]) ELSE f[i]]
  <2>2. ASSUME NEW i \in 1..(k + 1)
        PROVE  g[i] = (IF i = 1 THEN parts[i] ELSE g[i - 1] \o parts[i]) /\ g[i] \in Seq(U)
    <3>1. CASE i = k + 1
      <4>1. i # 1 => i - 1 \in 1..k /\ g[i - 1] = f[i - 1] /\ f[i - 1] \in Seq(U)
        BY <2>1, <3>1
      <4>2. parts[i] \in Seq(U)
        BY <1>0
      <4>3. i # 1 => f[i - 1] \o parts[i] \in Seq(U)
        BY <4>1, <4>2, ConcatProperties
      <4>. QED
        BY <3>1, <4>1, <4>2, <4>3
    <3>2. CASE i # k + 1
      <4>1. i \in 1..k /\ g[i] = f[i] /\ (i # 1 => g[i - 1] = f[i - 1])
        BY <3>2
      <4>. QED
        BY <2>1, <4>1
    <3>. QED
      BY <3>1, <3>2
  <2>3. g \in Part(k + 1)
    BY <2>2
  <2>. QED
    BY <2>3
<1>3. Len(parts) \in T
  <2>. HIDE DEF T
  <2>. QED
    BY <1>0, <1>1, <1>2, SetInduction
<1>. QED
  BY <1>0, <1>3 DEF Joined

\* What FlattenSeq yields.
LEMMA Flattened ==
    ASSUME NEW parts, NEW U, parts \in Seq(Seq(U)), Len(parts) # 0
    PROVE  \E f \in [1..Len(parts) -> Seq(U)] :
               Joined(parts, f) /\ FlattenSeq(parts) = f[Len(parts)]
<1>. DEFINE flatten == CHOOSE f : f = [i \in 1..Len(parts) |->
                             IF i = 1 THEN parts[i] ELSE f[i - 1] \o parts[i]]
<1>0. Len(parts) \in Nat
  BY LenProperties
<1>1. PICK f \in [1..Len(parts) -> Seq(U)] : Joined(parts, f)
  BY JoinedExists
<1>2. f = [i \in 1..Len(parts) |-> IF i = 1 THEN parts[i] ELSE f[i - 1] \o parts[i]]
  BY <1>1 DEF Joined
<1>3. flatten = [i \in 1..Len(parts) |-> IF i = 1 THEN parts[i] ELSE flatten[i - 1] \o parts[i]]
  BY <1>2
<1>4. FlattenSeq(parts) = flatten[Len(parts)]
  BY DEF FlattenSeq
<1>. HIDE DEF flatten
<1>5. Joined(parts, flatten)
  BY <1>3 DEF Joined
<1>6. flatten \in [1..Len(parts) -> Seq(U)]
  <2>. DEFINE T == {k \in Nat : k + 1 \in 1..Len(parts) => flatten[k + 1] \in Seq(U)}
  <2>0. \A i \in 1..Len(parts) : parts[i] \in Seq(U)
    BY ElementOfSeq
  <2>1. 0 \in T
    BY <1>0, <1>5, <2>0 DEF Joined
  <2>2. ASSUME NEW k \in Nat, k \in T PROVE k + 1 \in T
    <3>. SUFFICES ASSUME (k + 1) + 1 \in 1..Len(parts) PROVE flatten[(k + 1) + 1] \in Seq(U)
      OBVIOUS
    <3>1. k + 1 \in 1..Len(parts) /\ (k + 1) + 1 # 1 /\ ((k + 1) + 1) - 1 = k + 1
      BY <1>0
    <3>2. flatten[k + 1] \in Seq(U) /\ parts[(k + 1) + 1] \in Seq(U)
      BY <2>0, <2>2, <3>1
    <3>3. flatten[(k + 1) + 1] = flatten[k + 1] \o parts[(k + 1) + 1]
      BY <1>5, <3>1 DEF Joined
    <3>. QED
      BY <3>2, <3>3, ConcatProperties
  <2>3. Nat \subseteq T
    <3>. HIDE DEF T
    <3>. QED
      BY <2>1, <2>2, SetInduction
  <2>4. \A i \in 1..Len(parts) : flatten[i] \in Seq(U)
    <3>1. ASSUME NEW i \in 1..Len(parts) PROVE flatten[i] \in Seq(U)
      <4>1. i - 1 \in Nat /\ (i - 1) + 1 = i
        BY <1>0
      <4>. QED
        BY <2>3, <4>1
    <3>. QED
      BY <3>1
  <2>5. DOMAIN flatten = 1..Len(parts)
    BY <1>3
  <2>6. flatten = [i \in 1..Len(parts) |-> flatten[i]]
    BY <1>3
  <2>. QED
    BY <2>4, <2>6
<1>. QED
  BY <1>4, <1>5, <1>6

LEMMA Associative ==
    ASSUME NEW U, NEW a \in Seq(U), NEW b \in Seq(U), NEW c \in Seq(U)
    PROVE  (a \o b) \o c = a \o (b \o c)
  BY ConcatAssociative

LEMMA OneElement ==
    ASSUME NEW U, NEW a \in Seq(U), Len(a) = 1
    PROVE  a = <<a[1]>>
  OBVIOUS

LEMMA TwoElements ==
    ASSUME NEW U, NEW a \in Seq(U), Len(a) = 2
    PROVE  a = <<a[1], a[2]>>
  OBVIOUS

\* FlattenSeq of a list and one more before it.
LEMMA FlattenCons ==
    ASSUME NEW U, NEW x \in Seq(U), NEW s \in Seq(Seq(U))
    PROVE  FlattenSeq(<<x>> \o s) = x \o FlattenSeq(s)
<1>5. \A b, c \in Seq(U) : (x \o b) \o c = x \o (b \o c)
  BY Associative
<1>. DEFINE parts == <<x>> \o s
<1>0. /\ parts \in Seq(Seq(U)) /\ Len(parts) = Len(s) + 1 /\ Len(s) \in Nat
      /\ parts[1] = x /\ \A i \in 1..Len(s) : parts[i + 1] = s[i] /\ s[i] \in Seq(U)
  <2>1. <<x>> \in Seq(Seq(U)) /\ Len(<<x>>) = 1 /\ <<x>>[1] = x
    OBVIOUS
  <2>2. \A i \in 1..Len(parts) : parts[i] = IF i <= 1 THEN <<x>>[i] ELSE s[i - 1]
    BY <2>1, ConcatProperties
  <2>3. Len(parts) = Len(s) + 1 /\ parts \in Seq(Seq(U)) /\ Len(s) \in Nat
    BY <2>1, ConcatProperties, LenProperties
  <2>4. ASSUME NEW i \in 1..Len(s) PROVE parts[i + 1] = s[i] /\ s[i] \in Seq(U)
    <3>1. i + 1 \in 1..Len(parts) /\ ~(i + 1 <= 1) /\ (i + 1) - 1 = i
      BY <2>3
    <3>. QED
      BY <2>2, <3>1, ElementOfSeq
  <2>. QED
    BY <2>1, <2>2, <2>3, <2>4
<1>. HIDE DEF parts
<1>1. PICK f \in [1..Len(parts) -> Seq(U)] : Joined(parts, f) /\ FlattenSeq(parts) = f[Len(parts)]
  <2>1. Len(parts) # 0
    BY <1>0
  <2>. QED
    BY <1>0, <2>1, Flattened
<1>2. f[1] = x
  BY <1>0, <1>1 DEF Joined
<1>3. CASE Len(s) = 0
  <2>1. s = <<>>
    BY <1>3, EmptySeq
  <2>2. FlattenSeq(s) = <<>>
    BY <2>1 DEF FlattenSeq
  <2>. QED
    BY <1>0, <1>1, <1>2, <1>3, <2>2, ConcatEmptySeq DEF parts
<1>4. CASE Len(s) # 0
  <2>1. PICK g \in [1..Len(s) -> Seq(U)] : Joined(s, g) /\ FlattenSeq(s) = g[Len(s)]
    BY <1>4, Flattened
  <2>. DEFINE T == {k \in Nat : k + 1 \in 1..Len(s) => f[(k + 1) + 1] = x \o g[k + 1]}
  <2>2. 0 \in T
    <3>. SUFFICES ASSUME 1 \in 1..Len(s) PROVE f[2] = x \o g[1]
      OBVIOUS
    <3>1. f[2] = f[1] \o parts[2] /\ parts[2] = s[1] /\ g[1] = s[1]
      <4>1. 2 \in 1..Len(parts) /\ 2 # 1 /\ 2 - 1 = 1 /\ 1 + 1 = 2
        BY <1>0
      <4>. QED
        BY <1>0, <1>1, <2>1, <4>1 DEF Joined
    <3>. QED
      BY <1>2, <3>1
  <2>3. ASSUME NEW k \in Nat, k \in T PROVE k + 1 \in T
    <3>. SUFFICES ASSUME (k + 1) + 1 \in 1..Len(s)
                  PROVE  f[((k + 1) + 1) + 1] = x \o g[(k + 1) + 1]
      OBVIOUS
    <3>. DEFINE i == (k + 1) + 1
    <3>1. /\ i \in 1..Len(s) /\ i - 1 = k + 1 /\ i # 1 /\ i + 1 \in 1..Len(parts)
          /\ (i + 1) - 1 = i /\ i + 1 # 1 /\ k + 1 \in 1..Len(s)
      BY <1>0
    <3>2. f[i] = x \o g[k + 1]
      BY <2>3, <3>1
    <3>. HIDE DEF i
    <3>3. f[i + 1] = f[i] \o parts[i + 1]
      BY <1>1, <3>1 DEF Joined
    <3>4. g[i] = g[k + 1] \o s[i]
      BY <2>1, <3>1 DEF Joined
    <3>5. parts[i + 1] = s[i] /\ s[i] \in Seq(U) /\ g[k + 1] \in Seq(U)
      BY <1>0, <2>1, <3>1
    <3>6. (x \o g[k + 1]) \o s[i] = x \o (g[k + 1] \o s[i])
      BY <1>5, <3>5
    <3>. QED
      BY <3>2, <3>3, <3>4, <3>5, <3>6 DEF i
  <2>4. Len(s) - 1 \in T
    <3>1. Len(s) - 1 \in Nat
      BY <1>0, <1>4
    <3>. HIDE DEF T
    <3>. QED
      BY <2>2, <2>3, <3>1, SetInduction
  <2>5. f[Len(s) + 1] = x \o g[Len(s)]
    <3>1. (Len(s) - 1) + 1 = Len(s) /\ Len(s) \in 1..Len(s)
      BY <1>0, <1>4
    <3>. QED
      BY <2>4, <3>1
  <2>. QED
    BY <1>0, <1>1, <2>1, <2>5 DEF parts
<1>. QED
  BY <1>3, <1>4

-----------------------------------------------------------------------------

\* The units of a native name.
Units16 == {u \in Nat : u < 65536}
Units8 == {u \in Nat : u < 256}

\* What they are decoded to.
Points == {cp \in Nat : cp <= 1114111}

\* One element cut out, and two.
LEMMA ShortSubSeq ==
    ASSUME NEW U, NEW s \in Seq(U), NEW k \in 1..Len(s)
    PROVE  /\ SubSeq(s, k, k) = <<s[k]>>
           /\ k + 1 \in 1..Len(s) => SubSeq(s, k, k + 1) = <<s[k], s[k + 1]>>
<1>1. Len(s) \in Nat /\ k \in Nat /\ \A i \in 1..Len(s) : s[i] \in U
  BY LenProperties, ElementOfSeq
<1>2. SubSeq(s, k, k) = <<s[k]>>
  <2>1. SubSeq(s, k, k) \in Seq(U) /\ Len(SubSeq(s, k, k)) = 1 /\ SubSeq(s, k, k)[1] = s[k]
    <3>1. k \in Int /\ \A i \in k..k : s[i] \in U
      BY <1>1
    <3>2. /\ SubSeq(s, k, k) \in Seq(U)
          /\ Len(SubSeq(s, k, k)) = IF k <= k THEN k - k + 1 ELSE 0
          /\ \A i \in 1..(k - k + 1) : SubSeq(s, k, k)[i] = s[k + i - 1]
      BY <3>1, SubSeqProperties
    <3>3. k - k + 1 = 1 /\ 1 \in 1..1 /\ k + 1 - 1 = k /\ k <= k
      BY <1>1
    <3>. QED
      BY <3>2, <3>3
  <2>. QED
    BY <2>1, OneElement
<1>3. ASSUME k + 1 \in 1..Len(s) PROVE SubSeq(s, k, k + 1) = <<s[k], s[k + 1]>>
  <2>1. /\ SubSeq(s, k, k + 1) \in Seq(U) /\ Len(SubSeq(s, k, k + 1)) = 2
        /\ SubSeq(s, k, k + 1)[1] = s[k] /\ SubSeq(s, k, k + 1)[2] = s[k + 1]
    <3>1. k \in Int /\ k + 1 \in Int /\ \A i \in k..(k + 1) : s[i] \in U
      BY <1>1, <1>3
    <3>2. /\ SubSeq(s, k, k + 1) \in Seq(U)
          /\ Len(SubSeq(s, k, k + 1)) = IF k <= k + 1 THEN k + 1 - k + 1 ELSE 0
          /\ \A i \in 1..(k + 1 - k + 1) : SubSeq(s, k, k + 1)[i] = s[k + i - 1]
      BY <3>1, SubSeqProperties
    <3>3. k + 1 - k + 1 = 2 /\ 1 \in 1..2 /\ 2 \in 1..2 /\ k + 1 - 1 = k /\ k + 2 - 1 = k + 1
      BY <1>1
    <3>4. k <= k + 1
      BY <1>1
    <3>. QED
      BY <3>2, <3>3, <3>4
  <2>. QED
    BY <2>1, TwoElements
<1>. QED
  BY <1>2, <1>3

\* A surrogate pair is encoded as it was, and so is any unit alone.
LEMMA UnitPiece ==
    ASSUME NEW s \in Seq(Units16), NEW k \in 1..Len(s), NEW j, NEW u,
           j = UnitWidth(SubSeq(s, k, Len(s))), u = SubSeq(s, k, k + j - 1)
    PROVE  /\ j \in Nat /\ k + j \in (k + 1)..(Len(s) + 1)
           /\ UnitsOf(UnitsCodePoint(u)) = u /\ UnitsCodePoint(u) \in Points
<1>. DEFINE from == SubSeq(s, k, Len(s))
<1>0. Len(s) \in Nat /\ k \in Nat /\ \A i \in 1..Len(s) : s[i] \in Units16
  BY LenProperties, ElementOfSeq
<1>1. Len(from) = Len(s) - k + 1 /\ \A i \in 1..Len(s) - k + 1 : from[i] = s[k + i - 1]
  BY <1>0, SubSeqProperties
<1>2. j = UnitWidth(from)
  OBVIOUS
<1>. HIDE DEF from
<1>3. CASE Len(from) > 1 /\ IsHighSurrogate(from[1]) /\ IsLowSurrogate(from[2])
  <2>1. j = 2 /\ k + 1 \in 1..Len(s)
    <3>1. j = 2
      BY <1>2, <1>3 DEF UnitWidth
    <3>2. k + 1 \in 1..Len(s)
      BY <1>0, <1>1, <1>3
    <3>. QED
      BY <3>1, <3>2
  <2>2. IsHighSurrogate(s[k]) /\ IsLowSurrogate(s[k + 1])
    <3>1. from[1] = s[k + 1 - 1] /\ from[2] = s[k + 2 - 1]
      BY <1>0, <1>1, <2>1
    <3>2. k + 1 - 1 = k /\ k + 2 - 1 = k + 1
      BY <1>0
    <3>. QED
      BY <1>3, <3>1, <3>2
  <2>3. u = <<s[k], s[k + 1]>>
    <3>1. k + j - 1 = k + 1
      BY <1>0, <2>1
    <3>2. u = SubSeq(s, k, k + 1)
      BY <3>1
    <3>. QED
      BY <2>1, <3>2, ShortSubSeq
  <2>4. PICK h, l : h = s[k] /\ l = s[k + 1]
    OBVIOUS
  <2>5. /\ h \in Nat /\ 55296 <= h /\ h <= 56319
       /\ l \in Nat /\ 56320 <= l /\ l <= 57343
    BY <1>0, <2>1, <2>2, <2>4, SMT DEF Units16, IsHighSurrogate, IsLowSurrogate
  <2>6. UnitsCodePoint(<<h, l>>) = 65536 + (h - 55296) * 1024 + (l - 56320)
    BY SMT DEF UnitsCodePoint
  <2>7. PICK cp : cp = UnitsCodePoint(<<h, l>>)
    OBVIOUS
  <2>8. /\ cp > 65535 /\ (cp - 65536) \div 1024 = h - 55296 /\ (cp - 65536) % 1024 = l - 56320
    BY <2>5, <2>6, <2>7, SMT
  <2>9. UnitsOf(cp) = <<h, l>>
    BY <2>5, <2>8, SMT DEF UnitsOf
  <2>10. cp \in Points
    BY <2>5, <2>6, <2>7, SMT DEF Points
  <2>. QED
    <3>1. UnitsOf(UnitsCodePoint(u)) = u /\ UnitsCodePoint(u) \in Points
      BY <2>3, <2>4, <2>7, <2>9, <2>10
    <3>. QED
      BY <1>0, <2>1, <3>1
<1>4. CASE ~(Len(from) > 1 /\ IsHighSurrogate(from[1]) /\ IsLowSurrogate(from[2]))
  <2>1. j = 1
    BY <1>2, <1>4 DEF UnitWidth
  <2>2. u = <<s[k]>>
    <3>1. k + j - 1 = k
      BY <1>0, <2>1
    <3>2. u = SubSeq(s, k, k)
      BY <3>1
    <3>. QED
      BY <3>2, ShortSubSeq
  <2>3. UnitsCodePoint(<<s[k]>>) = s[k] /\ UnitsOf(s[k]) = <<s[k]>>
    BY <1>0, SMT DEF UnitsCodePoint, UnitsOf, Units16
  <2>4. s[k] \in Points
    BY <1>0, SMT DEF Units16, Points
  <2>. QED
    <3>1. UnitsOf(UnitsCodePoint(u)) = u /\ UnitsCodePoint(u) \in Points
      BY <2>2, <2>3, <2>4
    <3>. QED
      BY <1>0, <2>1, <3>1
<1>. QED
  BY <1>3, <1>4

LEMMA AsciiIsItself ==
    ASSUME NEW b \in Nat, b < 128
    PROVE  Utf8(b) = <<b>>
<1>1. ~(128 <= b) /\ ~(2048 <= b)
  OBVIOUS
<1>. QED
  BY <1>1, SMT DEF Utf8

\* Bytes that are a character are encoded as they were, and any other byte is escaped.
LEMMA BytePiece ==
    ASSUME NEW s \in Seq(Units8), NEW k \in 1..Len(s), NEW j, NEW u,
           j = ByteWidth(SubSeq(s, k, Len(s))), u = SubSeq(s, k, k + j - 1)
    PROVE  /\ j \in Nat /\ k + j \in (k + 1)..(Len(s) + 1)
           /\ BytesOf(BytesCodePoint(u)) = u /\ BytesCodePoint(u) \in Points
<1>. DEFINE from == SubSeq(s, k, Len(s))
            wellFormed == {m \in 1..4 : m <= Len(from) /\ IsUtf8Char(SubSeq(from, 1, m))}
<1>0. Len(s) \in Nat /\ k \in Nat /\ \A i \in 1..Len(s) : s[i] \in Units8
  BY LenProperties, ElementOfSeq
<1>1. /\ from \in Seq(Units8) /\ Len(from) = Len(s) - k + 1
      /\ \A i \in 1..Len(s) - k + 1 : from[i] = s[k + i - 1]
  BY <1>0, SubSeqProperties
<1>2. j = ByteWidth(from)
  OBVIOUS
<1>3. ByteWidth(from) = IF wellFormed = {} THEN 1 ELSE CHOOSE m \in wellFormed : TRUE
  BY DEF ByteWidth
<1>4. ASSUME NEW m \in 1..Len(from) PROVE SubSeq(from, 1, m) = SubSeq(s, k, k + m - 1)
  <2>1. k + m - 1 \in k..Len(s) /\ m \in Nat
    BY <1>0, <1>1
  <2>2. \A i \in 1..m : from[i] = s[k + i - 1]
    BY <1>1
  <2>3. \A i \in k..(k + m - 1) : s[i] \in Units8
    BY <1>0, <2>1
  <2>4. \A i \in 1..m : from[i] \in Units8
    BY <1>1, ElementOfSeq
  <2>5. /\ SubSeq(from, 1, m) \in Seq(Units8) /\ Len(SubSeq(from, 1, m)) = m
        /\ \A i \in 1..m : SubSeq(from, 1, m)[i] = from[i]
    <3>1. /\ SubSeq(from, 1, m) \in Seq(Units8)
          /\ Len(SubSeq(from, 1, m)) = IF 1 <= m THEN m - 1 + 1 ELSE 0
          /\ \A i \in 1..m - 1 + 1 : SubSeq(from, 1, m)[i] = from[1 + i - 1]
      BY <2>1, <2>4, SubSeqProperties
    <3>2. m - 1 + 1 = m /\ 1 <= m /\ \A i \in 1..m : 1 + i - 1 = i
      BY <2>1
    <3>. QED
      BY <3>1, <3>2
  <2>6. /\ SubSeq(s, k, k + m - 1) \in Seq(Units8) /\ Len(SubSeq(s, k, k + m - 1)) = m
        /\ \A i \in 1..m : SubSeq(s, k, k + m - 1)[i] = s[k + i - 1]
    <3>1. /\ SubSeq(s, k, k + m - 1) \in Seq(Units8)
          /\ Len(SubSeq(s, k, k + m - 1)) =
                 IF k <= k + m - 1 THEN k + m - 1 - k + 1 ELSE 0
          /\ \A i \in 1..(k + m - 1 - k + 1) : SubSeq(s, k, k + m - 1)[i] = s[k + i - 1]
      BY <1>0, <2>1, <2>3, SubSeqProperties
    <3>2. k + m - 1 - k + 1 = m /\ k <= k + m - 1
      BY <1>0, <2>1
    <3>. QED
      BY <3>1, <3>2
  <2>. QED
    BY <2>2, <2>5, <2>6, SeqEqual
<1>5. CASE wellFormed # {}
  <2>1. j \in wellFormed
    BY <1>2, <1>3, <1>5
  <2>2. j \in 1..4 /\ j \in 1..Len(from) /\ IsUtf8Char(SubSeq(from, 1, j))
    BY <1>0, <1>1, <2>1
  <2>3. SubSeq(from, 1, j) = u
    BY <1>2, <1>4, <2>1, <2>2
  <2>5. IsUtf8Char(u)
    BY <2>2, <2>3
  <2>6. BytesCodePoint(u) = Payload(u) /\ IsChar(Payload(u)) /\ Utf8(Payload(u)) = u
    BY <2>5, SMT DEF BytesCodePoint, IsUtf8Char
  <2>7. ~IsEscapedByte(Payload(u))
    BY <2>6, SMT DEF IsChar, IsEscapedByte, IsLowSurrogate
  <2>8. BytesOf(BytesCodePoint(u)) = u
    BY <2>6, <2>7, SMT DEF BytesOf
  <2>9. j \in Nat /\ k + j \in (k + 1)..(Len(s) + 1)
    <3>1. j \in Nat /\ 1 <= j /\ j <= Len(from)
      BY <1>0, <1>1, <2>2
    <3>. HIDE DEF from, wellFormed
    <3>. QED
      BY <1>0, <1>1, <3>1
  <2>10. BytesCodePoint(u) \in Points
    BY <2>6, SMT DEF IsChar, Points
  <2>. QED
    BY <2>8, <2>9, <2>10
<1>6. CASE wellFormed = {}
  <2>1. j = 1
    BY <1>2, <1>3, <1>6
  <2>2. u = <<s[k]>>
    <3>1. k + j - 1 = k
      BY <1>0, <2>1
    <3>2. u = SubSeq(s, k, k)
      BY <3>1
    <3>. QED
      BY <3>2, ShortSubSeq
  <2>3. ~IsUtf8Char(<<s[k]>>)
    <3>1. SubSeq(from, 1, 1) = <<s[k]>>
      <4>1. 1 \in 1..Len(from)
        BY <1>0, <1>1
      <4>2. SubSeq(from, 1, 1) = SubSeq(s, k, k + 1 - 1)
        BY <1>4, <4>1
      <4>3. u = SubSeq(s, k, k + 1 - 1)
        BY <2>1
      <4>. QED
        BY <2>2, <4>2, <4>3
    <3>2. 1 \in 1..4 /\ 1 <= Len(from)
      BY <1>0, <1>1
    <3>. QED
      BY <1>6, <3>1, <3>2
  <2>4. PICK b : b = s[k]
    OBVIOUS
  <2>5. b \in Nat /\ b < 256
    BY <1>0, <2>4, SMT DEF Units8
  <2>6. Payload(<<b>>) = b
    BY SMT DEF Payload
  <2>7. ~(b < 128)
    <3>. SUFFICES ASSUME b < 128 PROVE FALSE
      OBVIOUS
    <3>1. Utf8(b) = <<b>>
      BY <2>5, AsciiIsItself
    <3>2. IsChar(b)
      BY <2>5, SMT DEF IsChar, IsHighSurrogate, IsLowSurrogate
    <3>. QED
      BY <2>3, <2>4, <2>6, <3>1, <3>2, SMT DEF IsUtf8Char
  <2>8. BytesCodePoint(<<b>>) = 56320 + b
    BY <2>3, <2>4, SMT DEF BytesCodePoint
  <2>9. BytesOf(BytesCodePoint(<<b>>)) = <<b>>
    BY <2>5, <2>7, <2>8, SMT DEF BytesOf, IsEscapedByte
  <2>10. BytesCodePoint(<<b>>) \in Points
    BY <2>5, <2>8, SMT DEF Points
  <2>. QED
    <3>1. BytesOf(BytesCodePoint(u)) = u /\ BytesCodePoint(u) \in Points
      BY <2>2, <2>4, <2>9, <2>10
    <3>. QED
      BY <1>0, <2>1, <3>1
<1>. QED
  BY <1>5, <1>6

-----------------------------------------------------------------------------

\* Each letter is encoded as the piece it stands for.
Undoes(enc, letter, next, s) ==
    \A k \in 1..Len(s) : enc[letter[k]] = SubSeq(s, k, next[k] - 1)

\* d spells what a cut of n places into letters yields from each place on.
Spells(d, n, letter, next) ==
    d = [k \in 1..(n + 1) |-> IF k > n THEN <<>> ELSE <<letter[k]>> \o d[next[k]]]

LEMMA SpellingExists ==
    ASSUME NEW n \in Nat, NEW letter, NEW next, Onward(next, n)
    PROVE  \E d : Spells(d, n, letter, next)
<1>. DEFINE piece == [k \in 1..n |-> <<letter[k]>>]
<1>1. PICK d : Pieced(d, n, piece, next)
  BY PiecesExist
<1>2. \A k \in 1..(n + 1) : ~(k > n) => piece[k] \o d[next[k]] = <<letter[k]>> \o d[next[k]]
  <2>1. TAKE k \in 1..(n + 1)
  <2>. SUFFICES ASSUME ~(k > n) PROVE piece[k] = <<letter[k]>>
    OBVIOUS
  <2>2. k \in 1..n
    OBVIOUS
  <2>. QED
    BY <2>2
<1>3. d = [k \in 1..(n + 1) |-> IF k > n THEN <<>> ELSE <<letter[k]>> \o d[next[k]]]
  <2>1. d = [k \in 1..(n + 1) |-> IF k > n THEN <<>> ELSE piece[k] \o d[next[k]]]
    BY <1>1 DEF Pieced
  <2>. HIDE DEF piece
  <2>. QED
    BY <1>2, <2>1
<1>. QED
  BY <1>3 DEF Spells

LEMMA AloneIs ==
    ASSUME NEW S, NEW a \in S
    PROVE  <<a>> \in Seq(S) /\ Len(<<a>>) = 1 /\ <<a>>[1] = a
  OBVIOUS

LEMMA OneBefore ==
    ASSUME NEW S, NEW e \in Seq(S), Len(e) = 1, NEW w \in Seq(S)
    PROVE  /\ e \o w \in Seq(S) /\ Len(e \o w) = 1 + Len(w)
           /\ \A i \in 1..(1 + Len(w)) : (e \o w)[i] = IF i <= 1 THEN e[i] ELSE w[i - 1]
<1>1. /\ e \o w \in Seq(S) /\ Len(e \o w) = Len(e) + Len(w)
      /\ \A i \in 1..(Len(e) + Len(w)) : (e \o w)[i] = IF i <= Len(e) THEN e[i] ELSE w[i - Len(e)]
  BY ConcatProperties
<1>. QED
  BY <1>1

\* Spelled letter by letter, the pieces of a cut make up what was cut.
LEMMA SpellingBack ==
    ASSUME NEW U, NEW s \in Seq(U), NEW letter, NEW next, NEW enc, NEW d,
           Onward(next, Len(s)), Undoes(enc, letter, next, s),
           Spells(d, Len(s), letter, next)
    PROVE  /\ d[1] \in Seq({letter[k] : k \in 1..Len(s)})
           /\ FlattenSeq([i \in DOMAIN d[1] |-> enc[d[1][i]]]) = s
<1>. DEFINE n == Len(s)
            L == {letter[k] : k \in 1..n}
            Enc(w) == [i \in DOMAIN w |-> enc[w[i]]]
            Right(k) == /\ d[k] \in Seq(L)
                        /\ FlattenSeq(Enc(d[k])) = SubSeq(s, k, n)
<1>0. n \in Nat /\ \A i \in 1..n : s[i] \in U
  BY LenProperties, ElementOfSeq
<1>1. ASSUME NEW k \in 1..n
      PROVE  /\ SubSeq(s, k, next[k] - 1) \in Seq(U)
             /\ SubSeq(s, k, n) = SubSeq(s, k, next[k] - 1) \o SubSeq(s, next[k], n)
  <2>1. next[k] \in (k + 1)..(n + 1)
    BY DEF Onward
  <2>2. PICK j : j = next[k] - 1
    OBVIOUS
  <2>3. k \in 1..(n + 1) /\ j \in (k - 1)..n /\ n \in j..n /\ j + 1 = next[k] /\ k \in Int /\ j \in Int
    BY <1>0, <2>1, <2>2
  <2>4. \A i \in k..j : s[i] \in U
    BY <1>0, <2>3
  <2>5. SubSeq(s, k, j) \in Seq(U)
    BY <2>3, <2>4, SubSeqProperties
  <2>6. SubSeq(s, k, j) \o SubSeq(s, j + 1, n) = SubSeq(s, k, n)
    BY <2>3, ConcatAdjacentSubSeq
  <2>. QED
    BY <2>2, <2>3, <2>5, <2>6
<1>2. ASSUME NEW w \in Seq(L) PROVE Enc(w) \in Seq(Seq(U))
  <2>1. Len(w) \in Nat /\ DOMAIN w = 1..Len(w) /\ \A i \in 1..Len(w) : w[i] \in L
    BY LenProperties, ElementOfSeq
  <2>2. ASSUME NEW i \in 1..Len(w) PROVE enc[w[i]] \in Seq(U)
    <3>1. PICK k \in 1..n : w[i] = letter[k]
      BY <2>1
    <3>2. enc[letter[k]] = SubSeq(s, k, next[k] - 1)
      BY DEF Undoes
    <3>. QED
      BY <1>1, <3>1, <3>2
  <2>. QED
    BY <2>1, <2>2
<1>9. d[n + 1] = <<>> /\ \A k \in 1..n : d[k] = <<letter[k]>> \o d[next[k]]
  <2>1. d = [k \in 1..(n + 1) |-> IF k > n THEN <<>> ELSE <<letter[k]>> \o d[next[k]]]
    BY DEF Spells
  <2>. HIDE DEF n
  <2>2. n + 1 \in 1..(n + 1) /\ n + 1 > n
    BY <1>0
  <2>3. \A k \in 1..n : k \in 1..(n + 1) /\ ~(k > n)
    BY <1>0
  <2>. QED
    BY <2>1, <2>2, <2>3
<1>3. ASSUME NEW k \in 1..n, Right(next[k]) PROVE Right(k)
  <2>1. d[k] = <<letter[k]>> \o d[next[k]]
    BY <1>9
  <2>2. PICK a, w : a = letter[k] /\ w = d[next[k]]
    OBVIOUS
  <2>3. a \in L /\ w \in Seq(L) /\ d[k] = <<a>> \o w
    BY <1>3, <2>1, <2>2
  <2>4. <<a>> \in Seq(L) /\ Len(<<a>>) = 1 /\ <<a>>[1] = a
    <3>. HIDE DEF L
    <3>. QED
      BY <2>3, AloneIs
  <2>5. /\ <<a>> \o w \in Seq(L) /\ Len(<<a>> \o w) = Len(w) + 1
        /\ \A i \in 1..(1 + Len(w)) : (<<a>> \o w)[i] = IF i <= 1 THEN <<a>>[i] ELSE w[i - 1]
    BY <2>3, <2>4, ConcatProperties
  <2>6. Enc(<<a>> \o w) = <<enc[a]>> \o Enc(w)
    <3>. DEFINE v == <<a>> \o w
    <3>1. Enc(v) \in Seq(Seq(U)) /\ Enc(w) \in Seq(Seq(U)) /\ enc[a] \in Seq(U)
      <4>1. enc[a] \in Seq(U)
        BY <1>1, <2>2 DEF Undoes
      <4>. QED
        BY <1>2, <2>3, <2>5, <4>1
    <3>2. Len(w) \in Nat /\ DOMAIN w = 1..Len(w) /\ DOMAIN v = 1..(Len(w) + 1)
      BY <2>3, <2>5, LenProperties
    <3>. HIDE DEF v
    <3>3. Len(Enc(v)) = Len(w) + 1 /\ Len(Enc(w)) = Len(w)
      <4>1. DOMAIN Enc(v) = 1..(Len(w) + 1) /\ DOMAIN Enc(w) = 1..Len(w)
        BY <3>2
      <4>2. PICK ev, ew : ev = Enc(v) /\ ew = Enc(w)
        OBVIOUS
      <4>3. /\ ev \in Seq(Seq(U)) /\ ew \in Seq(Seq(U))
            /\ DOMAIN ev = 1..(Len(w) + 1) /\ DOMAIN ew = 1..Len(w)
        BY <3>1, <4>1, <4>2
      <4>4. Len(ev) = Len(w) + 1 /\ Len(ew) = Len(w)
        BY <3>2, <4>3, LenProperties
      <4>. QED
        BY <4>2, <4>4
    <3>4. PICK e : e = <<enc[a]>>
      OBVIOUS
    <3>5. e \in Seq(Seq(U)) /\ Len(e) = 1 /\ e[1] = enc[a]
      BY <3>1, <3>4
    <3>6. /\ e \o Enc(w) \in Seq(Seq(U)) /\ Len(e \o Enc(w)) = 1 + Len(w)
          /\ \A i \in 1..(1 + Len(w)) : (e \o Enc(w))[i] = IF i <= 1 THEN e[i] ELSE Enc(w)[i - 1]
      <4>1. PICK ew : ew = Enc(w)
        OBVIOUS
      <4>2. ew \in Seq(Seq(U)) /\ Len(ew) = Len(w)
        BY <3>1, <3>3, <4>1
      <4>3. /\ e \o ew \in Seq(Seq(U)) /\ Len(e \o ew) = 1 + Len(w)
            /\ \A i \in 1..(1 + Len(w)) : (e \o ew)[i] = IF i <= 1 THEN e[i] ELSE ew[i - 1]
        <5>. HIDE DEF Enc, L, Right
        <5>. QED
          BY <3>5, <4>2, OneBefore
      <4>. QED
        BY <4>1, <4>3
    <3>7. ASSUME NEW i \in 1..(1 + Len(w)) PROVE Enc(v)[i] = (e \o Enc(w))[i]
      <4>1. Enc(v)[i] = enc[v[i]]
        BY <3>2
      <4>2. CASE i <= 1
        <5>1. i = 1 /\ v[i] = a
          BY <2>4, <2>5, <3>2, <4>2 DEF v
        <5>. QED
          BY <3>5, <3>6, <4>1, <4>2, <5>1
      <4>3. CASE ~(i <= 1)
        <5>1. i - 1 \in 1..Len(w) /\ v[i] = w[i - 1]
          BY <2>5, <3>2, <4>3 DEF v
        <5>2. Enc(w)[i - 1] = enc[w[i - 1]]
          BY <3>2, <5>1
        <5>. QED
          BY <3>6, <4>1, <4>3, <5>1, <5>2
      <4>. QED
        BY <4>2, <4>3
    <3>8. Enc(v) = e \o Enc(w)
      <4>1. PICK ev, ee : ev = Enc(v) /\ ee = e \o Enc(w)
        OBVIOUS
      <4>2. /\ ev \in Seq(Seq(U)) /\ ee \in Seq(Seq(U)) /\ Len(ev) = Len(ee)
            /\ \A i \in 1..Len(ev) : ev[i] = ee[i]
        <5>1. ev \in Seq(Seq(U)) /\ ee \in Seq(Seq(U))
          BY <3>1, <3>6, <4>1
        <5>2. Len(ev) = Len(w) + 1 /\ Len(ee) = 1 + Len(w) /\ Len(w) \in Nat
          <6>. HIDE DEF Enc
          <6>. QED
            BY <3>2, <3>3, <3>6, <4>1
        <5>3. \A i \in 1..(1 + Len(w)) : ev[i] = ee[i]
          <6>. HIDE DEF Enc
          <6>. QED
            BY <3>7, <4>1
        <5>. QED
          BY <5>1, <5>2, <5>3
      <4>3. ev = ee
        BY <4>2, SeqEqual
      <4>. QED
        BY <4>1, <4>3
    <3>. QED
      BY <3>4, <3>8 DEF v
  <2>7. FlattenSeq(Enc(<<a>> \o w)) = enc[a] \o FlattenSeq(Enc(w))
    <3>1. enc[a] \in Seq(U) /\ Enc(w) \in Seq(Seq(U))
      BY <1>1, <1>2, <2>2, <2>3 DEF Undoes
    <3>. HIDE DEF Enc
    <3>. QED
      BY <2>6, <3>1, FlattenCons
  <2>8. FlattenSeq(Enc(w)) = SubSeq(s, next[k], n)
    BY <1>3, <2>2
  <2>9. enc[a] = SubSeq(s, k, next[k] - 1)
    BY <2>2 DEF Undoes
  <2>10. FlattenSeq(Enc(d[k])) = SubSeq(s, k, n)
    <3>. HIDE DEF Enc
    <3>. QED
      BY <1>1, <2>3, <2>7, <2>8, <2>9
  <2>. QED
    BY <2>3, <2>5, <2>10
<1>4. Right(n + 1)
  <2>1. d[n + 1] = <<>>
    BY <1>9
  <2>2. PICK w : w = d[n + 1]
    OBVIOUS
  <2>3. Enc(w) = <<>>
    BY <2>1, <2>2
  <2>4. FlattenSeq(<<>>) = <<>>
    BY DEF FlattenSeq
  <2>5. SubSeq(s, n + 1, n) = <<>>
    BY <1>0, SubSeqEmpty
  <2>6. FlattenSeq(Enc(d[n + 1])) = SubSeq(s, n + 1, n)
    <3>. HIDE DEF Enc
    <3>. QED
      BY <2>2, <2>3, <2>4, <2>5
  <2>7. d[n + 1] \in Seq(L)
    <3>. HIDE DEF L
    <3>. QED
      BY <2>1, EmptySeq
  <2>. QED
    BY <2>6, <2>7
<1>. HIDE DEF Right
<1>5. Right(1)
  <2>. DEFINE T == {m \in Nat : \A k \in 1..(n + 1) : k + m >= n + 1 => Right(k)}
  <2>1. 0 \in T
    <3>1. \A k \in 1..(n + 1) : k + 0 >= n + 1 => k = n + 1
      BY <1>0
    <3>. QED
      BY <1>4, <3>1
  <2>2. ASSUME NEW m \in Nat, m \in T PROVE m + 1 \in T
    <3>. SUFFICES ASSUME NEW k \in 1..(n + 1), k + (m + 1) >= n + 1 PROVE Right(k)
      OBVIOUS
    <3>1. CASE k = n + 1
      BY <1>4, <3>1
    <3>2. CASE k # n + 1
      <4>1. k \in 1..n
        BY <1>0, <3>2
      <4>2. next[k] \in (k + 1)..(n + 1)
        BY <4>1 DEF Onward
      <4>3. next[k] \in 1..(n + 1) /\ next[k] + m >= n + 1
        BY <1>0, <4>1, <4>2
      <4>. QED
        BY <1>3, <2>2, <4>1, <4>3
    <3>. QED
      BY <3>1, <3>2
  <2>3. n \in T
    <3>. HIDE DEF T
    <3>. QED
      BY <1>0, <2>1, <2>2, SetInduction
  <2>. QED
    BY <1>0, <2>3
<1>6. SubSeq(s, 1, n) = s
  BY SubSeqFull
<1>. QED
  BY <1>5, <1>6 DEF Right

-----------------------------------------------------------------------------

\* Where the letter at k ends, and what it is.
NextAt(backend, s, k) == k + Width(backend, SubSeq(s, k, Len(s)))
LetterAt(backend, s, k) == CodePoint(backend, SubSeq(s, k, NextAt(backend, s, k) - 1))
Encoded(backend, cp) == IF backend = "windows" THEN UnitsOf(cp) ELSE BytesOf(cp)

LEMMA EveryPiece ==
    ASSUME NEW backend, NEW s \in Seq(NativeUnits(backend)), NEW k \in 1..Len(s)
    PROVE  /\ NextAt(backend, s, k) \in (k + 1)..(Len(s) + 1)
           /\ Encoded(backend, LetterAt(backend, s, k)) =
                  SubSeq(s, k, NextAt(backend, s, k) - 1)
           /\ LetterAt(backend, s, k) \in Points
<1>1. CASE backend = "windows"
  <2>1. s \in Seq(Units16) /\ Width(backend, SubSeq(s, k, Len(s))) = UnitWidth(SubSeq(s, k, Len(s)))
    BY <1>1 DEF NativeUnits, Units16, Width
  <2>2. PICK j, u : j = UnitWidth(SubSeq(s, k, Len(s))) /\ u = SubSeq(s, k, k + j - 1)
    OBVIOUS
  <2>3. /\ j \in Nat /\ k + j \in (k + 1)..(Len(s) + 1)
        /\ UnitsOf(UnitsCodePoint(u)) = u /\ UnitsCodePoint(u) \in Points
    BY <2>1, <2>2, UnitPiece
  <2>4. NextAt(backend, s, k) = k + j
    BY <2>1, <2>2 DEF NextAt
  <2>5. SubSeq(s, k, NextAt(backend, s, k) - 1) = u
    <3>1. NextAt(backend, s, k) - 1 = k + j - 1
      BY <2>3, <2>4
    <3>. QED
      BY <2>2, <3>1
  <2>6. LetterAt(backend, s, k) = CodePoint(backend, u)
    BY <2>5 DEF LetterAt
  <2>7. CodePoint(backend, u) = UnitsCodePoint(u)
    BY <1>1 DEF CodePoint
  <2>8. Encoded(backend, UnitsCodePoint(u)) = UnitsOf(UnitsCodePoint(u))
    BY <1>1 DEF Encoded
  <2>. QED
    BY <2>3, <2>4, <2>5, <2>6, <2>7, <2>8
<1>2. CASE backend # "windows"
  <2>1. s \in Seq(Units8) /\ Width(backend, SubSeq(s, k, Len(s))) = ByteWidth(SubSeq(s, k, Len(s)))
    BY <1>2 DEF NativeUnits, Units8, Width
  <2>2. PICK j, u : j = ByteWidth(SubSeq(s, k, Len(s))) /\ u = SubSeq(s, k, k + j - 1)
    OBVIOUS
  <2>3. /\ j \in Nat /\ k + j \in (k + 1)..(Len(s) + 1)
        /\ BytesOf(BytesCodePoint(u)) = u /\ BytesCodePoint(u) \in Points
    BY <2>1, <2>2, BytePiece
  <2>4. NextAt(backend, s, k) = k + j
    BY <2>1, <2>2 DEF NextAt
  <2>5. SubSeq(s, k, NextAt(backend, s, k) - 1) = u
    <3>1. NextAt(backend, s, k) - 1 = k + j - 1
      BY <2>3, <2>4
    <3>. QED
      BY <2>2, <3>1
  <2>6. LetterAt(backend, s, k) = CodePoint(backend, u)
    BY <2>5 DEF LetterAt
  <2>7. CodePoint(backend, u) = BytesCodePoint(u)
    BY <1>2 DEF CodePoint
  <2>8. Encoded(backend, BytesCodePoint(u)) = BytesOf(BytesCodePoint(u))
    BY <1>2 DEF Encoded
  <2>. QED
    BY <2>3, <2>4, <2>5, <2>6, <2>7, <2>8
<1>. QED
  BY <1>1, <1>2

\* DecodeName spells the letters of the cut.
LEMMA DecodeSpells ==
    ASSUME NEW backend, NEW s \in Seq(NativeUnits(backend)), NEW letter, NEW next,
           letter = [k \in 1..Len(s) |-> LetterAt(backend, s, k)],
           next = [k \in 1..Len(s) |-> NextAt(backend, s, k)]
    PROVE  \E d : Spells(d, Len(s), letter, next) /\ DecodeName(backend, s) = d[1]
<1>. DEFINE Behind(k) == SubSeq(s, k, Len(s))
            Body(c, k) == IF k > Len(s) THEN <<>>
                          ELSE LET after == k + Width(backend, Behind(k))
                               IN <<CodePoint(backend, SubSeq(s, k, after - 1))>> \o c[after]
            decoded == CHOOSE d : d = [k \in 1..(Len(s) + 1) |-> Body(d, k)]
<1>0. Len(s) \in Nat
  BY LenProperties
<1>1. DecodeName(backend, s) = decoded[1]
  BY DEF DecodeName
<1>2. PICK d : Spells(d, Len(s), letter, next)
  <2>1. Onward(next, Len(s))
    BY EveryPiece DEF Onward
  <2>. QED
    BY <1>0, <2>1, SpellingExists
<1>3. ASSUME NEW c, NEW k \in 1..(Len(s) + 1)
      PROVE  Body(c, k) = IF k > Len(s) THEN <<>> ELSE <<letter[k]>> \o c[next[k]]
  <2>1. CASE k > Len(s)
    BY <2>1
  <2>2. CASE ~(k > Len(s))
    <3>1. k \in 1..Len(s)
      BY <1>0, <2>2
    <3>2. PICK after : after = k + Width(backend, SubSeq(s, k, Len(s)))
      OBVIOUS
    <3>3. NextAt(backend, s, k) = after
      BY <3>2 DEF NextAt
    <3>4. LetterAt(backend, s, k) = CodePoint(backend, SubSeq(s, k, after - 1))
      BY <3>3 DEF LetterAt
    <3>5. next[k] = after /\ letter[k] = CodePoint(backend, SubSeq(s, k, after - 1))
      BY <3>1, <3>3, <3>4
    <3>6. Body(c, k) = <<CodePoint(backend, SubSeq(s, k, after - 1))>> \o c[after]
      BY <2>2, <3>2
    <3>. QED
      BY <2>2, <3>5, <3>6
  <2>. QED
    BY <2>1, <2>2
<1>4. ASSUME NEW c
      PROVE  Spells(c, Len(s), letter, next) <=> c = [k \in 1..(Len(s) + 1) |-> Body(c, k)]
  <2>. HIDE DEF Body
  <2>. QED
    BY <1>3 DEF Spells
<1>5. Spells(decoded, Len(s), letter, next)
  <2>1. decoded = [k \in 1..(Len(s) + 1) |-> Body(decoded, k)]
    <3>. HIDE DEF Body
    <3>. QED
      BY <1>2, <1>4
  <2>. HIDE DEF decoded, Body
  <2>. QED
    BY <1>4, <2>1
<1>. QED
  BY <1>1, <1>5

\* A name is decoded to code points, and encoding is the inverse of it, for every name that a file
\* system can list, be it well-formed or not (decode_name and encode_os_name, D-46 "reversible").
THEOREM RoundTrip ==
    ASSUME NEW backend, NEW s \in Seq(NativeUnits(backend))
    PROVE  /\ EncodeName(backend, DecodeName(backend, s)) = s
           /\ DecodeName(backend, s) \in Seq(Points)
<1>. DEFINE letter == [k \in 1..Len(s) |-> LetterAt(backend, s, k)]
            next == [k \in 1..Len(s) |-> NextAt(backend, s, k)]
            enc == [cp \in {letter[k] : k \in 1..Len(s)} |-> Encoded(backend, cp)]
<1>1. PICK d : Spells(d, Len(s), letter, next) /\ DecodeName(backend, s) = d[1]
  BY DecodeSpells
<1>2. Onward(next, Len(s))
  BY EveryPiece DEF Onward
<1>3. Undoes(enc, letter, next, s)
  BY EveryPiece DEF Undoes
<1>. HIDE DEF letter, next
<1>4. /\ d[1] \in Seq({letter[k] : k \in 1..Len(s)})
      /\ FlattenSeq([i \in DOMAIN d[1] |-> enc[d[1][i]]]) = s
  <2>1. PICK U : U = NativeUnits(backend)
    OBVIOUS
  <2>2. s \in Seq(U) /\ Spells(d, Len(s), letter, next)
    BY <1>1, <2>1
  <2>. HIDE DEF enc
  <2>. QED
    BY <1>2, <1>3, <2>2, SpellingBack
<1>5. [i \in DOMAIN d[1] |-> enc[d[1][i]]] = [i \in DOMAIN d[1] |-> Encoded(backend, d[1][i])]
  <2>1. ASSUME NEW i \in DOMAIN d[1] PROVE enc[d[1][i]] = Encoded(backend, d[1][i])
    <3>1. d[1][i] \in {letter[k] : k \in 1..Len(s)}
      <4>. DEFINE L == {letter[k] : k \in 1..Len(s)}
      <4>. HIDE DEF L
      <4>1. d[1] \in Seq(L)
        BY <1>4 DEF L
      <4>2. d[1][i] \in L
        BY <4>1, LenProperties, ElementOfSeq
      <4>. QED
        BY <4>2 DEF L
    <3>. QED
      BY <3>1
  <2>. HIDE DEF enc
  <2>. QED
    BY <2>1
<1>6. EncodeName(backend, d[1]) = FlattenSeq([i \in DOMAIN d[1] |-> Encoded(backend, d[1][i])])
  <2>1. CASE backend = "windows"
    <3>1. [i \in DOMAIN d[1] |-> Encoded(backend, d[1][i])] = [i \in DOMAIN d[1] |-> UnitsOf(d[1][i])]
      BY <2>1 DEF Encoded
    <3>. QED
      BY <2>1, <3>1 DEF EncodeName, EncodeUtf16
  <2>2. CASE backend # "windows"
    <3>1. [i \in DOMAIN d[1] |-> Encoded(backend, d[1][i])] = [i \in DOMAIN d[1] |-> BytesOf(d[1][i])]
      BY <2>2 DEF Encoded
    <3>. QED
      BY <2>2, <3>1 DEF EncodeName, EncodeBytes
  <2>. QED
    BY <2>1, <2>2
<1>7. d[1] \in Seq(Points)
  <2>1. {letter[k] : k \in 1..Len(s)} \subseteq Points
    BY EveryPiece DEF letter
  <2>. DEFINE L == {letter[k] : k \in 1..Len(s)}
  <2>2. L \subseteq Points /\ d[1] \in Seq(L)
    BY <1>4, <2>1
  <2>. HIDE DEF L
  <2>3. \A i \in 1..Len(d[1]) : d[1][i] \in Points
    BY <2>2, ElementOfSeq
  <2>4. Len(d[1]) \in Nat /\ d[1] = [i \in 1..Len(d[1]) |-> d[1][i]]
    BY <2>2
  <2>. QED
    BY <2>3, <2>4
<1>. QED
  <2>. HIDE DEF enc
  <2>. QED
    BY <1>1, <1>4, <1>5, <1>6, <1>7

-----------------------------------------------------------------------------
(* The entries of a directory *)

\* A decoded name tells its file: it is not empty, and no other file has it.
LEMMA DecodedNames ==
    ASSUME scene \in Scenes
    PROVE  /\ IsFiniteSet(Files) /\ Files \subseteq Listed
           /\ \A n \in Files : ~IsDotEntry(Spelling(n))
           /\ \A n \in Files : Decoded(n) # NoName /\ Decoded(n) \in Seq(Points)
           /\ \A n \in Files : EncodeName(scene.backend, Decoded(n)) = Spelling(n)
           /\ \A m, n \in Files : Decoded(m) = Decoded(n) => m = n
<1>1. /\ IsFiniteSet(DOMAIN scene.spelling)
      /\ DOMAIN scene.disk = {n \in DOMAIN scene.spelling : ~IsDotEntry(scene.spelling[n])}
      /\ \A n \in DOMAIN scene.disk :
             scene.spelling[n] \in Seq(NativeUnits(scene.backend)) \ {<<>>}
      /\ \A m, n \in DOMAIN scene.disk : scene.spelling[m] = scene.spelling[n] => m = n
  BY NamesAssumption
<1>2. Files \in SUBSET Listed
  BY <1>1 DEF Files, Listed
<1>3. IsFiniteSet(Files)
  BY <1>1, <1>2, FS_Subset DEF Listed
<1>4. \A n \in Files : ~IsDotEntry(Spelling(n))
  BY <1>1 DEF Files, Spelling
<1>5. ASSUME NEW n \in Files
      PROVE  /\ EncodeName(scene.backend, Decoded(n)) = Spelling(n) /\ Spelling(n) # <<>>
             /\ Decoded(n) \in Seq(Points)
  <2>1. PICK s, b : s = scene.spelling[n] /\ b = scene.backend
    OBVIOUS
  <2>2. s \in Seq(NativeUnits(b)) /\ s # <<>>
    BY <1>1, <2>1 DEF Files
  <2>3. EncodeName(b, DecodeName(b, s)) = s /\ DecodeName(b, s) \in Seq(Points)
    BY <2>2, RoundTrip
  <2>. QED
    BY <2>1, <2>2, <2>3 DEF Decoded, Spelling
<1>6. EncodeName(scene.backend, <<>>) = <<>>
  BY DEF EncodeName, EncodeUtf16, EncodeBytes, FlattenSeq
<1>7. \A n \in Files : Decoded(n) # NoName
  BY <1>5, <1>6 DEF NoName
<1>8. ASSUME NEW m \in Files, NEW n \in Files, Decoded(m) = Decoded(n) PROVE m = n
  <2>1. Spelling(m) = Spelling(n)
    BY <1>5, <1>8
  <2>. QED
    BY <1>1, <2>1 DEF Spelling, Files
<1>. QED
  BY <1>2, <1>3, <1>4, <1>5, <1>7, <1>8

\* An entry has the name of its file.
LEMMA EntryNames ==
    ASSUME scene \in Scenes
    PROVE  /\ \A n \in Files : EntryOf(n).name = Decoded(n)
           /\ \A m, n \in Files : EntryOf(m) = EntryOf(n) => m = n
<1>1. scene.backend \in {"linux", "portable", "windows"}
  BY ScenesAssumption
<1>2. ASSUME NEW n, NEW kind PROVE BareEntry(n, kind).name = Decoded(n)
  BY DEF BareEntry
<1>3. ASSUME NEW n PROVE LinuxEntry(n).name = Decoded(n)
  BY DEF BareEntry, LinuxEntry
<1>4. ASSUME NEW n PROVE PortableEntry(n).name = Decoded(n)
  BY DEF BareEntry, PortableEntry
<1>5. ASSUME NEW n, NEW plan PROVE WindowsEntry(n, plan).name = Decoded(n)
  BY DEF WindowsEntry
<1>6. ASSUME NEW n \in Files PROVE EntryOf(n).name = Decoded(n)
  BY <1>1, <1>2, <1>3, <1>4, <1>5 DEF EntryOf, OnWindows
<1>. QED
  BY <1>6, DecodedNames

\* Nothing that an entry is made of changes while a directory is read.
LEMMA SceneStays ==
    ASSUME scene' = scene
    PROVE  /\ Files' = Files /\ Listed' = Listed /\ OnWindows' = OnWindows
           /\ \A n : Decoded(n)' = Decoded(n)
           /\ \A n : DType(File(n))' = DType(File(n))
           /\ \A n : EntryOf(n)' = EntryOf(n)
<1>1. Files' = Files /\ Listed' = Listed /\ OnWindows' = OnWindows
  BY DEF Files, Listed, OnWindows
<1>2. ASSUME NEW n
      PROVE  /\ Decoded(n)' = Decoded(n) /\ File(n)' = File(n)
             /\ DType(File(n))' = DType(File(n))
  BY DEF Decoded, Spelling, File, DType
<1>3. Query' = Query
  BY DEF Query
<1>4. ASSUME NEW n
      PROVE  /\ BareEntry(n, DType(File(n)))' = BareEntry(n, DType(File(n)))
             /\ BareEntry(n, File(n).kind)' = BareEntry(n, File(n).kind)
             /\ NeedsStat(n, DType(File(n)))' = NeedsStat(n, DType(File(n)))
             /\ NeedsStat(n, File(n).kind)' = NeedsStat(n, File(n).kind)
  BY <1>2, <1>3 DEF BareEntry, NeedsStat
<1>5. ASSUME NEW n PROVE EntryOf(n)' = EntryOf(n)
  <2>1. LinuxEntry(n)' = LinuxEntry(n) /\ PortableEntry(n)' = PortableEntry(n)
    BY <1>2 DEF LinuxEntry, PortableEntry, BareEntry
  <2>2. WindowsEntry(n, Plan(Query))' = WindowsEntry(n, Plan(Query))
    BY <1>2, <1>3 DEF WindowsEntry, VolumeSerial
  <2>. QED
    BY <1>1, <1>2, <1>4, <2>1, <2>2 DEF EntryOf
<1>. QED
  BY <1>1, <1>2, <1>5

LEMMA AppendIs ==
    ASSUME NEW S, NEW q \in Seq(S), NEW e \in S
    PROVE  /\ Append(q, e) \in Seq(S) /\ Len(Append(q, e)) = Len(q) + 1 /\ Len(q) \in Nat
           /\ DOMAIN q = 1..Len(q) /\ DOMAIN Append(q, e) = 1..(Len(q) + 1)
           /\ \A i \in 1..Len(q) : Append(q, e)[i] = q[i]
           /\ Append(q, e)[Len(q) + 1] = e
  OBVIOUS

LEMMA TailIs ==
    ASSUME NEW S, NEW q \in Seq(S), q # <<>>
    PROVE  /\ Tail(q) \in Seq(S) /\ Len(Tail(q)) = Len(q) - 1 /\ Len(q) \in Nat \ {0}
           /\ DOMAIN q = 1..Len(q) /\ DOMAIN Tail(q) = 1..(Len(q) - 1)
           /\ \A i \in 1..(Len(q) - 1) : Tail(q)[i] = q[i + 1]
           /\ Head(q) = q[1] /\ Head(q) \in S
<1>1. /\ Tail(q) \in Seq(S) /\ Len(Tail(q)) = Len(q) - 1 /\ Head(q) \in S
      /\ \A i \in 1..Len(Tail(q)) : Tail(q)[i] = q[i + 1]
  BY HeadTailProperties
<1>2. Len(q) \in Nat \ {0}
  BY EmptySeq
<1>. QED
  BY <1>1, <1>2, LenProperties

\* A new error joins the ones there are, and keeps them apart.
LEMMA ErrorsGrow ==
    ASSUME NEW S, errors \in Seq(S), NEW e \in S, errors' = Append(errors, e), e \notin Failed,
           \A i, j \in DOMAIN errors : errors[i] = errors[j] => i = j
    PROVE  /\ errors' \in Seq(S)
           /\ Failed' = Failed \cup {e}
           /\ \A i, j \in DOMAIN errors' : errors'[i] = errors'[j] => i = j
<1>1. PICK q, r : q = errors /\ r = errors'
  OBVIOUS
<1>2. /\ r \in Seq(S) /\ Len(q) \in Nat
      /\ DOMAIN q = 1..Len(q) /\ DOMAIN r = 1..(Len(q) + 1)
      /\ \A i \in 1..Len(q) : r[i] = q[i]
      /\ r[Len(q) + 1] = e
  BY <1>1, AppendIs
<1>3. \A i \in DOMAIN q : q[i] # e
  BY <1>1 DEF Failed, ToSet
<1>4. {r[i] : i \in DOMAIN r} = {q[i] : i \in DOMAIN q} \cup {e}
  BY <1>2
<1>5. \A i, j \in DOMAIN r : r[i] = r[j] => i = j
  BY <1>1, <1>2, <1>3
<1>. QED
  BY <1>1, <1>2, <1>4, <1>5 DEF Failed, ToSet

-----------------------------------------------------------------------------
(* What a step does to the books *)

Ticket == [name : Files, dtype : {DType(File(n)) : n \in Files}]
Fault == {Decoded(n) : n \in Files} \cup {NoName}

\* The names that are done with.
Settled == Files \ (unlisted \cup Waiting)

LEMMA BooksStay ==
    ASSUME scene' = scene
    PROVE  /\ Ticket' = Ticket /\ Fault' = Fault
           /\ Held' = {n \in Files : EntryOf(n) \in entries'}
           /\ Lost' = {n \in Files : Decoded(n) \in Failed'}
           /\ Settled' = Files \ (unlisted' \cup Waiting')
<1>1. /\ Files' = Files
      /\ \A n : Decoded(n)' = Decoded(n)
      /\ \A n : DType(File(n))' = DType(File(n))
      /\ \A n : EntryOf(n)' = EntryOf(n)
  BY SceneStays
<1>2. Ticket' = Ticket
  BY <1>1 DEF Ticket
<1>3. Fault' = Fault
  BY <1>1 DEF Fault, NoName
<1>4. Held' = {n \in Files : EntryOf(n) \in entries'}
  BY <1>1 DEF Held
<1>5. Lost' = {n \in Files : Decoded(n) \in Failed'}
  BY <1>1 DEF Lost
<1>6. Settled' = Files \ (unlisted' \cup Waiting')
  BY <1>1 DEF Settled
<1>. QED
  BY <1>2, <1>3, <1>4, <1>5, <1>6

LEMMA KeptNext ==
    ASSUME Kept, scene' = scene, phase' \in {"list", "stat", "ok", "err"},
           unlisted' \subseteq unlisted, names' \in Seq(Ticket), errors' \in Seq(Fault)
    PROVE  Kept'
  BY SceneStays DEF Kept, Ticket, Fault

LEMMA TallyNext ==
    ASSUME scene' = scene, \A e \in entries' : \E n \in Files : e = EntryOf(n),
           Failed' \subseteq Fault, \A i, j \in DOMAIN errors' : errors'[i] = errors'[j] => i = j,
           Held' \cap Lost' = {}, Held' \cup Lost' = Settled'
    PROVE  Tally'
<1>1. /\ Files' = Files
      /\ \A n : Decoded(n)' = Decoded(n)
      /\ \A n : EntryOf(n)' = EntryOf(n)
  BY SceneStays
<1>2. (\A e \in entries : \E n \in Files : e = EntryOf(n))'
  BY <1>1
<1>3. (Failed \subseteq {Decoded(n) : n \in Files} \cup {NoName})'
  BY <1>1 DEF Fault, NoName
<1>. QED
  BY <1>2, <1>3 DEF Tally, Settled

\* Some files are read.
LEMMA TallyReads ==
    ASSUME Kept, Tally, scene' = scene, errors' = errors, NEW N \in SUBSET Files,
           N \cap Settled = {}, Settled' = Settled \cup N,
           entries' = entries \cup {EntryOf(n) : n \in N}
    PROVE  Tally' /\ Held' = Held \cup N
<1>0. /\ \A e \in entries : \E n \in Files : e = EntryOf(n)
      /\ Failed \subseteq Fault /\ \A i, j \in DOMAIN errors : errors[i] = errors[j] => i = j
      /\ Held \cap Lost = {} /\ Held \cup Lost = Settled
  BY DEF Tally, Fault, Settled
<1>1. \A m, n \in Files : EntryOf(m) = EntryOf(n) => m = n
  BY EntryNames DEF Kept
<1>2. Failed' = Failed
  BY DEF Failed
<1>3. Lost' = Lost
  BY <1>2, BooksStay DEF Lost
<1>4. Held' = Held \cup N
  <2>1. \A n \in Files : EntryOf(n) \in entries' <=> n \in Held \cup N
    BY <1>1 DEF Held
  <2>. QED
    BY <2>1, BooksStay DEF Held
<1>5. \A e \in entries' : \E n \in Files : e = EntryOf(n)
  BY <1>0
<1>. QED
  BY <1>0, <1>2, <1>3, <1>4, <1>5, TallyNext

\* One file fails.
LEMMA TallyFails ==
    ASSUME Kept, Tally, scene' = scene, entries' = entries, NEW n \in Files, n \notin Settled,
           Settled' = Settled \cup {n}, errors' = Append(errors, Decoded(n))
    PROVE  Tally' /\ errors' \in Seq(Fault) /\ (NoName \in Failed' <=> NoName \in Failed)
<1>0. /\ \A e \in entries : \E m \in Files : e = EntryOf(m)
      /\ Failed \subseteq Fault /\ \A i, j \in DOMAIN errors : errors[i] = errors[j] => i = j
      /\ Held \cap Lost = {} /\ Held \cup Lost = Settled
  BY DEF Tally, Fault, Settled
<1>1. /\ \A m \in Files : Decoded(m) # NoName
      /\ \A m, k \in Files : Decoded(m) = Decoded(k) => m = k
  BY DecodedNames DEF Kept
<1>2. Decoded(n) \in Fault /\ Decoded(n) \notin Failed
  BY <1>0 DEF Fault, Lost
<1>3. errors \in Seq(Fault)
  BY DEF Kept, Fault
<1>4. /\ errors' \in Seq(Fault) /\ Failed' = Failed \cup {Decoded(n)}
      /\ \A i, j \in DOMAIN errors' : errors'[i] = errors'[j] => i = j
  BY <1>0, <1>2, <1>3, ErrorsGrow
<1>5. Held' = Held
  BY BooksStay DEF Held
<1>6. Lost' = Lost \cup {n}
  <2>1. \A m \in Files : Decoded(m) \in Failed' <=> m \in Lost \cup {n}
    BY <1>1, <1>4 DEF Lost
  <2>. QED
    BY <2>1, BooksStay DEF Lost
<1>7. Tally'
  BY <1>0, <1>2, <1>4, <1>5, <1>6, TallyNext
<1>. QED
  BY <1>1, <1>4, <1>7

\* The directory fails.
LEMMA TallyFaults ==
    ASSUME Kept, Tally, scene' = scene, entries' = entries, NoName \notin Failed,
           Settled' = Settled, errors' = Append(errors, NoName)
    PROVE  Tally' /\ errors' \in Seq(Fault) /\ NoName \in Failed'
<1>0. /\ \A e \in entries : \E m \in Files : e = EntryOf(m)
      /\ Failed \subseteq Fault /\ \A i, j \in DOMAIN errors : errors[i] = errors[j] => i = j
      /\ Held \cap Lost = {} /\ Held \cup Lost = Settled
  BY DEF Tally, Fault, Settled
<1>1. \A m \in Files : Decoded(m) # NoName
  BY DecodedNames DEF Kept
<1>2. NoName \in Fault
  BY DEF Fault
<1>3. errors \in Seq(Fault)
  BY DEF Kept, Fault
<1>4. /\ errors' \in Seq(Fault) /\ Failed' = Failed \cup {NoName}
      /\ \A i, j \in DOMAIN errors' : errors'[i] = errors'[j] => i = j
  BY <1>0, <1>2, <1>3, ErrorsGrow
<1>5. Held' = Held
  BY BooksStay DEF Held
<1>6. Lost' = Lost
  <2>1. \A m \in Files : Decoded(m) \in Failed' <=> m \in Lost
    BY <1>1, <1>4 DEF Lost
  <2>. QED
    BY <2>1, BooksStay DEF Lost
<1>7. Tally'
  BY <1>0, <1>2, <1>4, <1>5, <1>6, TallyNext
<1>. QED
  BY <1>4, <1>7

\* No file is read and none fails.
LEMMA TallyStays ==
    ASSUME Kept, Tally, scene' = scene, entries' = entries, errors' = errors, Settled' = Settled
    PROVE  Tally'
<1>1. {} \in SUBSET Files /\ entries' = entries \cup {EntryOf(n) : n \in {}}
  OBVIOUS
<1>. QED
  BY <1>1, TallyReads

-----------------------------------------------------------------------------

\* The names that wait keep what they are.
LEMMA QueueStays ==
    ASSUME Queue, scene' = scene, names' = names, unlisted' \subseteq unlisted
    PROVE  Queue' /\ Waiting' = Waiting
<1>1. Waiting' = Waiting
  BY DEF Waiting
<1>2. Files' = Files /\ \A n : DType(File(n))' = DType(File(n))
  BY SceneStays
<1>3. ASSUME NEW i \in DOMAIN names
      PROVE  /\ names[i].name \in Files \ unlisted'
             /\ names[i].dtype = DType(File(names[i].name))
  BY DEF Queue
<1>. QED
  BY <1>1, <1>2, <1>3 DEF Queue

\* A file is listed and waits.
LEMMA QueueGrows ==
    ASSUME Kept, Queue, scene' = scene, NEW n \in unlisted \cap Files, unlisted' = unlisted \ {n},
           names' = Append(names, [name |-> n, dtype |-> DType(File(n))])
    PROVE  Queue' /\ Waiting' = Waiting \cup {n} /\ names' \in Seq(Ticket)
<1>0. /\ \A i \in DOMAIN names : /\ names[i].name \in Files \ unlisted
                                 /\ names[i].dtype = DType(File(names[i].name))
      /\ \A i, j \in DOMAIN names : names[i].name = names[j].name => i = j
  BY DEF Queue
<1>1. PICK q, r, e : q = names /\ r = names' /\ e = [name |-> n, dtype |-> DType(File(n))]
  OBVIOUS
<1>2. q \in Seq(Ticket) /\ e \in Ticket /\ r = Append(q, e)
  BY <1>1 DEF Kept, Ticket
<1>3. /\ r \in Seq(Ticket) /\ Len(q) \in Nat
      /\ DOMAIN q = 1..Len(q) /\ DOMAIN r = 1..(Len(q) + 1)
      /\ \A i \in 1..Len(q) : r[i] = q[i]
      /\ r[Len(q) + 1] = e
  BY <1>2, AppendIs
<1>4. e.name = n /\ e.dtype = DType(File(n))
  BY <1>1
<1>5. Files' = Files /\ \A m : DType(File(m))' = DType(File(m))
  BY SceneStays
<1>6. ASSUME NEW i \in DOMAIN r
      PROVE  /\ r[i].name \in Files \ unlisted'
             /\ r[i].dtype = DType(File(r[i].name))
             /\ i # Len(q) + 1 => r[i].name # n
  <2>1. CASE i = Len(q) + 1
    BY <1>3, <1>4, <2>1
  <2>2. CASE i # Len(q) + 1
    <3>1. i \in DOMAIN q /\ r[i] = q[i]
      BY <1>3, <2>2
    <3>. QED
      BY <1>0, <1>1, <3>1
  <2>. QED
    BY <2>1, <2>2
<1>7. ASSUME NEW i \in DOMAIN r, NEW j \in DOMAIN r, r[i].name = r[j].name PROVE i = j
  <2>1. CASE i = Len(q) + 1 \/ j = Len(q) + 1
    BY <1>3, <1>4, <1>6, <1>7, <2>1
  <2>2. CASE i # Len(q) + 1 /\ j # Len(q) + 1
    <3>1. i \in DOMAIN q /\ r[i] = q[i] /\ j \in DOMAIN q /\ r[j] = q[j]
      BY <1>3, <2>2
    <3>. QED
      BY <1>0, <1>1, <1>7, <3>1
  <2>. QED
    BY <2>1, <2>2
<1>8. {r[i].name : i \in DOMAIN r} = {q[i].name : i \in DOMAIN q} \cup {n}
  BY <1>3, <1>4
<1>. QED
  BY <1>1, <1>3, <1>5, <1>6, <1>7, <1>8 DEF Queue, Waiting

\* The first name has waited.
LEMMA QueueShrinks ==
    ASSUME Kept, Queue, scene' = scene, unlisted' = unlisted, names # <<>>, names' = Tail(names)
    PROVE  /\ Queue' /\ names' \in Seq(Ticket)
           /\ Head(names).name \in Waiting \ Waiting'
           /\ Waiting = Waiting' \cup {Head(names).name}
           /\ Head(names).name \in Files
           /\ Head(names).dtype = DType(File(Head(names).name))
<1>0. /\ \A i \in DOMAIN names : /\ names[i].name \in Files \ unlisted
                                 /\ names[i].dtype = DType(File(names[i].name))
      /\ \A i, j \in DOMAIN names : names[i].name = names[j].name => i = j
  BY DEF Queue
<1>1. PICK q, r : q = names /\ r = names'
  OBVIOUS
<1>2. q \in Seq(Ticket) /\ q # <<>> /\ r = Tail(q)
  BY <1>1 DEF Kept, Ticket
<1>3. /\ r \in Seq(Ticket) /\ Len(q) \in Nat \ {0}
      /\ DOMAIN q = 1..Len(q) /\ DOMAIN r = 1..(Len(q) - 1)
      /\ \A i \in 1..(Len(q) - 1) : r[i] = q[i + 1]
      /\ Head(q) = q[1]
  BY <1>2, TailIs
<1>4. ASSUME NEW i \in DOMAIN r PROVE i + 1 \in DOMAIN q /\ r[i] = q[i + 1] /\ i + 1 # 1
  BY <1>3
<1>5. 1 \in DOMAIN q /\ \A i \in DOMAIN q : i # 1 => i - 1 \in DOMAIN r /\ q[i] = r[i - 1]
  BY <1>3
<1>6. Files' = Files /\ \A m : DType(File(m))' = DType(File(m))
  BY SceneStays
<1>7. ASSUME NEW i \in DOMAIN r
      PROVE  /\ r[i].name \in Files \ unlisted'
             /\ r[i].dtype = DType(File(r[i].name))
             /\ r[i].name # q[1].name
  BY <1>0, <1>1, <1>4, <1>5
<1>8. ASSUME NEW i \in DOMAIN r, NEW j \in DOMAIN r, r[i].name = r[j].name PROVE i = j
  <2>1. i + 1 = j + 1
    BY <1>0, <1>1, <1>4, <1>8
  <2>. QED
    BY <1>3, <2>1
<1>9. {q[i].name : i \in DOMAIN q} = {r[i].name : i \in DOMAIN r} \cup {q[1].name}
  BY <1>4, <1>5
<1>10. Queue'
  BY <1>1, <1>6, <1>7, <1>8 DEF Queue
<1>11. Waiting = {q[i].name : i \in DOMAIN q} /\ Waiting' = {r[i].name : i \in DOMAIN r}
  BY <1>1 DEF Waiting
<1>12. q[1].name \in Waiting \ Waiting'
  BY <1>5, <1>7, <1>11
<1>13. Head(names) = q[1]
  BY <1>1, <1>3
<1>14. q[1].name \in Files /\ q[1].dtype = DType(File(q[1].name))
  BY <1>0, <1>1, <1>5
<1>. QED
  BY <1>1, <1>3, <1>9, <1>10, <1>11, <1>12, <1>13, <1>14

-----------------------------------------------------------------------------
(* Every step keeps the books *)

LEMMA InitBooks == Init => IInv
<1>. SUFFICES ASSUME Init PROVE IInv
  OBVIOUS
<1>1. /\ scene \in Scenes /\ gone = {} /\ phase = "list" /\ unlisted = Listed /\ names = <<>>
      /\ entries = {} /\ errors = <<>>
  BY DEF Init
<1>2. DOMAIN errors = {} /\ DOMAIN names = {} /\ Failed = {} /\ Waiting = {}
  BY <1>1 DEF Failed, ToSet, Waiting
<1>3. Kept
  <2>1. names \in Seq([name : Files, dtype : {DType(File(n)) : n \in Files}])
    BY <1>1, EmptySeq
  <2>2. errors \in Seq({Decoded(n) : n \in Files} \cup {NoName})
    BY <1>1, EmptySeq
  <2>. QED
    BY <1>1, <2>1, <2>2 DEF Kept
<1>4. Files \subseteq Listed
  BY <1>1, DecodedNames
<1>5. Held = {} /\ Lost = {}
  BY <1>1, <1>2 DEF Held, Lost
<1>6. Tally
  BY <1>1, <1>2, <1>4, <1>5 DEF Tally
<1>7. Queue
  BY <1>2 DEF Queue
<1>8. Stages
  BY <1>1, <1>2 DEF Stages
<1>. QED
  BY <1>3, <1>6, <1>7, <1>8 DEF IInv

\* What the invariant says before a step, in the terms of the lemmas above.
LEMMA Before ==
    ASSUME IInv
    PROVE  /\ Kept /\ Tally /\ Queue /\ Stages
           /\ scene \in Scenes /\ names \in Seq(Ticket) /\ errors \in Seq(Fault)
           /\ phase \in {"list", "stat", "ok", "err"}
           /\ Held \cap Lost = {} /\ Held \cup Lost = Settled
           /\ names = <<>> => Waiting = {}
           /\ entries = {} => Held = {}
           /\ errors = <<>> => Failed = {} /\ Lost = {}
<1>1. Kept /\ Tally /\ Queue /\ Stages
  BY DEF IInv
<1>2. /\ scene \in Scenes /\ names \in Seq(Ticket) /\ errors \in Seq(Fault)
      /\ phase \in {"list", "stat", "ok", "err"}
  BY <1>1 DEF Kept, Ticket, Fault
<1>3. Held \cap Lost = {} /\ Held \cup Lost = Settled
  BY <1>1 DEF Tally, Settled
<1>4. ASSUME names = <<>> PROVE Waiting = {}
  <2>1. DOMAIN names = {}
    BY <1>4
  <2>. QED
    BY <2>1 DEF Waiting
<1>5. entries = {} => Held = {}
  BY DEF Held
<1>6. ASSUME errors = <<>> PROVE Failed = {} /\ Lost = {}
  <2>1. DOMAIN errors = {}
    BY <1>6
  <2>. QED
    BY <2>1 DEF Failed, ToSet, Lost
<1>. QED
  BY <1>1, <1>2, <1>3, <1>4, <1>5, <1>6

LEMMA OpenFailsKeeps == IInv /\ OpenFails => IInv'
<1>. SUFFICES ASSUME IInv, OpenFails PROVE IInv'
  OBVIOUS
<1>0. /\ Kept /\ Tally /\ Queue /\ Stages
      /\ scene \in Scenes /\ names \in Seq(Ticket) /\ errors \in Seq(Fault)
  BY Before
<1>1. /\ phase = "list" /\ unlisted = Listed /\ errors = <<>> /\ phase' = "err"
      /\ scene' = scene /\ gone' = gone /\ unlisted' = unlisted /\ names' = names
      /\ entries' = entries /\ errors' = errors
  BY DEF OpenFails
<1>2. Waiting' = Waiting /\ Queue'
  BY <1>0, <1>1, QueueStays
<1>3. Settled' = Settled /\ Files' = Files
  BY <1>1, <1>2, BooksStay, SceneStays DEF Settled
<1>4. Kept' /\ Tally'
  BY <1>0, <1>1, <1>3, KeptNext, TallyStays
<1>5. Files \subseteq unlisted
  BY <1>0, <1>1, DecodedNames
<1>6. names = <<>>
  <2>. SUFFICES ASSUME names # <<>> PROVE FALSE
    OBVIOUS
  <2>1. 1 \in DOMAIN names
    BY <1>0, EmptySeq
  <2>. QED
    BY <1>0, <1>5, <2>1 DEF Queue
<1>7. entries = {}
  <2>1. Held = {}
    BY <1>0, <1>5 DEF Tally
  <2>. QED
    BY <1>0, <2>1 DEF Tally, Held
<1>8. Stages'
  BY <1>1, <1>3, <1>5, <1>6, <1>7 DEF Stages
<1>. QED
  BY <1>2, <1>4, <1>8 DEF IInv

LEMMA VanishKeeps == IInv /\ Vanish => IInv'
<1>. SUFFICES ASSUME IInv, Vanish PROVE IInv'
  OBVIOUS
<1>0. /\ Kept /\ Tally /\ Queue /\ Stages
      /\ scene \in Scenes /\ names \in Seq(Ticket) /\ errors \in Seq(Fault)
      /\ phase \in {"list", "stat", "ok", "err"}
  BY Before
<1>1. /\ gone \subseteq gone' /\ phase' = phase
      /\ scene' = scene /\ unlisted' = unlisted /\ names' = names
      /\ entries' = entries /\ errors' = errors
  BY DEF Vanish
<1>2. Waiting' = Waiting /\ Queue'
  BY <1>0, <1>1, QueueStays
<1>3. Settled' = Settled /\ Files' = Files /\ Failed' = Failed
  BY <1>1, <1>2, BooksStay, SceneStays DEF Settled, Failed
<1>4. Kept' /\ Tally'
  BY <1>0, <1>1, <1>3, KeptNext, TallyStays
<1>5. Stages'
  BY <1>0, <1>1, <1>3 DEF Stages, NoName
<1>. QED
  BY <1>2, <1>4, <1>5 DEF IInv

LEMMA ReadNameKeeps == IInv /\ ReadName => IInv'
<1>. SUFFICES ASSUME IInv, ReadName PROVE IInv'
  OBVIOUS
<1>0. /\ Kept /\ Tally /\ Queue /\ Stages
      /\ scene \in Scenes /\ names \in Seq(Ticket) /\ errors \in Seq(Fault)
      /\ Held \cup Lost = Settled
  BY Before
<1>1. /\ scene.backend = "linux" /\ phase = "list" /\ phase' = phase
      /\ scene' = scene /\ gone' = gone /\ entries' = entries /\ errors' = errors
  BY DEF ReadName
<1>2. PICK n \in unlisted \ gone :
         /\ names' = IF IsDotEntry(Spelling(n)) THEN names
                     ELSE Append(names, [name |-> n, dtype |-> DType(File(n))])
         /\ unlisted' = unlisted \ {n}
  BY DEF ReadName
<1>3. n \in Files <=> ~IsDotEntry(Spelling(n))
  <2>1. unlisted \subseteq Listed
    BY <1>0 DEF Kept
  <2>2. DOMAIN scene.disk = {m \in DOMAIN scene.spelling : ~IsDotEntry(scene.spelling[m])}
    BY <1>0, NamesAssumption
  <2>. QED
    BY <1>2, <2>1, <2>2 DEF Files, Listed, Spelling
<1>4. Queue' /\ names' \in Seq(Ticket) /\ Settled' = Settled
  <2>1. CASE IsDotEntry(Spelling(n))
    <3>1. names' = names /\ n \notin Files
      BY <1>2, <1>3, <2>1
    <3>2. Queue' /\ Waiting' = Waiting
      BY <1>0, <1>1, <1>2, <3>1, QueueStays
    <3>. QED
      BY <1>0, <1>1, <1>2, <3>1, <3>2, BooksStay DEF Settled
  <2>2. CASE ~IsDotEntry(Spelling(n))
    <3>1. n \in Files /\ names' = Append(names, [name |-> n, dtype |-> DType(File(n))])
      BY <1>2, <1>3, <2>2
    <3>2. Queue' /\ Waiting' = Waiting \cup {n} /\ names' \in Seq(Ticket)
      BY <1>0, <1>1, <1>2, <3>1, QueueGrows
    <3>. QED
      BY <1>0, <1>1, <1>2, <3>1, <3>2, BooksStay DEF Settled
  <2>. QED
    BY <2>1, <2>2
<1>5. Kept' /\ Tally'
  BY <1>0, <1>1, <1>2, <1>4, KeptNext, TallyStays
<1>6. Stages'
  <2>1. Failed' = Failed
    BY <1>1 DEF Failed
  <2>. QED
    BY <1>0, <1>1, <2>1 DEF Stages, NoName
<1>. QED
  BY <1>4, <1>5, <1>6 DEF IInv

LEMMA ReadFailsKeeps == IInv /\ ReadFails => IInv'
<1>. SUFFICES ASSUME IInv, ReadFails PROVE IInv'
  OBVIOUS
<1>0. /\ Kept /\ Tally /\ Queue /\ Stages
      /\ scene \in Scenes /\ names \in Seq(Ticket) /\ errors \in Seq(Fault)
      /\ Held \cup Lost = Settled
      /\ names = <<>> => Waiting = {}
      /\ entries = {} => Held = {}
      /\ errors = <<>> => Failed = {} /\ Lost = {}
  BY Before
<1>1. /\ scene.backend = "linux" /\ phase = "list"
      /\ scene' = scene /\ gone' = gone /\ unlisted' = unlisted /\ names' = names
      /\ entries' = entries
      /\ IF names = <<>> THEN phase' = "err" /\ errors' = errors
                         ELSE phase' = "stat" /\ errors' = Append(errors, NoName)
  BY DEF ReadFails
<1>2. Waiting' = Waiting /\ Queue'
  BY <1>0, <1>1, QueueStays
<1>3. Settled' = Settled /\ Files' = Files
  BY <1>1, <1>2, BooksStay, SceneStays DEF Settled
<1>4. NoName \notin Failed /\ entries = {} /\ errors = <<>>
  BY <1>0, <1>1 DEF Stages
<1>5. CASE names = <<>>
  <2>1. phase' = "err" /\ errors' = errors
    BY <1>1, <1>5
  <2>2. Kept' /\ Tally'
    BY <1>0, <1>1, <1>3, <2>1, KeptNext, TallyStays
  <2>3. Files \subseteq unlisted
    BY <1>0, <1>4, <1>5 DEF Settled
  <2>4. Stages'
    BY <1>1, <1>3, <1>4, <1>5, <2>1, <2>3 DEF Stages
  <2>. QED
    BY <1>2, <2>2, <2>4 DEF IInv
<1>6. CASE names # <<>>
  <2>1. phase' = "stat" /\ errors' = Append(errors, NoName)
    BY <1>1, <1>6
  <2>2. Tally' /\ errors' \in Seq(Fault) /\ NoName \in Failed'
    BY <1>0, <1>1, <1>3, <1>4, <2>1, TallyFaults
  <2>3. Kept'
    BY <1>0, <1>1, <2>1, <2>2, KeptNext
  <2>4. Stages'
    BY <1>1, <1>3, <2>1, <2>2 DEF Stages, NoName
  <2>. QED
    BY <1>2, <2>2, <2>3, <2>4 DEF IInv
<1>. QED
  BY <1>5, <1>6

LEMMA ReadEndsKeeps == IInv /\ ReadEnds => IInv'
<1>. SUFFICES ASSUME IInv, ReadEnds PROVE IInv'
  OBVIOUS
<1>0. /\ Kept /\ Tally /\ Queue /\ Stages
      /\ scene \in Scenes /\ names \in Seq(Ticket) /\ errors \in Seq(Fault)
  BY Before
<1>1. /\ scene.backend = "linux" /\ phase = "list" /\ unlisted \ gone = {} /\ phase' = "stat"
      /\ scene' = scene /\ gone' = gone /\ unlisted' = unlisted /\ names' = names
      /\ entries' = entries /\ errors' = errors
  BY DEF ReadEnds
<1>2. Waiting' = Waiting /\ Queue'
  BY <1>0, <1>1, QueueStays
<1>3. Settled' = Settled /\ Files' = Files
  BY <1>1, <1>2, BooksStay, SceneStays DEF Settled
<1>4. Kept' /\ Tally'
  BY <1>0, <1>1, <1>3, KeptNext, TallyStays
<1>5. Stages'
  BY <1>1, <1>3 DEF Stages
<1>. QED
  BY <1>2, <1>4, <1>5 DEF IInv

LEMMA StatOneKeeps == IInv /\ StatOne => IInv'
<1>. SUFFICES ASSUME IInv, StatOne PROVE IInv'
  OBVIOUS
<1>0. /\ Kept /\ Tally /\ Queue /\ Stages
      /\ scene \in Scenes /\ names \in Seq(Ticket) /\ errors \in Seq(Fault)
      /\ Held \cup Lost = Settled
  BY Before
<1>1. /\ phase = "stat" /\ phase' = phase /\ names # <<>> /\ names' = Tail(names)
      /\ scene' = scene /\ gone' = gone /\ unlisted' = unlisted
  BY DEF StatOne
<1>2. PICK n, dtype : n = Head(names).name /\ dtype = Head(names).dtype
  OBVIOUS
<1>3. scene.backend = "linux"
  BY <1>0, <1>1 DEF Stages
<1>4. /\ Queue' /\ names' \in Seq(Ticket)
      /\ n \in Waiting \ Waiting' /\ Waiting = Waiting' \cup {n}
      /\ n \in Files /\ dtype = DType(File(n))
  BY <1>0, <1>1, <1>2, QueueShrinks
<1>5. n \notin unlisted
  BY <1>0, <1>4 DEF Queue, Waiting
<1>6. Settled' = Settled \cup {n} /\ n \notin Settled
  BY <1>1, <1>4, <1>5, BooksStay DEF Settled
<1>7. \/ ~NeedsStat(n, dtype) /\ entries' = entries \cup {BareEntry(n, dtype)} /\ errors' = errors
      \/ NeedsStat(n, dtype) /\ entries' = entries \cup {LinuxEntry(n)} /\ errors' = errors
      \/ entries' = entries /\ errors' = Append(errors, Decoded(n))
  BY <1>2 DEF StatOne, NeedsStat
<1>8. CASE entries' = entries /\ errors' = Append(errors, Decoded(n))
  <2>1. Tally' /\ errors' \in Seq(Fault) /\ (NoName \in Failed' <=> NoName \in Failed)
    BY <1>0, <1>1, <1>4, <1>6, <1>8, TallyFails
  <2>2. Kept'
    BY <1>0, <1>1, <1>4, <2>1, KeptNext
  <2>3. Files' = Files
    BY <1>1, SceneStays
  <2>4. Stages'
    BY <1>0, <1>1, <1>3, <2>1, <2>3 DEF Stages, NoName
  <2>. QED
    BY <1>4, <2>1, <2>2, <2>4 DEF IInv
<1>9. CASE /\ errors' = errors
           /\ \/ ~NeedsStat(n, dtype) /\ entries' = entries \cup {BareEntry(n, dtype)}
              \/ NeedsStat(n, dtype) /\ entries' = entries \cup {LinuxEntry(n)}
  <2>1. entries' = entries \cup {EntryOf(n)}
    BY <1>3, <1>4, <1>9 DEF EntryOf, OnWindows
  <2>2. Tally'
    <3>1. PICK N : N = {n}
      OBVIOUS
    <3>2. entries' = entries \cup {EntryOf(m) : m \in N}
      BY <2>1, <3>1
    <3>3. N \in SUBSET Files /\ N \cap Settled = {} /\ Settled' = Settled \cup N
      BY <1>4, <1>6, <3>1
    <3>. QED
      BY <1>0, <1>1, <1>9, <3>2, <3>3, TallyReads
  <2>3. Kept'
    BY <1>0, <1>1, <1>4, <1>9, KeptNext
  <2>4. Files' = Files /\ Failed' = Failed
    BY <1>1, <1>9, SceneStays DEF Failed
  <2>5. Stages'
    BY <1>0, <1>1, <1>3, <2>4 DEF Stages, NoName
  <2>. QED
    BY <1>4, <2>2, <2>3, <2>5 DEF IInv
<1>. QED
  BY <1>7, <1>8, <1>9

LEMMA StatEndsKeeps == IInv /\ StatEnds => IInv'
<1>. SUFFICES ASSUME IInv, StatEnds PROVE IInv'
  OBVIOUS
<1>0. /\ Kept /\ Tally /\ Queue /\ Stages
      /\ scene \in Scenes /\ names \in Seq(Ticket) /\ errors \in Seq(Fault)
  BY Before
<1>1. /\ phase = "stat" /\ names = <<>> /\ phase' = "ok"
      /\ scene' = scene /\ gone' = gone /\ unlisted' = unlisted /\ names' = names
      /\ entries' = entries /\ errors' = errors
  BY DEF StatEnds
<1>2. Waiting' = Waiting /\ Queue'
  BY <1>0, <1>1, QueueStays
<1>3. Settled' = Settled /\ Files' = Files /\ Failed' = Failed
  BY <1>1, <1>2, BooksStay, SceneStays DEF Settled, Failed
<1>4. Kept' /\ Tally'
  BY <1>0, <1>1, <1>3, KeptNext, TallyStays
<1>5. Stages'
  BY <1>0, <1>1, <1>3 DEF Stages, NoName
<1>. QED
  BY <1>2, <1>4, <1>5 DEF IInv

LEMMA ReadBatchKeeps == IInv /\ ReadBatch => IInv'
<1>. SUFFICES ASSUME IInv, ReadBatch PROVE IInv'
  OBVIOUS
<1>0. /\ Kept /\ Tally /\ Queue /\ Stages
      /\ scene \in Scenes /\ names \in Seq(Ticket) /\ errors \in Seq(Fault)
      /\ names = <<>> => Waiting = {}
  BY Before
<1>1. /\ OnWindows /\ phase = "list" /\ phase' = phase
      /\ scene' = scene /\ gone' = gone /\ names' = names /\ errors' = errors
  BY DEF ReadBatch
<1>2. PICK batch \in SUBSET (unlisted \ gone) :
         /\ entries' = entries \cup {WindowsEntry(n, Plan(Query)) :
                                         n \in {m \in batch : ~IsDotEntry(Spelling(m))}}
         /\ unlisted' = unlisted \ batch
  BY DEF ReadBatch
<1>3. scene.backend = "windows"
  BY <1>1 DEF OnWindows
<1>4. names = <<>> /\ Waiting = {}
  BY <1>0, <1>3 DEF Stages
<1>5. PICK N : N = {m \in batch : ~IsDotEntry(Spelling(m))}
  OBVIOUS
<1>6. N = batch \cap Files
  <2>1. unlisted \subseteq Listed
    BY <1>0 DEF Kept
  <2>2. DOMAIN scene.disk = {m \in DOMAIN scene.spelling : ~IsDotEntry(scene.spelling[m])}
    BY <1>0, NamesAssumption
  <2>. QED
    BY <1>5, <2>1, <2>2 DEF Files, Listed, Spelling
<1>7. \A n : EntryOf(n) = WindowsEntry(n, Plan(Query))
  BY <1>3 DEF EntryOf, OnWindows
<1>8. entries' = entries \cup {EntryOf(n) : n \in N}
  BY <1>2, <1>5, <1>7
<1>9. Waiting' = Waiting /\ Queue'
  BY <1>0, <1>1, <1>2, QueueStays
<1>10. N \in SUBSET Files /\ N \cap Settled = {} /\ Settled' = Settled \cup N
  BY <1>1, <1>2, <1>4, <1>6, <1>9, BooksStay DEF Settled
<1>11. Tally'
  BY <1>0, <1>1, <1>8, <1>10, TallyReads
<1>12. Kept'
  BY <1>0, <1>1, <1>2, KeptNext
<1>13. Stages'
  <2>1. Failed' = Failed
    BY <1>1 DEF Failed
  <2>. QED
    BY <1>0, <1>1, <1>3, <1>4, <2>1 DEF Stages, NoName
<1>. QED
  BY <1>9, <1>11, <1>12, <1>13 DEF IInv

LEMMA BatchFailsKeeps == IInv /\ BatchFails => IInv'
<1>. SUFFICES ASSUME IInv, BatchFails PROVE IInv'
  OBVIOUS
<1>0. /\ Kept /\ Tally /\ Queue /\ Stages
      /\ scene \in Scenes /\ names \in Seq(Ticket) /\ errors \in Seq(Fault)
      /\ Held \cup Lost = Settled
      /\ names = <<>> => Waiting = {}
      /\ entries = {} => Held = {}
      /\ errors = <<>> => Failed = {} /\ Lost = {}
  BY Before
<1>1. /\ scene.backend = "windows" /\ phase = "list"
      /\ scene' = scene /\ gone' = gone /\ unlisted' = unlisted /\ names' = names
      /\ entries' = entries
      /\ IF entries = {} THEN phase' = "err" /\ errors' = errors
                         ELSE phase' = "ok" /\ errors' = Append(errors, NoName)
  BY DEF BatchFails, OnWindows
<1>2. Waiting' = Waiting /\ Queue'
  BY <1>0, <1>1, QueueStays
<1>3. Settled' = Settled /\ Files' = Files
  BY <1>1, <1>2, BooksStay, SceneStays DEF Settled
<1>4. NoName \notin Failed /\ errors = <<>> /\ names = <<>>
  BY <1>0, <1>1 DEF Stages
<1>5. CASE entries = {}
  <2>1. phase' = "err" /\ errors' = errors
    BY <1>1, <1>5
  <2>2. Kept' /\ Tally'
    BY <1>0, <1>1, <1>3, <2>1, KeptNext, TallyStays
  <2>3. Files \subseteq unlisted
    BY <1>0, <1>4, <1>5 DEF Settled
  <2>4. Stages'
    BY <1>1, <1>3, <1>4, <1>5, <2>1, <2>3 DEF Stages
  <2>. QED
    BY <1>2, <2>2, <2>4 DEF IInv
<1>6. CASE entries # {}
  <2>1. phase' = "ok" /\ errors' = Append(errors, NoName)
    BY <1>1, <1>6
  <2>2. Tally' /\ errors' \in Seq(Fault) /\ NoName \in Failed'
    BY <1>0, <1>1, <1>3, <1>4, <2>1, TallyFaults
  <2>3. Kept'
    BY <1>0, <1>1, <2>1, <2>2, KeptNext
  <2>4. Stages'
    BY <1>1, <1>3, <1>4, <2>1, <2>2 DEF Stages, NoName
  <2>. QED
    BY <1>2, <2>2, <2>3, <2>4 DEF IInv
<1>. QED
  BY <1>5, <1>6

LEMMA ReadOneEntryKeeps == IInv /\ ReadOneEntry => IInv'
<1>. SUFFICES ASSUME IInv, ReadOneEntry PROVE IInv'
  OBVIOUS
<1>0. /\ Kept /\ Tally /\ Queue /\ Stages
      /\ scene \in Scenes /\ names \in Seq(Ticket) /\ errors \in Seq(Fault)
      /\ names = <<>> => Waiting = {}
  BY Before
<1>1. /\ scene.backend = "portable" /\ phase = "list" /\ phase' = phase
      /\ scene' = scene /\ gone' = gone /\ names' = names
  BY DEF ReadOneEntry
<1>2. PICK n \in unlisted \ gone :
         /\ ~IsDotEntry(Spelling(n)) /\ unlisted' = unlisted \ {n}
         /\ \/ /\ entries' = entries \cup {IF \/ Plan(Query).wantStat
                                             \/ WantsFileIdFor(Plan(Query), File(n).kind \in Links)
                                          THEN PortableEntry(n) ELSE BareEntry(n, File(n).kind)}
               /\ errors' = errors
            \/ entries' = entries /\ errors' = Append(errors, Decoded(n))
  BY DEF ReadOneEntry
<1>3. names = <<>> /\ Waiting = {}
  BY <1>0, <1>1 DEF Stages
<1>4. n \in Files
  <2>1. unlisted \subseteq Listed
    BY <1>0 DEF Kept
  <2>2. DOMAIN scene.disk = {m \in DOMAIN scene.spelling : ~IsDotEntry(scene.spelling[m])}
    BY <1>0, NamesAssumption
  <2>. QED
    BY <1>2, <2>1, <2>2 DEF Files, Listed, Spelling
<1>5. Waiting' = Waiting /\ Queue'
  BY <1>0, <1>1, <1>2, QueueStays
<1>6. Settled' = Settled \cup {n} /\ n \notin Settled
  BY <1>1, <1>2, <1>3, <1>4, <1>5, BooksStay DEF Settled
<1>7. CASE entries' = entries /\ errors' = Append(errors, Decoded(n))
  <2>1. Tally' /\ errors' \in Seq(Fault) /\ (NoName \in Failed' <=> NoName \in Failed)
    BY <1>0, <1>1, <1>4, <1>6, <1>7, TallyFails
  <2>2. Kept'
    BY <1>0, <1>1, <1>2, <2>1, KeptNext
  <2>3. Stages'
    BY <1>0, <1>1, <1>3, <2>1 DEF Stages, NoName
  <2>. QED
    BY <1>5, <2>1, <2>2, <2>3 DEF IInv
<1>8. CASE /\ entries' = entries \cup {IF \/ Plan(Query).wantStat
                                          \/ WantsFileIdFor(Plan(Query), File(n).kind \in Links)
                                       THEN PortableEntry(n) ELSE BareEntry(n, File(n).kind)}
           /\ errors' = errors
  <2>1. entries' = entries \cup {EntryOf(n)}
    <3>1. File(n).kind # "unknown"
      BY <1>0, <1>4, ScenesAssumption DEF File, Files
    <3>. QED
      BY <1>1, <1>8, <3>1 DEF EntryOf, NeedsStat, OnWindows
  <2>2. Tally'
    <3>1. PICK N : N = {n}
      OBVIOUS
    <3>2. entries' = entries \cup {EntryOf(m) : m \in N}
      BY <2>1, <3>1
    <3>3. N \in SUBSET Files /\ N \cap Settled = {} /\ Settled' = Settled \cup N
      BY <1>4, <1>6, <3>1
    <3>. QED
      BY <1>0, <1>1, <1>8, <3>2, <3>3, TallyReads
  <2>3. Kept'
    BY <1>0, <1>1, <1>2, <1>8, KeptNext
  <2>4. Stages'
    <3>1. Failed' = Failed
      BY <1>8 DEF Failed
    <3>. QED
      BY <1>0, <1>1, <1>3, <3>1 DEF Stages, NoName
  <2>. QED
    BY <1>5, <2>2, <2>3, <2>4 DEF IInv
<1>. QED
  BY <1>2, <1>7, <1>8

LEMMA IterationFailsKeeps == IInv /\ IterationFails => IInv'
<1>. SUFFICES ASSUME IInv, IterationFails PROVE IInv'
  OBVIOUS
<1>0. /\ Kept /\ Tally /\ Queue /\ Stages
      /\ scene \in Scenes /\ names \in Seq(Ticket) /\ errors \in Seq(Fault)
  BY Before
<1>1. /\ scene.backend = "portable" /\ phase = "list" /\ phase' = "ok"
      /\ errors' = Append(errors, NoName)
      /\ scene' = scene /\ gone' = gone /\ unlisted' = unlisted /\ names' = names
      /\ entries' = entries
  BY DEF IterationFails
<1>2. Waiting' = Waiting /\ Queue'
  BY <1>0, <1>1, QueueStays
<1>3. Settled' = Settled /\ Files' = Files
  BY <1>1, <1>2, BooksStay, SceneStays DEF Settled
<1>4. NoName \notin Failed /\ names = <<>>
  BY <1>0, <1>1 DEF Stages
<1>5. Tally' /\ errors' \in Seq(Fault) /\ NoName \in Failed'
  BY <1>0, <1>1, <1>3, <1>4, TallyFaults
<1>6. Kept'
  BY <1>0, <1>1, <1>5, KeptNext
<1>7. Stages'
  BY <1>1, <1>3, <1>4, <1>5 DEF Stages, NoName
<1>. QED
  BY <1>2, <1>5, <1>6, <1>7 DEF IInv

LEMMA ListingEndsKeeps == IInv /\ ListingEnds => IInv'
<1>. SUFFICES ASSUME IInv, ListingEnds PROVE IInv'
  OBVIOUS
<1>0. /\ Kept /\ Tally /\ Queue /\ Stages
      /\ scene \in Scenes /\ names \in Seq(Ticket) /\ errors \in Seq(Fault)
  BY Before
<1>1. /\ scene.backend \in {"windows", "portable"} /\ phase = "list" /\ phase' = "ok"
      /\ \A n \in unlisted \ gone : ~OnWindows /\ IsDotEntry(Spelling(n))
      /\ scene' = scene /\ gone' = gone /\ unlisted' = unlisted /\ names' = names
      /\ entries' = entries /\ errors' = errors
  BY DEF ListingEnds, OnWindows
<1>2. Waiting' = Waiting /\ Queue'
  BY <1>0, <1>1, QueueStays
<1>3. Settled' = Settled /\ Files' = Files
  BY <1>1, <1>2, BooksStay, SceneStays DEF Settled
<1>4. Kept' /\ Tally'
  BY <1>0, <1>1, <1>3, KeptNext, TallyStays
<1>5. names = <<>>
  BY <1>0, <1>1 DEF Stages
<1>6. Files \cap unlisted \subseteq gone
  BY <1>0, <1>1, DecodedNames
<1>7. Stages'
  BY <1>1, <1>3, <1>5, <1>6 DEF Stages
<1>. QED
  BY <1>2, <1>4, <1>7 DEF IInv

LEMMA NothingKeeps == IInv /\ UNCHANGED vars => IInv'
<1>. SUFFICES ASSUME IInv, UNCHANGED vars PROVE IInv'
  OBVIOUS
<1>0. /\ Kept /\ Tally /\ Queue /\ Stages
      /\ scene \in Scenes /\ names \in Seq(Ticket) /\ errors \in Seq(Fault)
      /\ phase \in {"list", "stat", "ok", "err"}
  BY Before
<1>1. /\ scene' = scene /\ gone' = gone /\ unlisted' = unlisted /\ names' = names
      /\ entries' = entries /\ errors' = errors /\ phase' = phase
  BY DEF vars
<1>2. Waiting' = Waiting /\ Queue'
  BY <1>0, <1>1, QueueStays
<1>3. Settled' = Settled /\ Files' = Files /\ Failed' = Failed
  BY <1>1, <1>2, BooksStay, SceneStays DEF Settled, Failed
<1>4. Kept' /\ Tally'
  BY <1>0, <1>1, <1>3, KeptNext, TallyStays
<1>5. Stages'
  BY <1>0, <1>1, <1>3 DEF Stages, NoName
<1>. QED
  BY <1>2, <1>4, <1>5 DEF IInv

\* The books are kept (the type invariant of the enumeration and where each listed name is).
THEOREM BooksAreKept == Spec => []IInv
<1>1. IInv /\ [Next]_vars => IInv'
  BY OpenFailsKeeps, VanishKeeps, ReadNameKeeps, ReadFailsKeeps, ReadEndsKeeps, StatOneKeeps,
     StatEndsKeeps, ReadBatchKeeps, BatchFailsKeeps, ReadOneEntryKeeps, IterationFailsKeeps,
     ListingEndsKeeps, NothingKeeps DEF Next, Done
<1>. QED
  BY InitBooks, <1>1, PTL DEF Spec

-----------------------------------------------------------------------------
(* What the books show *)

\* A listing that succeeds has missed no file that is still there, unless an error says so, and
\* one that fails has read nothing (NoSilentTruncation; read_dir of the three backends).
THEOREM TruncationCorrect == Spec => []NoSilentTruncation
<1>1. IInv => NoSilentTruncation
  BY DEF IInv, Stages, NoSilentTruncation
<1>. QED
  BY BooksAreKept, <1>1, PTL

\* The file an entry was read from.
LEMMA EntryIsOf ==
    ASSUME IInv, NEW e \in entries
    PROVE  \E n \in Files : e = EntryOf(n) /\ e.name = Decoded(n) /\ FileOf(e) = n
<1>1. scene \in Scenes /\ Tally
  BY Before
<1>2. PICK n \in Files : e = EntryOf(n)
  BY <1>1 DEF Tally
<1>3. e.name = Decoded(n)
  BY <1>1, <1>2, EntryNames
<1>4. \A m \in Files : Decoded(m) = Decoded(n) => m = n
  BY <1>1, DecodedNames
<1>5. FileOf(e) = n
  BY <1>3, <1>4 DEF FileOf
<1>. QED
  BY <1>2, <1>3, <1>5

\* Each entry opens the file it was read from, by a name that is neither `.` nor `..`
\* (NamesOpenThemselves; decode_name, encode_os_name).
THEOREM NamesCorrect == Spec => []NamesOpenThemselves
<1>1. ASSUME IInv PROVE NamesOpenThemselves
  <2>1. ASSUME NEW e \in entries
        PROVE  \E n \in Files : /\ EncodeName(scene.backend, e.name) = Spelling(n)
                                /\ Spelling(n) \notin {<<46>>, <<46, 46>>}
    <3>1. scene \in Scenes
      BY <1>1, Before
    <3>2. PICK n \in Files : e.name = Decoded(n)
      BY <1>1, EntryIsOf
    <3>3. EncodeName(scene.backend, e.name) = Spelling(n)
      BY <3>1, <3>2, DecodedNames
    <3>4. ~IsDotEntry(Spelling(n))
      BY <3>1, DecodedNames
    <3>. QED
      BY <3>3, <3>4 DEF IsDotEntry
  <2>. QED
    BY <2>1 DEF NamesOpenThemselves
<1>. QED
  BY BooksAreKept, <1>1, PTL

\* The members of a set counted by those of another.
LEMMA SameCount ==
    ASSUME NEW S, IsFiniteSet(S), NEW f, DOMAIN f = S,
           \A x, y \in S : f[x] = f[y] => x = y
    PROVE  IsFiniteSet({f[x] : x \in S}) /\ Cardinality({f[x] : x \in S}) = Cardinality(S)
<1>. DEFINE T == {f[x] : x \in S}
            g == [x \in S |-> f[x]]
<1>1. g \in [S -> T] /\ (\A x, y \in S : g[x] = g[y] => x = y) /\ \A t \in T : \E x \in S : g[x] = t
  OBVIOUS
<1>. HIDE DEF g, T
<1>2. g \in Bijection(S, T)
  <2>1. g \in Injection(S, T)
    BY <1>1 DEF Injection, IsInjective
  <2>2. g \in Surjection(S, T)
    BY <1>1 DEF Surjection
  <2>. QED
    BY <2>1, <2>2 DEF Bijection
<1>3. ExistsBijection(S, T)
  BY <1>2 DEF ExistsBijection
<1>4. IsFiniteSet(T) /\ Cardinality(T) = Cardinality(S)
  BY <1>3, FS_Bijection
<1>. QED
  BY <1>4 DEF T

\* Two sets that share nothing are counted one after the other.
LEMMA Counts ==
    ASSUME NEW S, NEW T, IsFiniteSet(S), IsFiniteSet(T), S \cap T = {}
    PROVE  /\ IsFiniteSet(S \cup T) /\ Cardinality(S \cup T) = Cardinality(S) + Cardinality(T)
           /\ Cardinality(S) \in Nat /\ Cardinality(T) \in Nat
  BY FS_Union, FS_EmptySet, FS_CardinalityType

\* At the end of a listing each name is an entry or an error, once
\* (AccountsForEachName; read_dir of the three backends).
THEOREM AccountsCorrect == Spec => []AccountsForEachName
<1>1. ASSUME IInv, phase = "ok"
      PROVE  /\ {Decoded(n) : n \in Files \ unlisted} =
                    {e.name : e \in entries} \cup (Failed \ {NoName})
             /\ Cardinality(Files \ unlisted) + (IF NoName \in Failed THEN 1 ELSE 0) =
                    Cardinality(entries) + Len(errors)
  <2>0. /\ scene \in Scenes /\ errors \in Seq(Fault)
        /\ Held \cap Lost = {} /\ Held \cup Lost = Settled
        /\ Tally
    BY <1>1, Before
  <2>1. Waiting = {}
    BY <1>1, Before DEF Stages
  <2>2. Held \cup Lost = Files \ unlisted
    BY <2>0, <2>1 DEF Settled
  <2>3. /\ IsFiniteSet(Files) /\ \A n \in Files : Decoded(n) # NoName
        /\ \A m, n \in Files : Decoded(m) = Decoded(n) => m = n
        /\ \A n \in Files : EntryOf(n).name = Decoded(n)
        /\ \A m, n \in Files : EntryOf(m) = EntryOf(n) => m = n
    BY <2>0, DecodedNames, EntryNames
  <2>4. /\ entries = {EntryOf(n) : n \in Held}
        /\ Failed \ {NoName} = {Decoded(n) : n \in Lost}
    <3>1. \A e \in entries : \E n \in Files : e = EntryOf(n)
      BY <2>0 DEF Tally
    <3>2. Failed \subseteq {Decoded(n) : n \in Files} \cup {NoName}
      BY <2>0 DEF Tally
    <3>3. entries = {EntryOf(n) : n \in Held}
      BY <3>1 DEF Held
    <3>4. Failed \ {NoName} = {Decoded(n) : n \in Lost}
      BY <2>3, <3>2 DEF Lost
    <3>. QED
      BY <3>3, <3>4
  <2>5. {e.name : e \in entries} = {Decoded(n) : n \in Held}
    BY <2>3, <2>4 DEF Held
  <2>6. {Decoded(n) : n \in Files \ unlisted} = {e.name : e \in entries} \cup (Failed \ {NoName})
    <3>1. {Decoded(n) : n \in Files \ unlisted} =
              {Decoded(n) : n \in Held} \cup {Decoded(n) : n \in Lost}
      BY <2>2
    <3>. QED
      BY <2>4, <2>5, <3>1
  <2>7. IsFiniteSet(Held) /\ IsFiniteSet(Lost)
    <3>1. Held \in SUBSET Files /\ Lost \in SUBSET Files
      BY DEF Held, Lost
    <3>. QED
      BY <2>3, <3>1, FS_Subset
  <2>8. Cardinality(entries) = Cardinality(Held)
    <3>1. PICK f : f = [n \in Held |-> EntryOf(n)]
      OBVIOUS
    <3>2. DOMAIN f = Held /\ \A m, n \in Held : f[m] = f[n] => m = n
      BY <2>3, <3>1 DEF Held
    <3>3. entries = {f[n] : n \in Held}
      BY <2>4, <3>1
    <3>. QED
      BY <2>7, <3>2, <3>3, SameCount
  <2>9. /\ IsFiniteSet(Failed \ {NoName})
        /\ Cardinality(Failed \ {NoName}) = Cardinality(Lost)
    <3>1. PICK f : f = [n \in Lost |-> Decoded(n)]
      OBVIOUS
    <3>2. DOMAIN f = Lost /\ \A m, n \in Lost : f[m] = f[n] => m = n
      BY <2>3, <3>1 DEF Lost
    <3>3. Failed \ {NoName} = {f[n] : n \in Lost}
      BY <2>4, <3>1
    <3>. QED
      BY <2>7, <3>2, <3>3, SameCount
  <2>10. Cardinality(Failed) = Len(errors)
    <3>1. Len(errors) \in Nat /\ DOMAIN errors = 1..Len(errors)
      BY <2>0, LenProperties
    <3>2. IsFiniteSet(1..Len(errors)) /\ Cardinality(1..Len(errors)) = Len(errors)
      <4>1. PICK last \in Nat : last = Len(errors)
        BY <3>1
      <4>2. 1 \in Int /\ last \in Int
        OBVIOUS
      <4>3. PICK first \in Int : first = 1
        OBVIOUS
      <4>4. /\ IsFiniteSet(first..last)
            /\ Cardinality(first..last) = IF first > last THEN 0 ELSE last - first + 1
        BY <4>2, FS_Interval
      <4>. QED
        BY <4>1, <4>3, <4>4
    <3>3. \A i, j \in 1..Len(errors) : errors[i] = errors[j] => i = j
      BY <2>0, <3>1 DEF Tally
    <3>4. PICK f, S : f = errors /\ S = 1..Len(errors)
      OBVIOUS
    <3>5. Cardinality({f[i] : i \in S}) = Cardinality(S)
      BY <3>1, <3>2, <3>3, <3>4, SameCount
    <3>6. Failed = {f[i] : i \in S}
      BY <3>1, <3>4 DEF Failed, ToSet
    <3>. QED
      BY <3>2, <3>4, <3>5, <3>6
  <2>11. /\ Cardinality(Files \ unlisted) = Cardinality(Held) + Cardinality(Lost)
         /\ Cardinality(Held) \in Nat /\ Cardinality(Lost) \in Nat
    BY <2>0, <2>2, <2>7, Counts
  <2>12. Cardinality(Failed) = Cardinality(Lost) + (IF NoName \in Failed THEN 1 ELSE 0)
    <3>1. PICK F : F = Failed \ {NoName}
      OBVIOUS
    <3>2. Cardinality(F \cup {NoName}) = Cardinality(F) + 1
      BY <2>9, <3>1, FS_AddElement
    <3>3. CASE NoName \in Failed
      <4>1. Failed = F \cup {NoName}
        BY <3>1, <3>3
      <4>. QED
        BY <2>9, <3>1, <3>2, <3>3, <4>1
    <3>4. CASE NoName \notin Failed
      <4>1. Failed = F
        BY <3>1, <3>4
      <4>. QED
        BY <2>9, <2>11, <3>1, <3>4, <4>1
    <3>. QED
      BY <3>3, <3>4
  <2>13. CASE NoName \in Failed
    BY <2>6, <2>8, <2>10, <2>11, <2>12, <2>13
  <2>14. CASE NoName \notin Failed
    BY <2>6, <2>8, <2>10, <2>11, <2>12, <2>14
  <2>. QED
    BY <2>13, <2>14
<1>2. IInv => AccountsForEachName
  BY <1>1 DEF AccountsForEachName
<1>. QED
  BY BooksAreKept, <1>2, PTL

-----------------------------------------------------------------------------
(* What an entry tells *)

\* A condition that reads only fields told alike says the same of both entries.
LEMMA LeafDecides ==
    ASSUME NEW leaf, NEW d, NEW e, leaf.is \in LeafTests,
           d.name = e.name, d.type = e.type, d.reparse = e.reparse, d.tag = e.tag,
           \A f \in LeafFields(leaf) : d[f] = e[f]
    PROVE  EvalLeaf(leaf, d) <=> EvalLeaf(leaf, e)
<1>1. CASE leaf.is \in {"name", "nameInSet", "type", "reparse", "tag"}
  BY <1>1 DEF EvalLeaf
<1>2. CASE leaf.is \in {"allSet", "allClear"}
  <2>1. "attrs" \in LeafFields(leaf)
    BY <1>2 DEF LeafFields
  <2>2. d.attrs = e.attrs
    BY <2>1
  <2>. QED
    BY <1>2, <2>2 DEF EvalLeaf
<1>3. CASE leaf.is \in {"size"} \cup Times
  <2>1. leaf.is \in LeafFields(leaf)
    BY <1>3 DEF LeafFields, Times
  <2>2. d[leaf.is] = e[leaf.is]
    BY <2>1
  <2>. QED
    BY <1>3, <2>2 DEF EvalLeaf, Times
<1>. QED
  BY <1>1, <1>2, <1>3 DEF LeafTests

\* What is not fetched decides nothing: the entries agree on the fields the plan fetches, and
\* on what the listing tells of any entry.
LEMMA Undisturbed ==
    ASSUME scene \in Scenes, NEW d, NEW e,
           d.name = e.name, d.type = e.type, d.reparse = e.reparse, d.tag = e.tag,
           Plan(Query).wantStat => \A f \in StatFields : d[f] = e[f]
    PROVE  /\ \A c \in Query.emit \cup {Query.descend} : EvalAll(c, d) <=> EvalAll(c, e)
           /\ \A f \in FetchMask(Query) : d[f] = e[f]
<1>1. ASSUME NEW c \in Query.emit \cup {Query.descend}, NEW leaf \in c
      PROVE  leaf.is \in LeafTests /\ LeafFields(leaf) \subseteq FetchMask(Query)
  <2>1. leaf.is \in LeafTests
    BY ScenesAssumption DEF Query
  <2>2. LeafFields(leaf) \subseteq RequiredFields(c)
    BY DEF RequiredFields
  <2>3. RequiredFields(c) \subseteq FetchMask(Query)
    BY DEF FetchMask
  <2>. QED
    BY <2>1, <2>2, <2>3
<1>2. FetchMask(Query) \subseteq Fields
  <2>1. ASSUME NEW c \in Query.emit \cup {Query.descend}
        PROVE  RequiredFields(c) \subseteq Fields
    <3>1. ASSUME NEW leaf \in c PROVE LeafFields(leaf) \subseteq Fields
      <4>1. leaf.is \in LeafTests
        BY <1>1
      <4>. QED
        BY <4>1 DEF LeafFields, LeafTests, Fields, StatFields, Times
    <3>. QED
      BY <3>1 DEF RequiredFields
  <2>2. Query.shape \subseteq Fields
    BY ScenesAssumption DEF Query
  <2>. QED
    BY <2>1, <2>2 DEF FetchMask
<1>3. ASSUME NEW f \in FetchMask(Query) PROVE d[f] = e[f]
  <2>1. CASE f \in StatFields
    BY <1>3, <2>1 DEF Plan
  <2>2. CASE f \in {"type", "reparse"}
    BY <2>2
  <2>. QED
    BY <1>2, <2>1, <2>2 DEF Fields
<1>4. ASSUME NEW c \in Query.emit \cup {Query.descend}, NEW leaf \in c
      PROVE  EvalLeaf(leaf, d) <=> EvalLeaf(leaf, e)
  <2>1. leaf.is \in LeafTests /\ \A f \in LeafFields(leaf) : d[f] = e[f]
    BY <1>1, <1>3
  <2>. QED
    BY <2>1, LeafDecides
<1>5. ASSUME NEW c \in Query.emit \cup {Query.descend} PROVE EvalAll(c, d) <=> EvalAll(c, e)
  BY <1>4 DEF EvalAll
<1>. QED
  BY <1>3, <1>5

\* An entry and its file agree on what the listing tells, and after a stat on the rest too.
LEMMA ToldByListing ==
    ASSUME scene \in Scenes, NEW n \in Files
    PROVE  /\ EntryOf(n).name = Full(n).name /\ EntryOf(n).type = Full(n).type
           /\ EntryOf(n).reparse = Full(n).reparse /\ EntryOf(n).tag = Full(n).tag
           /\ Plan(Query).wantStat => \A f \in StatFields : EntryOf(n)[f] = Full(n)[f]
<1>1. File(n).kind # "unknown" /\ scene.backend \in {"linux", "portable", "windows"}
  BY ScenesAssumption DEF Files, File
<1>2. CASE scene.backend = "linux"
  <2>1. Full(n) = LinuxEntry(n)
    BY <1>2 DEF Full, OnWindows
  <2>2. CASE NeedsStat(n, DType(File(n)))
    BY <1>2, <2>1, <2>2 DEF EntryOf, OnWindows
  <2>3. CASE ~NeedsStat(n, DType(File(n)))
    <3>1. EntryOf(n) = BareEntry(n, File(n).kind)
      BY <1>2, <2>3 DEF EntryOf, NeedsStat, DType, OnWindows
    <3>2. ~Plan(Query).wantStat
      BY <2>3 DEF NeedsStat
    <3>. QED
      BY <2>1, <3>1, <3>2 DEF LinuxEntry, BareEntry
  <2>. QED
    BY <2>2, <2>3
<1>3. CASE scene.backend = "portable"
  <2>1. Full(n) = PortableEntry(n)
    BY <1>3 DEF Full, OnWindows
  <2>2. CASE NeedsStat(n, File(n).kind)
    BY <1>3, <2>1, <2>2 DEF EntryOf, OnWindows
  <2>3. CASE ~NeedsStat(n, File(n).kind)
    <3>1. EntryOf(n) = BareEntry(n, File(n).kind)
      BY <1>3, <2>3 DEF EntryOf, OnWindows
    <3>2. ~Plan(Query).wantStat
      BY <2>3 DEF NeedsStat
    <3>. QED
      BY <2>1, <3>1, <3>2 DEF PortableEntry, BareEntry
  <2>. QED
    BY <2>2, <2>3
<1>4. CASE OnWindows
  <2>1. EntryOf(n) = WindowsEntry(n, Plan(Query))
    BY <1>4 DEF EntryOf, OnWindows
  <2>2. Full(n) = WindowsEntry(n, [wantFileId |-> TRUE])
    BY <1>4 DEF Full, OnWindows
  <2>3. ASSUME NEW p, NEW q
        PROVE  LET d == WindowsEntry(n, p)
                   e == WindowsEntry(n, q)
               IN /\ d.name = e.name /\ d.type = e.type /\ d.reparse = e.reparse /\ d.tag = e.tag
                  /\ \A f \in StatFields : d[f] = e[f]
    BY DEF WindowsEntry, StatFields, Times
  <2>. QED
    BY <2>1, <2>2, <2>3
<1>. QED
  BY <1>1, <1>2, <1>3, <1>4 DEF OnWindows

\* Fetching only what a query needs changes none of its decisions
\* (LazyFetchIsSound; fetch_mask and the two loops of read_dir, D-62).
THEOREM LazyFetchCorrect == Spec => []LazyFetchIsSound
<1>1. ASSUME IInv PROVE LazyFetchIsSound
  <2>1. ASSUME NEW e \in entries
        PROVE  /\ \A c \in Query.emit \cup {Query.descend} :
                      EvalAll(c, e) <=> EvalAll(c, Full(FileOf(e)))
               /\ \A f \in FetchMask(Query) : e[f] = Full(FileOf(e))[f]
    <3>1. scene \in Scenes
      BY <1>1, Before
    <3>2. PICK n \in Files : e = EntryOf(n) /\ FileOf(e) = n
      BY <1>1, EntryIsOf
    <3>3. PICK full : full = Full(n)
      OBVIOUS
    <3>4. /\ e.name = full.name /\ e.type = full.type
          /\ e.reparse = full.reparse /\ e.tag = full.tag
          /\ Plan(Query).wantStat => \A f \in StatFields : e[f] = full[f]
      BY <3>1, <3>2, <3>3, ToldByListing
    <3>5. /\ \A c \in Query.emit \cup {Query.descend} : EvalAll(c, e) <=> EvalAll(c, full)
          /\ \A f \in FetchMask(Query) : e[f] = full[f]
      BY <3>1, <3>4, Undisturbed
    <3>. QED
      BY <3>2, <3>3, <3>5
  <2>. QED
    BY <2>1 DEF LazyFetchIsSound
<1>. QED
  BY BooksAreKept, <1>1, PTL

\* A link the walk may follow comes with the identity the visited set needs
\* (FollowedLinkHasIdentity; the reparse file id of the three backends, D-51).
THEOREM IdentityCorrect == Spec => []FollowedLinkHasIdentity
<1>1. ASSUME scene \in Scenes, NEW n \in Files, NEW e, e = EntryOf(n)
      PROVE  \/ e.id = <<Volume, File(n).inode>>
             \/ /\ e.id = Unknown
                /\ Query.follow /\ Query.cycles /\ e.reparse =>
                       IF OnWindows THEN ~scene.serial ELSE File(n).inode = 0
  <2>1. File(n).kind # "unknown" /\ scene.backend \in {"linux", "portable", "windows"}
    BY <1>1, ScenesAssumption DEF Files, File
  <2>2. ASSUME e = BareEntry(n, File(n).kind), ~NeedsStat(n, File(n).kind)
        PROVE  e.id = Unknown /\ ~(Query.follow /\ Query.cycles /\ e.reparse)
    <3>1. e.id = Unknown /\ e.reparse = (File(n).kind \in Links)
      BY <2>2 DEF BareEntry
    <3>2. ~WantsFileIdFor(Plan(Query), File(n).kind \in Links)
      BY <2>2 DEF NeedsStat
    <3>3. ~(File(n).kind \in Links /\ Query.cycles /\ Query.follow)
      BY <3>2 DEF WantsFileIdFor, Plan
    <3>. QED
      BY <3>1, <3>3
  <2>3. CASE scene.backend = "linux"
    <3>1. CASE NeedsStat(n, DType(File(n)))
      <4>1. e = LinuxEntry(n)
        BY <1>1, <2>3, <3>1 DEF EntryOf, OnWindows
      <4>2. e.id = IF File(n).inode = 0 THEN Unknown ELSE <<Volume, File(n).inode>>
        BY <4>1 DEF LinuxEntry, BareEntry
      <4>. QED
        BY <2>3, <4>2 DEF OnWindows
    <3>2. CASE ~NeedsStat(n, DType(File(n)))
      <4>1. DType(File(n)) = File(n).kind
        BY <3>2 DEF NeedsStat, DType
      <4>. QED
        BY <1>1, <2>2, <2>3, <3>2, <4>1 DEF EntryOf, OnWindows
    <3>. QED
      BY <3>1, <3>2
  <2>4. CASE scene.backend = "portable"
    <3>1. CASE NeedsStat(n, File(n).kind)
      <4>1. e = PortableEntry(n)
        BY <1>1, <2>4, <3>1 DEF EntryOf, OnWindows
      <4>. QED
        BY <4>1 DEF PortableEntry, BareEntry
    <3>2. CASE ~NeedsStat(n, File(n).kind)
      BY <1>1, <2>2, <2>4, <3>2 DEF EntryOf, OnWindows
    <3>. QED
      BY <3>1, <3>2
  <2>5. CASE OnWindows
    <3>1. e = WindowsEntry(n, Plan(Query))
      BY <1>1, <2>5 DEF EntryOf, OnWindows
    <3>2. PICK reparse : reparse = ("reparse" \in Attributes(File(n)))
      OBVIOUS
    <3>3. PICK ids : ids = {<<v, File(n).inode>> : v \in {v \in VolumeSerial(Plan(Query)) :
                                             WantsFileIdFor(Plan(Query), e.reparse)}}
      OBVIOUS
    <3>4. e.reparse = ("reparse" \in Attributes(File(n)))
      BY <3>1 DEF WindowsEntry
    <3>5. e.id = IF ids = {} THEN Unknown ELSE CHOOSE id \in ids : TRUE
      BY <3>1, <3>3, <3>4 DEF WindowsEntry
    <3>6. CASE ids = {}
      <4>1. ~(scene.serial /\ Query.follow /\ Query.cycles /\ e.reparse)
        BY <3>3, <3>6 DEF VolumeSerial, WantsAnyFileId, WantsFileIdFor, Plan
      <4>. QED
        BY <2>5, <3>5, <3>6, <4>1
    <3>7. CASE ids # {}
      <4>1. \A id \in ids : id = <<Volume, File(n).inode>>
        BY <3>3 DEF VolumeSerial
      <4>. QED
        BY <3>5, <3>7, <4>1
    <3>. QED
      BY <3>6, <3>7
  <2>. QED
    BY <2>1, <2>3, <2>4, <2>5 DEF OnWindows
<1>2. ASSUME IInv PROVE FollowedLinkHasIdentity
  <2>1. ASSUME NEW e \in entries
        PROVE  \/ e.id = <<Volume, File(FileOf(e)).inode>>
               \/ /\ e.id = Unknown
                  /\ Query.follow /\ Query.cycles /\ e.reparse =>
                         IF OnWindows THEN ~scene.serial ELSE File(FileOf(e)).inode = 0
    <3>1. scene \in Scenes
      BY <1>2, Before
    <3>2. PICK n \in Files : e = EntryOf(n) /\ FileOf(e) = n
      BY <1>2, EntryIsOf
    <3>. QED
      BY <1>1, <3>1, <3>2
  <2>. QED
    BY <2>1 DEF FollowedLinkHasIdentity
<1>. QED
  BY BooksAreKept, <1>2, PTL

\* Cutting a number off at the ends of a range keeps the order, and what is within it.
LEMMA ClampKeepsOrder ==
    ASSUME NEW s \in Int, NEW t \in Int
    PROVE  /\ s <= t => Clamped(s) <= Clamped(t)
           /\ s \in MinI64..MaxI64 => Clamped(s) = s
  BY TimesAssumption DEF Clamped

\* A time that is not misread is reported as the nanoseconds it stands for, cut off at the ends;
\* any Unix time is late by less than a second.
LEMMA Reported ==
    ASSUME scene \in Scenes, NEW n \in Files, Plan(Query).wantStat, NEW field \in Times,
           File(n)[field] # <<>>
    PROVE  /\ Exact(File(n)[field]) \in Int /\ EntryOf(n)[field] \in Int
           /\ ~Misread(field, File(n)[field]) =>
                  EntryOf(n)[field] = Clamped(Exact(File(n)[field]))
           /\ ~OnWindows => EntryOf(n)[field] - Clamped(Exact(File(n)[field]))
                                \in 0..(NanosPerSec - 1)
<1>1. PICK t : t = File(n)[field]
  OBVIOUS
<1>2. /\ scene.backend \in {"linux", "portable", "windows"} /\ t # <<>>
      /\ t[1] \in MinI64..MaxI64 /\ (~OnWindows => t[2] \in 0..(NanosPerSec - 1))
  BY <1>1, ScenesAssumption DEF Files, File, IsTime, OnWindows
<1>3. field \in {"mtime", "atime", "ctime", "btime"}
  BY DEF Times
<1>4. CASE OnWindows
  <2>1. PICK since \in Int : since = t[1] - Epoch
    BY <1>2, TimesAssumption
  <2>2. PICK nanos \in Int : nanos = since * NanosPerTick
    BY TimesAssumption
  <2>3. Exact(t) = nanos
    BY <1>4, <2>1, <2>2 DEF Exact
  <2>4. EntryOf(n)[field] = FiletimeToUnixNanos(t)
    <3>1. EntryOf(n) = WindowsEntry(n, Plan(Query))
      BY <1>4 DEF EntryOf, OnWindows
    <3>. QED
      BY <1>1, <1>3, <3>1 DEF WindowsEntry
  <2>5. ~Misread(field, t) => Wrapped(since) = since
    BY <1>2, <1>4, <2>1, TimesAssumption DEF Misread, Wrapped
  <2>6. FiletimeToUnixNanos(t) = Clamped(Wrapped(since) * NanosPerTick)
    BY <1>2, <2>1 DEF FiletimeToUnixNanos
  <2>7. Clamped(Wrapped(since) * NanosPerTick) \in Int
    <3>1. Wrapped(since) \in Int
      BY TimesAssumption DEF Wrapped
    <3>2. PICK k \in Int : k = Wrapped(since) * NanosPerTick
      BY <3>1, TimesAssumption
    <3>. QED
      BY <3>2, TimesAssumption DEF Clamped
  <2>. QED
    BY <1>1, <1>4, <2>2, <2>3, <2>4, <2>5, <2>6, <2>7
<1>5. CASE ~OnWindows
  <2>1. PICK seconds \in Int : seconds = t[1] * NanosPerSec
    BY <1>2, TimesAssumption
  <2>2. PICK nanos \in 0..(NanosPerSec - 1) : nanos = t[2]
    BY <1>2, <1>5
  <2>3. Exact(t) = seconds + nanos
    BY <1>5, <2>1, <2>2 DEF Exact
  <2>4. StatxTime(t) = Clamped(Clamped(seconds) + nanos)
    BY <1>2, <2>1, <2>2 DEF StatxTime
  <2>5. Nanos(t) = Clamped(seconds + nanos)
    BY <1>2, <2>1, <2>2 DEF Nanos
  <2>6. /\ seconds >= MinI64 \/ nanos = 0 =>
               Clamped(Clamped(seconds) + nanos) = Clamped(seconds + nanos)
        /\ Clamped(Clamped(seconds) + nanos) - Clamped(seconds + nanos) \in 0..(NanosPerSec - 1)
        /\ Clamped(seconds + nanos) - Clamped(seconds + nanos) \in 0..(NanosPerSec - 1)
        /\ Clamped(Clamped(seconds) + nanos) \in Int /\ Clamped(seconds + nanos) \in Int
    BY TimesAssumption DEF Clamped
  <2>7. EntryOf(n)[field] = IF SaturatesTwice(field) THEN StatxTime(t) ELSE Nanos(t)
    <3>1. CASE scene.backend = "linux"
      <4>1. EntryOf(n) = LinuxEntry(n)
        BY <3>1 DEF EntryOf, NeedsStat, OnWindows
      <4>. QED
        BY <1>1, <1>3, <3>1, <4>1 DEF LinuxEntry, BareEntry, SaturatesTwice
    <3>2. CASE scene.backend = "portable"
      <4>1. EntryOf(n) = PortableEntry(n)
        BY <3>2 DEF EntryOf, NeedsStat, OnWindows
      <4>. QED
        BY <1>1, <1>3, <3>2, <4>1 DEF PortableEntry, BareEntry, SaturatesTwice
    <3>. QED
      BY <1>2, <1>5, <3>1, <3>2 DEF OnWindows
  <2>8. ~Misread(field, t) => ~SaturatesTwice(field) \/ seconds >= MinI64 \/ nanos = 0
    BY <2>1, <2>2, TimesAssumption DEF Misread
  <2>. QED
    BY <1>1, <1>5, <2>3, <2>4, <2>5, <2>6, <2>7, <2>8
<1>. QED
  BY <1>4, <1>5

\* Two times that the backend does not misread keep their order, a time within the range is exact,
\* and on Unix no time is late by a second (TimesKeepOrder; statx_time, nanos and
\* filetime_to_unix_nanos).
THEOREM TimesCorrect == Spec => []TimesKeepOrder
<1>1. ASSUME IInv PROVE TimesKeepOrder
  <2>1. ASSUME NEW e \in entries, NEW f \in entries, NEW field \in Times, Plan(Query).wantStat,
               File(FileOf(e))[field] # <<>>, File(FileOf(f))[field] # <<>>
        PROVE  LET s == File(FileOf(e))[field]
                   t == File(FileOf(f))[field]
               IN /\ ~Misread(field, s) /\ ~Misread(field, t) =>
                         /\ Exact(s) <= Exact(t) => e[field] <= f[field]
                         /\ Exact(s) \in MinI64..MaxI64 => e[field] = Exact(s)
                  /\ ~OnWindows => e[field] - Clamped(Exact(s)) \in 0..(NanosPerSec - 1)
    <3>1. scene \in Scenes
      BY <1>1, Before
    <3>2. PICK m \in Files : e = EntryOf(m) /\ FileOf(e) = m
      BY <1>1, EntryIsOf
    <3>3. PICK n \in Files : f = EntryOf(n) /\ FileOf(f) = n
      BY <1>1, EntryIsOf
    <3>4. PICK s \in Int : /\ s = Exact(File(m)[field])
                           /\ ~Misread(field, File(m)[field]) => e[field] = Clamped(s)
                           /\ ~OnWindows => e[field] - Clamped(s) \in 0..(NanosPerSec - 1)
      BY <2>1, <3>1, <3>2, Reported
    <3>5. PICK t \in Int : /\ t = Exact(File(n)[field])
                           /\ ~Misread(field, File(n)[field]) => f[field] = Clamped(t)
      BY <2>1, <3>1, <3>3, Reported
    <3>6. /\ s <= t => Clamped(s) <= Clamped(t)
          /\ s \in MinI64..MaxI64 => Clamped(s) = s
      BY ClampKeepsOrder
    <3>. QED
      BY <3>2, <3>3, <3>4, <3>5, <3>6
  <2>. QED
    BY <2>1 DEF TimesKeepOrder
<1>. QED
  BY BooksAreKept, <1>1, PTL

-----------------------------------------------------------------------------
(* Conditions on a name *)

\* A condition on a name is what the matcher says of its glob.
LEMMA NameIsGlob ==
    ASSUME NEW tokens, NEW case, NEW e
    PROVE  EvalLeaf(NameGlob(tokens, case), e) <=> MatchSegment(tokens, e.name, case)
<1>1. MatchSegment(tokens, e.name, case) \in BOOLEAN
  BY DEF MatchSegment
<1>2. EvalLeaf(NameGlob(tokens, case), e) = (MatchSegment(tokens, e.name, case) # FALSE)
  BY DEF EvalLeaf, NameGlob
<1>. QED
  BY <1>1, <1>2

\* The text of a needle stands at a place of a name.
StandsAt(needle, name, p, case) == \A j \in 1..Len(needle) : CpEq(needle[j], name[p + j], case)

\* So does a part of the name.
LEMMA PartIs ==
    ASSUME NEW needle \in Seq(Nat), NEW name \in Seq(Points), NEW case,
           NEW p \in Nat, p + Len(needle) <= Len(name)
    PROVE  SameText(SubSeq(name, p + 1, p + Len(needle)), needle, case) <=>
               StandsAt(needle, name, p, case)
<1>. DEFINE part == SubSeq(name, p + 1, p + Len(needle))
<1>1. Len(name) \in Nat /\ Len(needle) \in Nat /\ \A i \in 1..Len(name) : name[i] \in Points
  BY LenProperties, ElementOfSeq
<1>2. /\ part \in Seq(Points) /\ Len(part) = Len(needle)
      /\ \A j \in 1..Len(needle) : part[j] = name[p + j]
  <2>1. PICK m, n : m = p + 1 /\ n = p + Len(needle)
    OBVIOUS
  <2>2. m \in Int /\ n \in Int /\ \A i \in m..n : name[i] \in Points
    BY <1>1, <2>1
  <2>3. /\ SubSeq(name, m, n) \in Seq(Points)
        /\ Len(SubSeq(name, m, n)) = IF m <= n THEN n - m + 1 ELSE 0
        /\ \A j \in 1..(n - m + 1) : SubSeq(name, m, n)[j] = name[m + j - 1]
    BY <2>2, SubSeqProperties
  <2>4. n - m + 1 = Len(needle) /\ (~(m <= n) => Len(needle) = 0)
    BY <1>1, <2>1
  <2>5. \A j \in 1..Len(needle) : m + j - 1 = p + j
    BY <1>1, <2>1
  <2>. QED
    BY <2>1, <2>3, <2>4, <2>5
<1>. HIDE DEF part
<1>3. DOMAIN part = 1..Len(needle)
  BY <1>2, LenProperties
<1>4. SameText(part, needle, case) <=> \A j \in 1..Len(needle) : CpEq(name[p + j], needle[j], case)
  BY <1>2, <1>3 DEF SameText
<1>5. SameText(part, needle, case) <=> StandsAt(needle, name, p, case)
  BY <1>4, CpEqSymmetric DEF StandsAt
<1>. QED
  BY <1>5 DEF part

\* The literals of a needle among the tokens of a segment: they match at the places where its
\* text stands and what is behind it matches.
LEMMA NeedleRun ==
    ASSUME NEW needle \in Seq(Nat), NEW name \in Seq(Points), NEW case,
           NEW tokens \in Seq(Tokens(Nat)),
           NEW places \in [0..Len(tokens) -> SUBSET (0..Len(name))],
           \A n \in 0..(Len(tokens) - 1) :
               places[n] = TokenThen(tokens[n + 1], places[n + 1], name, case),
           NEW first \in Nat, first + Len(needle) <= Len(tokens),
           \A j \in 1..Len(needle) : tokens[first + j] = Literal(needle[j])
    PROVE  \A p \in Nat : p \in places[first] <=>
               /\ p + Len(needle) \in places[first + Len(needle)]
               /\ StandsAt(needle, name, p, case)
<1>1. Len(name) \in Nat /\ Len(needle) \in Nat /\ Len(tokens) \in Nat
  BY LenProperties
<1>2. \A j \in 1..Len(needle) : /\ tokens[first + j].token = "literal"
                                /\ tokens[first + j].cp = needle[j]
  <2>1. ASSUME NEW cp PROVE Literal(cp).token = "literal" /\ Literal(cp).cp = cp
    BY DEF Literal
  <2>. QED
    BY <2>1
<1>3. PICK k \in Nat : k = Len(needle)
  BY <1>1
<1>4. \A p \in Nat :
          p \in places[first] <=>
              /\ p + k \in places[first + k]
              /\ \A j \in 1..k : CpEq(tokens[first + j].cp, name[p + j], case)
  <2>1. first + k <= Len(tokens) /\ \A j \in 1..k : tokens[first + j].token = "literal"
    BY <1>2, <1>3
  <2>. QED
    BY <1>1, <2>1, LiteralRun
<1>. QED
  BY <1>2, <1>3, <1>4 DEF StandsAt

LEMMA LiteralsAre ==
    ASSUME NEW needle \in Seq(Nat)
    PROVE  /\ Literals(needle) \in Seq(Tokens(Nat)) /\ Len(Literals(needle)) = Len(needle)
           /\ \A j \in 1..Len(needle) : Literals(needle)[j] = Literal(needle[j])
<1>1. /\ Len(needle) \in Nat /\ DOMAIN needle = 1..Len(needle)
      /\ \A j \in 1..Len(needle) : needle[j] \in Nat
  BY LenProperties, ElementOfSeq
<1>2. \A j \in 1..Len(needle) : Literal(needle[j]) \in Tokens(Nat)
  BY <1>1 DEF Tokens, SimpleTokens
<1>3. Literals(needle) = [j \in 1..Len(needle) |-> Literal(needle[j])]
  BY <1>1 DEF Literals
<1>. QED
  BY <1>1, <1>2, <1>3

\* name_exact
LEMMA ExactMeans ==
    ASSUME NEW needle \in Seq(Nat), NEW name \in Seq(Points), NEW case
    PROVE  MatchSegment(Literals(needle), name, case) <=> SameText(name, needle, case)
<1>. DEFINE tokens == Literals(needle)
<1>1. /\ tokens \in Seq(Tokens(Nat)) /\ Len(tokens) = Len(needle)
      /\ \A j \in 1..Len(needle) : tokens[j] = Literal(needle[j])
  BY LiteralsAre
<1>2. /\ Len(name) \in Nat /\ Len(needle) \in Nat
      /\ DOMAIN name = 1..Len(name)
  BY LenProperties
<1>. HIDE DEF tokens
<1>3. PICK places \in [0..Len(tokens) -> SUBSET (0..Len(name))] :
          /\ places[Len(tokens)] = {Len(name)}
          /\ \A n \in 0..(Len(tokens) - 1) :
                 places[n] = TokenThen(tokens[n + 1], places[n + 1], name, case)
          /\ MatchSegment(tokens, name, case) <=> 0 \in places[0]
  <2>1. tokens \in Seq(Tokens(Nat)) /\ Len(name) \in Nat
    BY <1>1, <1>2
  <2>. QED
    BY <2>1, SegmentPlaces
<1>4. PICK first \in Nat : first = 0
  OBVIOUS
<1>5. \A p \in Nat : p \in places[first] <=>
          /\ p + Len(needle) \in places[first + Len(needle)]
          /\ StandsAt(needle, name, p, case)
  <2>1. first + Len(needle) <= Len(tokens)
    BY <1>1, <1>2, <1>4
  <2>2. \A j \in 1..Len(needle) : tokens[first + j] = Literal(needle[j])
    BY <1>1, <1>2, <1>4
  <2>. QED
    BY <1>1, <1>3, <2>1, <2>2, NeedleRun
<1>6. 0 \in places[0] <=> Len(needle) = Len(name) /\ StandsAt(needle, name, 0, case)
  BY <1>1, <1>2, <1>3, <1>4, <1>5
<1>7. Len(needle) = Len(name) =>
          (StandsAt(needle, name, 0, case) <=> SameText(name, needle, case))
  BY <1>2, CpEqSymmetric DEF StandsAt, SameText
<1>8. SameText(name, needle, case) => Len(needle) = Len(name)
  BY DEF SameText
<1>. QED
  BY <1>3, <1>6, <1>7, <1>8 DEF tokens

\* A `*` matches from the places that do not lie behind all those the rest matches from.
LEMMA StarThen ==
    ASSUME NEW behind, NEW name, Len(name) \in Nat, behind \subseteq 0..Len(name), NEW case
    PROVE  \A p \in 0..Len(name) :
               p \in TokenThen(Star, behind, name, case) <=> \E k \in behind : p <= k
<1>1. TokenThen(Star, behind, name, case) =
          {p \in 0..Len(name) : \E k \in p..Len(name) : k \in behind}
  BY DEF TokenThen, SimpleThen, Star
<1>2. \A p \in 0..Len(name), k \in behind : p <= k <=> k \in p..Len(name)
  OBVIOUS
<1>. QED
  BY <1>1, <1>2

\* name_contains
LEMMA ContainsMeans ==
    ASSUME NEW needle \in Seq(Nat), NEW name \in Seq(Points), NEW case
    PROVE  MatchSegment(<<Star>> \o Literals(needle) \o <<Star>>, name, case) <=>
               \E i \in 1..(Len(name) - Len(needle) + 1) :
                   SameText(SubSeq(name, i, i + Len(needle) - 1), needle, case)
<1>. DEFINE tokens == <<Star>> \o Literals(needle) \o <<Star>>
<1>1. /\ Len(name) \in Nat /\ Len(needle) \in Nat
  BY LenProperties
<1>2. /\ tokens \in Seq(Tokens(Nat)) /\ Len(tokens) = Len(needle) + 2
      /\ tokens[1] = Star /\ tokens[Len(needle) + 2] = Star
      /\ \A j \in 1..Len(needle) : tokens[1 + j] = Literal(needle[j])
  <2>1. PICK lits : lits = Literals(needle)
    OBVIOUS
  <2>2. /\ lits \in Seq(Tokens(Nat)) /\ Len(lits) = Len(needle)
        /\ \A j \in 1..Len(needle) : lits[j] = Literal(needle[j])
    BY <2>1, LiteralsAre
  <2>3. Star \in Tokens(Nat)
    BY DEF Tokens, SimpleTokens
  <2>4. PICK T : T = Tokens(Nat)
    OBVIOUS
  <2>5. PICK star : star = Star
    OBVIOUS
  <2>6. star \in T /\ lits \in Seq(T)
    BY <2>2, <2>3, <2>4, <2>5
  <2>7. /\ <<star>> \o lits \o <<star>> \in Seq(T)
        /\ Len(<<star>> \o lits \o <<star>>) = Len(lits) + 2
        /\ (<<star>> \o lits \o <<star>>)[1] = star
        /\ (<<star>> \o lits \o <<star>>)[Len(lits) + 2] = star
        /\ \A j \in 1..Len(lits) : (<<star>> \o lits \o <<star>>)[1 + j] = lits[j]
    BY <2>6
  <2>. QED
    BY <2>1, <2>2, <2>4, <2>5, <2>7
<1>. HIDE DEF tokens
<1>3. PICK places \in [0..Len(tokens) -> SUBSET (0..Len(name))] :
          /\ places[Len(tokens)] = {Len(name)}
          /\ \A n \in 0..(Len(tokens) - 1) :
                 places[n] = TokenThen(tokens[n + 1], places[n + 1], name, case)
          /\ MatchSegment(tokens, name, case) <=> 0 \in places[0]
  <2>1. tokens \in Seq(Tokens(Nat)) /\ Len(name) \in Nat
    BY <1>1, <1>2
  <2>. QED
    BY <2>1, SegmentPlaces
<1>4. PICK first \in Nat : first = 1
  OBVIOUS
<1>5. \A p \in Nat : p \in places[first] <=>
          /\ p + Len(needle) \in places[first + Len(needle)]
          /\ StandsAt(needle, name, p, case)
  <2>1. first + Len(needle) <= Len(tokens)
    BY <1>1, <1>2, <1>4
  <2>2. \A j \in 1..Len(needle) : tokens[first + j] = Literal(needle[j])
    BY <1>2, <1>4
  <2>. QED
    BY <1>2, <1>3, <2>1, <2>2, NeedleRun
<1>6. \A p \in 0..Len(name) : p \in places[1 + Len(needle)]
  <2>1. PICK n : n = 1 + Len(needle)
    OBVIOUS
  <2>2. n \in 0..(Len(tokens) - 1) /\ n + 1 = Len(tokens)
    BY <1>1, <1>2, <2>1
  <2>3. places[n] = TokenThen(Star, {Len(name)}, name, case)
    BY <1>1, <1>2, <1>3, <2>1, <2>2
  <2>4. {Len(name)} \subseteq 0..Len(name)
    BY <1>1
  <2>5. \A p \in 0..Len(name) : p \in places[n] <=> \E k \in {Len(name)} : p <= k
    BY <1>1, <2>3, <2>4, StarThen
  <2>. QED
    BY <1>1, <2>1, <2>5
<1>7. 0 \in places[0] <=> \E p \in places[1] : TRUE
  <2>1. places[0] = TokenThen(Star, places[1], name, case) /\ places[1] \subseteq 0..Len(name)
    <3>1. PICK n : n = 0
      OBVIOUS
    <3>2. n \in 0..(Len(tokens) - 1) /\ n + 1 \in 0..Len(tokens) /\ n + 1 = 1
      BY <1>1, <1>2, <3>1
    <3>3. places[n] = TokenThen(tokens[n + 1], places[n + 1], name, case)
      BY <1>3, <3>2
    <3>4. places[n + 1] \subseteq 0..Len(name)
      BY <1>3, <3>2
    <3>. QED
      BY <1>2, <3>1, <3>2, <3>3, <3>4
  <2>2. 0 \in places[0] <=> \E k \in places[1] : 0 <= k
    <3>1. PICK behind : behind = places[1]
      OBVIOUS
    <3>. QED
      BY <1>1, <2>1, <3>1, StarThen
  <2>. QED
    BY <1>1, <2>1, <2>2
<1>8. \A p \in Nat : p \in places[1] <=>
          p + Len(needle) <= Len(name) /\ StandsAt(needle, name, p, case)
  <2>1. places[1 + Len(needle)] \subseteq 0..Len(name)
    <3>1. 1 + Len(needle) \in 0..Len(tokens)
      BY <1>1, <1>2
    <3>. QED
      BY <1>3, <3>1
  <2>2. \A p \in Nat : p + Len(needle) \in places[1 + Len(needle)] <=> p + Len(needle) <= Len(name)
    BY <1>1, <1>6, <2>1
  <2>. QED
    BY <1>4, <1>5, <2>2
<1>9. places[1] \subseteq Nat
  <2>1. 1 \in 0..Len(tokens)
    BY <1>1, <1>2
  <2>. QED
    BY <1>3, <2>1
<1>10. MatchSegment(tokens, name, case) <=>
          \E p \in Nat : p + Len(needle) <= Len(name) /\ StandsAt(needle, name, p, case)
  BY <1>3, <1>7, <1>8, <1>9
<1>11. ASSUME NEW p \in Nat, p + Len(needle) <= Len(name), StandsAt(needle, name, p, case)
       PROVE  \E i \in 1..(Len(name) - Len(needle) + 1) :
                  SameText(SubSeq(name, i, i + Len(needle) - 1), needle, case)
  <2>1. PICK i : i = p + 1
    OBVIOUS
  <2>2. i \in 1..(Len(name) - Len(needle) + 1) /\ i + Len(needle) - 1 = p + Len(needle)
    BY <1>1, <1>11, <2>1
  <2>3. SameText(SubSeq(name, p + 1, p + Len(needle)), needle, case)
    BY <1>11, PartIs
  <2>. QED
    BY <2>1, <2>2, <2>3
<1>12. ASSUME NEW i \in 1..(Len(name) - Len(needle) + 1),
              SameText(SubSeq(name, i, i + Len(needle) - 1), needle, case)
       PROVE  \E p \in Nat : p + Len(needle) <= Len(name) /\ StandsAt(needle, name, p, case)
  <2>1. PICK p : p = i - 1
    OBVIOUS
  <2>2. p \in Nat /\ p + Len(needle) <= Len(name) /\ i = p + 1
        /\ i + Len(needle) - 1 = p + Len(needle)
    BY <1>1, <2>1
  <2>3. SameText(SubSeq(name, p + 1, p + Len(needle)), needle, case)
    BY <1>12, <2>2
  <2>4. StandsAt(needle, name, p, case)
    BY <2>2, <2>3, PartIs
  <2>. QED
    BY <2>2, <2>4
<1>. QED
  BY <1>10, <1>11, <1>12 DEF tokens

\* name_extension
LEMMA ExtensionMeans ==
    ASSUME NEW needle \in Seq(Nat), NEW name \in Seq(Points), NEW case
    PROVE  MatchSegment(<<Star, Literal(46)>> \o Literals(needle), name, case) <=>
               \E i \in DOMAIN name :
                   name[i] = 46 /\ SameText(SubSeq(name, i + 1, Len(name)), needle, case)
<1>. DEFINE tokens == <<Star, Literal(46)>> \o Literals(needle)
<1>1. /\ Len(name) \in Nat /\ Len(needle) \in Nat /\ DOMAIN name = 1..Len(name)
      /\ \A i \in 1..Len(name) : name[i] \in Points
  BY LenProperties, ElementOfSeq
<1>2. /\ tokens \in Seq(Tokens(Nat)) /\ Len(tokens) = Len(needle) + 2
      /\ tokens[1] = Star /\ tokens[2] = Literal(46)
      /\ \A j \in 1..Len(needle) : tokens[2 + j] = Literal(needle[j])
  <2>1. PICK lits : lits = Literals(needle)
    OBVIOUS
  <2>2. /\ lits \in Seq(Tokens(Nat)) /\ Len(lits) = Len(needle)
        /\ \A j \in 1..Len(needle) : lits[j] = Literal(needle[j])
    BY <2>1, LiteralsAre
  <2>3. Star \in Tokens(Nat) /\ Literal(46) \in Tokens(Nat)
    BY DEF Tokens, SimpleTokens
  <2>4. PICK T : T = Tokens(Nat)
    OBVIOUS
  <2>5. PICK star, dot : star = Star /\ dot = Literal(46)
    OBVIOUS
  <2>6. star \in T /\ dot \in T /\ lits \in Seq(T)
    BY <2>2, <2>3, <2>4, <2>5
  <2>7. /\ <<star, dot>> \o lits \in Seq(T)
        /\ Len(<<star, dot>> \o lits) = Len(lits) + 2
        /\ (<<star, dot>> \o lits)[1] = star
        /\ (<<star, dot>> \o lits)[2] = dot
        /\ \A j \in 1..Len(lits) : (<<star, dot>> \o lits)[2 + j] = lits[j]
    BY <2>6
  <2>. QED
    BY <2>1, <2>2, <2>4, <2>5, <2>7
<1>. HIDE DEF tokens
<1>3. PICK places \in [0..Len(tokens) -> SUBSET (0..Len(name))] :
          /\ places[Len(tokens)] = {Len(name)}
          /\ \A n \in 0..(Len(tokens) - 1) :
                 places[n] = TokenThen(tokens[n + 1], places[n + 1], name, case)
          /\ MatchSegment(tokens, name, case) <=> 0 \in places[0]
  <2>1. tokens \in Seq(Tokens(Nat)) /\ Len(name) \in Nat
    BY <1>1, <1>2
  <2>. QED
    BY <2>1, SegmentPlaces
<1>4. PICK first \in Nat : first = 2
  OBVIOUS
<1>5. \A p \in Nat : p \in places[first] <=>
          /\ p + Len(needle) \in places[first + Len(needle)]
          /\ StandsAt(needle, name, p, case)
  <2>1. first + Len(needle) <= Len(tokens)
    BY <1>1, <1>2, <1>4
  <2>2. \A j \in 1..Len(needle) : tokens[first + j] = Literal(needle[j])
    BY <1>2, <1>4
  <2>. QED
    BY <1>2, <1>3, <2>1, <2>2, NeedleRun
<1>6. \A p \in Nat : p \in places[2] <=>
          p + Len(needle) = Len(name) /\ StandsAt(needle, name, p, case)
  <2>1. places[2 + Len(needle)] = {Len(name)}
    <3>1. 2 + Len(needle) = Len(tokens)
      BY <1>1, <1>2
    <3>. QED
      BY <1>3, <3>1
  <2>. QED
    BY <1>4, <1>5, <2>1
<1>7. places[1] = {p \in 0..(Len(name) - 1) : CpEq(46, name[p + 1], case) /\ p + 1 \in places[2]}
  <2>1. 1 \in 0..(Len(tokens) - 1) /\ 1 + 1 = 2
    BY <1>1, <1>2
  <2>2. places[1] = TokenThen(Literal(46), places[2], name, case)
    BY <1>2, <1>3, <2>1
  <2>. QED
    BY <2>2 DEF TokenThen, SimpleThen, Literal
<1>8. 0 \in places[0] <=> \E p \in places[1] : TRUE
  <2>1. places[0] = TokenThen(Star, places[1], name, case) /\ places[1] \subseteq 0..Len(name)
    <3>1. PICK n : n = 0
      OBVIOUS
    <3>2. n \in 0..(Len(tokens) - 1) /\ n + 1 \in 0..Len(tokens) /\ n + 1 = 1
      BY <1>1, <1>2, <3>1
    <3>3. places[n] = TokenThen(tokens[n + 1], places[n + 1], name, case)
      BY <1>3, <3>2
    <3>4. places[n + 1] \subseteq 0..Len(name)
      BY <1>3, <3>2
    <3>. QED
      BY <1>2, <3>1, <3>2, <3>3, <3>4
  <2>2. 0 \in places[0] <=> \E k \in places[1] : 0 <= k
    <3>1. PICK behind : behind = places[1]
      OBVIOUS
    <3>. QED
      BY <1>1, <2>1, <3>1, StarThen
  <2>. QED
    BY <1>1, <2>1, <2>2
<1>9. ASSUME NEW i \in 1..Len(name) PROVE CpEq(46, name[i], case) <=> name[i] = 46
  <2>1. PICK cp : cp = name[i]
    OBVIOUS
  <2>2. cp \in 0..MaxChar
    <3>1. MaxChar \in Nat
      BY SMT DEF MaxChar
    <3>2. PICK most \in Nat : most = MaxChar
      BY <3>1, Zenon
    <3>3. cp \in Nat /\ cp <= most
      BY <1>1, <2>1, <3>2, SMT DEF Points, MaxChar
    <3>. QED
      BY <3>2, <3>3, SMT
  <2>3. Fold(cp) = Fold(46) => cp = 46
    BY <2>2, NeedlesAssumption
  <2>. QED
    BY <2>1, <2>3 DEF CpEq
<1>10. ASSUME NEW i \in 1..Len(name)
       PROVE  i - 1 \in places[1] <=>
                  name[i] = 46 /\ SameText(SubSeq(name, i + 1, Len(name)), needle, case)
  <2>1. i - 1 \in 0..(Len(name) - 1) /\ (i - 1) + 1 = i /\ i \in Nat
    BY <1>1
  <2>2. i - 1 \in places[1] <=>
            name[i] = 46 /\ i + Len(needle) = Len(name) /\ StandsAt(needle, name, i, case)
    BY <1>6, <1>7, <1>9, <2>1
  <2>3. i + Len(needle) = Len(name) =>
            (SameText(SubSeq(name, i + 1, Len(name)), needle, case) <=>
                 StandsAt(needle, name, i, case))
    <3>. SUFFICES ASSUME i + Len(needle) = Len(name)
                  PROVE  SameText(SubSeq(name, i + 1, Len(name)), needle, case) <=>
                             StandsAt(needle, name, i, case)
      OBVIOUS
    <3>1. SameText(SubSeq(name, i + 1, i + Len(needle)), needle, case) <=>
              StandsAt(needle, name, i, case)
      BY <1>1, <2>1, PartIs
    <3>. QED
      BY <3>1
  <2>4. SameText(SubSeq(name, i + 1, Len(name)), needle, case) => i + Len(needle) = Len(name)
    <3>1. PICK m, n : m = i + 1 /\ n = Len(name)
      OBVIOUS
    <3>2. m \in Int /\ n \in Int /\ \A k \in m..n : name[k] \in Points
      BY <1>1, <3>1
    <3>3. Len(SubSeq(name, m, n)) = IF m <= n THEN n - m + 1 ELSE 0
      BY <3>2, SubSeqProperties
    <3>4. SameText(SubSeq(name, i + 1, Len(name)), needle, case) =>
              Len(SubSeq(name, m, n)) = Len(needle)
      BY <3>1 DEF SameText
    <3>5. PICK k : k = Len(SubSeq(name, m, n))
      OBVIOUS
    <3>6. k = IF m <= n THEN n - m + 1 ELSE 0
      BY <3>3, <3>5
    <3>7. m \in Nat /\ n \in Nat /\ m <= n + 1
      BY <1>1, <3>1
    <3>8. k = n - m + 1
      BY <3>6, <3>7
    <3>9. PICK l : l = Len(needle)
      OBVIOUS
    <3>10. k = l => i + l = n
      BY <2>1, <3>1, <3>7, <3>8
    <3>. QED
      BY <3>1, <3>4, <3>5, <3>9, <3>10
  <2>. QED
    BY <2>2, <2>3, <2>4
<1>11. (\E p \in places[1] : TRUE) <=> \E i \in 1..Len(name) : i - 1 \in places[1]
  <2>1. ASSUME NEW p \in places[1] PROVE \E i \in 1..Len(name) : i - 1 \in places[1]
    <3>1. p \in 0..(Len(name) - 1)
      BY <1>7
    <3>2. p + 1 \in 1..Len(name) /\ (p + 1) - 1 = p
      BY <1>1, <3>1
    <3>. QED
      BY <3>2
  <2>. QED
    BY <2>1
<1>. QED
  BY <1>1, <1>3, <1>8, <1>10, <1>11 DEF tokens

\* A condition on a name accepts just the names it speaks of (NameLeavesMean; name_exact,
\* name_contains and name_extension, as the matcher reads the globs they build).
THEOREM NameLeavesCorrect == Spec => []NameLeavesMean
<1>1. ASSUME IInv PROVE NameLeavesMean
  <2>1. ASSUME NEW e \in entries, NEW needle \in Needles, NEW case
        PROVE  LET Part(i, k) == SubSeq(e.name, i, k) IN
               /\ EvalLeaf(NameExact(needle, case), e) <=> SameText(e.name, needle, case)
               /\ EvalLeaf(NameContains(needle, case), e) <=>
                      \E i \in 1..(Len(e.name) - Len(needle) + 1) :
                          SameText(Part(i, i + Len(needle) - 1), needle, case)
               /\ EvalLeaf(NameExtension(46, needle, case), e) <=>
                      \E i \in DOMAIN e.name :
                          e.name[i] = 46 /\ SameText(Part(i + 1, Len(e.name)), needle, case)
    <3>1. scene \in Scenes
      BY <1>1, Before
    <3>2. PICK n \in Files : e.name = Decoded(n)
      BY <1>1, EntryIsOf
    <3>3. PICK name : name = e.name
      OBVIOUS
    <3>4. name \in Seq(Points) /\ needle \in Seq(Nat)
      BY <3>1, <3>2, <3>3, DecodedNames, NeedlesAssumption
    <3>5. EvalLeaf(NameExact(needle, case), e) <=> MatchSegment(Literals(needle), name, case)
      BY <3>3, NameIsGlob DEF NameExact
    <3>6. EvalLeaf(NameContains(needle, case), e) <=>
              MatchSegment(<<Star>> \o Literals(needle) \o <<Star>>, name, case)
      BY <3>3, NameIsGlob DEF NameContains
    <3>7. EvalLeaf(NameExtension(46, needle, case), e) <=>
              MatchSegment(<<Star, Literal(46)>> \o Literals(needle), name, case)
      BY <3>3, NameIsGlob DEF NameExtension
    <3>8. /\ MatchSegment(Literals(needle), name, case) <=> SameText(name, needle, case)
          /\ MatchSegment(<<Star>> \o Literals(needle) \o <<Star>>, name, case) <=>
                 \E i \in 1..(Len(name) - Len(needle) + 1) :
                     SameText(SubSeq(name, i, i + Len(needle) - 1), needle, case)
          /\ MatchSegment(<<Star, Literal(46)>> \o Literals(needle), name, case) <=>
                 \E i \in DOMAIN name :
                     name[i] = 46 /\ SameText(SubSeq(name, i + 1, Len(name)), needle, case)
      BY <3>4, ExactMeans, ContainsMeans, ExtensionMeans
    <3>. QED
      BY <3>3, <3>5, <3>6, <3>7, <3>8
  <2>. QED
    BY <2>1 DEF NameLeavesMean
<1>. QED
  BY BooksAreKept, <1>1, PTL
=============================================================================
