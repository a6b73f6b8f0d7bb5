# A verification of globazog

globazog walks directory trees in parallel and streams what a set of glob patterns finds. These
modules model the crate `src/crates/globazog`: what its threads do in every interleaving, what its
completion stream promises, and what its parser, matcher, query builder and directory readers
compute. TLC checks small instances. For every instance TLAPS proves the engine's accounting and
wakes, its stream, its teardown, where a confined walk reads, and that the client is told just what
is asked for, all of it and once; that the matcher accepts what a pattern means and prunes no
match; that a directory is read by each backend without losing a name, a decision or an order of
times; that the ring strands no consumer; what the builder accepts and which roots it makes; and
that a match's mask is a set. `PROJECT.json` lists the runs, the mutants that show each property
can fail, the lines of source behind each definition, the hazards, the findings and the theorems.

## 1. The system

| part | source | state | operations | depends on |
|---|---|---|---|---|
| walking engine | `engine.rs` | `Shared` under one mutex (scan stack, `outstanding`, containers with reference counts, `open`, `visited`), flags `cancel`, `fatal`, `finished`, the first fatal error | `process`, `launch_child`, `release`, `emit`, `request_cancel`, `request_fatal`, coordinator, `sq_loop`, `Drop` | everything below |
| completion ring | `ring.rs` | a bounded lock-free queue, two signals | `try_push`, `push_blocking`, `wait_space_timeout`, `pop`, `wait_pop`, `wait_nonempty`, `wake_producers` | signal |
| signal | `sys/signal.rs` | a flag under a mutex, a condition variable | `notify`, `wait`, `wait_timeout` | |
| submission queue | `ring.rs` | an unbounded queue of ops, a signal | `submit`, `drain`, `wait_timeout` | signal |
| query handle | `builder.rs` | the ring, the queue, the engine | `cancel`, `answer`, drop | engine |
| query builder | `builder.rs` | supplied roots, base, options, patterns | `root`, `base`, `options`, `pattern`, `build` | parser |
| parser | `syntax/parse.rs`, `dialect.rs` | none | `parse` in two dialects | |
| matcher, viability | `syntax/matcher.rs`, `set.rs`, `anchor.rs` | none | `match_path`, `should_descend`, `literal_of` | uppercase table |
| directory reading | `sys/linux.rs`, `win.rs`, `sys.rs` | none between calls | `enumerate` | decoding |
| predicates | `predicate.rs` | none | `eval_all`, `required_fields` | matcher |
| names | `syntax/decode.rs`, `sys.rs` | none | `decode_name`, `encode_os_name` | |
| pattern mask | `ring.rs` | words of bits | `set`, `contains`, `any`, `iter` | |
| data | `upcase.rs`, `path.rs`, `error.rs`, `lib.rs` | none | | |

Workers and the client share the ring; workers, coordinator and submission thread share the
engine; the client reaches the engine only through the submission queue and by dropping the
handle. The builder turns text into roots and patterns once, before any thread exists.

What is hard: one mutex but many steps between its critical sections; a ring that fills while its
only reader has gone; a cancel flag and a locked `cancelled` that are set one after the other;
ends that are decided under the lock and pushed outside; coalesced wakes with several waiters; a
root failure racing a cancel; directories that change while they are read, through three backends
with error paths of their own; names no decoder accepts; links that lead out of the roots; pruning
from prefixes; escapes at segment boundaries. The hazards of `PROJECT.json` name each at its line.

What makes each part correct:

* engine: accounting is exact, every scan is taken, the client gets exactly what a sequential
  walk would report, nothing outside the roots is read when that is asked for, the stream is well
  formed, teardown always ends and leaves nothing;
* ring and signal: no consumer sleeps on a non-empty queue, mandatory items land;
* builder: distinct roots, no directory reached twice by one pattern, valid bindings, the case
  rule that was asked for, exact acceptance;
* parser: normal forms only, segments independent, every name expressible;
* matcher: the declarative meaning of patterns; pruning neither loses nor wastes;
* directory reading: every name accounted for; fetching less changes no decision; a name opens
  what it was read from; times keep their order; an identity is whole or unknown;
* pattern mask: the set of patterns that matched.

## 2. The modules

| module | models | run from |
|---|---|---|
| `Engine` | engine threads, submission queue, client | `MCEngine` |
| `CompletionStream` | abstract specification of what the client sees | implemented by `Engine`, property `StreamContract` |
| `EngineChecks` | the engine's properties | `MCEngine` |
| `EngineProofs` | types, counts and wakes of `Engine`, the refinement of `CompletionStream`, the teardown | TLAPS |
| `WalkProofs` | what a walk reads, what the client is told, and that nothing is lost | TLAPS, extends `EngineProofs` |
| `Signal` | one coalesced signal | instantiated twice by `Ring` |
| `Ring` | the ring and its waits | `MCRing` |
| `RingProofs` | types and wakes of `Ring` | TLAPS |
| `Syntax` | patterns as data | `Parser`, `Matcher`, `Builder` |
| `Parser` | the parser | `Parse`, and the MC modules that need patterns |
| `Parse` | texts written piece by piece, and what parsing promises | `MCParse` |
| `Matcher` | matcher, viability, peeling | `Glob`, `Predicate`, `MCEngine` |
| `MatcherProofs` | lemmas on the matcher's recursion, and that pruning is sound | TLAPS |
| `Glob` | a walk the matcher steers, and the meaning of patterns | `MCGlob` |
| `GlobProofs` | matching, pruning and peeling | TLAPS, extends `MatcherProofs` |
| `Predicate` | conditions on an entry and the fields they need | `Enumerate` |
| `NativeNames` | decoding and encoding of names | `Enumerate` |
| `Enumerate` | reading one directory, by each backend, under a query's fetch plan | `MCEnumerate` |
| `EnumerateProofs` | all the properties of `Enumerate` | TLAPS, extends `MatcherProofs` |
| `Builder`, `BuilderChecks` | the builder calls and `build()`, and what it must get right | `MCBuilder` |
| `BuilderProofs` | all the properties of `Builder` | TLAPS, uses `MatcherProofs` |
| `PatternMask` | the words of bits a match carries, and the loop that fills them | `PatternMaskProofs`, TLAPS |

Definitions that begin with the comment "Mutant:" are used by no specification. Each is a
plausible mistake in the definition it precedes, kept so that every property can be shown to fail
when the code goes wrong.

### Engine

A worker's program counter follows `worker_loop` and `process`: `next` and `waiting` (`next_job`),
`enumerate`, `offer` and `push` (the loop of `emit`), `opened`, `scan`, `descend`, `launch`,
`notify`, `release`, `cascade`, `ends`, `end` (`push_mandatory`), `slot`, `flag`, `swap`, `halt`,
`wake` (`request_fatal` and `request_cancel`), `complete`. A critical section of `shared` is one
action, except the cascade of `release`: it takes one step per container while holding `lock`, and
every other section waits for it. Each load or store of an atomic and each ring operation is an
action of its own, so a cancel may come between any two of them. Whoever cancels sets `cancelled`
under the lock at `halt` and wakes everybody after the unlock, at `wake`; the submission thread and
`Drop` have the same two steps. What is abstract:

* the file system is `Entries`, with directories that may refuse to open (`denied`) and entries
  whose metadata may fail (`unread`), chosen initially; the order of a listing is arbitrary;
* matching, viability and the descend predicate are constant operators (`Hit`, `Viable`,
  `Admits`). `MCEngine` takes the first two from `Matcher`, on patterns `Parser` made of their
  texts, so its runs compose the three. What the engine needs of them is `PruningAssumption` of
  `EngineChecks`: on the way to a hit nothing is pruned. `PruningIsSound` proves it of the matcher;
* `RealPath` is what `canonicalize` answers for a directory, as a sequence of components; a
  directory without one cannot be resolved. `Escapes` compares those components with the roots'
  as `escapes_confinement` does;
* a match carries the set of its patterns, which `PatternMask` justifies;
* the 5 ms wait on a full ring is a retry. The wait itself is in `Ring`;
* the 25 ms wait of the submission thread is left out: it comes back by itself.

The client pops, may submit `MaxOps` operations and may drop the handle. It keeps the map of live
containers that the crate's README asks of a consumer, so `got` holds resolved paths. After a drop
the same view records what the drain discards, which lets the stream contract speak about the
teardown too.

### Ring

A thread is at one of: look at the cancel flag, the queue operation, the notification after it,
the wait. Emitters give up when cancelled, finishers (ends, cause, terminal) never do; both wait
with a timeout. A blocker uses `push_blocking`, which the code documents as single-producer and
the engine does not use, so no instance has two. `Elapse` may happen at any time, which covers
every length of timeout; any sleeper may wake spuriously. Crossbeam's queue is taken as
linearizable.

### Syntax, Parser, Matcher, Builder

The parser works on sequences of characters; an error is a `Bad` token, since which of several
errors is reported first is not modelled. Its check of the alphabet refuses nothing, as both
dialects have the whole of UTF-8. Matcher and builder take the uppercase table as an operator. The
recursion of `match_segment` and `match_path` is written from the end of the pattern: a recursive
function gives, for each token or segment, the places of the input that it and what follows match
from. This is the same search, each suffix of the pattern being tried once per place. Arms of an
alternation hold no alternation, as the parser makes them. A path is the sequence of its components
as `Path::components` gives them, computed by `Components` for the literals that peeling pushes, so
an escaped separator or an escaped `..` in a pattern becomes what std makes of it. A pattern that
enters the builder is what `Parser` made of a text: `MCBuilder` builds its patterns so, for both
dialects. `Host` stands for `cfg!(windows)`; the run has Windows, and the proofs hold for both.
Literals that spell a path with two leading separators are left out of `Components`; no instance
has one.

### Enumerate, Predicate, NativeNames

One variable, `scene`, fixes the backend, the query and the directory. The Linux actions follow the
two loops of `enumerate_dir_native`: names first, then a `statx` of the entries that need one. The
Windows actions take batches of complete records, and the portable ones an entry of `ReadDir` at a
time with its metadata. Files vanish at any moment; a file's fields are constant while it exists.
The properties are the same for the three, so they are one contract with three implementations.

A leaf of `Predicate` is a record, and leaves on names are the globs its constructors build, which
`Matcher` evaluates. Attributes are the set of their bits. `NativeNames` works on real code units:
UTF-16 units or bytes.

Times are scaled: an `i64` has eight bits, a second ten nanoseconds and a tick two, which keeps
every product within TLC's integers and puts both ends of the range within reach. Each conversion
is that of its backend: `Nanos` saturates once, `StatxTime` twice (the product, then the sum), and
`FiletimeToUnixNanos` subtracts the epoch without a check (`Wrapped`, what a release build does)
and then saturates the product. `Misread` names the times that this reports where they do not lie.
On Linux, and for change times on the portable backend, they have a fraction and a second that
begins before the range; on Windows, ticks within the epoch of the least. `TimesKeepOrder` excepts
just these, and no time of any backend that lies beyond the upper end; of the Unix ones it still
says that they are reported late by less than a second. That they are misread at all is the
finding of the run `times`.

## 3. The runs

| run | bounds | shows |
|---|---|---|
| `faults` | 2 workers (symmetric), ring of 1, 2 roots, the first with two subdirectories; it and one of them may not open, an unreadable entry, drop at any time | `OutstandingIsExact`, `RefcountIsExact`, `NoScanIsStranded`, `NothingUnasked`, `NothingTwice`, `CompletedIsComplete`, `DropLeavesNothing`, `StreamContract` with cancels and fatal stops |
| `live` | 2 workers, ring of 1, 3 levels, 1 op, drop at any time | `Termination`, `DropReturns`, `CancelIsHonoured`, `LeftoversEndBottomUp` |
| `links` | confined, with a link from a directory to itself, links to a sibling of the root (met on two paths) and to its parent, and one that cannot be resolved | `WalkIsBounded`, `ConfinedWalk`, `CompletedIsComplete` |
| `ring` | ring of 2; an emitter, two finishers, two consumers that leave; or a lone blocker with two `wait_pop` and one `wait_nonempty` consumer | `NoStrandedConsumer`, `QueuedIsConsumed`, `MandatoryLands` |
| `glob` | every pattern parsed from up to 3 of 5 segments, both case rules, four names, directories 2 deep, paths up to 3 deeper | `MatcherIsTheMeaning`, `NoMatchIsPruned`, `ViableIsTight`, `PeelKeepsMatches` |
| `enumerate` | per backend: two files of every kind under queries of one leaf per list; one file of every name of up to 3 telling units (4 after a four-byte lead); two files of any two times around both ends of the range | `AccountsForEachName`, `NoSilentTruncation`, `LazyFetchIsSound`, `FollowedLinkHasIdentity`, `NamesOpenThemselves`, `TimesKeepOrder`, `NameLeavesMean` |
| `build` | on Windows: 2 of 8 paths, a base, options, 2 of 12 patterns as parsed | `AcceptsExactly`, `TypeOK` (binding indices in range), `OneRootPerDirectory`, `BindsAsWritten`, `PeelingSpellsThePattern` |
| `parse` | every text of up to 5 of 12 pieces, both dialects | `AcceptsNormalForms`, `SegmentsAreIndependent`, `SeparatorsAgree`, `EveryNameCanBeWritten` |
| `times` | `enumerate`'s pairs of times, on Linux | a finding below: `TimesSaturate` is violated |
| `ends`, `shared_links`, `peel` | as above | the other findings below |

Why the bounds are enough to be interesting. Two workers give every pairwise race. A ring of one
slot fills after each item, so every push can be refused. A root with two subdirectories gives a
cascade in which two children race to end their parent, three levels give leftovers on one branch
at different depths; several branches are left to the theorem. So is what a third worker adds to a
cancel: with two, none can see the flag and leave while another still sleeps on a stack that is not
empty, between the unlock and the notify_all. One operation is enough because a second cancel is
idempotent, and the drop is a cancel of its own that races the first. Two casts of the ring reach
every wait in the code with wakes lost to a thread that leaves or gives up. Five pieces of text
reach an escape followed by a separator and two `**` around a `.`, with room for a neighbour. The
names read include every class the two decoders tell apart: leads of two, three and four bytes,
continuations, the lead that a surrogate would have, a byte that is never UTF-8, and both kinds of
surrogates at both ends of their range. The directory of `links` has a target of each kind that
confinement must tell apart, and its link to the sibling is met twice with one identity: it is
blocked both times, as an identity consumed before the confinement was tested would not be.

`StreamContract` is a refinement: the items popped, with the set of live containers and their
chains of parents, implement `CompletionStream` (enter below a live parent, report only where the
whole chain is live, end once, a cause just before a `Failed` terminal and only there, nothing
after the terminal).

What a query asks for is told by trails. A trail is a sequence of entries that starts in a root's
directory, each listed and readable where the ones before it lead, entered (a directory or a
followed link that is admitted and does not escape), and no link of known identity followed twice.
Each trail leads to a scan, and a scan owes a match for each entry some pattern hits, an error for
each that cannot be read and a block for each that escapes. `NothingUnasked` wants every report of
the client to be owed by the scan of some trail, at any time, whatever was cancelled or failed;
`NothingTwice` wants it told once; and `CompletedIsComplete` compares, after `Completed`, the
reports with those of *all* admitted directories, not only those `Viable` admits, and with
multiplicity. `live` and `ring` are the runs with liveness.

The builder's run is on Windows: paths have prefixes, keys are folded and both dialects are
lowered, so that is where roots, bindings and peeling may go wrong. What POSIX adds is that it
refuses a dialect; all the properties of the builder are proved for both platforms. One thing the
model told us of Windows: a posix literal that begins with a drive, as in `/a:\/b/*`, replaces the
root it is pushed onto, as `PathBuf::push` does, and the pattern leaves its anchor.
`BindsAsWritten` excepts those literals (`NamesNoDrive`).

`glob`, `parse`, `peel` and `build` end in states without a successor, where the path or text is as
long as its bound or `build()` has returned, so they do not check for deadlock. The engine and ring
runs do: a client that has gone and a ring nobody needs any more stutter explicitly.

### Fairness

Weak fairness of each worker, the coordinator, the submission thread, and a thread inside `Drop`:
the operating system runs runnable threads, and none of them waits for a lock that is not given
back, since the only multi-step holder of `lock` is a worker. The client's pops are not fair:
`Termination` assumes a client that keeps draining, and `DropReturns` and `CancelIsHonoured`
assume nothing of it. `CancelIsHonoured` wants more than the flag: once a cancel was submitted
there comes a time from which no worker offers or pushes anything, so `emit` must look at the flag
between two tries. In `Ring` every thread and the elapse of its timeouts are weakly fair;
cancels and spurious wakes are not required to happen.

## 4. What is proved

The theorems hold for every value of the constants that the named assumptions allow. TLC evaluates
each assumption in the runs.

* `Engine`: finitely many workers, a ring with at least one slot, a typed file system and query.
* `EngineChecks`: a directory lists a name once, and a listed directory resolves to its parent's
  resolved path and its name (what `canonicalize` does where no mount or junction hides behind a
  name). `PruningAssumption` is used for `CompletedIsComplete` only; nothing else is assumed of
  `Hit`, `Viable` and `Admits`.
* `Glob`: patterns as the parser leaves them, names over the same code points. Of the uppercase
  table nothing is assumed.
* `Enumerate`: a listing is finite, its names are distinct, not empty and made of units of the
  platform; a file has a kind and times of the backend's form; needles are texts, and only a dot
  folds to what a dot folds to, as the table has it; the scale of the times has a zero within its
  range, and an epoch that is not negative. The width of an integer and the lengths of a second and
  a tick are arbitrary, so the proof covers the real ones, which TLC's scale stands for.
* `Ring`: threads of disjoint roles. `Builder`: paths and options of the right shape, and patterns
  as the parsers leave them: only `win` patterns have a drive or a share. Of the uppercase table
  and of the set of drive letters nothing is assumed.

| module | theorem | property |
|---|---|---|
| `EngineProofs` | `TypeCorrect`, `OutstandingCorrect` | `TypeOK`, `OutstandingIsExact` |
| | `RefcountCorrect`, `WakesCorrect` | `RefcountIsExact`, `NoScanIsStranded` |
| | `KeepsPromises`, `ContractCorrect` | `Engine` implements `CompletionStream` |
| | `DropCorrect`, `LeftoversCorrect` | `DropLeavesNothing`, `LeftoversEndBottomUp` |
| `WalkProofs` | `ConfinementCorrect` | `ConfinedWalk` |
| | `ReportsCorrect`, `OnceCorrect` | `NothingUnasked`, `NothingTwice` |
| | `CompletenessCorrect` | `CompletedIsComplete` |
| | `BoundCorrect`, `BoundedContractCorrect` | `WalkIsBounded`, `StreamContract` |
| `RingProofs` | `RingTypeCorrect`, `NobodyStranded` | `TypeOK`, `NoStrandedConsumer` |
| `GlobProofs` | `MatcherCorrect` | `MatcherIsTheMeaning` |
| | `PruningCorrect`, `PeelCorrect` | `NoMatchIsPruned`, `PeelKeepsMatches` |
| `EnumerateProofs` | `BooksAreKept`, `RoundTrip` | (the invariant; names come back) |
| | `AccountsCorrect`, `TruncationCorrect` | `AccountsForEachName`, `NoSilentTruncation` |
| | `LazyFetchCorrect`, `IdentityCorrect` | `LazyFetchIsSound`, `FollowedLinkHasIdentity` |
| | `NamesCorrect`, `NameLeavesCorrect` | `NamesOpenThemselves`, `NameLeavesMean` |
| | `TimesCorrect` | `TimesKeepOrder` |
| `BuilderProofs` | `BuilderTypeCorrect`, `AcceptanceCorrect` | `TypeOK`, `AcceptsExactly` |
| | `RootsCorrect`, `RelativeBindingsCorrect` | `OneRootPerDirectory`, `RelativeBindsToSupplied` |
| | `BindingsCorrect`, `PeelingCorrect` | `BindsAsWritten`, `PeelingSpellsThePattern` |
| `PatternMaskProofs` | `MaskCorrect` | `MaskIsTheSet` |

### The engine's accounting

`TypeOK` is not inductive: what a worker's registers hold depends on where it is (an item being
offered must be an item, an entry being launched must be an entry), and so does the count (a busy
worker holds one job). `IInv` is `Types`, which types every register by program counter, with
`OutstandingIsExact`: taking a job moves one from the stack to the busy workers, launching adds
one to the stack and to `outstanding`, completing removes one from both.

`RefcountIsExact` speaks of states in which the lock is free, so it says too little of a cascade.
`Accounting` counts with a further share: a container's count is its children, plus one for its
own unreleased scan, plus one while a worker climbs to it. It adds that the lock is held by the
one worker that climbs, that each unreleased scan is on the stack or in one worker's hands, and
that whatever a scan or a climb refers to is live, with live parents. Then no climb meets a
container that is gone.

`NoScanIsStranded` counts the workers on their way to a scan, who will look at the stack or notify
somebody, and excepts the moment in which a cancel has let go of the lock and not yet called its
`notify_all` (`WakingAll`): there one worker may have left and another still sleep on a stack that
is not empty. The inductive form (`Waking`) adds that outside that moment nobody sleeps once the
walk is cancelled. A step of a worker keeps the count (`WorkerAttends`), or the moment until its
`notify_all` (`WakeStaysDue`), which wakes everybody.

### The stream and the teardown

The engine forgets a container when it releases it, though its items are still in the ring. So
the invariant says that *there is* a tree of all the containers ever created, with their parents,
ancestors and depths (`\E tree : StreamInv(tree)`); launching grows it. Over that tree the books
tally (`Books`): what is open has been entered and not ended, and each container that was entered
is open, ended, or owed an end by exactly one thread. And the items come in order (`Ordered`):
what is in the ring, after what the client has seen, is a stream in which every enter is below a
container entered and not ended, every report has its whole chain so, and every end comes once,
after its enter.
From that each pop is a step of `CompletionStream`, and every other step a stutter. `Failing`,
`Finishing` and `Dropped` relate the flags, the coordinator and the drop; they give the cause
before a `Failed` terminal and `DropLeavesNothing`.

`KeepsPromises` is the refinement over all container ids. `StreamContract`, which the runs check,
names the ids up to the bound of the instance, so `ContractCorrect` has `[]WalkIsBounded` as its
hypothesis: a walk may create more containers than a run allows for. `BoundedContractCorrect`
replaces it by a condition on the query.

### What a walk reads and tells

Here the memory is of scans, each with the trail that led to it (`\E scans : Walked(scans)`).
Every scan on the stack or in a worker's hands is remembered, its trail is one that the query lets
the walk enter, and where links are confined its directory lies in a root: that is
`ConfinementCorrect`. The links need no bound on depth, and the visited set enters only through
`Followed(trail) \subseteq visited`, since a trail follows no link of known identity twice. Every
report in a register, in the ring or in the slot of the fatal error is owed by a remembered scan
(`Says`), and the client resolves a container's id to the path at which that scan lies (`Knows`);
so it is told only what is asked for.

That nothing is told twice needs more (`Single`). No two scans lie in one place, because a scan is
launched for an entry its parent still had in hand (`Apart`); each is on the stack or with one
worker (`InOneHand`); so what two scans owe has nothing in common, which is a lemma about paths
(`OwesApart`). And what a scan has said is behind it (`Ahead`): a scan on the stack has said
nothing, the entries a worker has still to look at have been neither reported nor launched, and
the report it offers is new. `Once` says that what has been said stands in one place: with the
client once, in one slot of the ring, or in the slot of the fatal error. The drop drains through
the same pop as the client, so it is covered.

### Nothing is lost

`CompletedIsComplete` compares what the client holds with what a sequential walk would report, so
the invariant must say where each report still owed is. `Dealt` says all of an entry was said and
launched, `Done` all of a scan. As long as nothing was given up (`Kept`: no cancel, or none before
the outcome was read), `Lossless` holds: each remembered scan is done, on the stack or in a worker's
hands, and what such a worker has read is in front of it, in its hand (`InHand`) or dealt with, at
every point of `process`, of the loop of `emit`, and of the cascade. `Spent` says that an identity
in `visited` belongs to a link some trail follows. When the walk ends `Completed` the workers have
exited with `outstanding` zero, so every scan is done; then, along any trail from a root, each entry
was launched, so each trail has its scan (`EveryTrailHasScan`, by induction on its length), and what
all scans owe was said. `PruningAssumption` carries this from the directories the engine enters to
all the admitted ones.

Two premises on the query are needed, as the runs know. `ShallowEnough`: no trail is longer than the
`MaxDepth` that `Expected` looks to. `OneWayIn`: no two trails end in links of one identity, or the
walk enters only one of them. Both speak of constants and of the faults chosen initially. TLC finds
them true in every initial state of the engine's passing runs and of `ends`; `shared_links` violates
the second, and there the property fails, which is the second finding below.

`WalkIsBounded` needs `Roomy`, that `MaxContainers` is at least the number of scans of the
sequential walk: the containers map one to one into those scans, and the pigeonhole principle does
the rest. It holds in every run of the engine, so what the bounds leave room for the walk keeps to,
links that lead back included.

### The matcher

Induction over data seemed out of reach, as the library's induction theorems take operators. But
the set of naturals for which a formula holds is a set, and for sets induction is a lemma
(`SetInduction`, from the well-foundedness of `<`). So the recursive functions of `Matcher` can be
reasoned about: `ListExists` shows that the list of places such a function stands for exists, and
`ArmPlaces`, `SegmentPlaces` and `PathPlaces` that it obeys its equations. `PlacesAreCuts` then
says, for any kind of parts, that 0 is a place of the first part exactly when there is a way to cut
the input into a piece per part; used three times, for arms, segments and paths, this is
`MatcherIsTheMeaning`. `PruningIsSound` follows a match down to the segment at which
`descend_viable` stops. For `PeelKeepsMatches`, literals match just themselves, so a cut of the
path has its first cuts there and the rest is a cut of the rest.

### Reading a directory

`IInv` is four parts. `Tally`: each name listed so far is held (its entry is among `entries`), lost
(in `errors`) or waiting in `names`, in one of these only, and every entry is the one that the plan
makes of a file. `Queue`: the waiting names are of files, each once. `Stages`: what the phases of
each backend have to do with the others, such as that Linux has no entries before the second loop,
and that at the end what was never listed had vanished or is told by an error. It is proved action
by action, after TLC had found it true of the listings under the queries on sizes.

`AccountsForEachName` and `NamesOpenThemselves` rest on `RoundTrip`: what `decode_name` makes of
any sequence of units `encode_os_name` turns back. What a decoder reads piece by piece is
a list of cuts (`SpellingExists`); each piece comes back by arithmetic on its units (`UnitPiece`,
`BytePiece`); and no piece makes its neighbour read otherwise, since the encoder works on one code
point at a time. `LazyFetchIsSound` goes leaf by leaf: a leaf reads fields that its query's mask
has, and those are equal in the entry as read and in the full one. For `TimesKeepOrder`,
`Reported` says of each backend and each of the four times that one which is not misread is reported
as what it stands for, cut off once (the cut of the product and the difference of the ticks then
change nothing), and that two cuts instead of one make less than a second; and cutting off keeps the
order. `NameLeavesMean` uses the matcher's lemmas on literals between stars.

### Ring, builder, mask

`NoStrandedConsumer` speaks of sleepers; the invariant speaks of every consumer that is about to
sleep too, which the look at the queue before each wait makes true. The proof is the argument the
comment at `ring.rs:500` makes for one residue wake, for any number of threads.

`BuilderInv` says what each phase of `build()` has established: the keys are those of the roots and
pairwise distinct, the first of them are the supplied roots', none within another once they were
checked, and each pattern lowered so far had no fault and is bound to all of those or to one root
of its own. A corollary is that the last check of `build()`, that the query has roots
(`builder.rs:381`), can never fail: whatever passes the checks before has one.

`Lowered` adds what each pattern was lowered to: its case rule, what peeling left, and a root with
the key of what peeling made. What that key is follows from three facts for any pattern and path.
The peeling loop stops (`PeelingStops`) and pushes one literal after the other (`PushesExist`).
The components of a literal are a sequence, without a prefix on POSIX (`ComponentsOfText`, by the
lemmas on scanning in `MatcherProofs`). And pushing such components leaves a path below its anchor
(`PushingStaysBelow`): one that starts again at the root keeps the root, or on Windows the drive or
share. Hence `BindsAsWritten`; a literal that names a drive is the only way out of the anchor, and
`NamesNoDrive` excepts just that. Where literals are plain names each push appends one component
(`PlainPeeling`), so root and rest together are the anchor and the segments as written.

`MaskCorrect`: after any part of the loop that fills a match's mask, for every number of patterns,
`contains` holds of just the indices that matched, `iter` yields them, and the flag that lets the
match be emitted is `any`. No TLC run checks it: a second word of 64 bits is beyond what TLC can
enumerate.

### What is only model-checked

Liveness and anything with `ENABLED` (`Termination`, `DropReturns`, `CancelIsHonoured`,
`QueuedIsConsumed`, `MandatoryLands`) is beyond this prover, and so is what rests on the RECURSIVE
operators of `Parser`: the properties of `Parse`. `ViableIsTight` is about the instance as much as
about the code: it needs names that the patterns at hand can still match.

## 5. What the code does differently from what is said of it

1. **Ends may overtake** (`ends`). `release` decides which containers end under the lock, but
   their ends are pushed after it. If one worker has released the last child and is about to push
   its end, and another then releases the parent's own scan, the parent's end may be first. The
   crate's README, D-64 and an assertion in `tests/engine.rs` promise the opposite. Everything
   else in the contract holds, so `CompletionStream` leaves the order of two ends open. The
   coordinator's leftovers do come bottom-up.
2. **Links are entered once per query, not per root** (`shared_links`). `visited` is shared, so
   where a derived root is nested in a supplied root, a link below both is entered from one of
   them only. Which patterns lose matches depends on scheduling.
3. **Peeling ignores an overridden case rule** (`peel`). A posix pattern made insensitive opens
   its literal prefix by its exact spelling.
4. **Old times come out of order** (`times`). `statx_time` cuts off the seconds at the lower end of
   the range and then adds the fraction, so a time before September 1677 is reported as up to a
   second after that end, and an older file may come out newer than one whose time is just within
   the range. The comment at `sys.rs:251` says that the native backends saturate as the portable
   one does. The portable change time (`sys.rs:344`) is computed as on Linux.

Three smaller differences are noted and have no run. `/a/**` does not report `/a` itself, since it
is the opened root, though D-24 says `a/**` matches `a`; `PeelKeepsMatches` excepts that one path.
And an escaped separator in a posix pattern is a literal that peels into several path components,
or starts again at the root; `PeelingSpellsThePattern` is stated for literals that are one name.
`filetime_to_unix_nanos` of Windows subtracts the epoch from the ticks without a check
(`win.rs:192`), so ticks that lie within the epoch of `i64::MIN` wrap around to the far future, or
panic where overflows are checked; no file system is known to report such a time.

## 6. What is not modelled, and why

* `upcase.rs` is generated data. Dialect versions and path helpers hold no behaviour the rest
  depends on. The setters of descend, links, confinement and result shape store what the other
  modules take as constants; that `options()` overwrites them is listed as a hazard. `count()` of
  the mask and the copy of an entry's fields into a match are left out.
* The portable backend as built for neither Unix nor Windows, where names are decoded lossily, and
  std's `ReadDir` after an error, which is taken to have ended. The layout of the records in the
  Windows buffer.
* Panics in workers, a second consumer that outlives the handle, and a file system that changes
  targets of links between check and open: see the hazards that no property covers.
* The inside of crossbeam's queues and of std's mutexes and condition variables.

## 7. Plan

1. Core: `Engine`, its stream, accounting and teardown, with types and `outstanding` proved
   (done).
2. The parts the engine rests on: `Ring`, `Glob`, `Parse`, `Enumerate`, `Builder` (done).
3. Composition: the walk of `Engine` with the real parser and matcher, the builder on parsed
   patterns, the three directory backends under one contract, names from listing to opening
   (done). `PatternMask`, proved (done).
4. Proofs: the engine's accounting, stream, teardown, confinement and reports; the ring's types
   and wakes; the builder's acceptance, roots and relative bindings (done).
5. Proofs: that a completed walk is complete and its containers are bounded; the matcher's meaning,
   pruning and peeling; all of the reading of directories; the builder's anchored bindings and
   peeling (done).
6. Left to prove: the loops of `Parser`, if they are written as recursive functions as those of
   `Matcher` are.
