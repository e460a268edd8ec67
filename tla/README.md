# A TLA+ model of elfshaker

elfshaker stores snapshots of directory trees with deduplicated objects, first
as *loose* objects and indexes, later in compressed *packs*. Several processes
may work on one repository at the same time, any of them may be killed at any
instruction, and the user edits the working directory in between. This
directory models that behaviour in TLA+, checks it with TLC on small instances
and proves every safety property of those runs with TLAPS for any number of
processes, files and snapshots.

Paths below are relative to the directory that holds `src/` (so the crate's
sources are `src/src/...`). `PROJECT.json` maps each definition to the source
lines it stands for.

## 1. Inventory

| Component | State it keeps | Operations that change it | Modelled by |
| --- | --- | --- | --- |
| Atomic file creation (`atomicfile.rs`, `repo/fs.rs`) | destination name, inodes, advisory locks, temporary files | `AtomicCreateFile::new`, `commit_content`, `write_file_atomic` | `WriteOnceName`, `AtomicFile`, `AtomicFileProofs` |
| Repository lock (`repo/repository.rs`) | kernel lock on `mutex`, `is_locked_exclusively` | `open_with_data_dir`, `lock_exclusive`, `restore_shared_lock_on_error` | `RepoLock`, `RepoLockProofs` |
| Loose and packed storage (`repo/repository.rs`, drivers) | loose indexes, loose objects, `.pack`, `.pack.idx`, HEAD | store, pack, explode, gc | `SnapshotArchive`, `PackRepo`, `PackRepoProofs` |
| Working directory and HEAD (`repo/repository.rs`, `repo/fs.rs`, `extract.rs`) | files, links, directories and their times, HEAD and its time | extract; what store, pack and gc do to HEAD; the user | `Checkout`, `MCCheckout`, `CheckoutProofs` |
| Pack index (`packidx.rs`, `entrypool.rs`) | entry pools, object table, snapshot deltas, the saved file | `push_snapshot`, layout, save, parse, resolve | `PackIndex`, `PackStreamProofs` |
| Pack stream (`repo/pack.rs`, `batch.rs`) and parallel helpers (`repo/algo.rs`) | frames, threads, read positions | compression into frames, frame assignment, forward-only reads, partitioning | `PackStream`, `Parallel`, `MCPackStream`, `ParallelProofs`, `PackStreamProofs` |
| Remotes (`repo/remote.rs`, clone, update) | `.esi` files, local packs and indexes | conditional download, fetch on demand | `Remote`, `RemoteProofs` |
| ESI documents (`esi.rs`) | several documents and their backups | `commit_documents`, rollback; create, add, remove | `EsiCommit`, `MCEsiCommit`, `EsiCommitProofs` |
| Symbolic links (`repo/symlink.rs`) | none of its own | materialization and replacement of files and links | part of `Checkout`, `PackRepo` and `PackStream` |
| Paths and identifiers, queries, command line, logging | none | none | not modelled: no state change (`show` is, in `PackStream`, for what it returns) |

**Interactions.** Every command opens the repository and so takes the shared
lock; store and gc trade it for the exclusive one, and gc does so again (as a
no-op) in every `delete_pack` and `delete_object`. store and pack create names
through `AtomicCreateFile`, or with `--force` through a rename that asks
nobody. pack publishes `.pack`, then `.pack.idx`, then possibly moves HEAD.
gc decides on the basis of the indexes and deletes indexes before objects.
extract computes what to do from the snapshot HEAD names and judges local
modifications by HEAD's modification time, so each command that rewrites HEAD
changes what the next extract regards as modified. pack builds one index out
of the loose ones and compresses their objects in parallel; extract and show
read entries back out of the frames. A pack that is listed by a remote and not
there is downloaded when extract, show or explode needs it. The shared lock does
not keep pack, explode, extract, update and downloads from each other: they may
overlap, and each writes files the others read. ESI commands take no lock at all.

**What is hard here.** The window of `lock_exclusive` without any lock; the
open/lock/stat sequence on a name that others rename over; death between any
two of the renames and deletions of a command; two files (`.pack` and
`.pack.idx`) that must agree but are replaced one after the other; decisions
based on content while the user thinks in tags; HEAD as both pointer and clock;
interrupted extracts; offsets that index, frames and threads must agree on;
renames that fail in the middle of a group; downloads that are written in place
and judged by time stamps. The list, with lines, is under `hazards` in
`PROJECT.json`; each entry names the properties that would catch it.

**What makes each component correct.** *Atomic creation*: one winner, nothing
torn, nothing replaced, and a dead process does not block the name.
*Lock*: what store and gc read stays true while they act on it, what others read
is not taken away, the flag tells the truth, nobody waits for ever. *Storage*: what was stored can be read back; an
index describes its pack; a loose snapshot has its objects. *Working
directory*: it is what HEAD says, user data is not destroyed unasked, nothing
outside is touched, and checks that pass mean that the work can be done. *Pack
index and stream*: what was pushed is what is read back, by whatever number of
threads and frames. *ESI*: all documents or none, and nothing replaced without
a trace. *Remotes*: what looks up to date is, and updates converge.

## 2. The modules

### WriteOnceName and AtomicFile

`WriteOnceName` states what creators of one name are promised: the right to
publish is exclusive, is granted only while nothing is published, and content
appears whole; a forced writer may overwrite at any time.

`AtomicFile` is the Unix protocol for that one name. Its state is the inode
under the name, each inode's content and lock holder, whether the parent
directory exists, and per process a program counter and two descriptors. Each
system call whose result matters is one action: open (three outcomes), lock,
comparison of the name's inode with the locked one (`lock_name`), the length
check, creation and lock of the temporary file, copy and sync, rename, close.
`Abort` ends a call anywhere, by error or SIGKILL, and cleans up nothing but
what the kernel closes. `Delete` is `delete_pack` under the exclusive lock.
Inodes without link or descriptor are reused, so the model needs no bound on
the number of attempts. The Windows variant (claim file beside the target) is
not modelled.

### RepoLock

Each process runs one command. Actions follow `open_with_data_dir` and
`lock_exclusive`: try, block if contended, restore the shared lock on error.
`Decide` is the reading a command bases itself on. The repository has two
`Parts`: `kept` is the loose snapshots and the presence of the files that were
found, which only store and gc change; `added` is packs, exploded objects, the
files of remotes and HEAD, which other commands make and replace under the shared
lock. `Mutate` is a change of either part by an exclusive holder, `MutateShared`
one of the second part by a command that keeps the shared lock; `seen` says
which parts of what a process has read nobody else has changed since. Read-only
repositories have no lock file and may not become exclusive.

### SnapshotArchive and PackRepo

`SnapshotArchive` states what the four commands promise together: a tag has the
content stored last, a pack name has nothing or an index, a store replaces a
content at once, a pack appears at once under a name that showed none, and its
snapshots are exactly as they are stored at that moment. gc, explode, HEAD and
commands that die are stutters.

`PackRepo` is the data directory under store, pack, explode and gc. A snapshot's
content is a set of objects, an index a function from tags to contents, a `.pack` the set of
objects inside it (`compute_object_offsets_and_ordering` lays objects out by
size, with sizes taken to be distinct the set fixes the offsets). Files are
absent, reserved (empty) or have content; who holds a reservation is the
abstraction of `AtomicFile` that matters here. The lock is `RepoLock`'s
guarantee: `MayExclude` and `MayShare`. Each command is a sequence of actions, one per
file-system step: store reserves, writes each object (in any order: parallel
workers), commits, moves HEAD; pack checks, reserves the index, compresses,
claims and publishes the `.pack`, publishes the index, reads HEAD and writes
it; explode loads the index, opens the pack and renames each object into place
without verification; gc deletes redundant indexes, marks, and sweeps. `Stop`
kills a process, or fails it, between any two steps. An explode that is killed in a write
leaves a temporary file among the loose objects (`stray`), on whose name gc then
fails before it sweeps. A dry-run gc changes nothing
and is left out. `ImplementsArchive` maps the content that store last reported
to `stored`, and the packs whose index can be loaded to `packs`.

### Checkout

One working directory, one level of directories deep: a path can be a file, a
link, a directory or absent, and may be each of them in turn. A job is one
extract: `ExtractBegin` is everything up to the first change (HEAD, difference,
the ancestor, dirty and collision checks), then removals with the clean-up of
empty directories, then writes in any order, then HEAD; `ExtractStop` interrupts
it, and it is stuck where `CanRemove` or `CanWrite` says that the system call
fails. store (of any subset of the files) and gc are single actions because
the lock and HEAD are all that matter of them; their steps are `PackRepo`'s.
pack only shares the lock, so it may overlap an extract: `Pack` reads HEAD and
`PackHead` writes it later. Time is one bit per file: modified after HEAD or
not. Four history variables (`outside`, `unsaved`, `foreign`, `mixed`) record what
was written through links, where the user wrote something other than HEAD
recorded and has not stored it, what differs from elfshaker's
own doing, and whether an interrupted extract or an overwritten HEAD has not
been repaired; no action's guard reads them.

### Parallel, PackIndex and PackStream

`Parallel` holds `run_in_parallel` and `partition_by_u64` as operators. A group
of tasks is a thread; `Spawn` deals them out, `Ran` is one task done, `Joined`
the results in the order of the tasks. The function `pass` in
`partition_by_u64` is its loop, one pass after the other. `MCPackStream` compares both with what
they are for, as assumptions TLC evaluates, over all short inputs.

`PackIndex` is the index under construction, its saved form in versions 1, 2
and 3, and what is looked up in a parsed one. Handles are positions in pools,
snapshots are differences, and objects get offsets by size and handle: the
offset of an object is the total size of those that precede it. `Indexes` is the
set of all indexes in memory. A checksum is its content.

`PackStream` composes them into the life of a pack: loose objects, one of which
may be missing or cut short, are compressed by interleaved threads, and the
frames and the index written; `LegacyPack` is a pack of an older program.
Then commands read it: extract (link targets first, then all entries, verified
or not) and show. A reader's state is its position in the decompressed stream
and the object it read last, because the code skips the reading of an object it
believes to have in the buffer; the decoder it reads from is opened at a frame
and goes on into those that follow (`StreamFrom`); entries come out of a hash set, so every order
that agrees with the offsets is tried. Byte *i* of object *o* is a value of its own,
so reading at a wrong place cannot go unnoticed.

### EsiCommit

Documents and backups are files; a document is a function from URLs to digests.
A command loads its targets one by one, edits, validates, stages (reading the
files again), renames (backup before document), and on failure of a rename rolls
back in reverse. Every read, rename and rollback step can fail, and a process
can be killed, `MaxFaults` times in all; several processes run `MaxCommands`
commands without any lock. `stage` is the set of targets still to stage,
`order` the staged names in the order of their renames, of which the first
`pos` are in place: publishing counts up, a rollback down. `late` is history:
names that someone else wrote after a process staged them.

### Remote

A publisher releases versions and uploads them file by file, in any order, with
moments in which a file is incomplete. Clients clone, update and fetch. A file
is a version number, `Broken`, or absent; of all clocks only the comparison of
the local file's time with the server's is kept (`fresh`). A command is a
sequence of request, response, emptying of the local file and writing of its
content; a kill in between leaves the file cut short, and two writers may mix. A
clone asks for the index twice, the second time with the time of its own write.
`excused`, `quiet`, `overtaken` and `served` are history. One remote is modelled.

### Deliberate simplifications

* Processes die; machines do not lose power. `sync_data` ordering against a
  power failure is not modelled.
* Unix semantics of rename, unlink and advisory locks.
* No other program changes the data directory.
* The working directory does not change *during* a command
  (`docs/contributors/pack-index-paths.md` excludes concurrent changes).
* A user's edit is strictly younger than HEAD; equal time stamps are left out.
* `Checkout` has one level of directories and no case-insensitive names; an
  entry's checksum and metadata are one value. The clean-up of a directory is
  part of the removal of its last entry, while the code may put it off to the
  next removal.
* A worker thread that panics ends the process.
* In `PackStream` one loose object at most is damaged, and its files do not
  change while a command runs.
* `EsiCommit` leaves out line endings, permissions and the staging files that a
  kill leaves behind. A rollback that another process's write precedes is
  excused (`late`): it undoes that write.
* `Remote` assumes that a document is found under the URL it names, and that
  versions of a pack index differ in size.

## 3. Runs

Passing runs:

| Run | Instance | Shows |
| --- | --- | --- |
| `atomic_file` | 2 creators, 1 forced writer, 6 inodes (two for each creator, one for the forced writer and one under the name: file creation cannot fail) | `SingleOwner`, `NoTornPublish`, `CreatorNeverReplaced`, the refinement `ImplementsWriteOnce`, and the liveness property `OneWins` |
| `repo_lock` | 2 processes that call `lock_exclusive`, 2 that change the repository under the shared lock, and a read-only one that calls `lock_exclusive`; any number of changes | `StableView`, `FlagHonest`, `Termination` |
| `pack_repo` | 2 processes, 2 tags, 2 objects, contents `{o1}` and `{o1, o2}` (one shares an object with the other), 1 pack name; no forced pack | `IndexMatchesPack`, `LooseComplete`, `ContentSurvives`, `PackedIsKept`, `HeadUpdateResolves` and the refinement `ImplementsArchive` under death at every step |
| `checkout` | 2 packed snapshots and 1 tag to store, over a path that is a file, a link or a directory of two paths | `CheckoutCorrect`, `OutsideUntouched`, `ChecksSuffice`, `FreshEditsKept`, `UntrackedKept` |
| `pack_contents` | up to 3 snapshots out of 4 that differ by a changed object, a file that becomes a link, an object under another name, an object shared by files of different modes, and empty files; 5 objects of sizes 0, 1 and 2; up to 3 frames and 2 threads asked for | `RoundTrip`, `FramesTile`, `SuccessIsExact`, `IntactIsReadable` |
| `esi_commit` | 2 processes, 2 documents and their backups, a command that names a backup as a document, 2 commands, 2 faults | `AllOrNothing`, `ReplacedIsBackedUp`, `Terminates` |
| `remote` | 2 clients, 1 pack, 2 releases, both formats | `FreshIsCurrent`, `UpdateConverges`, `CloneIsComplete` |

What the exceptions in these properties say about the code:

* `IntactIsReadable`: store records an empty file it may not open with an
  all-zero checksum; `extract --verify` of a pack refuses such a file whenever
  it gets to "read" it, which depends on the order of the entries.
* `SuccessIsExact`: pack does not verify loose objects, so one that was cut
  short shifts the objects behind it; without `--verify` extract then succeeds
  with wrong files.
* `SpawnCovers` (in `MCPackStream`): `run_in_parallel` may spawn up to twice the threads asked
  for, less one.
* `ChecksSuffice`: an untracked regular file where the snapshot has a directory
  passes both preflights and makes extract fail after its removals.
* `CheckoutCorrect`: a pack that read HEAD before an extract ended puts back the
  HEAD of before.
* `ReplacedIsBackedUp`: when the restoration of a document fails in a rollback,
  its backup is restored nevertheless, and with it the original content is gone.
* `FreshIsCurrent`: a local file's own time goes into `If-Modified-Since`, so a
  download that was overtaken, cut short or mixed looks current until the file
  changes on the server again: `update` is answered 304 and reports success with the
  old file. `UpdateConverges` says that the file's next change ends this. A remote index cut short makes every later
  `update` and fetch fail, or, cut between two lines, hides packs.
* `CloneIsComplete`: a pack index the server has broken is reported, skipped and
  does not fail the command when the remote index has no sizes.

Runs that exhibit a disagreement between the code and what its documentation,
comments or help say (details and quotations under `findings`):

| Run | Property | What happens |
| --- | --- | --- |
| `gc_drops_tag` | `TagSurvives` | gc deletes a loose snapshot that was never packed, because a pack holds another tag with the same content; the content survives (`ContentSurvives`), the tag is gone |
| `reservation_blocks_lookup` | `LookupUnaffected` | an empty index, of a killed store or a running pack, is a parse error for commands that load all indexes, instead of being treated as absent |
| `forced_pack_mismatch` | `IndexMatchesPack` | `pack --force` leaves the old index beside the new pack between two renames, for a reader or for good after a crash |
| `edits_hidden_by_head` | `EditsKept` | the user modifies a file; an extract of a snapshot that records the same file as HEAD leaves it alone and rewrites HEAD, which is then younger than the modification; the next extract removes the file without `--force` |
| `interrupted_extract_mixes` | `RestoresSnapshot` | after an interrupted extract, a second one succeeds and leaves the first one's file in place |

**Why the bounds are enough.** The atomic-file protocol distinguishes me,
another creator and a writer that does not ask; a third creator adds no new
relation to the inode under the name, and the theorems below remove the bound.
In `RepoLock` two upgrading writers make the deadlock candidate, two commands
under the shared lock change what the other has read and interfere with both,
and again the proofs remove the bound. In `PackRepo` the exclusive commands run alone, so two processes
give every pair of overlapping shared commands; two tags are the least number
for content equality across tags. In `Checkout` a directory of two paths is the
least in which one entry goes and another stays, and one that may become a file
or a link has every transition; that a file changes is reached through store.
Three snapshots are needed only for the interrupted extract and hidden edits,
and those runs have them. In `PackStream` the objects have the least sizes at
which a tie, an empty object and a frame boundary occur, three snapshots make a
difference of differences, and the arithmetic is checked apart on larger
inputs. In `EsiCommit` two documents make a half-done commit, two faults the
failure of a rename and of its rollback, or of one and a kill. In `Remote` two
releases separate old, new and mixed, two clients write one file at once; the
files of several packs do not depend on each other. `MCCheckout` and
`MCPackStream` declare snapshots, tags and paths that are interchangeable as
symmetric; no liveness is checked with them.

**Deadlock.** The check for deadlock is on wherever a process can always do
something; `RepoLock` has an explicit `Terminated` self-loop, so a deadlock
there would be processes waiting for each other. It is off in `esi_commit`, where
the bound on commands ends every behaviour.

**Fairness.** `AtomicFile!FairSpec` assumes that a process inside a call keeps
running (weak fairness of its own steps): its calls never wait, so this is only
the scheduler's promise. Nothing is assumed about starting a call, failing or deleting;
`OneWins` is stated for behaviours that eventually stop being disturbed by
deaths and deletions. `RepoLock!FairSpec` assumes weak fairness of each process's
progress, including that the kernel grants a lock that stays available; errors,
deaths and further mutations are not fair. Weak fairness suffices because each
process runs one command, so a lock is released only finitely often.
`EsiCommit!Spec` assumes weak fairness of each process's own steps, which include
the failing ones: nothing there waits. `Remote`, `Checkout`, `PackRepo` and
`PackStream` assume none.

Each property of a passing run has a mutant in `PROJECT.json`: an operator that
changes one definition the way a plausible bug would (a guard dropped, a reset
missing, an order swapped) and under which TLC finds the property violated.
They sit beside the definition they alter, marked `Mutant:`.

## 4. Proofs

All proofs are for arbitrary finite or infinite sets of processes, names, paths,
objects and packs, under the assumptions named in the modules: the special
values (no file, broken, reserved, a directory) differ from the others and from
each other, bounds are natural numbers, and the constants have the types the
comments give. Of snapshots it is assumed that they are finite, have one entry
for a path, and that the target of a link is not empty: a Unix file system has
no such link, and `decode_target` refuses one. Nothing is assumed about what the code does. Each module with a
specification proves `Spec => []IInv` for an inductive invariant `IInv`, by one
step or lemma per action, and everything else follows from that.

`AtomicFileProofs` proves `Spec => []IInv` with

* `TypeOK`, which also says which descriptors are open at which step;
* `LockInv`: a creator past `try_lock_exclusive` is the holder of the lock on the
  inode behind its descriptor;
* `TempInv`: temporary inodes are private, neither under the name nor shared,
  until renamed;
* `ContentInv`: the inode under the name is never partial, a synced temporary
  file is complete, a claimed target is still empty, and so are unused inodes;
* `OwnerInv`: there is one owner at most, and the inode under the name is the
  owner's target, unless a forced rename has displaced it.

None of `SingleOwner`, `NoTornPublish` or the refinement is inductive alone: that
two owners are impossible needs that they would hold the lock of the same
inode; that a rename publishes whole content needs that the temporary inode is
nobody else's. From it follow `TypeCorrect`, `MutualExclusion`
(`SingleOwner`), `CompleteContent` (`NoTornPublish`), `Refinement`
(`ImplementsWriteOnce`, step by step: every action maps to one of
`WriteOnceName` or to a stutter) and `NoReplacement`
(`CreatorNeverReplaced`).

`RepoLockProofs` proves `Spec => []IInv` with `TypeOK`, `HoldInv` (who may hold
a lock at which step, and that the flag means exclusive), `KernelInv` (an
exclusive holder is alone), `SeenInv` (a process that has looked has the
repository open, one that calls `lock_exclusive` exclusively) and
`StableView`. `StableView` needs all of them: a change under the exclusive lock
meets no other process that has looked, and one under the shared lock no
exclusive holder, and it leaves the kept part alone. `IInv` yields `TypeCorrect`, `NoStaleDecision` (`StableView`) and `HonestFlag`
(`FlagHonest`).

`PackRepoProofs` assumes `~ForcePack`, because `forced_pack_mismatch` shows that a
forced pack breaks `IndexMatchesPack`, and with it what the others need. None of
`IndexMatchesPack`, `LooseComplete` and `ContentSurvives` is inductive: each is
safe because of what a command has established some steps before it acts, and
because nobody can undo that meanwhile. So `IInv` adds

* `ExclusionInv`: whoever runs store or gc is alone;
* `StoreInv`: the objects a store is done with are there, and what it committed is
  its index;
* `PackInv`: from the reservation to the rename of `.pack.idx` a pack owns both
  names, and the `.pack` goes from reserved to complete in between;
* `ExplodeInv`: the index an explode loaded describes the pack it opened, so it
  writes whole objects;
* `GcInv`: what gc is about to delete is in a pack (indexes) or in no loose
  snapshot (objects);
* `KeptInv`: what was promised under a tag is its loose snapshot or in a pack.

The theorems are `TypeCorrect`, `PublishedPairsMatch` (`IndexMatchesPack`),
`NoDanglingSnapshot` (`LooseComplete`), `NoDataLoss` (`ContentSurvives`),
`PackedNeverReplaced` (`PackedIsKept`), `HeadNamesSnapshot`
(`HeadUpdateResolves`) and `Refinement` (`ImplementsArchive`). The refinement goes
action by action: the rename of a loose index is `Store`, the rename of a
`.pack.idx` is `Pack`, everything else a stutter. The step that could fail is the
second: a pack reads the loose indexes long before it publishes, so the proof adds
`ArchiveInv`: what a pack has read is still what is stored. It holds because
the pack shares the lock all that time and a store needs it alone.

`CheckoutProofs`: an extract is many steps, and the user and other commands act
before, between and after extracts, so its properties need to know what is still
to be done and why that is allowed. `TreeInv` says that the working directory is
a tree; `JobInv` says of a running extract which paths it removes and writes
(`GoneInv`), that no link is above them once the removals are done (`LinkInv`), that the rest
already holds the snapshot (`RestoreInv`), that nothing fresh or untracked is among
them (`KeepInv`), and that nothing is in the way (`SufficeInv`). The theorems are
`CheckoutIsCorrect` (`CheckoutCorrect`), `NeverOutside` (`OutsideUntouched`),
`ChecksAreEnough` (`ChecksSuffice`), `FreshEditsAreKept` (`FreshEditsKept`) and
`UntrackedAreKept` (`UntrackedKept`).

`EsiCommitProofs`: the invariant is local to a process. `CommandInv` says that
the targets left to stage share no name with each other or with what is staged
(this is `Valid`, and fails without it); `StagedInv` that the staged names are
all different and a backup comes right before its document with the content
found there; `PlacedInv` that of the files nobody else wrote the first `pos` have
their new content and the others the old. A step of another process only makes
a process own less (`Interference`). The theorems are `CommitIsAtomic`
(`AllOrNothing`) and `ReplacedContentIsKept` (`ReplacedIsBackedUp`).

`RemoteProofs`: a file is `Good` when it is the server's, is being written or has
met with one of the named accidents. `FreshInv` says that fresh files are good; a
304 relies on it, and on `RequestInv`: the file a conditional request is about
stays fresh, and a body that is being written is the server's unless overtaken.
`ConvergeInv` says that what a quiet command has looked at is good, or as listed;
only an upload or a failed clone makes a good file bad, and neither leaves another
quiet command that has looked at anything. `PhaseInv` says that a clone runs
alone, and `CloneInv` what it has in its directory. The theorems are
`FreshStaysCurrent` (`FreshIsCurrent`), `QuietUpdatesConverge` (`UpdateConverges`)
and `CloneAppearsComplete` (`CloneIsComplete`).

`ParallelProofs` has no invariant: it is about operators. The library's theorems
of induction and recursion take an operator as a parameter and cannot be used
with the installed provers, so the module starts with versions that take *sets*
and *functions*: `SetInduction` and `BoundedInduction` for a set of numbers that
has 0 and successors, `SubsetInduction` for a family of finite sets,
`Recursion`, `LeftRecursion` and `SubsetRecursion` for functions that satisfy a
recursive equation. Each is proved from the well-ordering of the natural numbers
or of cardinality. From them come the laws of `Total` (removal of an element,
prefix sums, sums over an interval or over picked elements) and of `FlattenSeq`
(where each element of each part ends up). With these:

* `PartitionTiles`: for any weights, the slices of `partition_by_u64` are
  consecutive, together the list, none empty, and no more than asked for.
* `SpawnTiles`: every task of `run_in_parallel` is in a group, groups are
  consecutive and follow the order of the list, none is empty, and there are
  fewer than twice as many as threads were asked for.
* `JoinedInOrder`: when all threads have run, the results are one for each task in
  the order of the tasks. Its hypothesis `Progress`, that each thread has done the
  first few of its tasks, is what `ProgressSpawn` establishes and `ProgressRan`
  preserves for any interleaving.

`PackStreamProofs` proves the properties of the index and the stream. None of the four is
inductive: they compare what was pushed, or loose objects, with what comes out
at the other end of five conversions. The invariant `Inv` says for each phase
how far the conversion has come:

* `IndexOK(index, pushed)`: pools have no duplicates and contain what was pushed,
  the *k*-th delta is the change from the *k*-1st to the *k*-th snapshot in terms of handles,
  and the sizes are those of the objects;
* `Compressing`: there is a `Plan`, a layout of the objects in order of size with
  prefix sums as offsets, cut into slices, and every thread has made the
  frames of the first few of its slices;
* `Packed`: the saved index is a form of the index (in one of the three versions),
  and the frames hold the objects of the slices of such a plan;
* `Working`: the threads of a command that reads are in `Progress` with tasks that
  are for exactly the entries asked for;
* `StoreOK`, and the two properties of results.

The argument follows the data. *Index*: a push extends the pools without moving
a handle (`PushedOK`); replaying the deltas of a parsed file gives images of the
snapshots' handles, and the counts agree (`SavedRoundTrip`, which is
`RoundTripHolds`). *Layout*: objects can be sorted (`SortedExists`), and the total size of
those before an object is the prefix sum at its place (`LaidOutOK`). *Frames*: the
slices tile the order, a frame of intact objects has the length of its slice, so
the frames tile the stream (`WrittenTiles`, which is `FramesTileHolds`), and an
object is in one frame whole (`WholeInFrame`). *Tasks*: each entry goes to the
frame that has its object, at an offset within it, and two entries overlap only
if they have the same object or are empty (`TasksMade`). *Reading*: in any order
that agrees with the offsets, the reader is at the end of what it read last,
with that object in its buffer (`PosOK`), so that what it skips or reuses is what the entry
asks for; this is where a damaged object is either detected or, without
`--verify`, excluded by the property (`WalkResult`, `FetchResult`). *Result*:
`JoinedInOrder` and the tasks give the files of the snapshot and no others
(`SuccessIsExactHolds`, `IntactIsReadableHolds`).

Only model-checked: the liveness properties (`OneWins`, `Termination`,
`Terminates`), which the prover has no means for. Properties of behaviours with
forced packs are left to the runs that exhibit them. `Inv` of `PackStreamProofs`
quantifies over unbounded sets, so TLC checks the properties but not the
invariant itself.

## 5. Not modelled

* *Paths and identifiers*: validation of characters, conversion to native paths,
  Windows and macOS rules; no state, and table-driven unit tests cover them.
* *Command line, logging, progress*; the queries except show: they print.
* *Encodings*: MessagePack, zstd, the lines of ESI documents, link targets. The
  models keep what the encoded fields say.
* *The Windows variants* of atomic creation, of replacement and of links.
* *Liveness of remotes*: the request for a pack has no time limit, so a fetch need
  not end; a property under fairness needs a smaller instance than the safety
  properties do.
* *Power failures*, and programs other than elfshaker in the data directory.

## 6. Plan

What is left, in this order:

1. `PackRepo` as an implementation of `WriteOnceName` for each index name, which
   would link the two layers formally: at present the reservation in `PackRepo`
   is the abstraction of `AtomicFile` by argument only. In the same way the `.pack`
   of `PackRepo` is a set of objects because of what `PackStream` shows, by argument.
2. Liveness of `Remote` under fairness, on an instance smaller than the present
   one; with TLC, as all liveness.
3. Two remotes that list the same pack.
