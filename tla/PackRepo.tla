------------------------------ MODULE PackRepo ------------------------------
(***************************************************************************)
(* The data directory and the commands that change it: store, pack,        *)
(* explode and gc (src/src/repo/repository.rs with the command-line        *)
(* drivers of src/src/bin/elfshaker).  A snapshot's content is the set of  *)
(* loose objects it is made of; an index is a function from tags to        *)
(* contents, and a loose index is the index of one snapshot.  Several      *)
(* processes run commands under the repository mutex (module RepoLock):    *)
(* store and gc exclude every other command, pack and explode only those   *)
(* two.  A process may be killed, or fail, between any two file-system     *)
(* steps.  A .pack holds objects and no tags, laid out by size             *)
(* (compute_object_offsets_and_ordering), sizes taken to be distinct: the  *)
(* set of its objects fixes every offset.  Names are created as in module  *)
(* AtomicFile: an empty file reserves the name until it is renamed over.   *)
(***************************************************************************)
CONSTANTS Procs,      \* processes
          Tags,       \* snapshot tags
          Objects,    \* object checksums
          Contents,   \* the possible contents of a snapshot
          Packs,      \* names of regular packs
          ForcePack,  \* pack --force is used
          Absent,     \* no such file, no value
          Reserved,   \* the file exists and is empty
          Loose       \* the namespace of loose snapshots

ASSUME PackRepoAssumption ==
    /\ Contents \subseteq SUBSET Objects
    /\ ForcePack \in BOOLEAN
    /\ Loose \notin Packs

\* A file that is not there or has no content yet.
Empty == {Absent, Reserved}

\* An index, as pack builds it: at least one snapshot, each tag once.
Builds == UNION {[S -> Contents] : S \in (SUBSET Tags) \ {{}}}

ASSUME PackRepoValues ==
    /\ Absent # Reserved
    /\ \A v \in Empty, x \in Builds \cup SUBSET Objects : v # x
    /\ Absent \notin Procs \cup Packs \cup {Loose}

VARIABLES
    loose,     \* tag -> the loose index: Absent, Reserved or a content
    objects,   \* the loose objects on disk
    corrupt,   \* those whose bytes are not what their name says
    stray,     \* a temporary file was left among the loose objects
    packFile,  \* name -> the .pack: Absent, Reserved or the objects in it
    packIdx,   \* name -> the .pack.idx: Absent, Reserved or an index
    reserver,  \* name -> the process that holds the reserved .pack.idx
    head,      \* HEAD: Absent or <<namespace, tag>>
    promised,  \* tag -> the content store last reported as stored
    job        \* process -> its command, see IdleJob

disk == <<loose, objects, corrupt, stray, packFile, packIdx, reserver, head, promised>>
vars == <<disk, job>>

(***************************************************************************)
(* A command in progress.  at: its step; build: the index it is writing or *)
(* has read; dest: where; force: --force; tags: loose indexes to delete or *)
(* the tag to write into HEAD; objs: objects to write or delete.           *)
(***************************************************************************)
IdleJob == [at |-> "idle", build |-> Absent, dest |-> Absent, force |-> FALSE,
            tags |-> {}, objs |-> {}]

ExclusiveSteps == {"storing", "stored", "pruning", "pruningonly", "sweeping"}

SharedSteps == {"packing", "compressing", "compressed", "claimed", "packpublished",
                "packed", "heading", "exploding", "unpacking", "garbling"}

Step(p, at) == job' = [job EXCEPT ![p].at = at]
Return(p) == job' = [job EXCEPT ![p] = IdleJob]

\* Mutant: a command starts while store or gc is at work.
MayShareAlways(p) == job[p].at = "idle"

\* What RepoLock grants: lock_exclusive, and the shared lock of every command.
MayExclude(p) == \A q \in Procs : job[q].at = "idle"
MayShare(p) == job[p].at = "idle" /\ \A q \in Procs : job[q].at \notin ExclusiveSteps

Init ==
    /\ loose = [t \in Tags |-> Absent]
    /\ objects = {}
    /\ corrupt = {}
    /\ stray = FALSE
    /\ packFile = [n \in Packs |-> Absent]
    /\ packIdx = [n \in Packs |-> Absent]
    /\ reserver = [n \in Packs |-> Absent]
    /\ head = Absent
    /\ promised = [t \in Tags |-> Absent]
    /\ job = [p \in Procs |-> IdleJob]

ObjectsOf(b) == UNION {b[t] : t \in DOMAIN b}

\* The tags whose loose index can be loaded; an empty file cannot.
Stored == {t \in Tags : loose[t] \in Contents}

\* packs(): every loose index is parsed to recover its tag.
PacksListed == \A t \in Tags : loose[t] # Reserved

\* load_index over all regular packs.
IndexesLoad == \A n \in Packs : packIdx[n] # Reserved

-----------------------------------------------------------------------------
(* store: create_snapshot_impl                                             *)

\* Up to AtomicCreateFile::new, which accepts an empty file but no other; with
\* --force nothing is reserved.
StoreBegin(p, t, c, force) ==
    /\ MayExclude(p)
    /\ \/ force /\ loose' = loose
       \/ ~force /\ t \notin Stored /\ loose' = [loose EXCEPT ![t] = Reserved]
    /\ job' = [job EXCEPT ![p] = [IdleJob EXCEPT !.at = "storing", !.dest = Loose,
                 !.build = [x \in {t} |-> c], !.force = force, !.objs = c]]
    /\ UNCHANGED <<objects, corrupt, stray, packFile, packIdx, reserver, head, promised>>

\* write_loose_object by one of the parallel workers; an object that is already
\* on disk is kept as it is.
StoreObject(p, o) ==
    /\ job[p].at = "storing"
    /\ o \in job[p].objs
    /\ objects' = objects \cup {o}
    /\ job' = [job EXCEPT ![p].objs = @ \ {o}]
    /\ UNCHANGED <<loose, corrupt, stray, packFile, packIdx, reserver, head, promised>>

\* Mutant: the loose index is committed before its objects are written.
StoreCommitEarly(p) ==
    /\ job[p].at = "storing"
    /\ \E t \in DOMAIN job[p].build :
          /\ loose' = [loose EXCEPT ![t] = job[p].build[t]]
          /\ promised' = [promised EXCEPT ![t] = job[p].build[t]]
    /\ Step(p, "stored")
    /\ UNCHANGED <<objects, corrupt, stray, packFile, packIdx, reserver, head>>

\* commit_content, or write_file_atomic with --force: a rename.
StoreCommit(p) ==
    /\ job[p].at = "storing"
    /\ job[p].objs = {}
    /\ \E t \in DOMAIN job[p].build :
          /\ loose' = [loose EXCEPT ![t] = job[p].build[t]]
          /\ promised' = [promised EXCEPT ![t] = job[p].build[t]]
    /\ Step(p, "stored")
    /\ UNCHANGED <<objects, corrupt, stray, packFile, packIdx, reserver, head>>

\* update_head
StoreHead(p) ==
    /\ job[p].at = "stored"
    /\ \E t \in DOMAIN job[p].build : head' = <<Loose, t>>
    /\ Return(p)
    /\ UNCHANGED <<loose, objects, corrupt, stray, packFile, packIdx, reserver, promised>>

-----------------------------------------------------------------------------
(* pack: the driver's run, create_pack_impl and the rewriting of HEAD      *)

\* Mutant: a selection of no snapshot is packed.
PackBeginEmpty(p, n, S, force) ==
    /\ MayShare(p)
    /\ S \subseteq Stored
    /\ force => ForcePack
    /\ ~force => packFile[n] \in Empty
    /\ job' = [job EXCEPT ![p] = [IdleJob EXCEPT !.dest = n, !.force = force,
                 !.build = [t \in S |-> loose[t]],
                 !.at = IF force THEN "compressing" ELSE "packing"]]
    /\ UNCHANGED disk

\* The loose indexes of the selection are loaded and merged by push_snapshot;
\* without --force a non-empty .pack is an error before anything is reserved.
PackBegin(p, n, S, force) ==
    /\ MayShare(p)
    /\ S # {}
    /\ S \subseteq Stored
    /\ force => ForcePack
    /\ ~force => packFile[n] \in Empty
    /\ job' = [job EXCEPT ![p] = [IdleJob EXCEPT !.dest = n, !.force = force,
                 !.build = [t \in S |-> loose[t]],
                 !.at = IF force THEN "compressing" ELSE "packing"]]
    /\ UNCHANGED disk

\* Mutant: the index is opened with truncation.
PackReserveTruncates(p) ==
    /\ job[p].at = "packing"
    /\ reserver[job[p].dest] = Absent
    /\ packIdx' = [packIdx EXCEPT ![job[p].dest] = Reserved]
    /\ reserver' = [reserver EXCEPT ![job[p].dest] = p]
    /\ Step(p, "compressing")
    /\ UNCHANGED <<loose, objects, corrupt, stray, packFile, head, promised>>

\* AtomicCreateFile::new on the .pack.idx: the reservation of the pair.  It
\* takes over an empty file whose owner is gone.
PackReserve(p) ==
    /\ job[p].at = "packing"
    /\ packIdx[job[p].dest] \notin Builds
    /\ reserver[job[p].dest] = Absent
    /\ packIdx' = [packIdx EXCEPT ![job[p].dest] = Reserved]
    /\ reserver' = [reserver EXCEPT ![job[p].dest] = p]
    /\ Step(p, "compressing")
    /\ UNCHANGED <<loose, objects, corrupt, stray, packFile, head, promised>>

\* Every object is read from the loose store and the frames are written to a
\* temporary file.
PackCompress(p) ==
    /\ job[p].at = "compressing"
    /\ ObjectsOf(job[p].build) \subseteq objects
    /\ Step(p, "compressed")
    /\ UNCHANGED disk

\* AtomicCreateFile::new on the .pack.
PackClaim(p) ==
    /\ job[p].at = "compressed"
    /\ ~job[p].force
    /\ packFile[job[p].dest] \in Empty
    /\ packFile' = [packFile EXCEPT ![job[p].dest] = Reserved]
    /\ Step(p, "claimed")
    /\ UNCHANGED <<loose, objects, corrupt, stray, packIdx, reserver, head, promised>>

\* The rename of the .pack: commit_content, or fs::rename with --force.
PackPublish(p) ==
    /\ job[p].at = IF job[p].force THEN "compressed" ELSE "claimed"
    /\ packFile' = [packFile EXCEPT ![job[p].dest] = ObjectsOf(job[p].build)]
    /\ Step(p, "packpublished")
    /\ UNCHANGED <<loose, objects, corrupt, stray, packIdx, reserver, head, promised>>

\* The owner of a reservation lets go of it.
Release(p) == reserver' = [n \in Packs |-> IF reserver[n] = p THEN Absent ELSE reserver[n]]

\* Mutant: the index is published as soon as the frames are compressed.
PackPublishIdxFirst(p) ==
    /\ job[p].at \in {"compressed", "packpublished"}
    /\ packIdx' = [packIdx EXCEPT ![job[p].dest] = job[p].build]
    /\ Release(p)
    /\ Step(p, "packed")
    /\ UNCHANGED <<loose, objects, corrupt, stray, packFile, head, promised>>

\* The rename of the .pack.idx.
PackPublishIdx(p) ==
    /\ job[p].at = "packpublished"
    /\ packIdx' = [packIdx EXCEPT ![job[p].dest] = job[p].build]
    /\ Release(p)
    /\ Step(p, "packed")
    /\ UNCHANGED <<loose, objects, corrupt, stray, packFile, head, promised>>

\* Mutant: any HEAD is taken to be one of the packed snapshots.
HeadPackedAlways(p) == head # Absent

\* HEAD names one of the loose snapshots that were packed.
HeadPacked(p) == \E t \in DOMAIN job[p].build : head = <<Loose, t>>

\* read_head; the driver is done unless HEAD has to follow the snapshot.
PackReadHead(p) ==
    /\ job[p].at = "packed"
    /\ \/ HeadPacked(p) /\ job' = [job EXCEPT ![p].at = "heading", ![p].tags = {head[2]}]
       \/ ~HeadPacked(p) /\ Return(p)
    /\ UNCHANGED disk

\* update_head
PackWriteHead(p) ==
    /\ job[p].at = "heading"
    /\ \E t \in job[p].tags : head' = <<job[p].dest, t>>
    /\ Return(p)
    /\ UNCHANGED <<loose, objects, corrupt, stray, packFile, packIdx, reserver, promised>>

-----------------------------------------------------------------------------
(* explode: explode_pack                                                   *)

\* load_index
ExplodeBegin(p, n) ==
    /\ MayShare(p)
    /\ packIdx[n] \in Builds
    /\ job' = [job EXCEPT ![p] = [IdleJob EXCEPT !.at = "exploding", !.dest = n,
                 !.build = packIdx[n], !.objs = ObjectsOf(packIdx[n])]]
    /\ UNCHANGED disk

\* Pack::open keeps the file open; the index was read before it.
ExplodeOpen(p) ==
    /\ job[p].at = "exploding"
    /\ packFile[job[p].dest] \notin Empty
    /\ Step(p, IF packFile[job[p].dest] = job[p].objs THEN "unpacking" ELSE "garbling")
    /\ UNCHANGED disk

\* materialize_regular renames over what is there, without verification: bytes
\* found at the offsets of another pack's index are not the object.
ExplodeObject(p, o) ==
    /\ job[p].at \in {"unpacking", "garbling"}
    /\ o \in job[p].objs
    /\ objects' = objects \cup {o}
    /\ corrupt' = IF job[p].at = "unpacking" THEN corrupt \ {o} ELSE corrupt \cup {o}
    /\ job' = [job EXCEPT ![p].objs = @ \ {o}]
    /\ UNCHANGED <<loose, stray, packFile, packIdx, reserver, head, promised>>

ExplodeEnd(p) ==
    /\ job[p].at \in {"unpacking", "garbling"}
    /\ job[p].objs = {}
    /\ Return(p)
    /\ UNCHANGED disk

-----------------------------------------------------------------------------
(* gc: the driver's run                                                    *)

\* Mutant: a loose snapshot is redundant when a pack has its tag.
RedundantByTag == {t \in Stored : \E n \in Packs :
                      packIdx[n] \in Builds /\ t \in DOMAIN packIdx[n]}

\* find_redundant_loose_packs: some pack has a snapshot with the same content,
\* whatever its tag; the checksum does not cover tags.
Redundant == {t \in Stored : \E n \in Packs :
                 /\ packIdx[n] \in Builds
                 /\ \E u \in DOMAIN packIdx[n] : packIdx[n][u] = loose[t]}

\* --loose-snapshots (s) and --loose-objects (o): list the roots and, for s,
\* mark the redundant ones.  Any index that cannot be loaded is an error.
GcBegin(p, s, o) ==
    /\ MayExclude(p)
    /\ s \/ o
    /\ PacksListed
    /\ s => IndexesLoad
    /\ job' = [job EXCEPT ![p] = [IdleJob EXCEPT
                 !.at = IF o THEN "pruning" ELSE "pruningonly",
                 !.tags = IF s THEN Redundant ELSE {}]]
    /\ UNCHANGED disk

\* delete_pack
GcDeletePack(p, t) ==
    /\ job[p].at \in {"pruning", "pruningonly"}
    /\ t \in job[p].tags
    /\ loose' = [loose EXCEPT ![t] = Absent]
    /\ job' = [job EXCEPT ![p].tags = @ \ {t}]
    /\ UNCHANGED <<objects, corrupt, stray, packFile, packIdx, reserver, head, promised>>

\* find_unreferenced_objects over the remaining roots; a file among the objects
\* whose name is not a checksum is an error.
GcMark(p) ==
    /\ job[p].at = "pruning"
    /\ job[p].tags = {}
    /\ ~stray
    /\ job' = [job EXCEPT ![p].at = "sweeping",
                          ![p].objs = objects \ UNION {loose[t] : t \in Stored}]
    /\ UNCHANGED disk

\* delete_object
GcDeleteObject(p, o) ==
    /\ job[p].at = "sweeping"
    /\ o \in job[p].objs
    /\ objects' = objects \ {o}
    /\ corrupt' = corrupt \ {o}
    /\ job' = [job EXCEPT ![p].objs = @ \ {o}]
    /\ UNCHANGED <<loose, stray, packFile, packIdx, reserver, head, promised>>

GcEnd(p) ==
    /\ \/ job[p].at = "pruningonly" /\ job[p].tags = {}
       \/ job[p].at = "sweeping" /\ job[p].objs = {}
    /\ Return(p)
    /\ UNCHANGED disk

-----------------------------------------------------------------------------
\* The process is killed or returns an error: what it wrote stays, its
\* reservation loses its owner, and materialize_regular may leave its temporary
\* file in the directory of the object.
Stop(p) ==
    /\ job[p].at # "idle"
    /\ Return(p)
    /\ Release(p)
    /\ \/ stray' = stray
       \/ stray' = TRUE /\ job[p].at \in {"unpacking", "garbling"}
    /\ UNCHANGED <<loose, objects, corrupt, packFile, packIdx, head, promised>>

StoreStep(p) ==
    \/ \E t \in Tags, c \in Contents, force \in BOOLEAN : StoreBegin(p, t, c, force)
    \/ \E o \in Objects : StoreObject(p, o)
    \/ StoreCommit(p) \/ StoreHead(p)

PackStep(p) ==
    \/ \E n \in Packs, S \in SUBSET Tags, force \in BOOLEAN : PackBegin(p, n, S, force)
    \/ PackReserve(p) \/ PackCompress(p) \/ PackClaim(p)
    \/ PackPublish(p) \/ PackPublishIdx(p) \/ PackReadHead(p) \/ PackWriteHead(p)

ExplodeStep(p) ==
    \/ \E n \in Packs : ExplodeBegin(p, n)
    \/ ExplodeOpen(p) \/ ExplodeEnd(p)
    \/ \E o \in Objects : ExplodeObject(p, o)

GcStep(p) ==
    \/ \E s, o \in BOOLEAN : GcBegin(p, s, o)
    \/ \E t \in Tags : GcDeletePack(p, t)
    \/ GcMark(p) \/ GcEnd(p)
    \/ \E o \in Objects : GcDeleteObject(p, o)

Next == \E p \in Procs : StoreStep(p) \/ PackStep(p) \/ ExplodeStep(p) \/ GcStep(p) \/ Stop(p)

Spec == Init /\ [][Next]_vars

-----------------------------------------------------------------------------
Jobs == [at : {"idle"} \cup ExclusiveSteps \cup SharedSteps, build : Builds \cup {Absent},
         dest : Packs \cup {Loose, Absent}, force : BOOLEAN,
         tags : SUBSET Tags, objs : SUBSET Objects]

TypeOK ==
    /\ loose \in [Tags -> Contents \cup Empty]
    /\ objects \subseteq Objects
    /\ corrupt \subseteq Objects
    /\ stray \in BOOLEAN
    /\ packFile \in [Packs -> (SUBSET Objects) \cup Empty]
    /\ packIdx \in [Packs -> Builds \cup Empty]
    /\ reserver \in [Packs -> Procs \cup {Absent}]
    /\ head \in (Packs \cup {Loose}) \X Tags \cup {Absent}
    /\ promised \in [Tags -> Contents \cup {Absent}]
    /\ job \in [Procs -> Jobs]

\* A .pack.idx that can be loaded describes the .pack beside it, in every state
\* in which another process may read them and after every crash
\* (create_pack_impl's order of publication).
IndexMatchesPack ==
    \A n \in Packs : packIdx[n] \in Builds => packFile[n] = ObjectsOf(packIdx[n])

\* A loose snapshot that can be found has all of its objects, whole, on disk:
\* store commits the index last, gc deletes indexes before objects and only
\* objects no remaining index refers to, and a crash between any two of these
\* deletions or of the objects explode writes does no harm.
LooseComplete == \A t \in Stored : loose[t] \subseteq objects \ corrupt

\* Content c can be read back, under some name.
Retrievable(c) ==
    \/ \E t \in Stored : loose[t] = c /\ c \subseteq objects \ corrupt
    \/ \E n \in Packs : /\ packIdx[n] \in Builds
                        /\ packFile[n] = ObjectsOf(packIdx[n])
                        /\ \E t \in DOMAIN packIdx[n] : packIdx[n][t] = c

\* What store reported as stored is never lost, whatever is packed, exploded,
\* collected or killed afterwards, until store --force replaces it.
ContentSurvives == \A t \in Tags : promised[t] # Absent => Retrievable(promised[t])

\* Without --force, packing never changes a .pack or a .pack.idx that is there.
PackedIsKept ==
    [][\A n \in Packs : /\ packFile[n] \notin Empty => packFile'[n] = packFile[n]
                        /\ packIdx[n] \in Builds => packIdx'[n] = packIdx[n]]_vars

Resolves(h) ==
    \/ h[1] = Loose /\ h[2] \in Stored
    \/ \E n \in Packs : h[1] = n /\ packIdx[n] \in Builds /\ h[2] \in DOMAIN packIdx[n]

\* HEAD is only ever set to a snapshot whose index is there: store writes it
\* after its commit, and pack moves it only for a snapshot it has packed.
HeadUpdateResolves == [][head' # head => Resolves(head)']_vars

\* What the indexes of the packs show.
Visible == [n \in Packs |-> IF packIdx[n] \in Builds THEN packIdx[n] ELSE Absent]
Archive == INSTANCE SnapshotArchive WITH stored <- promised, packs <- Visible

\* Every command takes effect at once, at the rename of an index, whatever runs
\* beside it and wherever it is killed (see SnapshotArchive): in particular a pack
\* never shows a snapshot that a store has replaced while the pack was made.
ImplementsArchive == Archive!Spec

\* The tag itself is retrievable: gc's help text says that it deletes "loose
\* snapshot indexes whose snapshots also exist in a pack".
TagSurvives ==
    \A t \in Tags : promised[t] # Absent =>
        \/ loose[t] = promised[t]
        \/ \E n \in Packs : /\ packIdx[n] \in Builds
                            /\ t \in DOMAIN packIdx[n]
                            /\ packIdx[n][t] = promised[t]

\* A lookup by tag (find_pack_with_snapshot) can load what it has to load: a
\* reserved, still empty file is treated "as though it doesn't yet exist"
\* (the documentation of AtomicCreateFile).
LookupUnaffected ==
    (\A p \in Procs : job[p].at \notin ExclusiveSteps) => PacksListed /\ IndexesLoad
=============================================================================
