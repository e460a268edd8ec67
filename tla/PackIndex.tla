----------------------------- MODULE PackIndex ------------------------------
(***************************************************************************)
(* A pack index (src/src/packidx.rs): snapshots are pushed one by one and  *)
(* kept as changes to the one before, over pools that intern paths and     *)
(* objects (src/src/entrypool.rs).  Before the index is saved its objects  *)
(* are laid out by size; a file of the current version, or of the two that *)
(* older programs wrote (src/src/legacy_path.rs), is parsed back.  Handles *)
(* are positions in a pool, counted from 1.  A checksum stands for the     *)
(* bytes it is the checksum of.                                            *)
(***************************************************************************)
EXTENDS Parallel

CONSTANTS Tags,         \* snapshot tags
          Snapshots,    \* possible snapshots: sets of entries [path, obj, meta]
          Objects,      \* object checksums
          Size,         \* the size of each object
          Modes,        \* metadata of regular files
          DefaultMode,  \* the mode of a file whose index records none
          Symlink,      \* metadata of a symbolic link
          Nil           \* no file, no index, no result

ASSUME PackIndexAssumption ==
    /\ Size \in [Objects -> Nat]
    /\ DefaultMode \in Modes
    /\ Symlink \notin Modes
    /\ \A s \in Snapshots : IsFiniteSet(s)
    /\ \A s \in Snapshots : \A e \in s :
          /\ e = [path |-> e.path, obj |-> e.obj, meta |-> e.meta]
          /\ e.obj \in Objects
          /\ e.meta \in Modes \cup {Symlink}
          /\ e.meta = Symlink => Size[e.obj] > 0
          /\ \A f \in s : f.path = e.path => f = e

\* FileHandle, and the index in memory.  meta: handle of an object -> its size and
\* offset.
Handles == [path : Nat \ {0}, object : Nat \ {0}, meta : Modes \cup {Symlink}]
Indexes ==
    [tags : Seq(Tags),
     deltas : Seq([added : SUBSET Handles, removed : SUBSET Handles]),
     paths : Seq({e.path : e \in UNION Snapshots}),
     objs : Seq(Objects),
     meta : Seq([size : Nat, offset : Nat]),
     current : SUBSET Handles]

ASSUME NilAssumption == Nil \notin Indexes

VARIABLES
    index,   \* the index being built
    idxFile, \* the saved .pack.idx, or Nil
    pushed   \* history: the snapshots pushed so far, <<tag, entries>>

\* PackIndex::new
EmptyIndex == [tags |-> <<>>, deltas |-> <<>>, paths |-> <<>>, objs |-> <<>>,
               meta |-> <<>>, current |-> {}]

-----------------------------------------------------------------------------
(* EntryPool                                                               *)

\* get: the handle of an interned value.
HandleOf(pool, x) == CHOOSE h \in DOMAIN pool : pool[h] = x

\* get_or_insert
Intern(pool, x) == IF Contains(pool, x) THEN pool ELSE Append(pool, x)

\* A pool is read back by interning the elements of its list.
InternAll(pool, xs) == FoldLeft(Intern, pool, xs)

-----------------------------------------------------------------------------
(* Building: push_snapshot, and the layout of the objects                  *)

\* Mutant: a file that changed is not recorded as removed from the last snapshot.
ChangesByPath(set, next) ==
    [added |-> next \ set,
     removed |-> {h \in set : \A g \in next : g.path # h.path}]

\* Snapshot::get_changes
Changes(set, next) == [added |-> next \ set, removed |-> set \ next]

\* push_snapshot with entry_to_handle for each entry, in the arbitrary order in
\* which a hash set yields them.  A tag that is there already is refused.
Pushed(ix, t, entries) ==
    LET paths == InternAll(ix.paths, [i \in DOMAIN entries |-> entries[i].path])
        objs  == InternAll(ix.objs, [i \in DOMAIN entries |-> entries[i].obj])
        files == {[path |-> HandleOf(paths, entries[i].path),
                   object |-> HandleOf(objs, entries[i].obj),
                   meta |-> entries[i].meta] : i \in DOMAIN entries}
    IN  [tags |-> Append(ix.tags, t),
         deltas |-> Append(ix.deltas, Changes(ix.current, files)),
         paths |-> paths,
         objs |-> objs,
         meta |-> [h \in DOMAIN objs |-> [size |-> Size[objs[h]], offset |-> 0]],
         current |-> files]

Push(t, s) ==
    /\ ~Contains(index.tags, t)
    /\ \E entries \in SetToSeqs(s) : index' = Pushed(index, t, entries)
    /\ pushed' = Append(pushed, <<t, s>>)
    /\ UNCHANGED idxFile

\* Objects are laid out by size, ties by handle.
Precedes(ix, g, h) == \/ ix.meta[g].size < ix.meta[h].size
                      \/ ix.meta[g].size = ix.meta[h].size /\ g < h

\* compute_object_offsets_and_ordering: the order, and the index with the offsets.
Ordering(ix) ==
    CHOOSE s \in SetToSeqs(DOMAIN ix.meta) :
        \A i, j \in DOMAIN s : i < j => Precedes(ix, s[i], s[j])

\* Mutant: offsets are given in the order of the handles.
LaidOutByHandle(ix) ==
    [ix EXCEPT !.meta = [h \in DOMAIN @ |->
        [@[h] EXCEPT !.offset = Total([g \in 1..h - 1 |-> ix.meta[g].size])]]]

LaidOut(ix) ==
    [ix EXCEPT !.meta = [h \in DOMAIN @ |->
        [@[h] EXCEPT !.offset =
            Total([g \in {x \in DOMAIN ix.meta : Precedes(ix, x, h)} |-> ix.meta[g].size])]]]

-----------------------------------------------------------------------------
(* The file                                                                *)

\* required_features: symbolic links anywhere in the deltas.
Features(ix) ==
    IF \E k \in DOMAIN ix.deltas : \E h \in ix.deltas[k].added \cup ix.deltas[k].removed :
          h.meta = Symlink
    THEN {"symlinks"} ELSE {}

\* Serialize for V3Index
Serialized(ix) ==
    [version |-> 3, features |-> Features(ix), tags |-> ix.tags, deltas |-> ix.deltas,
     paths |-> ix.paths, objs |-> ix.objs, meta |-> ix.meta]

\* What programs of the index versions 1 and 2 wrote: no symbolic links, and in
\* version 1 no modes.
SerializedLegacy(ix, v) ==
    [Serialized(ix) EXCEPT !.version = v, !.features = {},
        !.deltas = [k \in DOMAIN @ |-> [d \in {"added", "removed"} |->
            {IF v = 1 THEN [path |-> h.path, object |-> h.object] ELSE h : h \in @[k][d]}]]]

\* LegacyFileHandle: a mode that was not recorded gets the default.
FromLegacy(h) == IF "meta" \in DOMAIN h THEN h
                 ELSE [path |-> h.path, object |-> h.object, meta |-> DefaultMode]

\* parse: from_legacy or from_v3, and from_parts.  A v3 file that needs a feature
\* this program does not have is refused.
Parse(file) ==
    IF file.version = 3 /\ file.features \ {"symlinks"} # {} THEN Nil
    ELSE [tags |-> file.tags,
          deltas |-> IF file.version = 3 THEN file.deltas
                     ELSE [k \in DOMAIN file.deltas |->
                             [d \in {"added", "removed"} |->
                                 {FromLegacy(h) : h \in file.deltas[k][d]}]],
          paths |-> InternAll(<<>>, file.paths),
          objs |-> InternAll(<<>>, file.objs),
          meta |-> file.meta,
          current |-> {}]

\* load_only_snapshots
ParseTags(file) == file.tags

-----------------------------------------------------------------------------
(* Looking things up                                                       *)

\* Snapshot::apply_changes, for each prefix of the deltas.
Replayed(ix) ==
    LET files[k \in 0..Len(ix.deltas)] ==
            IF k = 0 THEN {} ELSE (files[k - 1] \ ix.deltas[k].removed) \cup ix.deltas[k].added
    IN  files

\* The assertions of apply_changes: what is removed is there, what is added is not.
Applies(ix) ==
    LET files == Replayed(ix)
    IN  \A k \in DOMAIN ix.deltas :
           /\ ix.deltas[k].removed \subseteq files[k - 1]
           /\ ix.deltas[k].added \cap (files[k - 1] \ ix.deltas[k].removed) = {}

\* handle_to_entry
EntryOf(ix, h) == [path |-> ix.paths[h.path], obj |-> ix.objs[h.object], meta |-> h.meta,
                   size |-> ix.meta[h.object].size, offset |-> ix.meta[h.object].offset]

\* resolve_snapshot and entries_from_handles
Resolve(ix, t) ==
    IF ~Contains(ix.tags, t) THEN Nil
    ELSE {EntryOf(ix, h) : h \in Replayed(ix)[HandleOf(ix.tags, t)]}

\* for_each_snapshot_file_count: the counts are summed, not the sets replayed.
FileCount(ix) ==
    LET count[k \in 0..Len(ix.deltas)] ==
            IF k = 0 THEN 0
            ELSE count[k - 1] + Cardinality(ix.deltas[k].added)
                              - Cardinality(ix.deltas[k].removed)
    IN  count

\* compute_snapshot_checksum: of paths, checksums and metadata, not of the tag nor
\* of where the objects are.
SnapshotChecksum(ix, t) ==
    {[path |-> e.path, obj |-> e.obj, meta |-> e.meta] : e \in Resolve(ix, t)}

IndexInit == index = EmptyIndex /\ idxFile = Nil /\ pushed = <<>>
=============================================================================
