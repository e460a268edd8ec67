---------------------------- MODULE MCPackStream ----------------------------
(***************************************************************************)
(* PackStream on four snapshots that differ by a changed object (q, r), a  *)
(* file that becomes a link (p), an object under another name (one, two),  *)
(* an object that two files share with different modes (one) and both      *)
(* kinds of empty file; one has no files.                                  *)
(* The operators of Parallel are compared with what they are for on inputs *)
(* larger than the instance's frames.                                      *)
(***************************************************************************)
EXTENDS PackStream

CONSTANTS p, q, r,           \* paths
          one, two, dos, nul \* objects: of sizes 1, 2, 2 and 0

MCObjects == {one, two, dos, nul, Unreadable}
MCSize == [o \in MCObjects |-> CASE o = one -> 1 [] o \in {two, dos} -> 2 [] OTHER -> 0]

Entry(path, obj, meta) == [path |-> path, obj |-> obj, meta |-> meta]

MCSnapshots == {
    {Entry(q, two, "rw"), Entry(r, dos, "rw")},
    {Entry(p, one, "rwx"), Entry(q, one, "rw"), Entry(r, nul, "rw")},
    {Entry(p, two, "link"), Entry(q, Unreadable, "rw"), Entry(r, one, "rw")},
    {}}

\* run_in_parallel gives every task to one thread, in order, leaves no thread
\* idle, and spawns fewer than twice the threads asked for.
ASSUME SpawnCovers ==
    \A n \in 1..5, len \in 1..11 :
        LET tasks == [i \in 1..len |-> i]
            spawned == Spawn(n, tasks)
        IN  /\ FlattenSeq([g \in DOMAIN spawned |-> spawned[g].todo]) = tasks
            /\ \A g \in DOMAIN spawned : spawned[g].todo # <<>>
            /\ Len(spawned) < 2 * n

\* partition_by_u64 keeps every item, in order, in at most n slices, none empty,
\* and no slice but the last weighs more than an even share.
ASSUME PartitionCovers ==
    \A weights \in SeqOf(0..3, 4), n \in 0..5 :
        LET items == [i \in DOMAIN weights |-> i]
            parts == partition_by_u64(items, n, weights)
            weight(s) == Total([k \in DOMAIN s |-> weights[s[k]]])
        IN  /\ FlattenSeq(parts) = items
            /\ Len(parts) <= Max({n, 1})
            /\ \A k \in DOMAIN parts : parts[k] # <<>>
            /\ \A k \in 1..Len(parts) - 1 :
                  weight(parts[k]) * Max({Min({n, Len(items)}), 1}) <= Total(weights)

Symmetry == Permutations(Tags)
=============================================================================
