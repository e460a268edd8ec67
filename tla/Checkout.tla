------------------------------ MODULE Checkout ------------------------------
(***************************************************************************)
(* The working directory and HEAD: extract (Repository::extract_snapshot   *)
(* with the driver src/src/bin/elfshaker/extract.rs), and what store, pack *)
(* and gc do to HEAD, while the user edits files between commands.  Paths  *)
(* are at most one directory deep, and a path that is a file in one        *)
(* snapshot may be a directory or a symbolic link in the next.  An entry's *)
(* checksum and metadata are one value.  Time is reduced to the one        *)
(* comparison the code makes, of a file's modification time with HEAD's.   *)
(***************************************************************************)
CONSTANTS Paths,     \* paths of the working directory
          Parent,    \* nested path -> its directory, which is a path too
          Values,    \* what entries of snapshots hold from the start
          Links,     \* the values that are symbolic links to some directory
          Snapshots, \* the trees of the snapshots that exist from the start
          Packed,    \* their tags
          Stored,    \* tags that store may create
          UserData,  \* what the user writes
          Dir,       \* a directory
          None       \* no file, no snapshot, no HEAD

Tags == Packed \cup Stored

Above(p) == IF p \in DOMAIN Parent THEN {Parent[p]} ELSE {}
Below(p) == {q \in DOMAIN Parent : Parent[q] = p}

\* preflight_path_policy: no entry is inside another one.
Consistent(s) == \A p \in Paths : s[p] # None => \A a \in Above(p) : s[a] = None

ASSUME CheckoutAssumption ==
    /\ DOMAIN Parent \subseteq Paths
    /\ \A p \in DOMAIN Parent : Parent[p] \in Paths \ DOMAIN Parent
    /\ Links \subseteq Values
    /\ Snapshots \subseteq {s \in [Paths -> Values \cup {None}] : Consistent(s)}
    /\ Packed \cap Stored = {}
    /\ {UserData, Dir, None} \cap Values = {}
    /\ None \notin Tags \cup {UserData, Dir} /\ UserData # Dir

VARIABLES
    snap,      \* tag -> the snapshot's tree, or None
    where,     \* tag -> the places ("loose", "pack") with an index that has it
    tree,      \* the working directory
    newer,     \* paths whose file was modified after HEAD was
    head,      \* the tag HEAD names, or None
    headAt,    \* the place HEAD names
    packHead,  \* the tag of the HEAD that a running pack has read, or None
    job,       \* the extract in progress, see NoJob
    outside,   \* paths that were written or removed through a link
    unsaved,   \* paths where the user wrote what HEAD did not record, not stored since
    foreign,   \* paths not as elfshaker left them, by the user's doing
    mixed      \* an extract was interrupted, or HEAD overwritten, and no reset has followed

vars == <<snap, where, tree, newer, head, headAt, packHead, job, outside, unsaved, foreign, mixed>>

\* tag: the snapshot to restore; gone, new: paths still to remove and to write;
\* base: the paths of the HEAD it read.
NoJob == [tag |-> None, at |-> "pack", force |-> FALSE, reset |-> FALSE,
          gone |-> {}, new |-> {}, base |-> {}]

Idle == job.tag = None

\* A tree with a file put in place, and the directories above it.
Put(t, p, content) ==
    [q \in Paths |-> IF q = p THEN content ELSE IF q \in Above(p) THEN Dir ELSE t[q]]

\* A tree without a path and what is below it.
Cut(t, p) == [q \in Paths |-> IF q \in {p} \cup Below(p) THEN None ELSE t[q]]

\* The paths of a snapshot's entries, or of the files and links of a tree.
Entries(s) == {p \in Paths : s[p] \notin {None, Dir}}

HeadTree == IF head = None THEN [p \in Paths |-> None] ELSE snap[head]

\* The index HEAD names has been deleted.
HeadLost == head # None /\ headAt \notin where[head]

Init ==
    /\ \E s \in [Packed -> Snapshots] :
          snap = [t \in Tags |-> IF t \in Packed THEN s[t] ELSE None]
    /\ where = [t \in Tags |-> IF t \in Packed THEN {"pack"} ELSE {}]
    /\ tree = [p \in Paths |-> None]
    /\ newer = {}
    /\ head = None
    /\ headAt = "pack"
    /\ packHead = None
    /\ job = NoJob
    /\ outside = {}
    /\ unsaved = {}
    /\ foreign = {}
    /\ mixed = FALSE

-----------------------------------------------------------------------------
(* The user, between commands                                              *)

\* A file or a link is made or replaced.
Edit(p, content) ==
    /\ Idle
    /\ tree[p] # Dir
    /\ \A a \in Above(p) : tree[a] \in {None, Dir}
    /\ tree' = Put(tree, p, content)
    /\ newer' = newer \cup {p}
    /\ unsaved' = IF content = HeadTree[p] THEN unsaved \ {p} ELSE unsaved \cup {p}
    /\ foreign' = foreign \cup {p}
    /\ UNCHANGED <<snap, where, head, headAt, packHead, job, outside, mixed>>

Delete(p) ==
    /\ Idle
    /\ tree[p] # None
    /\ tree' = Cut(tree, p)
    /\ newer' = newer \ ({p} \cup Below(p))
    /\ unsaved' = unsaved \ ({p} \cup Below(p))
    /\ foreign' = foreign \cup {p} \cup Below(p)
    /\ UNCHANGED <<snap, where, head, headAt, packHead, job, outside, mixed>>

-----------------------------------------------------------------------------
(* extract: the checks                                                     *)

\* Mutant: only removed and added paths are told apart, not changed ones.
DiffByPath(from, to) == {p \in Entries(from) : to[p] = None}

\* compute_entry_diff: the entries of one snapshot that the other does not have.
Diff(from, to) == {p \in Entries(from) : to[p] # from[p]}

\* Mutant: a reset owns whatever it finds.
TrackedAll(force, reset) == IF reset THEN Paths ELSE Entries(HeadTree)

\* The entries of HEAD that tell tracked from untracked paths; reset with force
\* does not look at HEAD.
Tracked(force, reset) == IF force /\ reset THEN {} ELSE Entries(HeadTree)

NewEntries(t, reset) == IF reset THEN Entries(snap[t]) ELSE Diff(snap[t], HeadTree)
OldEntries(t, reset) == IF reset THEN {} ELSE Diff(HeadTree, snap[t])

\* Mutant: nothing is said about links above an entry.
AnyAncestors(paths, removable) == TRUE

\* preflight_destination_ancestors: no entry is reached through a link, unless
\* the link is an old entry that is removed first.
NoLinkAbove(paths, removable) ==
    \A p \in paths : \A a \in Above(p) \ removable : tree[a] \notin Links

\* Mutant: a modification time after HEAD's is accepted.
UnchangedIfPresent(p) == tree[p] \notin {None, Dir}

\* check_entry_unchanged_since: a link must also have the recorded target.
Unchanged(p) ==
    /\ p \notin newer
    /\ IF HeadTree[p] \in Links THEN tree[p] = HeadTree[p]
       ELSE tree[p] \notin {None, Dir} \cup Links

\* What preflight_untracked_collisions finds at a path belongs to HEAD: a file or
\* link that is an entry, a directory with entries.
Owned(p, tracked) ==
    CASE tree[p] = None -> TRUE
      [] tree[p] = Dir -> Below(p) \cap tracked # {}
      [] OTHER -> p \in tracked

\* Mutant: what is in a directory that becomes a file is not looked at.
NoCollisionShallow(new, tracked, removable) == \A p \in new : Owned(p, tracked)

\* preflight_untracked_collisions: every new path that no removal makes absent,
\* and all that is below it.
NoCollision(new, tracked, removable) ==
    \A p \in new : Above(p) \cap removable = {} =>
        \A q \in {p} \cup Below(p) : Owned(q, tracked)

\* Everything before the first change of the working directory: HEAD is read, the
\* entries are compared, and unless forced the old entries must be unmodified
\* and the new ones must not meet untracked files.  HEAD already at the snapshot
\* is a no-op without reset.
ExtractBegin(t, at, force, reset) ==
    LET new == NewEntries(t, reset)
        old == OldEntries(t, reset)
    IN  /\ Idle
        /\ at \in where[t]
        /\ head = t /\ headAt = at => reset
        /\ HeadLost => force /\ reset
        /\ NoLinkAbove(new \cup old, old \ new)
        /\ ~force => /\ \A p \in old : Unchanged(p)
                     /\ NoCollision(new, Tracked(force, reset), old \ new)
        /\ job' = [tag |-> t, at |-> at, force |-> force, reset |-> reset,
                   new |-> new, gone |-> old \ new, base |-> Entries(HeadTree)]
        \* What a reset leaves in place is the user's to remove.
        /\ foreign' = IF reset THEN foreign \cup (Entries(tree) \ Entries(snap[t])) ELSE foreign
        /\ UNCHANGED <<snap, where, tree, newer, head, headAt, packHead, outside, unsaved, mixed>>

-----------------------------------------------------------------------------
(* extract: the changes                                                    *)

\* A path is reached through a link.
ThroughLink(p) == \E a \in Above(p) : tree[a] \in Links

\* EmptyDirectoryCleanupQueue: the directory of a removed path goes if it is empty.
DropEmpty(t, p) ==
    [q \in Paths |-> IF q \in Above(p) /\ t[q] = Dir /\ \A r \in Below(q) : t[r] = None
                     THEN None ELSE t[q]]

\* Removing a path succeeds, whatever is there or nothing, unless a file is where
\* its directory should be.
CanRemove(p) == \A a \in Above(p) : tree[a] \in {None, Dir} \cup Links

\* Removal of one old path that the snapshot does not have.
ExtractRemove(p) ==
    /\ p \in job.gone
    /\ CanRemove(p)
    /\ IF ThroughLink(p)
       THEN outside' = outside \cup {p} /\ UNCHANGED <<tree, newer, unsaved, foreign>>
       ELSE /\ tree' = DropEmpty(Cut(tree, p), p)
            /\ newer' = newer \ ({p} \cup Below(p))
            /\ unsaved' = unsaved \ ({p} \cup Below(p))
            /\ foreign' = foreign \ ({p} \cup Below(p))
            /\ UNCHANGED outside
    /\ job' = [job EXCEPT !.gone = @ \ {p}]
    /\ UNCHANGED <<snap, where, head, headAt, packHead, mixed>>

\* create_dir_all and replace succeed: no file where a directory is needed, and in
\* place of the entry at most an empty directory.
CanWrite(p) ==
    /\ \A a \in Above(p) : tree[a] \in {None, Dir} \cup Links
    /\ tree[p] = Dir => \A q \in Below(p) : tree[q] = None

\* One entry is written by one of the parallel workers, after all removals.
ExtractWrite(p) ==
    /\ job.gone = {}
    /\ p \in job.new
    /\ CanWrite(p)
    /\ IF ThroughLink(p)
       THEN outside' = outside \cup {p} /\ UNCHANGED <<tree, newer, unsaved, foreign>>
       ELSE /\ tree' = Put(tree, p, snap[job.tag][p])
            /\ newer' = newer \cup {p}
            /\ unsaved' = unsaved \ {p}
            /\ foreign' = foreign \ {p}
            /\ UNCHANGED outside
    /\ job' = [job EXCEPT !.new = @ \ {p}]
    /\ UNCHANGED <<snap, where, head, headAt, packHead, mixed>>

\* update_head: the new file is younger than every file of the directory.
SetHead(t, at) ==
    /\ head' = t
    /\ headAt' = at
    /\ newer' = {}

ExtractEnd ==
    /\ ~Idle
    /\ job.gone = {}
    /\ job.new = {}
    /\ SetHead(job.tag, job.at)
    /\ mixed' = (mixed /\ ~job.reset)
    /\ job' = NoJob
    /\ UNCHANGED <<snap, where, tree, packHead, outside, unsaved, foreign>>

\* Killed, or an I/O error: HEAD stays, and so does what has been written.
ExtractStop ==
    /\ ~Idle
    /\ job' = NoJob
    /\ mixed' = TRUE
    /\ UNCHANGED <<snap, where, tree, newer, head, headAt, packHead, outside, unsaved, foreign>>

-----------------------------------------------------------------------------
(* The other commands that touch HEAD                                      *)

\* clean_file_list: a file or link, not reached through a link.
Listable(p) == p \in Entries(tree) /\ ~ThroughLink(p)

\* store of the files in S: the snapshot is what the files hold now.  store and gc
\* need the repository for themselves.
Store(t, S) ==
    /\ Idle /\ packHead = None
    /\ snap[t] = None
    /\ \A p \in S : Listable(p)
    /\ snap' = [snap EXCEPT ![t] = [p \in Paths |-> IF p \in S THEN tree[p] ELSE None]]
    /\ where' = [where EXCEPT ![t] = {"loose"}]
    /\ SetHead(t, "loose")
    /\ unsaved' = unsaved \ S
    /\ foreign' = (foreign \ Entries(tree)) \cup (Entries(tree) \ S)
    /\ mixed' = FALSE
    /\ UNCHANGED <<tree, packHead, job, outside>>

\* pack of a selection, while an extract may run; then it reads HEAD.
Pack(S) ==
    /\ packHead = None
    /\ S # {}
    /\ \A t \in S : "loose" \in where[t]
    /\ where' = [t \in Tags |-> IF t \in S THEN where[t] \cup {"pack"} ELSE where[t]]
    /\ packHead' = IF head \in S /\ headAt = "loose" THEN head ELSE None
    /\ UNCHANGED <<snap, tree, newer, head, headAt, job, outside, unsaved, foreign, mixed>>

\* HEAD moves to the same snapshot in the new pack if it named one of the packed
\* loose snapshots; an extract may have moved it meanwhile.
PackHead ==
    /\ packHead # None
    /\ SetHead(packHead, "pack")
    /\ mixed' = (mixed \/ head # packHead)
    /\ packHead' = None
    /\ UNCHANGED <<snap, where, tree, job, outside, unsaved, foreign>>

\* gc --loose-snapshots: loose snapshots whose content some pack has.
Gc ==
    /\ Idle /\ packHead = None
    /\ where' = [t \in Tags |->
                   IF \E u \in Tags : "pack" \in where[u] /\ snap[u] = snap[t]
                   THEN where[t] \ {"loose"} ELSE where[t]]
    /\ UNCHANGED <<snap, tree, newer, head, headAt, packHead, job, outside, unsaved, foreign, mixed>>

Next ==
    \/ \E p \in Paths : Delete(p) \/ \E content \in {UserData} \cup Links : Edit(p, content)
    \/ \E p \in Paths : ExtractRemove(p) \/ ExtractWrite(p)
    \/ \E t \in Tags, at \in {"loose", "pack"}, force, reset \in BOOLEAN :
          ExtractBegin(t, at, force, reset)
    \/ ExtractEnd \/ ExtractStop \/ Gc \/ PackHead
    \/ \E S \in SUBSET Stored : Pack(S)
    \/ \E t \in Stored, S \in SUBSET Paths : Store(t, S)

Spec == Init /\ [][Next]_vars

-----------------------------------------------------------------------------
(* Properties                                                              *)

\* What a path holds as a file or link.
Content(p) == IF tree[p] = Dir THEN None ELSE tree[p]

HoldsHead == \A p \in Paths \ foreign : Content(p) = HeadTree[p]

\* Between commands the working directory is the snapshot HEAD names, on every
\* path the user has not changed: extract may rely on HEAD for the difference it
\* applies, whatever sequence of extract, reset, force, store and edits came
\* before, and however files, links and directories replaced each other.  Not so
\* after an extract was interrupted, or a pack put back a HEAD it had read before
\* an extract ended, until a reset follows.
CheckoutCorrect == Idle /\ ~mixed => HoldsHead

\* extract never writes or removes a file through a symbolic link, whoever made the
\* link: not even with --force does it leave the working directory.
OutsideUntouched == outside = {}

\* An extract without --force or --reset that has passed its checks can do all it
\* set out to do: nothing in the working directory makes it fail half-way.  The
\* one exception is an untracked regular file where the snapshot has a directory.
ChecksSuffice ==
    ~Idle /\ ~job.force /\ ~job.reset =>
        /\ \A p \in job.gone : CanRemove(p)
        /\ job.gone = {} => \A p \in job.new :
              CanWrite(p) \/ \E a \in Above(p) : a \in Entries(tree) \ job.base

\* Without --force or --reset, extract never destroys user data that it could
\* notice: data in a path HEAD does not track, or written since HEAD was.
FreshEditsKept ==
    [][~Idle /\ ~job.force /\ ~job.reset =>
         \A p \in unsaved : p \in newer \/ p \notin job.base => tree'[p] = tree[p]]_vars

\* Untracked files survive a reset as well.
UntrackedKept ==
    [][~Idle /\ ~job.force => \A p \in unsaved \ job.base : tree'[p] = tree[p]]_vars

\* Only --force authorizes the loss of local modifications, and a reset of
\* tracked ones (usage.md: "Use `--force` only when you intend to bypass checks
\* for unexpected working-directory modifications").
EditsKept ==
    [][~Idle /\ ~job.force /\ ~job.reset => \A p \in unsaved : tree'[p] = tree[p]]_vars

\* An extract that reports success has restored the snapshot, even if an earlier
\* one was interrupted (the help of extract: "Restores a snapshot into the
\* working directory and updates HEAD").
RestoresSnapshot ==
    [][~Idle /\ Idle' /\ head' # head =>
         \A p \in Entries(HeadTree') \ foreign : tree[p] = HeadTree[p]']_vars
=============================================================================
