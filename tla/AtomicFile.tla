----------------------------- MODULE AtomicFile -----------------------------
(***************************************************************************)
(* AtomicCreateFile (src/src/atomicfile.rs) at the level of inodes, open   *)
(* descriptors and advisory locks, for ONE destination name that several   *)
(* processes try to create, with the forced writers of                     *)
(* src/src/repo/fs.rs (write_file_atomic) and the deletion of              *)
(* Repository::delete_pack beside them.  Unix semantics: a rename replaces *)
(* the inode under the name, an open descriptor keeps its inode, a lock    *)
(* belongs to an inode and disappears with the descriptor that took it.    *)
(***************************************************************************)
CONSTANTS Creators,   \* processes that call AtomicCreateFile::new
          Forcers,    \* processes that call write_file_atomic
          Inode,      \* the file system's inodes
          Nobody      \* no process, no inode

Procs == Creators \cup Forcers

ASSUME AtomicFileAssumption ==
    /\ Creators \cap Forcers = {}
    /\ Nobody \notin Procs \cup Inode
    /\ "empty" \notin Procs \cup {Nobody}
    /\ "partial" \notin Procs \cup {Nobody}

VARIABLES
    name,      \* the inode linked at the destination, or Nobody
    content,   \* inode -> "empty", "partial", or the writer that completed it
    lock,      \* inode -> the process holding its exclusive lock, or Nobody
    dirExists, \* the destination's parent directory exists
    pc,        \* process -> the step it has reached
    fd,        \* process -> the inode of its descriptor `file`/`target`
    temp       \* process -> the inode of its temporary file

vars == <<name, content, lock, dirExists, pc, fd, temp>>

(***************************************************************************)
(* The steps of a call.  "idle": not in a call; "start": about to open;    *)
(* "noparent": open returned NotFound; "opened": descriptor open;          *)
(* "locked": lock taken; "named": the name was seen to be the locked       *)
(* inode; "claimed": the file was seen to be empty; "tempopen": temporary  *)
(* file created, not locked yet; "writing", "synced": content on its way;  *)
(* "renamed": published, descriptors still open.                           *)
(***************************************************************************)
Steps == {"idle", "start", "noparent", "opened", "locked", "named", "claimed",
          "tempopen", "writing", "synced", "renamed"}

HasTemp == {"tempopen", "writing", "synced", "renamed"}

Contents == {"empty", "partial"} \cup Procs

(***************************************************************************)
(* An inode that is not under the name and that no process holds open.     *)
(* A temporary file left behind by a process that died is never looked at  *)
(* again, so its inode is as good as a new one: file creation never fails  *)
(* for want of inodes when each creator has two, each forced writer one,   *)
(* and the name one.  Inodes are only compared for equality, so it does    *)
(* not matter which one is new.                                            *)
(***************************************************************************)
Free(i) == /\ i # name
           /\ \A p \in Procs : fd[p] # i /\ temp[p] # i

NewInode == CHOOSE i \in Inode : Free(i)

\* A file's content goes with its last link and descriptor.
Reclaim == content' = [i \in Inode |-> IF Free(i)' THEN "empty" ELSE content[i]]

Init == /\ name = Nobody
        /\ content = [i \in Inode |-> "empty"]
        /\ lock = [i \in Inode |-> Nobody]
        /\ dirExists \in BOOLEAN
        /\ pc = [p \in Procs |-> "idle"]
        /\ fd = [p \in Procs |-> Nobody]
        /\ temp = [p \in Procs |-> Nobody]

\* The state shows that p holds the right to publish: it locked the inode under
\* the name, saw that it was still there, and the file is empty.
Owns(p) == /\ pc[p] \in {"named", "claimed", "tempopen", "writing", "synced"}
           /\ content[fd[p]] = "empty"

Published == IF name = Nobody \/ content[name] = "empty" THEN Nobody ELSE content[name]

-----------------------------------------------------------------------------
(* AtomicCreateFile::new                                                   *)

\* create_snapshot_impl or create_pack_impl decides to write the name.
Begin(p) ==
    /\ pc[p] = "idle"
    /\ pc' = [pc EXCEPT ![p] = "start"]
    /\ UNCHANGED <<name, content, lock, dirExists, fd, temp>>

\* open(dest) without its parent directory: NotFound.
OpenNotFound(p) ==
    /\ pc[p] = "start"
    /\ ~dirExists
    /\ pc' = [pc EXCEPT ![p] = "noparent"]
    /\ UNCHANGED <<name, content, lock, dirExists, fd, temp>>

\* create_dir_all(parent), after which new calls itself.
CreateParent(p) ==
    /\ pc[p] = "noparent"
    /\ dirExists' = TRUE
    /\ pc' = [pc EXCEPT ![p] = "start"]
    /\ UNCHANGED <<name, content, lock, fd, temp>>

\* open(dest) with write and create, without truncate.
OpenExisting(p) ==
    /\ pc[p] = "start"
    /\ name # Nobody
    /\ fd' = [fd EXCEPT ![p] = name]
    /\ pc' = [pc EXCEPT ![p] = "opened"]
    /\ UNCHANGED <<name, content, lock, dirExists, temp>>

OpenCreate(p) ==
    /\ pc[p] = "start"
    /\ dirExists
    /\ name = Nobody
    /\ \E i \in Inode : Free(i)
    /\ name' = NewInode
    /\ fd' = [fd EXCEPT ![p] = NewInode]
    /\ pc' = [pc EXCEPT ![p] = "opened"]
    /\ UNCHANGED <<content, lock, dirExists, temp>>

\* Mutant: an error path that forgets the temporary file's descriptor.
CloseKeepsTemp(p) ==
    /\ lock' = [i \in Inode |-> IF lock[i] = p THEN Nobody ELSE lock[i]]
    /\ fd' = [fd EXCEPT ![p] = Nobody]
    /\ temp' = temp
    /\ pc' = [pc EXCEPT ![p] = "idle"]
    /\ Reclaim

\* Mutant: the lock outlives the call, as a lock file would.
CloseKeepsLock(p) ==
    /\ lock' = lock
    /\ fd' = [fd EXCEPT ![p] = Nobody]
    /\ temp' = [temp EXCEPT ![p] = Nobody]
    /\ pc' = [pc EXCEPT ![p] = "idle"]
    /\ Reclaim

\* A return or the end of the process: the descriptors close and their locks go.
Close(p) ==
    /\ lock' = [i \in Inode |-> IF lock[i] = p THEN Nobody ELSE lock[i]]
    /\ fd' = [fd EXCEPT ![p] = Nobody]
    /\ temp' = [temp EXCEPT ![p] = Nobody]
    /\ pc' = [pc EXCEPT ![p] = "idle"]
    /\ Reclaim

\* Mutant: the lock is taken whether or not another process holds it.
TryLockIgnored(p) ==
    /\ pc[p] = "opened"
    /\ lock' = [lock EXCEPT ![fd[p]] = p]
    /\ pc' = [pc EXCEPT ![p] = "locked"]
    /\ UNCHANGED <<name, content, dirExists, fd, temp>>

\* lock_name: try_lock_exclusive on the descriptor.
TryLock(p) ==
    /\ pc[p] = "opened"
    /\ lock[fd[p]] = Nobody
    /\ lock' = [lock EXCEPT ![fd[p]] = p]
    /\ pc' = [pc EXCEPT ![p] = "locked"]
    /\ UNCHANGED <<name, content, dirExists, fd, temp>>

TryLockWouldBlock(p) ==
    /\ pc[p] = "opened"
    /\ lock[fd[p]] # Nobody
    /\ UNCHANGED <<name, dirExists>>
    /\ Close(p)

\* Mutant: the lock alone is taken as proof of owning the name.
NameUnchecked(p) == TRUE

\* lock_name: the inode now under the name is the locked one.
NameMatches(p) == fd[p] = name

CheckName(p) ==
    /\ pc[p] = "locked"
    /\ NameMatches(p)
    /\ pc' = [pc EXCEPT ![p] = "named"]
    /\ UNCHANGED <<name, content, lock, dirExists, fd, temp>>

CheckNameWouldBlock(p) ==
    /\ pc[p] = "locked"
    /\ ~NameMatches(p)
    /\ UNCHANGED <<name, dirExists>>
    /\ Close(p)

\* metadata().len() > 0 is an AlreadyExists error.
CheckEmpty(p) ==
    /\ pc[p] = "named"
    /\ content[fd[p]] = "empty"
    /\ pc' = [pc EXCEPT ![p] = "claimed"]
    /\ UNCHANGED <<name, content, lock, dirExists, fd, temp>>

CheckEmptyAlreadyExists(p) ==
    /\ pc[p] = "named"
    /\ content[fd[p]] # "empty"
    /\ UNCHANGED <<name, dirExists>>
    /\ Close(p)

\* create_temp; for a forced writer, prepare_atomic_write in the trash directory,
\* after its caller's ensure_dir on the destination's directory.
CreateTemp(p) ==
    /\ pc[p] = (IF p \in Creators THEN "claimed" ELSE "start")
    /\ \E i \in Inode : Free(i)
    /\ temp' = [temp EXCEPT ![p] = NewInode]
    /\ pc' = [pc EXCEPT ![p] = "tempopen"]
    /\ dirExists' = (dirExists \/ p \in Forcers)
    /\ UNCHANGED <<name, content, lock, fd>>

\* The new temporary file is locked; no other process can know its name.
LockTemp(p) ==
    /\ pc[p] = "tempopen"
    /\ lock' = [lock EXCEPT ![temp[p]] = p]
    /\ pc' = [pc EXCEPT ![p] = "writing"]
    /\ UNCHANGED <<name, content, dirExists, fd, temp>>

-----------------------------------------------------------------------------
(* commit_content, write_file_atomic                                       *)

\* io::copy in progress: part of the content is in the file.
CopyPart(p) ==
    /\ pc[p] = "writing"
    /\ content' = [content EXCEPT ![temp[p]] = "partial"]
    /\ UNCHANGED <<name, lock, dirExists, pc, fd, temp>>

\* Mutant: the target descriptor is dropped before the rename.
CopyAndSyncDropsTarget(p) ==
    /\ pc[p] = "writing"
    /\ content' = [content EXCEPT ![temp[p]] = p]
    /\ lock' = [i \in Inode |-> IF i = fd[p] THEN Nobody ELSE lock[i]]
    /\ pc' = [pc EXCEPT ![p] = "synced"]
    /\ UNCHANGED <<name, dirExists, fd, temp>>

\* io::copy has finished and sync_data returned.
CopyAndSync(p) ==
    /\ pc[p] = "writing"
    /\ content' = [content EXCEPT ![temp[p]] = p]
    /\ pc' = [pc EXCEPT ![p] = "synced"]
    /\ UNCHANGED <<name, lock, dirExists, fd, temp>>

\* Mutant: the rename does not wait for the data.
RenameEarly(p) ==
    /\ pc[p] \in {"writing", "synced"}
    /\ name' = temp[p]
    /\ pc' = [pc EXCEPT ![p] = "renamed"]
    /\ UNCHANGED <<lock, dirExists, fd, temp>>
    /\ Reclaim

\* rename(temp, dest).
Rename(p) ==
    /\ pc[p] = "synced"
    /\ name' = temp[p]
    /\ pc' = [pc EXCEPT ![p] = "renamed"]
    /\ UNCHANGED <<lock, dirExists, fd, temp>>
    /\ Reclaim

\* Both descriptors close at the end of the call.
Done(p) ==
    /\ pc[p] = "renamed"
    /\ UNCHANGED <<name, dirExists>>
    /\ Close(p)

-----------------------------------------------------------------------------
(* What ends a call early, and what the repository does to the name        *)

\* An I/O error, a panic or SIGKILL at any point: nothing is cleaned up, so an
\* empty file may stay under the name.
Abort(p) ==
    /\ pc[p] # "idle"
    /\ UNCHANGED <<name, dirExists>>
    /\ Close(p)

\* Repository::delete_pack holds the repository lock exclusively, so no other
\* process is in a call.  It removes the file, and then its parent directory
\* unless something else is in it.
Delete ==
    /\ \A p \in Procs : pc[p] = "idle"
    /\ name # Nobody
    /\ name' = Nobody
    /\ dirExists' \in BOOLEAN
    /\ UNCHANGED <<lock, pc, fd, temp>>
    /\ Reclaim

-----------------------------------------------------------------------------
CreatorStep(p) ==
    \/ OpenNotFound(p)
    \/ CreateParent(p)
    \/ OpenExisting(p)
    \/ OpenCreate(p)
    \/ TryLock(p)
    \/ TryLockWouldBlock(p)
    \/ CheckName(p)
    \/ CheckNameWouldBlock(p)
    \/ CheckEmpty(p)
    \/ CheckEmptyAlreadyExists(p)

WriterStep(p) ==
    \/ CreateTemp(p)
    \/ LockTemp(p)
    \/ CopyPart(p)
    \/ CopyAndSync(p)
    \/ Rename(p)
    \/ Done(p)

Next == \/ \E p \in Creators : CreatorStep(p)
        \/ \E p \in Procs : Begin(p) \/ WriterStep(p) \/ Abort(p)
        \/ Delete

Spec == Init /\ [][Next]_vars

(***************************************************************************)
(* A process that has entered a call is scheduled until the call returns;  *)
(* nothing makes it start one, fail or delete.                             *)
(***************************************************************************)
FairSpec == /\ Spec
            /\ \A p \in Creators : WF_vars(CreatorStep(p) \/ WriterStep(p))
            /\ \A p \in Forcers : WF_vars(WriterStep(p))

-----------------------------------------------------------------------------
(* Properties                                                              *)

\* Types, and which descriptors are open at which step.
TypeOK ==
    /\ name \in Inode \cup {Nobody}
    /\ content \in [Inode -> Contents]
    /\ lock \in [Inode -> Procs \cup {Nobody}]
    /\ dirExists \in BOOLEAN
    /\ pc \in [Procs -> Steps]
    /\ fd \in [Procs -> Inode \cup {Nobody}]
    /\ temp \in [Procs -> Inode \cup {Nobody}]
    /\ \A p \in Procs : temp[p] # Nobody <=> pc[p] \in HasTemp
    /\ \A p \in Creators : fd[p] # Nobody <=> pc[p] \notin {"idle", "start", "noparent"}
    /\ \A p \in Forcers : fd[p] = Nobody /\ pc[p] \in HasTemp \cup {"idle", "start"}

\* AtomicCreateFile exists so that "one process 'wins' and the others can return
\* an error": no two processes hold the right to publish the name, whatever the
\* order of their open, lock, stat and rename calls and whoever dies.
SingleOwner == \A p, q \in Creators : Owns(p) /\ Owns(q) => p = q

\* commit_content renames only after copy and sync: whoever opens the name sees
\* nothing, an empty reservation or one writer's complete content.
NoTornPublish == name # Nobody => content[name] # "partial"

\* Content a creator published stays until it is deleted or a forced writer
\* replaces it: no other creator, however late, renames its file over it.
CreatorNeverReplaced ==
    [][(Published \in Creators /\ Published' # Published)
         => Published' \in Forcers \cup {Nobody}]_vars

\* The abstract owner: by SingleOwner there is never a choice.
Owner == IF \E p \in Creators : Owns(p) THEN CHOOSE p \in Creators : Owns(p) ELSE Nobody

WON == INSTANCE WriteOnceName WITH owner <- Owner, published <- Published

\* The protocol implements the promise: claims are exclusive and made only while
\* nothing is published, and each publication is the owner's or a forced one.
ImplementsWriteOnce == WON!Spec

\* p's call is over for a reason the protocol gives: lost race or success.
Returns(p) == \/ pc[p] = "opened" /\ lock[fd[p]] # Nobody
              \/ pc[p] = "locked" /\ ~NameMatches(p)
              \/ pc[p] = "named" /\ content[fd[p]] # "empty"
              \/ pc[p] = "renamed"

\* A step that is a failure of the machine or a deletion.
Disturbs == \/ \E p \in Procs : pc[p] # "idle" /\ pc'[p] = "idle" /\ ~Returns(p)
            \/ name # Nobody /\ name' = Nobody

\* Once processes stop failing and the file is not deleted, an attempt to create
\* the name leads to a published file: the losers' WouldBlock errors are never
\* mutual, and an empty file left by a dead process does not block the name.
OneWins == <>[][~Disturbs]_vars
              => \A p \in Creators : <>[](pc[p] = "start" => <>(Published # Nobody))
=============================================================================
