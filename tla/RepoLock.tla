------------------------------ MODULE RepoLock ------------------------------
(***************************************************************************)
(* The repository mutex: Repository::open_with_data_dir takes a shared     *)
(* advisory lock on <data_dir>/mutex, lock_exclusive trades it for an      *)
(* exclusive one, both last until the process closes the file              *)
(* (src/src/repo/repository.rs).  Each process runs one command: it looks  *)
(* at the repository once to decide what to do, and then changes it in     *)
(* several steps.  store and gc do so behind further calls of              *)
(* lock_exclusive (gc through delete_pack and delete_object); pack,        *)
(* explode, extract, update and the fetching of packs keep the shared      *)
(* lock, and may overlap.                                                  *)
(***************************************************************************)
CONSTANTS Procs,      \* processes, each running one command
          Writers,    \* those whose command calls lock_exclusive (store, gc)
          ReadOnly,   \* those that may not write to the data directory
          Nothing     \* the repository has not been looked at

ASSUME RepoLockAssumption ==
    /\ Writers \subseteq Procs
    /\ ReadOnly \subseteq Procs
    /\ \A S \in SUBSET {"kept", "added"} : Nothing # S

VARIABLES
    shared,     \* holders of the shared lock
    exclusive,  \* holders of the exclusive lock
    pc,         \* process -> where it is in open_with_data_dir, lock_exclusive
    flag,       \* process -> is_locked_exclusively
    seen        \* process -> the parts of what it has read that no other process
                \* has changed since, or Nothing

vars == <<shared, exclusive, pc, flag, seen>>

\* kept: the loose snapshots, and the presence of every file that was found, which
\* only store and gc change.  added: packs, exploded objects, the files of remotes
\* and HEAD, which other commands make and replace as well.
Parts == {"kept", "added"}

Steps == {"closed", "waitshared", "open", "unlocked", "waitexclusive",
          "restoring", "failed", "exited"}

Init ==
    /\ shared = {}
    /\ exclusive = {}
    /\ pc = [p \in Procs |-> "closed"]
    /\ flag = [p \in Procs |-> FALSE]
    /\ seen = [p \in Procs |-> Nothing]

Goto(p, step) == pc' = [pc EXCEPT ![p] = step]

-----------------------------------------------------------------------------
(* open_with_data_dir                                                      *)

\* The mutex cannot be opened for writing: a repository without a lock file.
OpenReadOnly(p) ==
    /\ pc[p] = "closed"
    /\ p \in ReadOnly
    /\ Goto(p, "open")
    /\ UNCHANGED <<shared, exclusive, flag, seen>>

\* try_lock_shared, or the blocking lock_shared after it was contended.
LockShared(p) ==
    /\ pc[p] \in {"closed", "waitshared"}
    /\ p \notin ReadOnly
    /\ exclusive = {}
    /\ shared' = shared \cup {p}
    /\ Goto(p, "open")
    /\ UNCHANGED <<exclusive, flag, seen>>

SharedContended(p) ==
    /\ pc[p] = "closed"
    /\ p \notin ReadOnly
    /\ exclusive # {}
    /\ Goto(p, "waitshared")
    /\ UNCHANGED <<shared, exclusive, flag, seen>>

-----------------------------------------------------------------------------
(* lock_exclusive                                                          *)

\* Mutant: the shared lock is kept while the exclusive one is requested.
UnlockSkipped(p) ==
    /\ pc[p] = "open"
    /\ p \in Writers \ ReadOnly
    /\ ~flag[p]
    /\ Goto(p, "unlocked")
    /\ UNCHANGED <<shared, exclusive, flag, seen>>

\* A call on a repository that is not locked exclusively yet releases what the
\* file holds before it asks for the exclusive lock.
Unlock(p) ==
    /\ pc[p] = "open"
    /\ p \in Writers \ ReadOnly
    /\ ~flag[p]
    /\ shared' = shared \ {p}
    /\ exclusive' = exclusive \ {p}
    /\ Goto(p, "unlocked")
    /\ UNCHANGED <<flag, seen>>

\* "modifying readonly repository is not allowed"
RefuseReadOnly(p) ==
    /\ pc[p] = "open"
    /\ p \in Writers \cap ReadOnly
    /\ Goto(p, "failed")
    /\ UNCHANGED <<shared, exclusive, flag, seen>>

\* Mutant: the lock is taken but is_locked_exclusively is not set, so that the
\* next delete_pack or delete_object locks again.
FlagForgotten(p) ==
    /\ pc[p] \in {"unlocked", "waitexclusive"}
    /\ exclusive = {}
    /\ shared = {}
    /\ exclusive' = {p}
    /\ Goto(p, "open")
    /\ UNCHANGED <<shared, flag, seen>>

\* try_lock_exclusive, or the blocking lock_exclusive after it was contended.
LockExclusive(p) ==
    /\ pc[p] \in {"unlocked", "waitexclusive"}
    /\ exclusive = {}
    /\ shared = {}
    /\ exclusive' = {p}
    /\ flag' = [flag EXCEPT ![p] = TRUE]
    /\ Goto(p, "open")
    /\ UNCHANGED <<shared, seen>>

ExclusiveContended(p) ==
    /\ pc[p] = "unlocked"
    /\ (exclusive \cup shared) \ {p} # {}
    /\ Goto(p, "waitexclusive")
    /\ UNCHANGED <<shared, exclusive, flag, seen>>

\* Mutant: is_locked_exclusively is set before the lock result is looked at.
FlagBeforeResult(p) ==
    /\ pc[p] \in {"unlocked", "waitexclusive"}
    /\ flag' = [flag EXCEPT ![p] = TRUE]
    /\ Goto(p, "restoring")
    /\ UNCHANGED <<shared, exclusive, seen>>

\* The lock call fails for another reason than contention.
ExclusiveError(p) ==
    /\ pc[p] \in {"unlocked", "waitexclusive"}
    /\ Goto(p, "restoring")
    /\ UNCHANGED <<shared, exclusive, flag, seen>>

\* restore_shared_lock_on_error: the caller gets the error with the shared lock
\* held again.
RestoreShared(p) ==
    /\ pc[p] = "restoring"
    /\ exclusive = {}
    /\ shared' = shared \cup {p}
    /\ Goto(p, "failed")
    /\ UNCHANGED <<exclusive, flag, seen>>

RestoreError(p) ==
    /\ pc[p] = "restoring"
    /\ Goto(p, "failed")
    /\ UNCHANGED <<shared, exclusive, flag, seen>>

-----------------------------------------------------------------------------
(* The command                                                             *)

\* Read the indexes and objects that the rest of the command relies on; gc and
\* store do so after lock_exclusive has returned.
Decide(p) ==
    /\ pc[p] = "open"
    /\ p \in Writers => p \in exclusive
    /\ seen[p] = Nothing
    /\ seen' = [seen EXCEPT ![p] = Parts]
    /\ UNCHANGED <<shared, exclusive, pc, flag>>

\* A process that has looked changes a part of the repository.
Change(p, part) ==
    /\ pc[p] = "open"
    /\ seen[p] # Nothing
    /\ seen' = [q \in Procs |-> IF q = p \/ seen[q] = Nothing THEN seen[q] ELSE seen[q] \ {part}]
    /\ UNCHANGED <<shared, exclusive, pc, flag>>

\* One step of store or gc.
Mutate(p) == p \in exclusive /\ \E part \in Parts : Change(p, part)

\* One step of a command that changes the repository under the shared lock: pack
\* renames .pack and .pack.idx, pack and extract HEAD, explode objects, and update
\* and fetch write files of remotes.
MutateShared(p) == p \in shared \ Writers /\ Change(p, "added")

\* The file is closed and the kernel drops its lock.
Exit(p) ==
    /\ shared' = shared \ {p}
    /\ exclusive' = exclusive \ {p}
    /\ seen' = [seen EXCEPT ![p] = Nothing]
    /\ Goto(p, "exited")
    /\ UNCHANGED flag

Finish(p) == /\ \/ pc[p] = "failed"
                \/ pc[p] = "open" /\ seen[p] # Nothing
             /\ Exit(p)

\* Killed, or an error return anywhere.
Crash(p) == pc[p] # "exited" /\ Exit(p)

\* The steps the process and the kernel owe each other; an error is not one.
Progress(p) ==
    \/ OpenReadOnly(p) \/ LockShared(p) \/ SharedContended(p)
    \/ Unlock(p) \/ RefuseReadOnly(p) \/ LockExclusive(p) \/ ExclusiveContended(p)
    \/ RestoreShared(p)
    \/ Decide(p) \/ Finish(p)

Fault(p) == ExclusiveError(p) \/ RestoreError(p) \/ Crash(p)

Terminated == (\A p \in Procs : pc[p] = "exited") /\ UNCHANGED vars

Next == \/ \E p \in Procs : Progress(p) \/ Mutate(p) \/ MutateShared(p) \/ Fault(p)
        \/ Terminated

Spec == Init /\ [][Next]_vars

FairSpec == Spec /\ \A p \in Procs : WF_vars(Progress(p))

-----------------------------------------------------------------------------
TypeOK ==
    /\ shared \subseteq Procs
    /\ exclusive \subseteq Procs
    /\ pc \in [Procs -> Steps]
    /\ flag \in [Procs -> BOOLEAN]
    /\ seen \in [Procs -> (SUBSET Parts) \cup {Nothing}]

\* What store and gc read of the repository is still true while they act on it: no
\* other process can have changed any of it, across the window of lock_exclusive
\* in which the process holds no lock at all, and across the repeated
\* lock_exclusive calls of a multi-step mutation.  Commands that hold the lock
\* shared rely on less, as they may overlap with pack, explode, extract, update
\* and fetch: the loose snapshots they have read do not change, and no file they
\* have found is deleted.  A read-only repository has no lock and no promise.
StableView ==
    \A p \in Procs \ ReadOnly : seen[p] # Nothing =>
        /\ "kept" \in seen[p]
        /\ p \in exclusive => seen[p] = Parts

\* A repository that says is_locked_exclusively is right: later lock_exclusive
\* calls return at once because of the flag, so whenever the flag is set and the
\* process can act, it holds the exclusive lock and nobody holds another one.
FlagHonest ==
    \A p \in Procs : flag[p] /\ pc[p] # "exited" =>
        exclusive = {p} /\ shared = {}

\* Every command ends: upgrading from shared to exclusive never makes processes
\* wait for each other, and an error while locking does not either.
Termination == <>(\A p \in Procs : pc[p] = "exited")
=============================================================================
