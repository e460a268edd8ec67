--------------------------- MODULE RepoLockProofs ---------------------------
(***************************************************************************)
(* Proofs about RepoLock for any number of processes, writers and          *)
(* read-only repositories.                                                 *)
(***************************************************************************)
EXTENDS RepoLock, TLAPS

\* Where a process holds a lock: an open repository holds the shared lock, or
\* the exclusive one exactly when the flag says so; a process that is between
\* the two holds none.
HoldInv ==
    /\ \A p \in Procs : p \in exclusive <=> pc[p] = "open" /\ flag[p]
    /\ \A p \in shared : pc[p] \in {"open", "failed"} /\ ~flag[p]
    /\ \A p \in Procs \ ReadOnly : pc[p] = "open" => p \in shared \cup exclusive
    /\ \A p \in Procs : flag[p] => pc[p] \in {"open", "exited"}
    /\ ReadOnly \cap (shared \cup exclusive) = {}
    /\ \A p \in Procs : pc[p] \in {"unlocked", "waitexclusive", "restoring"} =>
                            p \in Writers \ ReadOnly

\* The kernel's exclusive lock excludes every other lock.
KernelInv == \A p \in exclusive : exclusive = {p} /\ shared = {}

\* A command has looked at the repository only while it is open, and if it is a
\* mutating one, only under the exclusive lock.
SeenInv ==
    \A p \in Procs : seen[p] # Nothing =>
        /\ pc[p] = "open"
        /\ p \in Writers => p \in exclusive

IInv == TypeOK /\ HoldInv /\ KernelInv /\ SeenInv /\ StableView

\* Initially every process is closed and no lock is held.
LEMMA InitIInv == Init => IInv
  <1> SUFFICES ASSUME Init PROVE IInv
    OBVIOUS
  <1> USE DEF Init
  <1>1. TypeOK
    BY DEF TypeOK, Steps
  <1>2. HoldInv /\ KernelInv
    BY DEF HoldInv, KernelInv
  <1>3. SeenInv /\ StableView
    BY DEF SeenInv, StableView
  <1> QED BY <1>1, <1>2, <1>3 DEF IInv

\* Opening a repository keeps the invariant: a shared lock is granted only while
\* no process holds the exclusive one.
LEMMA OpenIInv ==
    ASSUME NEW p \in Procs, IInv,
           OpenReadOnly(p) \/ LockShared(p) \/ SharedContended(p)
    PROVE  IInv'
  <1> USE RepoLockAssumption
          DEF IInv, TypeOK, HoldInv, KernelInv, SeenInv, StableView, Steps, Parts, Goto
  <1>1. CASE OpenReadOnly(p)
    BY <1>1 DEF OpenReadOnly
  <1>2. CASE LockShared(p)
    BY <1>2 DEF LockShared
  <1>3. CASE SharedContended(p)
    BY <1>3 DEF SharedContended
  <1> QED BY <1>1, <1>2, <1>3

\* lock_exclusive keeps the invariant along each of its paths: the window
\* without a lock, the grant, the refusal and the restored shared lock.
LEMMA LockExclusiveIInv ==
    ASSUME NEW p \in Procs, IInv,
           \/ Unlock(p) \/ RefuseReadOnly(p) \/ LockExclusive(p)
           \/ ExclusiveContended(p) \/ ExclusiveError(p)
           \/ RestoreShared(p) \/ RestoreError(p)
    PROVE  IInv'
  <1> USE RepoLockAssumption
          DEF IInv, TypeOK, HoldInv, KernelInv, SeenInv, StableView, Steps, Parts, Goto
  <1>1. CASE Unlock(p)
    BY <1>1 DEF Unlock
  <1>2. CASE RefuseReadOnly(p)
    BY <1>2 DEF RefuseReadOnly
  <1>3. CASE LockExclusive(p)
    BY <1>3 DEF LockExclusive
  <1>4. CASE ExclusiveContended(p)
    BY <1>4 DEF ExclusiveContended
  <1>5. CASE ExclusiveError(p)
    BY <1>5 DEF ExclusiveError
  <1>6. CASE RestoreShared(p)
    BY <1>6 DEF RestoreShared
  <1>7. CASE RestoreError(p)
    BY <1>7 DEF RestoreError
  <1> QED BY <1>1, <1>2, <1>3, <1>4, <1>5, <1>6, <1>7

\* The command's own steps keep the invariant.  The ones that matter are the
\* changes: next to an exclusive holder no other process that the lock covers can
\* have looked at the repository, because it would be open and hold a lock; next
\* to a shared one nobody holds the exclusive lock.
LEMMA CommandIInv ==
    ASSUME NEW p \in Procs, IInv,
           Decide(p) \/ Mutate(p) \/ MutateShared(p) \/ Finish(p) \/ Crash(p)
    PROVE  IInv'
  <1> USE RepoLockAssumption
          DEF IInv, TypeOK, HoldInv, KernelInv, SeenInv, StableView, Steps, Parts, Goto
  <1>1. CASE Decide(p)
    BY <1>1 DEF Decide
  <1>2. CASE Mutate(p)
    <2>1. PICK part \in Parts : Change(p, part)
      BY <1>2 DEF Mutate
    <2>2. \A q \in Procs \ ReadOnly : q # p => seen[q] = Nothing
      BY <1>2 DEF Mutate
    <2>3. \A q \in Procs \ ReadOnly : seen'[q] = seen[q]
      BY <2>1, <2>2 DEF Change
    <2> QED BY <2>1, <2>3 DEF Change
  <1>3. CASE MutateShared(p)
    <2>1. exclusive = {} /\ Change(p, "added")
      BY <1>3 DEF MutateShared
    <2> QED BY <2>1 DEF Change
  <1>4. CASE Finish(p) \/ Crash(p)
    <2>1. /\ shared' = shared \ {p} /\ exclusive' = exclusive \ {p} /\ flag' = flag
          /\ seen' = [seen EXCEPT ![p] = Nothing] /\ pc' = [pc EXCEPT ![p] = "exited"]
      BY <1>4 DEF Finish, Crash, Exit
    <2>2. TypeOK'
      BY <2>1
    <2>3. HoldInv' /\ KernelInv'
      BY <2>1
    <2>4. SeenInv' /\ StableView'
      BY <2>1
    <2> QED BY <2>2, <2>3, <2>4
  <1> QED BY <1>1, <1>2, <1>3, <1>4

\* The invariant is inductive.
LEMMA NextIInv == IInv /\ [Next]_vars => IInv'
  <1> SUFFICES ASSUME IInv, [Next]_vars PROVE IInv'
    OBVIOUS
  <1>1. ASSUME NEW p \in Procs, Progress(p) \/ Mutate(p) \/ MutateShared(p) \/ Fault(p)
        PROVE  IInv'
    BY <1>1, OpenIInv, LockExclusiveIInv, CommandIInv DEF Progress, Fault
  <1>2. CASE UNCHANGED vars
    BY <1>2 DEF vars, IInv, TypeOK, HoldInv, KernelInv, SeenInv, StableView
  <1> QED BY <1>1, <1>2 DEF Next, Terminated

\* Every reachable state of the lock protocol satisfies the invariant.
THEOREM SpecIInv == Spec => []IInv
  BY InitIInv, NextIInv, PTL DEF Spec

\* open_with_data_dir and lock_exclusive keep every variable in its type.
THEOREM TypeCorrect == Spec => []TypeOK
  <1>1. IInv => TypeOK
    BY DEF IInv
  <1> QED BY <1>1, SpecIInv, PTL

\* What store and gc have read stays true while they act on it, and of what a
\* command under the shared lock has read, the loose snapshots and the presence
\* of what it found, for any number of processes (StableView).
THEOREM NoStaleDecision == Spec => []StableView
  <1>1. IInv => StableView
    BY DEF IInv
  <1> QED BY <1>1, SpecIInv, PTL

\* is_locked_exclusively is never set in a process that can act without holding
\* the exclusive lock alone (FlagHonest).
THEOREM HonestFlag == Spec => []FlagHonest
  <1>1. IInv => FlagHonest
    BY DEF IInv, HoldInv, KernelInv, FlagHonest
  <1> QED BY <1>1, SpecIInv, PTL
=============================================================================
