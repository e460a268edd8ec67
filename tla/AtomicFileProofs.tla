-------------------------- MODULE AtomicFileProofs --------------------------
(***************************************************************************)
(* Proofs about AtomicFile for any sets of creators, forced writers and    *)
(* inodes.                                                                 *)
(*                                                                         *)
(* SingleOwner is not inductive by itself: it rests on who holds which     *)
(* lock (LockInv), on temporary files being private until they are renamed *)
(* (TempInv), on what the files contain (ContentInv) and on the fact that  *)
(* an owner's inode is still under the name unless a forced writer put     *)
(* another there (OwnerInv).                                               *)
(***************************************************************************)
EXTENDS AtomicFile, TLAPS

\* The steps at which a creator holds the lock on its target descriptor.
HoldsTarget == {"locked", "named", "claimed", "tempopen", "writing", "synced", "renamed"}

\* The steps at which a temporary file is known to its creator alone.
PrivateTemp == {"tempopen", "writing", "synced"}

LockInv == \A p \in Creators : pc[p] \in HoldsTarget => lock[fd[p]] = p

TempInv == \A p \in Procs : pc[p] \in PrivateTemp =>
              /\ temp[p] # name
              /\ \A q \in Procs : fd[q] # temp[p]
              /\ \A q \in Procs : q # p => temp[q] # temp[p]

ContentInv ==
    /\ \A i \in Inode : Free(i) => content[i] = "empty"
    /\ \A p \in Procs : pc[p] = "synced" => content[temp[p]] = p
    /\ \A p \in Creators :
          pc[p] \in {"claimed"} \cup PrivateTemp => content[fd[p]] = "empty"
    /\ name # Nobody => content[name] # "partial"

OwnerInv ==
    /\ \A p \in Creators : Owns(p) =>
          /\ name # Nobody
          /\ name = fd[p] \/ content[name] \in Forcers
    /\ SingleOwner

\* The inductive invariant.
IInv == TypeOK /\ LockInv /\ TempInv /\ ContentInv /\ OwnerInv

-----------------------------------------------------------------------------
\* The invariant holds initially.
LEMMA InitIInv == Init => IInv
  BY AtomicFileAssumption
  DEF Init, IInv, TypeOK, LockInv, TempInv, ContentInv, OwnerInv, SingleOwner,
      Owns, Contents, Steps, HasTemp, HoldsTarget, PrivateTemp, Procs

\* Closing a process's descriptors, for whatever reason, keeps the invariant.
LEMMA CloseIInv ==
  ASSUME IInv, NEW p \in Procs, UNCHANGED <<name, dirExists>>, Close(p)
  PROVE  IInv'
<1> USE AtomicFileAssumption DEF IInv, Procs
<1>1. TypeOK'
  BY DEF TypeOK, Close, Reclaim, Contents, Steps, HasTemp
<1>2. LockInv'
  BY DEF TypeOK, LockInv, Close, HoldsTarget
<1>3. TempInv'
  BY DEF TypeOK, TempInv, Close, PrivateTemp, HasTemp
<1>4. ContentInv'
  BY DEF TypeOK, ContentInv, Close, Reclaim, Free, PrivateTemp, HasTemp
<1>5. OwnerInv'
  BY DEF TypeOK, OwnerInv, SingleOwner, Owns, Close, Reclaim, Free
<1> QED BY <1>1, <1>2, <1>3, <1>4, <1>5

-----------------------------------------------------------------------------
\* Every step of AtomicCreateFile::new keeps the invariant.  The step that makes
\* an owner is CheckName: another owner q would have its own lock on the inode
\* that p has locked.
LEMMA CreatorIInv ==
  ASSUME IInv, NEW p \in Creators, CreatorStep(p)
  PROVE  IInv'
<1> USE AtomicFileAssumption DEF IInv, Procs
<1>1. CASE OpenNotFound(p) \/ CreateParent(p)
  <2>1. TypeOK'
    BY ZenonT(40), <1>1 DEF OpenNotFound, CreateParent, TypeOK, Steps, HasTemp
  <2>2. LockInv' /\ TempInv'
    BY <1>1 DEF OpenNotFound, CreateParent, TypeOK, LockInv, TempInv, HoldsTarget, PrivateTemp
  <2>3. ContentInv' /\ OwnerInv'
    BY <1>1 DEF OpenNotFound, CreateParent, TypeOK, ContentInv, OwnerInv, SingleOwner,
                Owns, Free, PrivateTemp
  <2> QED BY <2>1, <2>2, <2>3
<1>2. CASE OpenExisting(p)
  <2>1. TypeOK'
    BY <1>2 DEF OpenExisting, TypeOK, Steps, HasTemp
  <2>2. LockInv' /\ TempInv'
    BY <1>2 DEF OpenExisting, TypeOK, LockInv, TempInv, HoldsTarget, PrivateTemp
  <2>3. ContentInv' /\ OwnerInv'
    BY <1>2 DEF OpenExisting, TypeOK, ContentInv, OwnerInv, SingleOwner, Owns, Free, PrivateTemp
  <2> QED BY <2>1, <2>2, <2>3
<1>3. CASE OpenCreate(p)
  <2>0. NewInode \in Inode /\ Free(NewInode)
    BY <1>3 DEF OpenCreate, NewInode
  <2>1. TypeOK'
    BY <1>3, <2>0 DEF OpenCreate, TypeOK, Steps, HasTemp
  <2>2. LockInv'
    BY <1>3, <2>0 DEF OpenCreate, TypeOK, LockInv, HoldsTarget
  <2>3. TempInv'
    BY <1>3, <2>0 DEF OpenCreate, TypeOK, TempInv, PrivateTemp, Free
  <2>4. ContentInv'
    BY <1>3, <2>0 DEF OpenCreate, TypeOK, ContentInv, Free, PrivateTemp, HasTemp
  <2>5. OwnerInv'
    BY <1>3, <2>0 DEF OpenCreate, TypeOK, OwnerInv, SingleOwner, Owns, Free
  <2> QED BY <2>1, <2>2, <2>3, <2>4, <2>5
<1>4. CASE TryLock(p)
  <2>1. TypeOK'
    BY <1>4 DEF TryLock, TypeOK, Steps, HasTemp
  <2>2. LockInv' /\ TempInv'
    BY <1>4 DEF TryLock, TypeOK, LockInv, TempInv, HoldsTarget, PrivateTemp
  <2>3. ContentInv' /\ OwnerInv'
    BY <1>4 DEF TryLock, TypeOK, ContentInv, OwnerInv, SingleOwner, Owns, Free, PrivateTemp
  <2> QED BY <2>1, <2>2, <2>3
<1>5. CASE TryLockWouldBlock(p) \/ CheckNameWouldBlock(p) \/ CheckEmptyAlreadyExists(p)
  BY <1>5, CloseIInv DEF TryLockWouldBlock, CheckNameWouldBlock, CheckEmptyAlreadyExists
<1>6. CASE CheckName(p)
  <2>1. TypeOK'
    BY <1>6 DEF CheckName, TypeOK, Steps, HasTemp
  <2>2. LockInv' /\ TempInv'
    BY <1>6 DEF CheckName, TypeOK, LockInv, TempInv, HoldsTarget, PrivateTemp
  <2>3. ContentInv'
    BY <1>6 DEF CheckName, TypeOK, ContentInv, Free, PrivateTemp
  <2>4. ASSUME NEW q \in Creators, Owns(q)', q # p
        PROVE  Owns(q) /\ (content[fd[p]] = "empty" => FALSE)
    <3>1. Owns(q)
      BY <1>6, <2>4 DEF CheckName, TypeOK, Owns
    <3>2. SUFFICES ASSUME content[fd[p]] = "empty" PROVE FALSE
      BY <3>1
    <3>3. fd[q] = fd[p]
      BY <1>6, <3>1, <3>2 DEF CheckName, NameMatches, OwnerInv
    <3>4. lock[fd[q]] = q /\ lock[fd[p]] = p
      BY <1>6, <3>1 DEF CheckName, LockInv, HoldsTarget, Owns
    <3> QED BY <2>4, <3>3, <3>4
  <2>5. OwnerInv'
    BY <1>6, <2>4 DEF CheckName, NameMatches, TypeOK, OwnerInv, SingleOwner, Owns
  <2> QED BY <2>1, <2>2, <2>3, <2>5
<1>7. CASE CheckEmpty(p)
  <2>1. TypeOK'
    BY <1>7 DEF CheckEmpty, TypeOK, Steps, HasTemp
  <2>2. LockInv' /\ TempInv'
    BY <1>7 DEF CheckEmpty, TypeOK, LockInv, TempInv, HoldsTarget, PrivateTemp
  <2>3. ContentInv' /\ OwnerInv'
    BY <1>7 DEF CheckEmpty, TypeOK, ContentInv, OwnerInv, SingleOwner, Owns, Free, PrivateTemp
  <2> QED BY <2>1, <2>2, <2>3
<1> QED
  BY <1>1, <1>2, <1>3, <1>4, <1>5, <1>6, <1>7 DEF CreatorStep

-----------------------------------------------------------------------------
\* Every step of create_temp and commit_content, or of a forced write, keeps the
\* invariant.  The step that matters is Rename: by then p is the only owner.
LEMMA WriterIInv ==
  ASSUME IInv, NEW p \in Procs, WriterStep(p)
  PROVE  IInv'
<1> USE AtomicFileAssumption DEF IInv, Procs
<1>1. CASE CreateTemp(p)
  <2>0. NewInode \in Inode /\ Free(NewInode)
    BY <1>1 DEF CreateTemp, NewInode
  <2>1. TypeOK'
    BY <1>1, <2>0 DEF CreateTemp, TypeOK, Steps, HasTemp
  <2>2. LockInv'
    BY <1>1 DEF CreateTemp, TypeOK, LockInv, HoldsTarget
  <2>3. TempInv'
    BY <1>1, <2>0 DEF CreateTemp, TypeOK, TempInv, PrivateTemp, Free, HasTemp
  <2>4. ContentInv'
    BY <1>1, <2>0 DEF CreateTemp, TypeOK, ContentInv, Free, PrivateTemp, HasTemp
  <2>5. OwnerInv'
    BY <1>1 DEF CreateTemp, TypeOK, OwnerInv, SingleOwner, Owns, ContentInv
  <2> QED BY <2>1, <2>2, <2>3, <2>4, <2>5
<1>2. CASE LockTemp(p)
  <2>1. TypeOK'
    BY <1>2 DEF LockTemp, TypeOK, Steps, HasTemp
  <2>2. LockInv'
    BY <1>2 DEF LockTemp, TypeOK, LockInv, TempInv, HoldsTarget, PrivateTemp, HasTemp
  <2>3. TempInv'
    BY <1>2 DEF LockTemp, TypeOK, TempInv, PrivateTemp
  <2>4. ContentInv' /\ OwnerInv'
    BY <1>2 DEF LockTemp, TypeOK, ContentInv, OwnerInv, SingleOwner, Owns, Free, PrivateTemp
  <2> QED BY <2>1, <2>2, <2>3, <2>4
<1>3. CASE CopyPart(p) \/ CopyAndSync(p)
  <2>0. temp[p] \in Inode /\ temp[p] # name /\ \A q \in Procs : fd[q] # temp[p]
    BY <1>3 DEF CopyPart, CopyAndSync, TypeOK, TempInv, PrivateTemp, HasTemp
  <2>1. TypeOK'
    BY <1>3 DEF CopyPart, CopyAndSync, TypeOK, Steps, HasTemp, Contents
  <2>2. LockInv' /\ TempInv'
    BY <1>3 DEF CopyPart, CopyAndSync, TypeOK, LockInv, TempInv, HoldsTarget, PrivateTemp
  <2>3. ContentInv'
    BY <1>3, <2>0 DEF CopyPart, CopyAndSync, TypeOK, TempInv, ContentInv, Free, PrivateTemp, HasTemp
  <2>4. OwnerInv'
    BY <1>3, <2>0 DEF CopyPart, CopyAndSync, TypeOK, OwnerInv, SingleOwner, Owns
  <2> QED BY <2>1, <2>2, <2>3, <2>4
<1>4. CASE Rename(p)
  <2>0. /\ temp[p] \in Inode /\ content[temp[p]] = p
        /\ \A i \in Inode : i = temp[p] => ~Free(i)'
    BY <1>4 DEF Rename, TypeOK, ContentInv, HasTemp, Free
  <2>1. TypeOK'
    BY <1>4, <2>0 DEF Rename, Reclaim, TypeOK, Steps, HasTemp, Contents
  <2>2. LockInv' /\ TempInv'
    BY <1>4 DEF Rename, TypeOK, LockInv, TempInv, HoldsTarget, PrivateTemp, HasTemp
  <2>3. ContentInv'
    BY <1>4, <2>0 DEF Rename, Reclaim, TypeOK, TempInv, ContentInv, Free, PrivateTemp, HasTemp
  <2>4. \A q \in Creators : Owns(q)' => Owns(q) /\ q # p
    BY <1>4 DEF Rename, Reclaim, TypeOK, Owns, Free
  <2>5. p \in Creators => Owns(p)
    BY <1>4 DEF Rename, ContentInv, PrivateTemp, Owns
  <2>6. content'[name'] = p
    BY <1>4, <2>0 DEF Rename, Reclaim
  <2>7. OwnerInv'
    BY <1>4, <2>0, <2>4, <2>5, <2>6 DEF Rename, OwnerInv, SingleOwner
  <2> QED BY <2>1, <2>2, <2>3, <2>7
<1>5. CASE Done(p)
  BY <1>5, CloseIInv DEF Done
<1> QED
  BY <1>1, <1>2, <1>3, <1>4, <1>5 DEF WriterStep

\* IInv is inductive.
LEMMA NextIInv ==
  ASSUME IInv, [Next]_vars
  PROVE  IInv'
<1> USE AtomicFileAssumption DEF IInv, Procs
<1>1. CASE \E p \in Creators : CreatorStep(p)
  BY <1>1, CreatorIInv
<1>2. CASE \E p \in Procs : WriterStep(p)
  BY <1>2, WriterIInv
<1>3. ASSUME NEW p \in Procs, Begin(p)
      PROVE  IInv'
  <2>1. TypeOK'
    BY <1>3 DEF Begin, TypeOK, Steps, HasTemp
  <2>2. LockInv' /\ TempInv'
    BY <1>3 DEF Begin, TypeOK, LockInv, TempInv, HoldsTarget, PrivateTemp
  <2>3. ContentInv' /\ OwnerInv'
    BY <1>3 DEF Begin, TypeOK, ContentInv, OwnerInv, SingleOwner, Owns, Free, PrivateTemp
  <2> QED BY <2>1, <2>2, <2>3
<1>4. CASE \E p \in Procs : Abort(p)
  BY <1>4, CloseIInv DEF Abort
<1>5. CASE Delete
  <2>1. TypeOK'
    BY <1>5 DEF Delete, Reclaim, TypeOK, Steps, HasTemp, Contents
  <2>2. LockInv' /\ TempInv'
    BY <1>5 DEF Delete, TypeOK, LockInv, TempInv, HoldsTarget, PrivateTemp
  <2>3. ContentInv' /\ OwnerInv'
    BY <1>5 DEF Delete, Reclaim, TypeOK, ContentInv, OwnerInv, SingleOwner, Owns, Free, PrivateTemp
  <2> QED BY <2>1, <2>2, <2>3
<1>6. CASE UNCHANGED vars
  BY <1>6 DEF vars, TypeOK, LockInv, TempInv, ContentInv, OwnerInv, SingleOwner, Owns, Free
<1> QED
  BY <1>1, <1>2, <1>3, <1>4, <1>5, <1>6 DEF Next

-----------------------------------------------------------------------------
\* The inductive invariant holds in every reachable state.
THEOREM SpecIInv == Spec => []IInv
<1>1. Init => IInv
  BY InitIInv
<1>2. IInv /\ [Next]_vars => IInv'
  BY NextIInv
<1> QED
  BY <1>1, <1>2, PTL DEF Spec

\* AtomicCreateFile keeps its descriptors and files typed, at each step.
THEOREM TypeCorrect == Spec => []TypeOK
<1>1. IInv => TypeOK
  BY DEF IInv
<1> QED
  BY <1>1, SpecIInv, PTL

\* At most one process holds the right to publish a name, for any number of
\* processes and any interleaving of their system calls, crashes included.
THEOREM MutualExclusion == Spec => []SingleOwner
<1>1. IInv => SingleOwner
  BY DEF IInv, OwnerInv
<1> QED
  BY <1>1, SpecIInv, PTL

\* Nobody who opens the name reads an incomplete file.
THEOREM CompleteContent == Spec => []NoTornPublish
<1>1. IInv => NoTornPublish
  BY DEF IInv, ContentInv, NoTornPublish
<1> QED
  BY <1>1, SpecIInv, PTL
-----------------------------------------------------------------------------
(* The refinement of WriteOnceName                                         *)

\* What the abstract owner is in a state that satisfies the invariant.
OwnerFacts == /\ Owner \in Creators \cup {Nobody}
              /\ \A p \in Creators : Owner = p <=> Owns(p)

\* In a state of the invariant the abstract owner is the one creator, if any,
\* that holds the lock on the inode under the name (open_and_lock).
LEMMA OwnerIs == IInv => OwnerFacts
<1> SUFFICES ASSUME IInv PROVE OwnerFacts
  OBVIOUS
<1>1. \A q \in Creators : q # Nobody
  BY AtomicFileAssumption DEF Procs
<1>2. CASE \E q \in Creators : Owns(q)
  <2>1. Owner \in Creators /\ Owns(Owner)
    BY <1>2 DEF Owner
  <2> QED BY <2>1 DEF IInv, OwnerInv, SingleOwner, OwnerFacts
<1>3. CASE ~ \E q \in Creators : Owns(q)
  BY <1>1, <1>3 DEF Owner, OwnerFacts
<1> QED BY <1>2, <1>3

\* The same facts before and after a step.
LEMMA OwnerIsAround == IInv /\ IInv' => OwnerFacts /\ OwnerFacts'
  BY OwnerIs, PTL

\* Closing p's descriptors leaves the publication alone and ends p's ownership.
LEMMA CloseEffect ==
  ASSUME IInv, NEW p \in Procs, UNCHANGED <<name, dirExists>>, Close(p)
  PROVE  /\ Published' = Published
         /\ \A q \in Creators : Owns(q)' <=> Owns(q) /\ q # p
<1> USE AtomicFileAssumption DEF Procs
<1>1. \A i \in Inode : ~Free(i)' => content'[i] = content[i]
  BY DEF Close, Reclaim
<1>2. name # Nobody => content'[name] = content[name]
  BY <1>1 DEF Free, IInv, TypeOK
<1>3. Published' = Published
  BY <1>2 DEF Published
<1>4. ASSUME NEW q \in Creators, q # p, fd[q] # Nobody
      PROVE  content'[fd[q]] = content[fd[q]] /\ fd'[q] = fd[q]
  BY <1>1, <1>4 DEF Close, Free, IInv, TypeOK
<1>5. \A q \in Creators : pc'[q] = IF q = p THEN "idle" ELSE pc[q]
  BY DEF Close, IInv, TypeOK
<1>6. ASSUME NEW q \in Creators
      PROVE  Owns(q)' <=> Owns(q) /\ q # p
  BY <1>4, <1>5 DEF Owns, IInv, TypeOK
<1> QED BY <1>3, <1>6

\* If the publication and every creator's ownership are as before, the step is
\* a stutter of WriteOnceName.
LEMMA Stutter ==
  ASSUME IInv, IInv', Published' = Published,
         \A q \in Creators : Owns(q)' <=> Owns(q)
  PROVE  UNCHANGED WON!vars
<1>1. Owner' = Owner
  BY OwnerIsAround DEF OwnerFacts
<1> QED BY <1>1 DEF WON!vars

\* If only p's ownership ends, the step is a stutter or p abandons its claim.
LEMMA Abandons ==
  ASSUME IInv, IInv', NEW p \in Procs, Published' = Published,
         \A q \in Creators : Owns(q)' <=> Owns(q) /\ q # p
  PROVE  [WON!Next]_(WON!vars)
<1>1. CASE p \in Creators /\ Owns(p)
  <2>1. Owner = p
    BY <1>1, OwnerIs DEF OwnerFacts
  <2>2. \A q \in Creators : ~Owns(q)'
    BY <1>1 DEF IInv, OwnerInv, SingleOwner
  <2>3. Owner' = Nobody
    BY <2>2 DEF Owner
  <2> QED BY <1>1, <2>1, <2>3 DEF WON!Next, WON!Abandon
<1>2. CASE ~(p \in Creators /\ Owns(p))
  BY <1>2, Stutter
<1> QED BY <1>1, <1>2

\* Every step of AtomicFile is a step of WriteOnceName or leaves it unchanged.
LEMMA StepSimulation ==
  ASSUME IInv, IInv', [Next]_vars
  PROVE  [WON!Next]_(WON!vars)
<1> USE AtomicFileAssumption DEF Procs
<1>1. ASSUME NEW p \in Creators, CreatorStep(p)
      PROVE  [WON!Next]_(WON!vars)
  <2>1. CASE OpenNotFound(p) \/ CreateParent(p) \/ OpenExisting(p) \/ TryLock(p) \/ CheckEmpty(p)
    <3>1. Published' = Published
      BY <2>1 DEF OpenNotFound, CreateParent, OpenExisting, TryLock, CheckEmpty, Published
    <3>2. \A q \in Creators : Owns(q)' <=> Owns(q)
      BY <2>1 DEF OpenNotFound, CreateParent, OpenExisting, TryLock, CheckEmpty, Owns, IInv, TypeOK
    <3> QED BY <3>1, <3>2, Stutter
  <2>2. CASE OpenCreate(p)
    <3>0. NewInode \in Inode /\ Free(NewInode)
      BY <2>2 DEF OpenCreate, NewInode
    <3>1. Published' = Published
      BY <2>2, <3>0 DEF OpenCreate, Published, IInv, ContentInv
    <3>2. \A q \in Creators : Owns(q)' <=> Owns(q)
      BY <2>2 DEF OpenCreate, Owns, IInv, TypeOK
    <3> QED BY <3>1, <3>2, Stutter
  <2>3. CASE TryLockWouldBlock(p) \/ CheckNameWouldBlock(p) \/ CheckEmptyAlreadyExists(p)
    BY <2>3, CloseEffect, Abandons
       DEF TryLockWouldBlock, CheckNameWouldBlock, CheckEmptyAlreadyExists
  <2>4. CASE CheckName(p)
    <3>1. Published' = Published
      BY <2>4 DEF CheckName, Published
    <3>2. \A q \in Creators : q # p => (Owns(q)' <=> Owns(q))
      BY <2>4 DEF CheckName, Owns, IInv, TypeOK
    <3>3. ~Owns(p) /\ (Owns(p)' <=> content[name] = "empty")
      BY <2>4 DEF CheckName, NameMatches, Owns, IInv, TypeOK
    <3>4. CASE content[name] # "empty"
      BY <3>1, <3>2, <3>3, <3>4, Stutter
    <3>5. CASE content[name] = "empty"
      <4>1. Published = Nobody
        BY <3>5 DEF Published
      <4>2. Owner' = p
        BY <3>3, <3>5, OwnerIsAround DEF OwnerFacts
      <4>3. \A q \in Creators : ~Owns(q)
        BY <3>2, <3>3, <3>5 DEF IInv, OwnerInv, SingleOwner
      <4>4. Owner = Nobody
        BY <4>3 DEF Owner
      <4> QED BY <3>1, <4>1, <4>2, <4>4 DEF WON!Next, WON!Claim
    <3> QED BY <3>4, <3>5
  <2> QED BY <1>1, <2>1, <2>2, <2>3, <2>4 DEF CreatorStep
<1>2. ASSUME NEW p \in Procs, WriterStep(p)
      PROVE  [WON!Next]_(WON!vars)
  <2>1. CASE CreateTemp(p) \/ LockTemp(p) \/ CopyPart(p) \/ CopyAndSync(p)
    <3>1. name' = name /\ fd' = fd /\ pc' \in [Procs -> Steps]
      BY <2>1 DEF CreateTemp, LockTemp, CopyPart, CopyAndSync, IInv, TypeOK
    <3>2. \A i \in Inode : i # temp[p] => content'[i] = content[i]
      BY <2>1 DEF CreateTemp, LockTemp, CopyPart, CopyAndSync, IInv, TypeOK
    <3>3. name # Nobody => content'[name] = content[name]
      BY <2>1, <3>2 DEF CreateTemp, LockTemp, CopyPart, CopyAndSync,
                        IInv, TypeOK, TempInv, PrivateTemp
    <3>4. \A q \in Creators : fd[q] # Nobody => content'[fd[q]] = content[fd[q]]
      BY <2>1, <3>2 DEF CreateTemp, LockTemp, CopyPart, CopyAndSync,
                        IInv, TypeOK, TempInv, PrivateTemp
    <3>5. \A q \in Creators : pc'[q] = pc[q] \/ (pc[q] \in {"claimed"} \cup PrivateTemp
                                                 /\ pc'[q] \in PrivateTemp)
      BY <2>1 DEF CreateTemp, LockTemp, CopyPart, CopyAndSync, IInv, TypeOK, PrivateTemp
    <3>6. \A q \in Creators : Owns(q)' <=> Owns(q)
      BY <3>1, <3>4, <3>5 DEF Owns, IInv, TypeOK, PrivateTemp
    <3>7. Published' = Published
      BY <3>1, <3>3 DEF Published
    <3> QED BY <3>6, <3>7, Stutter
  <2>2. CASE Rename(p)
    <3>1. temp[p] \in Inode /\ content[temp[p]] = p /\ p # "empty"
      BY <2>2 DEF Rename, IInv, TypeOK, ContentInv, HasTemp
    <3>2. \A i \in Inode : i = temp[p] => ~Free(i)'
      BY <2>2 DEF Rename, Free
    <3>3. Published' = p
      BY <2>2, <3>1, <3>2 DEF Rename, Reclaim, Published
    <3>4. \A q \in Creators : Owns(q)' <=> Owns(q) /\ q # p
      BY <2>2 DEF Rename, Reclaim, Free, Owns, IInv, TypeOK
    <3>5. CASE p \in Creators
      <4>1. Owns(p)
        BY <2>2, <3>5 DEF Rename, IInv, ContentInv, PrivateTemp, Owns
      <4>2. Owner = p
        BY <3>5, <4>1, OwnerIs DEF OwnerFacts
      <4>3. \A q \in Creators : ~Owns(q)'
        BY <3>4, <3>5, <4>1 DEF IInv, OwnerInv, SingleOwner
      <4>4. Owner' = Nobody
        BY <4>3 DEF Owner
      <4> QED BY <3>3, <3>5, <4>2, <4>4 DEF WON!Next, WON!Publish
    <3>6. CASE p \in Forcers
      <4>1. Owner' = Owner
        BY <3>4, <3>6, OwnerIsAround DEF OwnerFacts
      <4> QED BY <3>3, <3>6, <4>1 DEF WON!Next, WON!Overwrite
    <3> QED BY <3>5, <3>6
  <2>3. CASE Done(p)
    BY <2>3, CloseEffect, Abandons DEF Done
  <2> QED BY <1>2, <2>1, <2>2, <2>3 DEF WriterStep
<1>3. ASSUME NEW p \in Procs, Begin(p)
      PROVE  [WON!Next]_(WON!vars)
  <2>1. Published' = Published
    BY <1>3 DEF Begin, Published
  <2>2. \A q \in Creators : Owns(q)' <=> Owns(q)
    BY <1>3 DEF Begin, Owns, IInv, TypeOK
  <2> QED BY <2>1, <2>2, Stutter
<1>4. ASSUME NEW p \in Procs, Abort(p)
      PROVE  [WON!Next]_(WON!vars)
  BY <1>4, CloseEffect, Abandons DEF Abort
<1>5. CASE Delete
  <2>1. \A q \in Creators : ~Owns(q) /\ ~Owns(q)'
    BY <1>5 DEF Delete, Owns
  <2>2. Owner = Nobody /\ Owner' = Nobody
    BY <2>1 DEF Owner
  <2>3. Published' = Nobody
    BY <1>5 DEF Delete, Published
  <2> QED BY <2>2, <2>3 DEF WON!Next, WON!Remove
<1>6. CASE UNCHANGED vars
  BY <1>6, Stutter DEF vars, Published, Owns
<1> QED
  BY <1>1, <1>2, <1>3, <1>4, <1>5, <1>6 DEF Next

\* AtomicCreateFile keeps its promise: its specification implements WriteOnceName
\* under the mapping of Owner and Published.
THEOREM Refinement == Spec => ImplementsWriteOnce
<1>1. Init => WON!Init
  BY DEF Init, WON!Init, Owner, Owns, Published, Procs
<1>2. IInv /\ IInv' /\ [Next]_vars => [WON!Next]_(WON!vars)
  BY StepSimulation
<1> QED
  BY <1>1, <1>2, SpecIInv, PTL DEF Spec, ImplementsWriteOnce, WON!Spec

\* While a creator owns the name, nothing a creator wrote is published.
LEMMA OwnerSeesNoCreator ==
  ASSUME IInv, Published \in Creators, NEW p \in Creators
  PROVE  Owner # p
<1> SUFFICES ASSUME Owner = p PROVE FALSE
  OBVIOUS
<1>1. Owns(p)
  BY OwnerIs DEF OwnerFacts
<1>2. name # Nobody /\ (name = fd[p] \/ content[name] \in Forcers)
  BY <1>1 DEF IInv, OwnerInv
<1>3. Published \in Forcers \cup {Nobody}
  BY <1>1, <1>2 DEF Published, Owns
<1> QED BY <1>3, AtomicFileAssumption DEF Procs

\* What a creator published is replaced by no creator.
THEOREM NoReplacement == Spec => CreatorNeverReplaced
<1>1. ASSUME IInv, IInv', [Next]_vars, Published \in Creators, Published' # Published
      PROVE  Published' \in Forcers \cup {Nobody}
  <2>1. WON!Next
    BY <1>1, StepSimulation DEF WON!vars
  <2>2. \A p \in Creators : ~WON!Publish(p)
    BY <1>1, OwnerSeesNoCreator DEF WON!Publish
  <2> QED
    BY <1>1, <2>1, <2>2 DEF WON!Next, WON!Claim, WON!Abandon, WON!Overwrite, WON!Remove
<1>2. IInv /\ IInv' /\ [Next]_vars
        => [(Published \in Creators /\ Published' # Published)
              => Published' \in Forcers \cup {Nobody}]_vars
  BY <1>1
<1> QED
  BY <1>2, SpecIInv, PTL DEF Spec, CreatorNeverReplaced
=============================================================================
