--------------------------- MODULE PackRepoProofs ---------------------------
(***************************************************************************)
(* Proofs about PackRepo for any sets of processes, tags, objects and pack *)
(* names, when pack is used without --force.  With --force the properties  *)
(* fail, as the run forced_pack_mismatch shows.                            *)
(*                                                                         *)
(* The invariants of PackRepo follow from what each command in progress    *)
(* has established so far, step by step; those facts are not disturbed by  *)
(* others because store and gc are alone (ExclusionInv), because a pack's  *)
(* index is written only by the process that holds its reservation         *)
(* (PackInv), and because an index that is there is never replaced.        *)
(***************************************************************************)
EXTENDS PackRepo, TLAPS

\* The steps of pack, and those at which it holds the reserved .pack.idx.
PackSteps == {"packing", "compressing", "compressed", "claimed", "packpublished",
              "packed", "heading"}
ReservedSteps == {"compressing", "compressed", "claimed", "packpublished"}

\* Some pack has a snapshot with this content.
InPack(c) == \E n \in Packs : /\ packIdx[n] \in Builds
                              /\ \E t \in DOMAIN packIdx[n] : packIdx[n][t] = c

\* The indexes of one snapshot.
Singles == UNION {[{t} -> Contents] : t \in Tags}

\* Whoever runs store or gc is alone.
ExclusionInv ==
    \A p, q \in Procs : p # q /\ job[p].at \in ExclusiveSteps => job[q].at = "idle"

\* store has written every object it need not write any more, and once it has
\* committed, the loose index is the one it built.
StoreInv ==
    \A p \in Procs :
        /\ job[p].at \in {"storing", "stored"} => job[p].build \in Singles
        /\ job[p].at = "storing" => ObjectsOf(job[p].build) \subseteq objects \cup job[p].objs
        /\ job[p].at = "stored" => \A t \in DOMAIN job[p].build : loose[t] = job[p].build[t]

\* pack owns the pair of names from its reservation to the rename of the index;
\* the .pack goes from reserved to complete in between.
PackInv ==
    \A p \in Procs :
        /\ job[p].at \in PackSteps =>
              job[p].build \in Builds /\ job[p].dest \in Packs /\ ~job[p].force
        /\ job[p].at \in ReservedSteps =>
              reserver[job[p].dest] = p /\ packIdx[job[p].dest] = Reserved
        /\ job[p].at = "claimed" => packFile[job[p].dest] = Reserved
        /\ job[p].at = "packpublished" => packFile[job[p].dest] = ObjectsOf(job[p].build)
        /\ job[p].at \in {"packed", "heading"} => packIdx[job[p].dest] = job[p].build
        /\ job[p].at = "heading" => job[p].tags \subseteq DOMAIN job[p].build

\* explode opens the .pack that its index describes, and so writes whole objects.
ExplodeInv ==
    /\ corrupt = {}
    /\ \A p \in Procs :
        /\ job[p].at # "garbling"
        /\ job[p].at = "exploding" =>
              /\ job[p].dest \in Packs
              /\ job[p].build \in Builds
              /\ packIdx[job[p].dest] = job[p].build
              /\ job[p].objs = ObjectsOf(job[p].build)

\* gc deletes only indexes whose content is in a pack, and only objects that no
\* loose snapshot has.
GcInv ==
    \A p \in Procs :
        /\ job[p].at \in {"pruning", "pruningonly"} => \A t \in job[p].tags : InPack(loose[t])
        /\ job[p].at = "sweeping" => \A t \in Stored : loose[t] \cap job[p].objs = {}

\* What was promised under a tag is still its loose snapshot, or in a pack.
KeptInv ==
    \A t \in Tags : promised[t] # Absent => loose[t] = promised[t] \/ InPack(promised[t])

\* The inductive invariant.
IInv == /\ TypeOK /\ ExclusionInv /\ StoreInv /\ PackInv /\ ExplodeInv /\ GcInv
        /\ IndexMatchesPack /\ LooseComplete /\ KeptInv

-----------------------------------------------------------------------------
(* Indexes                                                                 *)

\* An index is not the mark of an absent or reserved file, and neither is a
\* content or the set of objects of a pack.
LEMMA ValuesNotEmpty ==
    /\ Absent # Reserved
    /\ \A b \in Builds : b # Absent /\ b # Reserved
    /\ \A x \in SUBSET Objects : x # Absent /\ x # Reserved
    /\ \A c \in Contents : c # Absent /\ c # Reserved
  BY PackRepoAssumption, PackRepoValues DEF Empty

\* What Builds says of a single index.
LEMMA BuildsType ==
    ASSUME NEW b \in Builds
    PROVE  /\ DOMAIN b \in SUBSET Tags
           /\ \A t \in DOMAIN b : b[t] \in Contents
           /\ ObjectsOf(b) \in SUBSET Objects
           /\ \A t \in DOMAIN b : b[t] \subseteq ObjectsOf(b)
  <1>1. PICK S \in SUBSET Tags : b \in [S -> Contents]
    BY DEF Builds
  <1> QED BY <1>1, PackRepoAssumption DEF ObjectsOf

\* push_snapshot over a selection of stored snapshots makes an index.
LEMMA SelectionBuilds ==
    ASSUME NEW S \in SUBSET Tags, S # {}, \A t \in S : loose[t] \in Contents
    PROVE  [t \in S |-> loose[t]] \in Builds
  <1>1. [t \in S |-> loose[t]] \in [S -> Contents]
    OBVIOUS
  <1> QED BY <1>1 DEF Builds

\* The index of one snapshot, as store builds it.
LEMMA SingletonBuilds ==
    ASSUME NEW t \in Tags, NEW c \in Contents
    PROVE  /\ [x \in {t} |-> c] \in Singles
           /\ [x \in {t} |-> c] \in Builds
           /\ ObjectsOf([x \in {t} |-> c]) = c
  <1> DEFINE b == [x \in {t} |-> c]
  <1>1. b \in [{t} -> Contents]
    OBVIOUS
  <1>2. {b[x] : x \in DOMAIN b} = {c}
    OBVIOUS
  <1> QED BY <1>1, <1>2 DEF ObjectsOf, Builds, Singles

\* What store wrote is one snapshot.
LEMMA SinglesType ==
    ASSUME NEW b \in Singles
    PROVE  \E t \in Tags : /\ DOMAIN b = {t}
                           /\ b[t] \in Contents
                           /\ ObjectsOf(b) = b[t]
  <1>1. PICK t \in Tags : b \in [{t} -> Contents]
    BY DEF Singles
  <1>2. {b[x] : x \in DOMAIN b} = {b[t]}
    BY <1>1
  <1> QED BY <1>1, <1>2 DEF ObjectsOf

-----------------------------------------------------------------------------
\* An empty repository satisfies the invariant.
LEMMA InitIInv == Init => IInv
  <1> SUFFICES ASSUME Init PROVE IInv
    OBVIOUS
  <1> USE DEF Init, IdleJob
  <1>1. TypeOK
    BY DEF TypeOK, Jobs, Empty
  <1>2. ExclusionInv /\ StoreInv /\ PackInv /\ ExplodeInv /\ GcInv
    BY DEF ExclusionInv, StoreInv, PackInv, ExplodeInv, GcInv, ExclusiveSteps, PackSteps,
           ReservedSteps
  <1>3. IndexMatchesPack /\ LooseComplete /\ KeptInv
    BY ValuesNotEmpty DEF IndexMatchesPack, LooseComplete, KeptInv, Stored
  <1> QED BY <1>1, <1>2, <1>3 DEF IInv

-----------------------------------------------------------------------------
\* store keeps the invariant: it is alone from the reservation to HEAD.
LEMMA StoreIInv ==
    ASSUME IInv, NEW p \in Procs, StoreStep(p)
    PROVE  IInv'
  <1> USE DEF IInv
  <1>1. ASSUME NEW t \in Tags, NEW c \in Contents, NEW force \in BOOLEAN,
               StoreBegin(p, t, c, force)
        PROVE  IInv'
    <2> DEFINE b == [x \in {t} |-> c]
    <2>1. b \in Singles /\ b \in Builds /\ ObjectsOf(b) = c /\ c \in SUBSET Objects
      BY SingletonBuilds, PackRepoAssumption
    <2> HIDE DEF b
    <2>2. \A q \in Procs : job[q].at = "idle"
      BY <1>1 DEF StoreBegin, MayExclude
    <2>3. /\ job' = [job EXCEPT ![p] = job'[p]]
          /\ job'[p].at = "storing" /\ job'[p].build = b /\ job'[p].objs = c
          /\ job'[p] \in Jobs
      BY <1>1, <2>1 DEF StoreBegin, IdleJob, b, TypeOK, Jobs, ExclusiveSteps
    <2>4. TypeOK'
      BY <1>1, <2>1, <2>3 DEF StoreBegin, TypeOK, Jobs, ExclusiveSteps, Empty
    <2>5. ExclusionInv' /\ PackInv' /\ ExplodeInv' /\ GcInv'
      BY <1>1, <2>2, <2>3 DEF StoreBegin, TypeOK, ExclusionInv, PackInv, ExplodeInv, GcInv, ExclusiveSteps,
          PackSteps, ReservedSteps
    <2>6. StoreInv'
      BY <2>1, <2>2, <2>3 DEF StoreInv, TypeOK
    <2>7. IndexMatchesPack' /\ LooseComplete'
      BY <1>1, ValuesNotEmpty DEF StoreBegin, IndexMatchesPack, LooseComplete, Stored, TypeOK
    <2>8. KeptInv'
      BY <1>1, ValuesNotEmpty DEF StoreBegin, KeptInv, InPack, Stored, TypeOK
    <2> QED BY <2>4, <2>5, <2>6, <2>7, <2>8
  <1>2. ASSUME NEW o \in Objects, StoreObject(p, o)
        PROVE  IInv'
    <2>1. /\ job[p].at = "storing"
          /\ job'[p].at = "storing" /\ job'[p].build = job[p].build
          /\ job'[p].objs = job[p].objs \ {o}
          /\ \A q \in Procs : q # p => job'[q] = job[q]
      BY <1>2 DEF StoreObject, TypeOK, Jobs
    <2>2. TypeOK'
      BY ZenonT(40), <1>2 DEF StoreObject, TypeOK, Jobs
    <2>3. ExclusionInv' /\ PackInv' /\ ExplodeInv'
      BY <1>2 DEF StoreObject, TypeOK, Jobs, ExclusionInv, PackInv, ExplodeInv
    <2>4. StoreInv'
      <3>1. ObjectsOf(job'[p].build) \subseteq objects' \cup job'[p].objs
        BY <1>2, <2>1 DEF StoreObject, StoreInv
      <3>2. \A q \in Procs : q # p => job'[q].at = "idle"
        BY <2>1 DEF ExclusionInv, ExclusiveSteps
      <3> QED BY <2>1, <3>1, <3>2 DEF StoreInv
    <2>5. GcInv'
      BY <1>2, <2>1 DEF StoreObject, GcInv, InPack, Stored
    <2>6. IndexMatchesPack' /\ LooseComplete' /\ KeptInv'
      BY <1>2 DEF StoreObject, IndexMatchesPack, LooseComplete, KeptInv, InPack, Stored
    <2> QED BY <2>2, <2>3, <2>4, <2>5, <2>6
  <1>3. CASE StoreCommit(p)
    <2> DEFINE b == job[p].build
    <2>1. PICK t \in Tags : DOMAIN b = {t} /\ b[t] \in Contents /\ ObjectsOf(b) = b[t]
      BY <1>3, SinglesType DEF StoreCommit, StoreInv
    <2> DEFINE c == b[t]
    <2>3. /\ loose' = [loose EXCEPT ![t] = c]
          /\ promised' = [promised EXCEPT ![t] = c]
          /\ UNCHANGED <<objects, corrupt, stray, packFile, packIdx, reserver, head>>
      BY <1>3, <2>1 DEF StoreCommit
    <2>4. /\ job' \in [Procs -> Jobs]
          /\ job[p].at = "storing"
          /\ job'[p].at = "stored" /\ job'[p].build = job[p].build
          /\ \A q \in Procs : q # p => job[q].at = "idle" /\ job'[q] = job[q]
      BY SMTT(30), <1>3 DEF StoreCommit, Step, TypeOK, Jobs, ExclusionInv, ExclusiveSteps
    <2>5. TypeOK'
      BY <2>1, <2>3, <2>4 DEF TypeOK
    <2>6. ExclusionInv' /\ PackInv' /\ ExplodeInv' /\ GcInv'
      BY <2>3, <2>4 DEF ExclusionInv, PackInv, ExplodeInv, GcInv,
         ExclusiveSteps, PackSteps, ReservedSteps
    <2>7. StoreInv'
      <3>1. \A u \in DOMAIN job'[p].build : loose'[u] = job'[p].build[u]
        BY <2>1, <2>3, <2>4 DEF TypeOK
      <3> QED BY <1>3, <2>4, <3>1 DEF StoreInv
    <2>8. c \subseteq objects
      BY <1>3, <2>1 DEF StoreCommit, StoreInv
    <2>9. IndexMatchesPack' /\ LooseComplete'
      BY <2>3, <2>8 DEF TypeOK, IndexMatchesPack, LooseComplete, Stored, ExplodeInv
    <2>10. KeptInv'
      BY <2>3 DEF TypeOK, KeptInv, InPack
    <2> QED BY <2>5, <2>6, <2>7, <2>9, <2>10
  <1>4. CASE StoreHead(p)
    <2>1. PICK t \in Tags : DOMAIN job[p].build = {t}
      BY <1>4, SinglesType DEF StoreHead, StoreInv
    <2>2. head' = <<Loose, t>> /\ job' = [job EXCEPT ![p] = IdleJob]
      BY <1>4, <2>1 DEF StoreHead, Return
    <2>3. TypeOK'
      BY <1>4, <2>2 DEF StoreHead, TypeOK, Jobs, IdleJob
    <2>4. ExclusionInv' /\ StoreInv' /\ PackInv' /\ ExplodeInv' /\ GcInv'
      BY <1>4, <2>2 DEF StoreHead, TypeOK, IdleJob, ExclusionInv, StoreInv, PackInv, ExplodeInv, GcInv,
         ExclusiveSteps, PackSteps, ReservedSteps, InPack, Stored
    <2>5. IndexMatchesPack' /\ LooseComplete' /\ KeptInv'
      BY <1>4 DEF StoreHead, IndexMatchesPack, LooseComplete, KeptInv, InPack, Stored
    <2> QED BY <2>3, <2>4, <2>5
  <1> QED BY <1>1, <1>2, <1>3, <1>4 DEF StoreStep

\* pack keeps the invariant.  Two packs with the same name are told apart by the
\* reservation; the .pack.idx is only published over its own empty file, when the
\* .pack beside it is complete.
LEMMA PackIInv ==
    ASSUME IInv, ~ForcePack, NEW p \in Procs, PackStep(p)
    PROVE  IInv'
  <1> USE DEF IInv
  <1>1. ASSUME NEW n \in Packs, NEW S \in SUBSET Tags, NEW force \in BOOLEAN,
               PackBegin(p, n, S, force)
        PROVE  IInv'
    <2> DEFINE b == [t \in S |-> loose[t]]
    <2>1. b \in Builds
      BY <1>1, SelectionBuilds DEF PackBegin, Stored
    <2>2. /\ job' = [job EXCEPT ![p] = job'[p]]
          /\ job'[p].at = "packing" /\ job'[p].build = b /\ job'[p].dest = n
          /\ job'[p].force = FALSE
          /\ job'[p] \in Jobs
      BY <1>1, <2>1 DEF PackBegin, IdleJob, TypeOK, Jobs, SharedSteps
    <2>3. UNCHANGED disk /\ \A q \in Procs : job[q].at \notin ExclusiveSteps
      BY <1>1 DEF PackBegin, MayShare
    <2> HIDE DEF b
    <2>4. TypeOK'
      BY <2>2, <2>3 DEF TypeOK, disk
    <2>5. ExclusionInv' /\ StoreInv' /\ PackInv' /\ ExplodeInv'
      BY <2>1, <2>2, <2>3 DEF disk, TypeOK, ExclusionInv, StoreInv, PackInv, ExplodeInv,
         ExclusiveSteps, PackSteps, ReservedSteps
    <2>6. GcInv' /\ IndexMatchesPack' /\ LooseComplete' /\ KeptInv'
      BY <2>2, <2>3 DEF disk, TypeOK, GcInv, IndexMatchesPack, LooseComplete, KeptInv,
         InPack, Stored
    <2> QED BY <2>4, <2>5, <2>6
  <1>2. CASE PackReserve(p)
    <2>1. /\ job' \in [Procs -> Jobs]
          /\ job[p].at = "packing" /\ job'[p].at = "compressing"
          /\ job'[p].build = job[p].build /\ job'[p].dest = job[p].dest
          /\ job'[p].force = job[p].force
          /\ \A q \in Procs : q # p => job'[q] = job[q]
      BY SMTT(30), <1>2 DEF PackReserve, Step, TypeOK, Jobs, SharedSteps
    <2>2. /\ packIdx[job[p].dest] \notin Builds /\ reserver[job[p].dest] = Absent
          /\ packIdx' = [packIdx EXCEPT ![job[p].dest] = Reserved]
          /\ reserver' = [reserver EXCEPT ![job[p].dest] = p]
          /\ UNCHANGED <<loose, objects, corrupt, stray, packFile, head, promised>>
      BY <1>2 DEF PackReserve
    <2>3. job[p].dest \in Packs
      BY <2>1 DEF PackInv, PackSteps
    <2>4. TypeOK'
      BY <2>1, <2>2 DEF TypeOK, Empty
    <2>5. ExclusionInv' /\ StoreInv'
      BY <2>1, <2>2 DEF ExclusionInv, StoreInv, ExclusiveSteps
    <2>6. PackInv'
      BY <2>1, <2>2, <2>3, PackRepoValues
      DEF TypeOK, PackInv, PackSteps, ReservedSteps
    <2>7. ExplodeInv'
      BY <2>1, <2>2, <2>3 DEF TypeOK, ExplodeInv
    <2>8. \A c : InPack(c) <=> InPack(c)'
      BY <2>2, <2>3, ValuesNotEmpty DEF InPack, TypeOK
    <2>9. GcInv' /\ LooseComplete' /\ KeptInv'
      BY <2>1, <2>2, <2>8 DEF GcInv, LooseComplete, KeptInv, Stored
    <2>10. IndexMatchesPack'
      BY <2>2, <2>3, ValuesNotEmpty DEF IndexMatchesPack, TypeOK
    <2> QED BY <2>4, <2>5, <2>6, <2>7, <2>9, <2>10
  <1>3. CASE PackCompress(p) \/ PackReadHead(p)
    <2>1. UNCHANGED disk
      BY <1>3 DEF PackCompress, PackReadHead
    <2>2. job' = [job EXCEPT ![p] = job'[p]] /\ job'[p] \in Jobs
      <3>1. CASE PackCompress(p)
        BY ZenonT(40), <3>1 DEF PackCompress, Step, TypeOK, Jobs, SharedSteps
      <3>2. CASE PackReadHead(p) /\ HeadPacked(p)
        <4>1. PICK t \in DOMAIN job[p].build : head = <<Loose, t>>
          BY <3>2 DEF HeadPacked
        <4>2. {head[2]} \in SUBSET Tags
          BY <3>2, <4>1, BuildsType DEF PackReadHead, PackInv, PackSteps
        <4>3. job' = [job EXCEPT ![p].at = "heading", ![p].tags = {head[2]}]
          BY <3>2, <4>2 DEF PackReadHead, Return
        <4> QED BY ZenonT(40), <4>2, <4>3 DEF TypeOK, Jobs, SharedSteps
      <3>3. CASE PackReadHead(p) /\ ~HeadPacked(p)
        <4>1. job' = [job EXCEPT ![p] = IdleJob]
          BY <3>3 DEF PackReadHead, Return
        <4>2. IdleJob \in Jobs
          BY DEF IdleJob, Jobs
        <4> QED BY <4>1, <4>2 DEF TypeOK
      <3> QED BY <1>3, <3>1, <3>2, <3>3
    <2>3. \/ /\ job[p].at = "compressing" /\ job'[p].at = "compressed"
             /\ job'[p].build = job[p].build /\ job'[p].dest = job[p].dest
             /\ job'[p].force = job[p].force
          \/ /\ job[p].at = "packed" /\ job'[p].at = "heading"
             /\ job'[p].build = job[p].build /\ job'[p].dest = job[p].dest
             /\ job'[p].force = job[p].force
             /\ job'[p].tags \subseteq DOMAIN job[p].build
          \/ job'[p].at = "idle"
      BY <1>3 DEF PackCompress, PackReadHead, Step, Return, HeadPacked, IdleJob, TypeOK, Jobs
    <2>4. TypeOK'
      BY <2>1, <2>2 DEF TypeOK, disk
    <2>5. ExclusionInv' /\ StoreInv' /\ PackInv' /\ ExplodeInv'
      BY <2>1, <2>2, <2>3 DEF disk, TypeOK, ExclusionInv, StoreInv, PackInv, ExplodeInv,
         ExclusiveSteps, PackSteps, ReservedSteps
    <2>6. GcInv' /\ IndexMatchesPack' /\ LooseComplete' /\ KeptInv'
      BY <2>1, <2>2, <2>3 DEF disk, TypeOK, GcInv, IndexMatchesPack, LooseComplete, KeptInv,
         InPack, Stored
    <2> QED BY <2>4, <2>5, <2>6
  <1>4. CASE PackClaim(p) \/ PackPublish(p)
    <2>1. /\ job' \in [Procs -> Jobs]
          /\ job'[p].build = job[p].build /\ job'[p].dest = job[p].dest
          /\ job'[p].force = job[p].force
          /\ \A q \in Procs : q # p => job'[q] = job[q]
      BY SMTT(30), <1>4 DEF PackClaim, PackPublish, Step, TypeOK, Jobs, SharedSteps
    <2>2. /\ job[p].at \in ReservedSteps
          /\ job[p].dest \in Packs /\ job[p].build \in Builds
          /\ packIdx[job[p].dest] = Reserved /\ reserver[job[p].dest] = p
      BY <1>4 DEF PackClaim, PackPublish, PackInv, PackSteps, ReservedSteps
    <2>3. /\ \/ /\ packFile' = [packFile EXCEPT ![job[p].dest] = Reserved]
                /\ job'[p].at = "claimed"
             \/ /\ packFile' = [packFile EXCEPT ![job[p].dest] = ObjectsOf(job[p].build)]
                /\ job'[p].at = "packpublished"
          /\ UNCHANGED <<loose, objects, corrupt, stray, packIdx, reserver, head, promised>>
      BY <1>4 DEF PackClaim, PackPublish, Step, TypeOK, Jobs
    <2>4. ObjectsOf(job[p].build) \in SUBSET Objects
      BY <2>2, BuildsType
    <2>5. TypeOK'
      BY <2>1, <2>3, <2>4 DEF TypeOK, Empty
    <2>6. ExclusionInv' /\ StoreInv' /\ ExplodeInv'
      BY <2>1, <2>2, <2>3 DEF ExclusionInv, StoreInv, ExplodeInv, ExclusiveSteps, ReservedSteps
    <2>7. PackInv'
      BY <2>1, <2>2, <2>3 DEF TypeOK, PackInv, PackSteps, ReservedSteps
    <2>8. GcInv' /\ LooseComplete' /\ KeptInv'
      BY <2>1, <2>3 DEF GcInv, LooseComplete, KeptInv, Stored, InPack
    <2>9. IndexMatchesPack'
      BY <2>2, <2>3, ValuesNotEmpty DEF IndexMatchesPack, TypeOK
    <2> QED BY <2>5, <2>6, <2>7, <2>8, <2>9
  <1>5. CASE PackPublishIdx(p)
    <2>1. /\ job' \in [Procs -> Jobs]
          /\ job[p].at = "packpublished" /\ job'[p].at = "packed"
          /\ job'[p].build = job[p].build /\ job'[p].dest = job[p].dest
          /\ job'[p].force = job[p].force
          /\ \A q \in Procs : q # p => job'[q] = job[q]
      BY SMTT(30), <1>5 DEF PackPublishIdx, Step, TypeOK, Jobs, SharedSteps
    <2>2. /\ job[p].dest \in Packs /\ job[p].build \in Builds
          /\ packIdx[job[p].dest] = Reserved /\ reserver[job[p].dest] = p
          /\ packFile[job[p].dest] = ObjectsOf(job[p].build)
      BY <2>1 DEF PackInv, PackSteps, ReservedSteps
    <2>3. /\ packIdx' = [packIdx EXCEPT ![job[p].dest] = job[p].build]
          /\ reserver' = [n \in Packs |-> IF reserver[n] = p THEN Absent ELSE reserver[n]]
          /\ UNCHANGED <<loose, objects, corrupt, stray, packFile, head, promised>>
      BY <1>5 DEF PackPublishIdx, Release
    <2>4. TypeOK'
      BY <2>1, <2>2, <2>3 DEF TypeOK
    <2>5. ExclusionInv' /\ StoreInv'
      BY <2>1, <2>3 DEF ExclusionInv, StoreInv, ExclusiveSteps
    <2>6. PackInv'
      BY <2>1, <2>2, <2>3, ValuesNotEmpty DEF TypeOK, PackInv, PackSteps, ReservedSteps
    <2>7. ExplodeInv'
      BY <2>1, <2>2, <2>3, ValuesNotEmpty DEF TypeOK, ExplodeInv
    <2>8. \A c : InPack(c) => InPack(c)'
      BY <2>2, <2>3, ValuesNotEmpty DEF InPack, TypeOK
    <2>9. GcInv' /\ LooseComplete' /\ KeptInv'
      BY <2>1, <2>3, <2>8 DEF GcInv, LooseComplete, KeptInv, Stored
    <2>10. IndexMatchesPack'
      BY <2>2, <2>3 DEF IndexMatchesPack, TypeOK
    <2> QED BY <2>4, <2>5, <2>6, <2>7, <2>9, <2>10
  <1>6. CASE PackWriteHead(p)
    <2>1. /\ job' = [job EXCEPT ![p] = IdleJob]
          /\ IdleJob \in Jobs /\ IdleJob.at = "idle"
          /\ UNCHANGED <<loose, objects, corrupt, stray, packFile, packIdx, reserver, promised>>
      BY <1>6 DEF PackWriteHead, Return, IdleJob, Jobs
    <2>2. PICK t \in job[p].tags : head' = <<job[p].dest, t>>
      BY <1>6 DEF PackWriteHead
    <2>3. TypeOK'
      <3>1. job[p].dest \in Packs /\ t \in Tags
        BY <1>6 DEF PackWriteHead, PackInv, PackSteps, TypeOK, Jobs
      <3> QED BY <2>1, <2>2, <3>1 DEF TypeOK
    <2>4. ExclusionInv' /\ StoreInv' /\ PackInv' /\ ExplodeInv' /\ GcInv'
      BY <2>1 DEF TypeOK, ExclusionInv, StoreInv, PackInv, ExplodeInv, GcInv, InPack, Stored,
         ExclusiveSteps, PackSteps, ReservedSteps
    <2>5. IndexMatchesPack' /\ LooseComplete' /\ KeptInv'
      BY <2>1 DEF IndexMatchesPack, LooseComplete, KeptInv, InPack, Stored
    <2> QED BY <2>3, <2>4, <2>5
  <1> QED BY <1>1, <1>2, <1>3, <1>4, <1>5, <1>6 DEF PackStep

\* explode keeps the invariant: between load_index and Pack::open the pair of files
\* cannot have changed, so the objects it writes are whole.
LEMMA ExplodeIInv ==
    ASSUME IInv, NEW p \in Procs, ExplodeStep(p)
    PROVE  IInv'
  <1> USE DEF IInv
  <1>1. ASSUME NEW n \in Packs, ExplodeBegin(p, n)
        PROVE  IInv'
    <2>1. packIdx[n] \in Builds /\ ObjectsOf(packIdx[n]) \in SUBSET Objects
      BY <1>1, BuildsType DEF ExplodeBegin
    <2>2. /\ job' = [job EXCEPT ![p] = job'[p]]
          /\ job'[p].at = "exploding" /\ job'[p].build = packIdx[n] /\ job'[p].dest = n
          /\ job'[p].objs = ObjectsOf(packIdx[n])
          /\ job'[p] \in Jobs
      BY <1>1, <2>1 DEF ExplodeBegin, IdleJob, TypeOK, Jobs, SharedSteps
    <2>3. UNCHANGED disk /\ \A q \in Procs : job[q].at \notin ExclusiveSteps
      BY <1>1 DEF ExplodeBegin, MayShare
    <2>4. TypeOK'
      BY <2>2, <2>3 DEF TypeOK, disk
    <2>5. ExclusionInv' /\ StoreInv' /\ PackInv' /\ ExplodeInv'
      BY <2>1, <2>2, <2>3 DEF disk, TypeOK, ExclusionInv, StoreInv, PackInv, ExplodeInv,
         ExclusiveSteps, PackSteps, ReservedSteps
    <2>6. GcInv' /\ IndexMatchesPack' /\ LooseComplete' /\ KeptInv'
      BY <2>2, <2>3 DEF disk, TypeOK, GcInv, IndexMatchesPack, LooseComplete, KeptInv,
         InPack, Stored
    <2> QED BY <2>4, <2>5, <2>6
  <1>2. CASE ExplodeOpen(p)
    <2>1. packFile[job[p].dest] = job[p].objs
      BY <1>2 DEF ExplodeOpen, ExplodeInv, IndexMatchesPack
    <2>2. /\ job' \in [Procs -> Jobs]
          /\ job[p].at = "exploding" /\ job'[p].at = "unpacking"
          /\ \A q \in Procs : q # p => job'[q] = job[q]
          /\ UNCHANGED disk
      BY SMTT(30), <1>2, <2>1 DEF ExplodeOpen, Step, TypeOK, Jobs, SharedSteps
    <2>3. TypeOK'
      BY <2>2 DEF TypeOK, disk
    <2>4. ExclusionInv' /\ StoreInv' /\ PackInv' /\ ExplodeInv'
      BY <2>2 DEF disk, ExclusionInv, StoreInv, PackInv, ExplodeInv,
         ExclusiveSteps, PackSteps, ReservedSteps
    <2>5. GcInv' /\ IndexMatchesPack' /\ LooseComplete' /\ KeptInv'
      BY <2>2 DEF disk, GcInv, IndexMatchesPack, LooseComplete, KeptInv, InPack, Stored
    <2> QED BY <2>3, <2>4, <2>5
  <1>3. ASSUME NEW o \in Objects, ExplodeObject(p, o)
        PROVE  IInv'
    <2>1. /\ job' \in [Procs -> Jobs]
          /\ job[p].at = "unpacking" /\ job'[p].at = "unpacking"
          /\ \A q \in Procs : q # p => job'[q] = job[q]
      BY <1>3 DEF ExplodeObject, ExplodeInv, TypeOK, Jobs
    <2>2. /\ objects' = objects \cup {o} /\ corrupt' = {}
          /\ UNCHANGED <<loose, stray, packFile, packIdx, reserver, head, promised>>
      BY <1>3, <2>1 DEF ExplodeObject, ExplodeInv
    <2>3. TypeOK'
      BY <2>1, <2>2 DEF TypeOK
    <2>4. ExclusionInv' /\ PackInv' /\ ExplodeInv'
      BY <2>1, <2>2 DEF ExclusionInv, PackInv, ExplodeInv, ExclusiveSteps, PackSteps, ReservedSteps
    <2>5. StoreInv'
      BY <2>1, <2>2 DEF StoreInv
    <2>6. GcInv' /\ IndexMatchesPack' /\ KeptInv'
      BY <2>1, <2>2 DEF GcInv, IndexMatchesPack, KeptInv, InPack, Stored
    <2>7. LooseComplete'
      BY <2>2 DEF LooseComplete, Stored
    <2> QED BY <2>3, <2>4, <2>5, <2>6, <2>7
  <1>4. CASE ExplodeEnd(p)
    <2>1. /\ job' = [job EXCEPT ![p] = IdleJob]
          /\ IdleJob \in Jobs /\ IdleJob.at = "idle"
          /\ UNCHANGED disk
      BY <1>4 DEF ExplodeEnd, Return, IdleJob, Jobs
    <2>2. TypeOK'
      BY <2>1 DEF TypeOK, disk
    <2>3. ExclusionInv' /\ StoreInv' /\ PackInv' /\ ExplodeInv' /\ GcInv'
      BY <2>1 DEF TypeOK, disk, ExclusionInv, StoreInv, PackInv, ExplodeInv, GcInv, InPack, Stored,
         ExclusiveSteps, PackSteps, ReservedSteps
    <2>4. IndexMatchesPack' /\ LooseComplete' /\ KeptInv'
      BY <2>1 DEF disk, IndexMatchesPack, LooseComplete, KeptInv, InPack, Stored
    <2> QED BY <2>2, <2>3, <2>4
  <1> QED BY <1>1, <1>2, <1>3, <1>4 DEF ExplodeStep

\* gc keeps the invariant: it is alone, deletes an index only when a pack has the
\* content, and marks the objects to delete when the indexes are gone.
LEMMA GcIInv ==
    ASSUME IInv, NEW p \in Procs, GcStep(p)
    PROVE  IInv'
  <1> USE DEF IInv
  <1>1. ASSUME NEW s \in BOOLEAN, NEW o \in BOOLEAN, GcBegin(p, s, o)
        PROVE  IInv'
    <2>1. /\ job' = [job EXCEPT ![p] = job'[p]]
          /\ job'[p].at \in {"pruning", "pruningonly"}
          /\ job'[p].tags \subseteq Redundant
          /\ job'[p] \in Jobs
      <3>1. Redundant \in SUBSET Tags
        BY DEF Redundant, Stored
      <3> HIDE DEF Redundant
      <3> QED BY <1>1, <3>1 DEF GcBegin, IdleJob, TypeOK, Jobs, ExclusiveSteps
    <2>2. UNCHANGED disk /\ \A q \in Procs : job[q].at = "idle"
      BY <1>1 DEF GcBegin, MayExclude
    <2>3. TypeOK'
      BY <2>1, <2>2 DEF TypeOK, disk
    <2>4. ExclusionInv' /\ StoreInv' /\ PackInv' /\ ExplodeInv'
      BY <2>1, <2>2 DEF disk, TypeOK, ExclusionInv, StoreInv, PackInv, ExplodeInv,
         ExclusiveSteps, PackSteps, ReservedSteps
    <2>5. GcInv'
      BY <2>1, <2>2 DEF disk, TypeOK, GcInv, Redundant, InPack
    <2>6. IndexMatchesPack' /\ LooseComplete' /\ KeptInv'
      BY <2>2 DEF disk, IndexMatchesPack, LooseComplete, KeptInv, InPack, Stored
    <2> QED BY <2>3, <2>4, <2>5, <2>6
  <1>2. ASSUME NEW t \in Tags, GcDeletePack(p, t)
        PROVE  IInv'
    <2>1. /\ job' \in [Procs -> Jobs]
          /\ job[p].at \in {"pruning", "pruningonly"} /\ job'[p].at = job[p].at
          /\ t \in job[p].tags /\ job'[p].tags = job[p].tags \ {t}
          /\ \A q \in Procs : q # p => job[q].at = "idle" /\ job'[q] = job[q]
      BY SMTT(30), <1>2 DEF GcDeletePack, TypeOK, Jobs, ExclusionInv, ExclusiveSteps
    <2>2. /\ loose' = [loose EXCEPT ![t] = Absent]
          /\ UNCHANGED <<objects, corrupt, stray, packFile, packIdx, reserver, head, promised>>
      BY <1>2 DEF GcDeletePack
    <2>3. TypeOK'
      BY <2>1, <2>2 DEF TypeOK, Empty
    <2>4. ExclusionInv' /\ StoreInv' /\ PackInv' /\ ExplodeInv'
      BY <2>1, <2>2 DEF ExclusionInv, StoreInv, PackInv, ExplodeInv, PackSteps, ReservedSteps
    <2>5. \A c : InPack(c) <=> InPack(c)'
      BY <2>2 DEF InPack
    <2>6. GcInv'
      BY <2>1, <2>2, <2>5 DEF TypeOK, GcInv
    <2>7. IndexMatchesPack' /\ LooseComplete'
      BY <2>2, ValuesNotEmpty DEF TypeOK, IndexMatchesPack, LooseComplete, Stored
    <2>8. KeptInv'
      BY <2>1, <2>2, <2>5 DEF TypeOK, GcInv, KeptInv
    <2> QED BY <2>3, <2>4, <2>6, <2>7, <2>8
  <1>3. CASE GcMark(p)
    <2> DEFINE U == objects \ UNION {loose[t] : t \in Stored}
    <2>0. U \in SUBSET Objects /\ \A t \in Stored : loose[t] \cap U = {}
      BY DEF TypeOK
    <2>1. /\ job' = [job EXCEPT ![p].at = "sweeping", ![p].objs = U]
          /\ job[p].at = "pruning"
          /\ UNCHANGED disk
      BY <1>3 DEF GcMark
    <2> HIDE DEF U
    <2>2. /\ job' \in [Procs -> Jobs]
          /\ job'[p].at = "sweeping" /\ job'[p].objs = U
          /\ \A q \in Procs : q # p => job[q].at = "idle" /\ job'[q] = job[q]
      <3>1. job \in [Procs -> Jobs]
        BY DEF TypeOK
      <3>2. job' \in [Procs -> Jobs]
        <4>1. \A S \in SUBSET Objects :
                  [job EXCEPT ![p].at = "sweeping", ![p].objs = S] \in [Procs -> Jobs]
          BY ZenonT(40), <3>1 DEF Jobs, ExclusiveSteps
        <4> QED BY <2>0, <2>1, <4>1
      <3>3. job'[p].at = "sweeping" /\ job'[p].objs = U
        BY <2>1, <3>1 DEF Jobs
      <3>4. \A q \in Procs : q # p => job'[q] = job[q]
        BY <2>1, <3>1
      <3>5. \A q \in Procs : q # p => job[q].at = "idle"
        BY <2>1 DEF ExclusionInv, ExclusiveSteps
      <3> QED BY <3>2, <3>3, <3>4, <3>5
    <2>3. TypeOK'
      BY <2>1, <2>2 DEF TypeOK, disk
    <2>4. ExclusionInv' /\ StoreInv' /\ PackInv' /\ ExplodeInv'
      BY <2>1, <2>2 DEF disk, ExclusionInv, StoreInv, PackInv, ExplodeInv, ExclusiveSteps,
         PackSteps, ReservedSteps
    <2>5. GcInv'
      BY <2>0, <2>1, <2>2 DEF disk, GcInv, Stored
    <2>6. IndexMatchesPack' /\ LooseComplete' /\ KeptInv'
      BY <2>1 DEF disk, IndexMatchesPack, LooseComplete, KeptInv, InPack, Stored
    <2> QED BY <2>3, <2>4, <2>5, <2>6
  <1>4. ASSUME NEW o \in Objects, GcDeleteObject(p, o)
        PROVE  IInv'
    <2>1. /\ job' \in [Procs -> Jobs]
          /\ job[p].at = "sweeping" /\ job'[p].at = "sweeping"
          /\ o \in job[p].objs /\ job'[p].objs = job[p].objs \ {o}
          /\ \A q \in Procs : q # p => job[q].at = "idle" /\ job'[q] = job[q]
      BY <1>4 DEF GcDeleteObject, TypeOK, Jobs, ExclusionInv, ExclusiveSteps
    <2>2. /\ objects' = objects \ {o} /\ corrupt' = corrupt \ {o}
          /\ UNCHANGED <<loose, stray, packFile, packIdx, reserver, head, promised>>
      BY <1>4 DEF GcDeleteObject
    <2>3. TypeOK'
      BY <2>1, <2>2 DEF TypeOK
    <2>4. ExclusionInv' /\ StoreInv' /\ PackInv' /\ ExplodeInv'
      BY <2>1, <2>2 DEF ExclusionInv, StoreInv, PackInv, ExplodeInv, PackSteps, ReservedSteps
    <2>5. GcInv'
      BY <2>1, <2>2 DEF GcInv, Stored
    <2>6. LooseComplete'
      BY <2>1, <2>2 DEF GcInv, LooseComplete, Stored
    <2>7. IndexMatchesPack' /\ KeptInv'
      BY <2>2 DEF IndexMatchesPack, KeptInv, InPack
    <2> QED BY <2>3, <2>4, <2>5, <2>6, <2>7
  <1>5. CASE GcEnd(p)
    <2>1. /\ job' = [job EXCEPT ![p] = IdleJob]
          /\ IdleJob \in Jobs /\ IdleJob.at = "idle"
          /\ UNCHANGED disk
      BY <1>5 DEF GcEnd, Return, IdleJob, Jobs
    <2>2. TypeOK'
      BY <2>1 DEF TypeOK, disk
    <2>3. ExclusionInv' /\ StoreInv' /\ PackInv' /\ ExplodeInv' /\ GcInv'
      BY <2>1 DEF TypeOK, disk, ExclusionInv, StoreInv, PackInv, ExplodeInv, GcInv, InPack, Stored,
         ExclusiveSteps, PackSteps, ReservedSteps
    <2>4. IndexMatchesPack' /\ LooseComplete' /\ KeptInv'
      BY <2>1 DEF disk, IndexMatchesPack, LooseComplete, KeptInv, InPack, Stored
    <2> QED BY <2>2, <2>3, <2>4
  <1> QED BY <1>1, <1>2, <1>3, <1>4, <1>5 DEF GcStep

\* The end of a process at any step keeps the invariant: nothing in it depends on
\* a command going on.
LEMMA StopIInv ==
    ASSUME IInv, NEW p \in Procs, Stop(p)
    PROVE  IInv'
  <1> USE DEF IInv
  <1>1. /\ job' = [job EXCEPT ![p] = IdleJob]
        /\ IdleJob \in Jobs /\ IdleJob.at = "idle"
        /\ reserver' = [n \in Packs |-> IF reserver[n] = p THEN Absent ELSE reserver[n]]
        /\ stray' \in BOOLEAN
        /\ UNCHANGED <<loose, objects, corrupt, packFile, packIdx, head, promised>>
    BY DEF Stop, Return, Release, IdleJob, Jobs, TypeOK
  <1>2. TypeOK'
    BY <1>1 DEF TypeOK
  <1>3. ExclusionInv' /\ StoreInv' /\ ExplodeInv' /\ GcInv'
    BY <1>1 DEF TypeOK, ExclusionInv, StoreInv, ExplodeInv, GcInv, InPack, Stored, ExclusiveSteps
  <1>4. PackInv'
    BY <1>1 DEF TypeOK, PackInv, PackSteps, ReservedSteps
  <1>5. IndexMatchesPack' /\ LooseComplete' /\ KeptInv'
    BY <1>1 DEF IndexMatchesPack, LooseComplete, KeptInv, InPack, Stored
  <1> QED BY <1>2, <1>3, <1>4, <1>5

\* The invariant is inductive.
LEMMA NextIInv == ~ForcePack /\ IInv /\ [Next]_vars => IInv'
  <1> SUFFICES ASSUME ~ForcePack, IInv, [Next]_vars PROVE IInv'
    OBVIOUS
  <1>1. CASE Next
    BY <1>1, StoreIInv, PackIInv, ExplodeIInv, GcIInv, StopIInv DEF Next
  <1>2. CASE UNCHANGED vars
    BY <1>2 DEF vars, disk, IInv, TypeOK, ExclusionInv, StoreInv, PackInv, ExplodeInv, GcInv,
       IndexMatchesPack, LooseComplete, KeptInv, InPack, Stored
  <1> QED BY <1>1, <1>2

-----------------------------------------------------------------------------
\* Every reachable state of a repository without forced packs satisfies the
\* invariant.
THEOREM SpecIInv == ~ForcePack /\ Spec => []IInv
  <1> DEFINE J == ~ForcePack /\ IInv
  <1>1. ~ForcePack /\ Init => J
    BY InitIInv
  <1>2. J /\ [Next]_vars => J'
    BY NextIInv
  <1>3. J => IInv
    OBVIOUS
  <1> HIDE DEF J
  <1> QED BY <1>1, <1>2, <1>3, PTL DEF Spec

\* store, pack, explode and gc keep every file and every job in its type.
THEOREM TypeCorrect == ~ForcePack /\ Spec => []TypeOK
  <1>1. IInv => TypeOK
    BY DEF IInv
  <1> QED BY <1>1, SpecIInv, PTL

\* However create_pack_impl is interrupted or overlapped, a .pack.idx that can be
\* loaded describes the .pack beside it (IndexMatchesPack).
THEOREM PublishedPairsMatch == ~ForcePack /\ Spec => []IndexMatchesPack
  <1>1. IInv => IndexMatchesPack
    BY DEF IInv
  <1> QED BY <1>1, SpecIInv, PTL

\* A loose snapshot that can be found has all of its objects (LooseComplete).
THEOREM NoDanglingSnapshot == ~ForcePack /\ Spec => []LooseComplete
  <1>1. IInv => LooseComplete
    BY DEF IInv
  <1> QED BY <1>1, SpecIInv, PTL

\* What store reported as stored can be read back for ever (ContentSurvives): it
\* is still the tag's loose snapshot, whose objects are there, or in a pack that
\* matches its index.
THEOREM NoDataLoss == ~ForcePack /\ Spec => []ContentSurvives
  <1>1. ASSUME IInv PROVE ContentSurvives
    <2> SUFFICES ASSUME NEW t \in Tags, promised[t] # Absent
                 PROVE  Retrievable(promised[t])
      BY DEF ContentSurvives
    <2>1. CASE loose[t] = promised[t]
      <3>1. t \in Stored
        BY <1>1, <2>1 DEF IInv, TypeOK, Stored
      <3>2. promised[t] \subseteq objects \ corrupt
        BY <1>1, <2>1, <3>1 DEF IInv, LooseComplete
      <3> QED BY <2>1, <3>1, <3>2 DEF Retrievable
    <2>2. CASE InPack(promised[t])
      BY <1>1, <2>2 DEF IInv, IndexMatchesPack, InPack, Retrievable
    <2> QED BY <1>1, <2>1, <2>2 DEF IInv, KeptInv
  <1> QED BY <1>1, SpecIInv, PTL

-----------------------------------------------------------------------------
\* Without --force, packing never changes a .pack or a .pack.idx that is there
\* (PackedIsKept): AtomicCreateFile refuses both, and between the check and the
\* rename the reservation keeps other packs out.
THEOREM PackedNeverReplaced == ~ForcePack /\ Spec => PackedIsKept
  <1> DEFINE Kept == \A n \in Packs : /\ packFile[n] \notin Empty => packFile'[n] = packFile[n]
                                      /\ packIdx[n] \in Builds => packIdx'[n] = packIdx[n]
  <1>1. ASSUME IInv, [Next]_vars PROVE Kept
    <2> USE <1>1 DEF IInv
    <2>1. CASE UNCHANGED <<packFile, packIdx>>
      BY <2>1
    <2>2. ASSUME NEW p \in Procs, PackReserve(p) PROVE Kept
      BY <2>2 DEF PackReserve, TypeOK
    <2>3. ASSUME NEW p \in Procs, PackClaim(p) PROVE Kept
      BY <2>3 DEF PackClaim, TypeOK
    <2>4. ASSUME NEW p \in Procs, PackPublish(p) PROVE Kept
      BY <2>4 DEF PackPublish, PackInv, PackSteps, TypeOK, Empty
    <2>5. ASSUME NEW p \in Procs, PackPublishIdx(p) PROVE Kept
      BY SMTT(30), <2>5, ValuesNotEmpty DEF PackPublishIdx, PackInv, ReservedSteps, TypeOK
    <2>6. ASSUME NEW p \in Procs,
                 \/ StoreStep(p) \/ ExplodeStep(p) \/ GcStep(p) \/ Stop(p)
          PROVE  UNCHANGED <<packFile, packIdx>>
      BY <2>6 DEF StoreStep, StoreBegin, StoreObject, StoreCommit, StoreHead, ExplodeStep,
         ExplodeBegin, ExplodeOpen, ExplodeEnd, ExplodeObject, GcStep, GcBegin, GcDeletePack,
         GcMark, GcEnd, GcDeleteObject, Stop, disk
    <2>7. ASSUME NEW p \in Procs, PackStep(p) PROVE Kept
      <3>1. CASE \/ \E n \in Packs, S \in SUBSET Tags, force \in BOOLEAN : PackBegin(p, n, S, force)
                 \/ PackCompress(p) \/ PackReadHead(p) \/ PackWriteHead(p)
        BY <2>1, <3>1 DEF PackBegin, PackCompress, PackReadHead, PackWriteHead, disk
      <3> QED BY <2>2, <2>3, <2>4, <2>5, <2>7, <3>1 DEF PackStep
    <2> QED BY <1>1, <2>1, <2>6, <2>7 DEF Next, vars, disk
  <1>2. IInv /\ [Next]_vars => [Kept]_vars
    BY <1>1
  <1>3. ~ForcePack /\ Spec => [][Kept]_vars
    BY <1>2, SpecIInv, PTL DEF Spec
  <1> QED BY <1>3 DEF PackedIsKept

\* HEAD is only ever set to a snapshot whose index is there (HeadUpdateResolves):
\* store has committed the loose index, and pack the index of the pack, before
\* they write it, and nobody else can have deleted or replaced it since.
THEOREM HeadNamesSnapshot == ~ForcePack /\ Spec => HeadUpdateResolves
  <1> DEFINE Good == head' # head => Resolves(head)'
  <1>1. ASSUME IInv, [Next]_vars PROVE Good
    <2> USE <1>1 DEF IInv
    <2>1. ASSUME NEW p \in Procs, StoreHead(p) PROVE Good
      <3>1. PICK t \in DOMAIN job[p].build : head' = <<Loose, t>>
        BY <2>1 DEF StoreHead
      <3>2. t \in Tags /\ loose[t] \in Contents
        <4>1. job[p].build \in Singles /\ loose[t] = job[p].build[t]
          BY <2>1 DEF StoreHead, StoreInv
        <4>2. PICK s \in Tags : DOMAIN job[p].build = {s} /\ job[p].build[s] \in Contents
          BY <4>1, SinglesType
        <4>3. t = s
          BY <4>2
        <4> QED BY <4>1, <4>2, <4>3
      <3> QED BY <2>1, <3>1, <3>2 DEF StoreHead, Resolves, Stored
    <2>2. ASSUME NEW p \in Procs, PackWriteHead(p) PROVE Good
      <3>1. PICK t \in job[p].tags : head' = <<job[p].dest, t>>
        BY <2>2 DEF PackWriteHead
      <3>2. /\ job[p].dest \in Packs /\ packIdx[job[p].dest] \in Builds
            /\ t \in DOMAIN packIdx[job[p].dest]
        BY <2>2 DEF PackWriteHead, PackInv, PackSteps
      <3> QED BY <2>2, <3>1, <3>2 DEF PackWriteHead, Resolves
    <2>3. ASSUME NEW p \in Procs, PackStep(p), ~PackWriteHead(p) PROVE UNCHANGED head
      BY <2>3 DEF PackStep, PackBegin, PackReserve, PackCompress, PackClaim, PackPublish,
         PackPublishIdx, PackReadHead, disk
    <2>4. ASSUME NEW p \in Procs, StoreStep(p), ~StoreHead(p) PROVE UNCHANGED head
      BY <2>4 DEF StoreStep, StoreBegin, StoreObject, StoreCommit
    <2>5. ASSUME NEW p \in Procs, ExplodeStep(p) \/ GcStep(p) \/ Stop(p) PROVE UNCHANGED head
      BY <2>5 DEF ExplodeStep, ExplodeBegin, ExplodeOpen, ExplodeEnd, ExplodeObject, GcStep,
         GcBegin, GcDeletePack, GcMark, GcEnd, GcDeleteObject, Stop, disk
    <2> QED BY <1>1, <2>1, <2>2, <2>3, <2>4, <2>5 DEF Next, vars, disk
  <1>2. IInv /\ [Next]_vars => [Good]_vars
    BY <1>1
  <1>3. ~ForcePack /\ Spec => [][Good]_vars
    BY <1>2, SpecIInv, PTL DEF Spec
  <1> QED BY <1>3 DEF HeadUpdateResolves
-----------------------------------------------------------------------------
(* PackRepo implements SnapshotArchive                                     *)

\* A loose snapshot is what was stored last under its tag, and so is what a
\* running pack has read of it: no store can come in between.
ArchiveInv ==
    /\ \A t \in Stored : loose[t] = promised[t]
    /\ \A p \in Procs : job[p].at \in PackSteps =>
          \A t \in DOMAIN job[p].build : job[p].build[t] = promised[t]

\* Only the begin and the commit of a store, the begin of a pack and gc bear on
\* ArchiveInv.
LEMMA NextArchiveInv ==
    ASSUME ~ForcePack, IInv, ArchiveInv, [Next]_vars
    PROVE  ArchiveInv'
  <1> USE DEF IInv
  <1>1. ASSUME UNCHANGED <<loose, promised>>, NEW p \in Procs,
               \A q \in Procs : q # p => job'[q] = job[q],
               job'[p].at \in PackSteps => job[p].at \in PackSteps /\ job'[p].build = job[p].build
        PROVE  ArchiveInv'
    BY <1>1 DEF ArchiveInv, Stored
  <1>2. ASSUME NEW p \in Procs, NEW t \in Tags, NEW c \in Contents, NEW force \in BOOLEAN,
               StoreBegin(p, t, c, force)
        PROVE  ArchiveInv'
    <2>1. \A q \in Procs : job'[q].at \notin PackSteps
      BY <1>2 DEF StoreBegin, MayExclude, IdleJob, PackSteps, TypeOK
    <2>2. \A s \in Stored' : loose'[s] = loose[s] /\ s \in Stored
      BY <1>2, ValuesNotEmpty DEF StoreBegin, Stored, TypeOK
    <2> QED BY <1>2, <2>1, <2>2 DEF ArchiveInv, StoreBegin
  <1>3. ASSUME NEW p \in Procs, StoreCommit(p) PROVE ArchiveInv'
    <2>1. PICK t \in DOMAIN job[p].build :
             /\ loose' = [loose EXCEPT ![t] = job[p].build[t]]
             /\ promised' = [promised EXCEPT ![t] = job[p].build[t]]
      BY <1>3 DEF StoreCommit
    <2>2. \A q \in Procs : job'[q].at \notin PackSteps
      BY <1>3 DEF StoreCommit, Step, ExclusionInv, ExclusiveSteps, PackSteps, TypeOK
    <2> QED BY <2>1, <2>2 DEF ArchiveInv, Stored, TypeOK
  <1>4. ASSUME NEW p \in Procs, NEW n \in Packs, NEW S \in SUBSET Tags, NEW force \in BOOLEAN,
               PackBegin(p, n, S, force)
        PROVE  ArchiveInv'
    <2>1. \A q \in Procs : q # p => job'[q] = job[q]
      BY <1>4 DEF PackBegin, TypeOK
    <2>2. job'[p].build = [t \in S |-> loose[t]] /\ S \subseteq Stored
      BY <1>4 DEF PackBegin, IdleJob, TypeOK
    <2>3. UNCHANGED <<loose, promised>>
      BY <1>4 DEF PackBegin, disk
    <2>4. \A t \in DOMAIN job'[p].build : job'[p].build[t] = promised[t]
      BY <2>2 DEF ArchiveInv
    <2> QED BY <2>1, <2>3, <2>4 DEF ArchiveInv, Stored
  <1>5. ASSUME NEW p \in Procs, NEW t \in Tags, GcDeletePack(p, t) PROVE ArchiveInv'
    <2>1. \A s \in Stored' : loose'[s] = loose[s] /\ s \in Stored
      BY <1>5, ValuesNotEmpty DEF GcDeletePack, Stored, TypeOK
    <2>2. \A q \in Procs : job'[q].at = job[q].at /\ job'[q].build = job[q].build
      BY <1>5 DEF GcDeletePack, TypeOK
    <2> QED BY <1>5, <2>1, <2>2 DEF ArchiveInv, GcDeletePack
  <1>6. ASSUME NEW p \in Procs, NEW o \in Objects, StoreObject(p, o) PROVE ArchiveInv'
    BY <1>1, <1>6 DEF StoreObject, TypeOK
  <1>7. ASSUME NEW p \in Procs, StoreHead(p) \/ Stop(p) PROVE ArchiveInv'
    BY <1>1, <1>7 DEF StoreHead, Stop, Return, IdleJob, PackSteps, TypeOK
  <1>8. ASSUME NEW p \in Procs, PackStep(p),
               \A n \in Packs, S \in SUBSET Tags, force \in BOOLEAN : ~PackBegin(p, n, S, force)
        PROVE  ArchiveInv'
    <2>1. UNCHANGED <<loose, promised>>
      BY <1>8 DEF PackStep, PackReserve, PackCompress, PackClaim, PackPublish, PackPublishIdx,
         PackReadHead, PackWriteHead, disk
    <2>2. CASE PackReadHead(p) /\ HeadPacked(p)
      <3>1. job' = [job EXCEPT ![p].at = "heading", ![p].tags = {head[2]}]
        BY <2>2 DEF PackReadHead
      <3>2. job[p].at = "packed" /\ job[p] \in Jobs
        BY <2>2 DEF PackReadHead, TypeOK
      <3>3. job'[p].build = job[p].build
        BY <3>1, <3>2 DEF Jobs, TypeOK
      <3>4. \A q \in Procs : q # p => job'[q] = job[q]
        BY <3>1 DEF TypeOK
      <3> QED BY <1>1, <2>1, <3>2, <3>3, <3>4 DEF PackSteps
    <2>3. CASE (PackReadHead(p) \/ PackWriteHead(p)) /\ job' = [job EXCEPT ![p] = IdleJob]
      BY <1>1, <2>1, <2>3 DEF IdleJob, PackSteps, TypeOK
    <2>4. ASSUME NEW at, job[p].at \in PackSteps, job' = [job EXCEPT ![p].at = at]
          PROVE  ArchiveInv'
      BY <1>1, <2>1, <2>4 DEF TypeOK
    <2>5. CASE \/ PackReserve(p) \/ PackCompress(p) \/ PackClaim(p) \/ PackPublish(p)
               \/ PackPublishIdx(p)
      BY <2>4, <2>5 DEF PackReserve, PackCompress, PackClaim, PackPublish, PackPublishIdx, Step,
         PackSteps
    <2> QED BY <1>8, <2>2, <2>3, <2>5 DEF PackStep, PackReadHead, PackWriteHead, Return
  <1>9. ASSUME NEW p \in Procs, ExplodeStep(p) PROVE ArchiveInv'
    <2>1. UNCHANGED <<loose, promised>>
      BY <1>9 DEF ExplodeStep, ExplodeBegin, ExplodeOpen, ExplodeObject, ExplodeEnd, disk
    <2>2. \A q \in Procs : q # p => job'[q] = job[q]
      BY <1>9 DEF ExplodeStep, ExplodeBegin, ExplodeOpen, ExplodeObject, ExplodeEnd, Step, Return,
         TypeOK
    <2>3. job'[p].at \notin PackSteps
      <3>1. ASSUME NEW n \in Packs, ExplodeBegin(p, n) PROVE job'[p].at \notin PackSteps
        BY <3>1 DEF ExplodeBegin, IdleJob, PackSteps, TypeOK
      <3>2. CASE ExplodeOpen(p)
        <4>1. PICK at \in {"unpacking", "garbling"} : job' = [job EXCEPT ![p].at = at]
          BY <3>2 DEF ExplodeOpen, Step
        <4> QED BY <4>1 DEF Jobs, TypeOK, PackSteps
      <3>3. CASE ExplodeEnd(p)
        BY <3>3 DEF ExplodeEnd, Return, IdleJob, PackSteps, TypeOK
      <3>4. ASSUME NEW o \in Objects, ExplodeObject(p, o) PROVE job'[p].at \notin PackSteps
        BY <3>4 DEF ExplodeObject, PackSteps, TypeOK
      <3> QED BY <1>9, <3>1, <3>2, <3>3, <3>4 DEF ExplodeStep
    <2> QED BY <1>1, <2>1, <2>2, <2>3
  <1>10. ASSUME NEW p \in Procs, GcStep(p), \A t \in Tags : ~GcDeletePack(p, t)
         PROVE  ArchiveInv'
    <2>1. UNCHANGED <<loose, promised>>
      BY <1>10 DEF GcStep, GcBegin, GcMark, GcEnd, GcDeleteObject, disk
    <2>2. \A q \in Procs : q # p => job'[q] = job[q]
      BY <1>10 DEF GcStep, GcBegin, GcMark, GcEnd, GcDeleteObject, Return, TypeOK
    <2>3. job'[p].at \notin PackSteps
      <3>1. ASSUME NEW s \in BOOLEAN, NEW o \in BOOLEAN, GcBegin(p, s, o)
            PROVE  job'[p].at \notin PackSteps
        BY <3>1 DEF GcBegin, IdleJob, PackSteps, TypeOK
      <3>2. CASE GcMark(p)
        <4>1. PICK objs : job' = [job EXCEPT ![p].at = "sweeping", ![p].objs = objs]
          BY <3>2 DEF GcMark
        <4> QED BY <4>1 DEF Jobs, TypeOK, PackSteps
      <3>3. CASE GcEnd(p)
        BY <3>3 DEF GcEnd, Return, IdleJob, PackSteps, TypeOK
      <3>4. ASSUME NEW o \in Objects, GcDeleteObject(p, o) PROVE job'[p].at \notin PackSteps
        BY <3>4 DEF GcDeleteObject, PackSteps, TypeOK
      <3> QED BY <1>10, <3>1, <3>2, <3>3, <3>4 DEF GcStep
    <2> QED BY <1>1, <2>1, <2>2, <2>3
  <1>11. CASE UNCHANGED vars
    BY <1>11 DEF vars, disk, ArchiveInv, Stored
  <1> QED BY <1>2, <1>3, <1>4, <1>5, <1>6, <1>7, <1>8, <1>9, <1>10, <1>11 DEF Next, StoreStep

\* Every step is a step of SnapshotArchive or changes nothing it shows: StoreCommit
\* is Store and PackPublishIdx is Pack.
LEMMA StepSimulation ==
    ASSUME ~ForcePack, IInv, ArchiveInv, [Next]_vars
    PROVE  [Archive!Next]_(Archive!vars)
  <1> USE DEF IInv
  <1>1. ASSUME NEW p \in Procs, StoreCommit(p) PROVE Archive!Next
    <2>1. PICK t \in DOMAIN job[p].build : promised' = [promised EXCEPT ![t] = job[p].build[t]]
      BY <1>1 DEF StoreCommit
    <2>2. t \in Tags /\ job[p].build[t] \in Contents
      <3>1. job[p].build \in Singles
        BY <1>1 DEF StoreCommit, StoreInv
      <3> QED BY <2>1, <3>1, SinglesType
    <2>3. Visible' = Visible
      BY <1>1 DEF StoreCommit, Visible
    <2> QED BY <2>1, <2>2, <2>3 DEF Archive!Next, Archive!Store
  <1>2. ASSUME NEW p \in Procs, PackPublishIdx(p) PROVE Archive!Next
    <2> DEFINE n == job[p].dest
               b == job[p].build
               S == DOMAIN b
    <2>1. n \in Packs /\ b \in Builds /\ packIdx[n] = Reserved
      BY <1>2 DEF PackPublishIdx, PackInv, PackSteps, ReservedSteps
    <2>2. S \in SUBSET Tags /\ S # {} /\ b = [t \in S |-> b[t]]
      <3>1. PICK D \in (SUBSET Tags) \ {{}} : b \in [D -> Contents]
        BY <2>1 DEF Builds
      <3> QED BY <3>1
    <2>3. \A t \in S : b[t] = promised[t] /\ promised[t] # Absent
      BY <1>2, <2>1, BuildsType, ValuesNotEmpty DEF PackPublishIdx, ArchiveInv, PackSteps
    <2>4. Visible[n] = Absent
      BY <2>1, ValuesNotEmpty DEF Visible
    <2>5. Visible' = [Visible EXCEPT ![n] = b]
      BY <1>2, <2>1 DEF PackPublishIdx, Visible, TypeOK
    <2>6. b = [t \in S |-> promised[t]]
      BY <2>2, <2>3
    <2>7. UNCHANGED promised
      BY <1>2 DEF PackPublishIdx
    <2> HIDE DEF n, b, S
    <2>8. Archive!Pack(n, S)
      BY <2>2, <2>3, <2>4, <2>5, <2>6, <2>7 DEF Archive!Pack
    <2> QED BY <2>1, <2>2, <2>8 DEF Archive!Next
  <1>3. ASSUME NEW p \in Procs, PackReserve(p) PROVE UNCHANGED <<promised, Visible>>
    <2>1. \A n \in Packs : IF packIdx'[n] \in Builds THEN packIdx'[n] = packIdx[n]
                           ELSE packIdx[n] \notin Builds
      BY <1>3, ValuesNotEmpty DEF PackReserve, TypeOK
    <2>2. Visible' = Visible
      BY <2>1 DEF Visible
    <2> QED BY <1>3, <2>2 DEF PackReserve
  <1>4. ASSUME NEW p \in Procs,
               \/ StoreStep(p) /\ ~StoreCommit(p)
               \/ PackStep(p) /\ ~PackReserve(p) /\ ~PackPublishIdx(p)
               \/ ExplodeStep(p) \/ GcStep(p) \/ Stop(p)
        PROVE  UNCHANGED <<promised, packIdx>>
    BY <1>4 DEF StoreStep, StoreBegin, StoreObject, StoreHead, PackStep, PackBegin, PackCompress,
       PackClaim, PackPublish, PackReadHead, PackWriteHead, ExplodeStep, ExplodeBegin, ExplodeOpen,
       ExplodeEnd, ExplodeObject, GcStep, GcBegin, GcDeletePack, GcMark, GcEnd, GcDeleteObject, Stop,
       disk
  <1>5. CASE UNCHANGED <<promised, packIdx>>
    BY <1>5 DEF Archive!vars, Visible
  <1>6. CASE UNCHANGED <<promised, Visible>>
    BY <1>6 DEF Archive!vars
  <1> QED BY <1>1, <1>2, <1>3, <1>4, <1>5, <1>6 DEF Next, vars, disk

\* store, pack, explode and gc take effect at once, at the rename of an index
\* (ImplementsArchive).
THEOREM Refinement == ~ForcePack /\ Spec => ImplementsArchive
  <1> DEFINE J == ~ForcePack /\ IInv /\ ArchiveInv
  <1>1. Init => Archive!Init
    BY ValuesNotEmpty DEF Init, Archive!Init, Visible
  <1>2. Init => ArchiveInv
    BY ValuesNotEmpty DEF Init, ArchiveInv, Stored, IdleJob, PackSteps
  <1>3. ~ForcePack /\ Init => J
    BY <1>2, InitIInv
  <1>4. J /\ [Next]_vars => J'
    BY NextIInv, NextArchiveInv
  <1>5. J /\ [Next]_vars => [Archive!Next]_(Archive!vars)
    BY StepSimulation
  <1> HIDE DEF J
  <1> QED BY <1>1, <1>3, <1>4, <1>5, PTL DEF Spec, ImplementsArchive, Archive!Spec
=============================================================================
