-------------------------- MODULE EsiCommitProofs ---------------------------
(***************************************************************************)
(* Proofs about EsiCommit for any processes, documents, commands, bounds   *)
(* and contents.                                                           *)
(*                                                                         *)
(* All that the properties rest on is local to one process: the names it   *)
(* staged are different (StagedInv), and the files it owns are those it    *)
(* has renamed so far, in order (PlacedInv).  A step of another process    *)
(* only takes names out of what a process owns (Interference), so the rest *)
(* of the proof is about the process that makes the step.                  *)
(***************************************************************************)
EXTENDS EsiCommit, SequenceTheorems, TLAPS

Steps == {"idle", "loading", "staging", "publishing", "rollback",
          "succeeded", "failed", "killed"}

\* Contents for some of the names.
Partial == UNION {[S -> Contents] : S \in SUBSET Names}

Jobs == [at : Steps, cmd : Commands \cup {None}, loaded : Seq(Documents), stage : SUBSET Nat,
         order : Seq(Names), pos : Nat, orig : Partial, repl : Partial, error : BOOLEAN]

TypeInv ==
    /\ file \in [Names -> Contents]
    /\ job \in [Procs -> Jobs]
    /\ late \in [Procs -> SUBSET Names]
    /\ started \in Nat
    /\ faults \in Nat

\* The names that may be written for one target of a command.
NamesOf(c, i) == {c.targets[i]} \cup (IF c.backup THEN {BackupOf[c.targets[i]]} ELSE {})

\* A command that runs has been given; while it loads it has staged nothing; the
\* targets it has left to stage were loaded, and no two of them share a name.
CommandInv(p) ==
    /\ job[p].at # "idle" => job[p].cmd \in Commands
    /\ job[p].at \in {"idle", "loading"} =>
          /\ job[p].order = <<>> /\ DOMAIN job[p].orig = {} /\ DOMAIN job[p].repl = {}
          /\ job[p].pos = 0
    /\ job[p].at = "loading" => Len(job[p].loaded) <= Len(job[p].cmd.targets)
    /\ job[p].at = "staging" =>
          /\ Valid(job[p].cmd.targets, job[p].cmd.backup)
          /\ job[p].stage \subseteq 1..Len(job[p].loaded)
          /\ job[p].stage \subseteq 1..Len(job[p].cmd.targets)
          /\ \A n \in DOMAIN job[p].orig :
                \E j \in 1..Len(job[p].cmd.targets) :
                    j \notin job[p].stage /\ n \in NamesOf(job[p].cmd, j)

\* What is staged: every name once, a backup right before its document and with the
\* content that was found in the document.
StagedInv(p) ==
    job[p].at \in {"staging", "publishing", "rollback"} =>
        /\ DOMAIN job[p].repl = DOMAIN job[p].orig
        /\ \A n \in DOMAIN job[p].orig : \E k \in 1..Len(job[p].order) : job[p].order[k] = n
        /\ \A k \in 1..Len(job[p].order) : job[p].order[k] \in DOMAIN job[p].orig
        /\ \A k, l \in 1..Len(job[p].order) : job[p].order[k] = job[p].order[l] => k = l
        /\ job[p].pos <= Len(job[p].order)
        /\ job[p].at = "staging" => job[p].pos = 0
        /\ job[p].cmd.backup => \A i \in 1..Len(job[p].cmd.targets) :
              LET doc == job[p].cmd.targets[i]
                  bak == BackupOf[doc]
              IN  {doc, bak} \subseteq DOMAIN job[p].orig =>
                      /\ job[p].repl[bak] = job[p].orig[doc]
                      /\ \E k \in 1..Len(job[p].order) :
                            /\ k + 1 \in 1..Len(job[p].order)
                            /\ job[p].order[k] = bak /\ job[p].order[k + 1] = doc

\* Of the files that nobody else has written since, the first pos are replaced and
\* the others are as they were found, unless restoring one has failed.
PlacedInv(p) ==
    job[p].at \in {"staging", "publishing", "rollback"} =>
        \A k \in 1..Len(job[p].order) : job[p].order[k] \notin late[p] =>
            LET n == job[p].order[k] IN
            /\ k <= job[p].pos => file[n] = job[p].repl[n]
            /\ k > job[p].pos /\ ~(job[p].at = "rollback" /\ job[p].error) =>
                  file[n] = job[p].orig[n]

\* AllOrNothing and ReplacedIsBackedUp for one process.
OutcomeInv(p) ==
    \A n \in Own(p) :
        /\ job[p].at = "succeeded" => file[n] = job[p].repl[n]
        /\ job[p].at = "failed" /\ ~job[p].error => file[n] = job[p].orig[n]

BackupInv(p) ==
    job[p].at # "idle" /\ job[p].cmd.backup /\ ~job[p].error =>
        \A i \in DOMAIN job[p].cmd.targets :
            LET doc == job[p].cmd.targets[i]
                bak == BackupOf[doc]
            IN  {doc, bak} \subseteq Own(p) /\ file[doc] # job[p].orig[doc] =>
                    file[bak] = job[p].orig[doc]

LocalInv(p) == CommandInv(p) /\ StagedInv(p) /\ PlacedInv(p) /\ OutcomeInv(p) /\ BackupInv(p)

\* The inductive invariant.
IInv == TypeInv /\ \A p \in Procs : LocalInv(p)

-----------------------------------------------------------------------------
(* Documents and names                                                     *)

\* Document::create, add and remove return a document or refuse.
LEMMA EditedType ==
    ASSUME NEW c \in Commands, NEW doc \in Documents
    PROVE  Edited(c, doc) \in Contents
  <1>1. PICK S \in SUBSET Urls : doc \in [S -> Digests]
    BY DEF Documents
  <1>2. c.kind \in {"create", "add", "remove"} /\ c.url \in Urls /\ c.digest \in Digests
    BY EsiCommitAssumption
  <1>3. Create \in [{} -> Digests]
    BY DEF Create
  <1>4. [u \in (DOMAIN doc) \cup {c.url} |-> IF u = c.url THEN c.digest ELSE doc[u]]
            \in [S \cup {c.url} -> Digests]
    BY <1>1, <1>2
  <1>5. [u \in (DOMAIN doc) \ {c.url} |-> doc[u]] \in [S \ {c.url} -> Digests]
    BY <1>1, <1>2
  <1>6. /\ {} \in SUBSET Urls /\ S \cup {c.url} \in SUBSET Urls
        /\ S \ {c.url} \in SUBSET Urls
    BY <1>1, <1>2
  <1>7. /\ Create \in Documents
        /\ [u \in (DOMAIN doc) \cup {c.url} |-> IF u = c.url THEN c.digest ELSE doc[u]] \in Documents
        /\ [u \in (DOMAIN doc) \ {c.url} |-> doc[u]] \in Documents
    BY <1>3, <1>4, <1>5, <1>6 DEF Documents
  <1>8. /\ AddEntry(doc, c.url, c.digest, c.force) \in Contents
        /\ RemoveEntry(doc, c.url, c.force) \in Contents
    BY <1>7 DEF AddEntry, RemoveEntry, Contents
  <1> QED BY <1>2, <1>7, <1>8 DEF Edited, Contents

\* The targets of a command and their backups are names.
LEMMA TargetNames ==
    ASSUME NEW c \in Commands, NEW i \in 1..Len(c.targets)
    PROVE  /\ c.targets[i] \in Names
           /\ BackupOf[c.targets[i]] \in Names
           /\ Len(c.targets) \in Nat /\ DOMAIN c.targets = 1..Len(c.targets)
           /\ c.backup \in BOOLEAN
  <1>1. c.targets \in Seq(DOMAIN BackupOf) /\ c.backup \in BOOLEAN
    BY EsiCommitAssumption
  <1>2. c.targets[i] \in DOMAIN BackupOf
    BY <1>1
  <1> QED BY <1>1, <1>2, EsiCommitAssumption

\* The names of different targets are different: validate_document_writes.
LEMMA TargetsApart ==
    ASSUME NEW c \in Commands, Valid(c.targets, c.backup),
           NEW i \in 1..Len(c.targets), NEW j \in 1..Len(c.targets)
    PROVE  /\ i # j => NamesOf(c, i) \cap NamesOf(c, j) = {}
           /\ c.backup => BackupOf[c.targets[i]] # c.targets[i]
  <1>1. DOMAIN c.targets = 1..Len(c.targets) /\ c.backup \in BOOLEAN
    BY TargetNames
  <1>2. i # j => c.targets[i] # c.targets[j]
    BY <1>1 DEF Valid, IsInjective
  <1>3. CASE ~c.backup
    BY <1>2, <1>3 DEF NamesOf
  <1>4. CASE c.backup
    <2>1. BackupOf[c.targets[i]] # c.targets[j] /\ BackupOf[c.targets[j]] # c.targets[i]
      BY <1>1, <1>4 DEF Valid
    <2>2. BackupOf[c.targets[i]] # c.targets[i]
      BY <1>1, <1>4 DEF Valid
    <2>3. i # j => BackupOf[c.targets[i]] # BackupOf[c.targets[j]]
      BY <1>1, <1>4 DEF Valid, IsInjective
    <2> QED BY <1>2, <1>4, <2>1, <2>2, <2>3 DEF NamesOf
  <1> QED BY <1>1, <1>3, <1>4

-----------------------------------------------------------------------------
\* A step that leaves a command alone, and the files it owns, keeps its part of the
\* invariant.
LEMMA Interference ==
    ASSUME NEW p \in Procs, LocalInv(p),
           job'[p] = job[p],
           late[p] \subseteq late'[p],
           \A n \in (DOMAIN job[p].orig) \ late'[p] : file'[n] = file[n]
    PROVE  LocalInv(p)'
  <1>1. CommandInv(p)' /\ StagedInv(p)'
    BY DEF LocalInv, CommandInv, StagedInv
  <1>2. PlacedInv(p)'
    BY SMTT(30) DEF LocalInv, StagedInv, PlacedInv
  <1>3. OutcomeInv(p)' /\ BackupInv(p)'
    BY DEF LocalInv, OutcomeInv, BackupInv, Own
  <1> QED BY <1>1, <1>2, <1>3 DEF LocalInv

\* A write of one process is late for the others that staged the name.
LEMMA WriteInterference ==
    ASSUME TypeInv, NEW p \in Procs, NEW q \in Procs, q # p, NEW n \in Names, NEW v \in Contents,
           Write(p, n, v), job'[q] = job[q], LocalInv(q)
    PROVE  LocalInv(q)'
  <1>1. late[q] \subseteq late'[q]
    BY DEF Write, TypeInv
  <1>2. \A m \in (DOMAIN job[q].orig) \ late'[q] : file'[m] = file[m]
    BY DEF Write, TypeInv
  <1> QED BY <1>1, <1>2, Interference

\* Initially no process has a command.
LEMMA InitIInv == Init => IInv
  <1> SUFFICES ASSUME Init PROVE IInv
    OBVIOUS
  <1>1. <<>> \in Partial
    <2>1. <<>> \in [{} -> Contents]
      OBVIOUS
    <2> QED BY <2>1 DEF Partial
  <1>2. TypeInv
    BY <1>1, EsiCommitAssumption DEF Init, TypeInv, IdleJob, Jobs, Steps
  <1>3. ASSUME NEW p \in Procs PROVE LocalInv(p)
    BY <1>3 DEF Init, IdleJob, LocalInv, CommandInv, StagedInv, PlacedInv, OutcomeInv, BackupInv, Own
  <1> QED BY <1>2, <1>3 DEF IInv

-----------------------------------------------------------------------------
\* What Goto changes and leaves.
LEMMA GotoFields ==
    ASSUME TypeInv, NEW p \in Procs, NEW at \in Steps, Goto(p, at)
    PROVE  /\ job' \in [Procs -> Jobs]
           /\ job'[p].at = at /\ job'[p].cmd = job[p].cmd /\ job'[p].loaded = job[p].loaded
           /\ job'[p].stage = job[p].stage /\ job'[p].order = job[p].order
           /\ job'[p].pos = job[p].pos /\ job'[p].orig = job[p].orig
           /\ job'[p].repl = job[p].repl /\ job'[p].error = job[p].error
           /\ \A q \in Procs : q # p => job'[q] = job[q]
  <1>1. job \in [Procs -> Jobs] /\ job' = [job EXCEPT ![p].at = at]
    BY DEF TypeInv, Goto
  <1> QED BY <1>1 DEF Jobs

\* A step that changes only the job of one process keeps the invariant if that
\* process does.
LEMMA OthersKeep ==
    ASSUME IInv, NEW p \in Procs, UNCHANGED file,
           job' \in [Procs -> Jobs], late' \in [Procs -> SUBSET Names],
           started' \in Nat, faults' \in Nat,
           \A q \in Procs : q # p => job'[q] = job[q] /\ late'[q] = late[q],
           LocalInv(p)'
    PROVE  IInv'
  <1>1. \A q \in Procs : q # p => LocalInv(q)'
    BY Interference DEF IInv
  <1>2. TypeInv'
    BY DEF IInv, TypeInv
  <1> QED BY <1>1, <1>2 DEF IInv

\* Starting a command, loading and editing keep the invariant.
LEMMA LoadIInv ==
    ASSUME IInv, NEW p \in Procs,
           \/ \E c \in Commands : Begin(p, c)
           \/ CreateCheck(p) \/ LoadDocument(p) \/ Edit(p)
    PROVE  IInv'
  <1> USE DEF IInv
  <1>0. <<>> \in Partial /\ <<>> \in Documents
    <2>1. <<>> \in [{} -> Contents] /\ <<>> \in [{} -> Digests]
      OBVIOUS
    <2> QED BY <2>1 DEF Partial, Documents
  <1>1. ASSUME NEW c \in Commands, Begin(p, c)
        PROVE  IInv'
    <2>1. /\ job' \in [Procs -> Jobs]
          /\ job'[p].at = "loading" /\ job'[p].cmd = c /\ job'[p].loaded = <<>>
          /\ job'[p].order = <<>> /\ job'[p].pos = 0
          /\ job'[p].orig = <<>> /\ job'[p].repl = <<>>
          /\ \A q \in Procs : q # p => job'[q] = job[q]
      <3> DEFINE r == [IdleJob EXCEPT !.at = "loading", !.cmd = c]
      <3>1. IdleJob \in Jobs
        BY <1>0 DEF IdleJob, Jobs, Steps
      <3>2. r \in Jobs
        BY <3>1 DEF Jobs, Steps
      <3>3. /\ r.at = "loading" /\ r.cmd = c /\ r.loaded = <<>> /\ r.order = <<>>
            /\ r.pos = 0 /\ r.orig = <<>> /\ r.repl = <<>>
        BY DEF IdleJob
      <3>4. job' = [job EXCEPT ![p] = r]
        BY <1>1 DEF Begin
      <3> HIDE DEF r
      <3> QED BY <3>2, <3>3, <3>4 DEF TypeInv
    <2>2. /\ late' = [late EXCEPT ![p] = {}] /\ started' = started + 1
          /\ UNCHANGED <<file, faults>>
      BY <1>1 DEF Begin
    <2>3. Len(c.targets) \in Nat
      BY EsiCommitAssumption
    <2>4. LocalInv(p)'
      BY <2>1, <2>3 DEF LocalInv, CommandInv, StagedInv, PlacedInv, OutcomeInv, BackupInv, Own
    <2> QED BY <2>1, <2>2, <2>4, OthersKeep DEF TypeInv
  <1>2. ASSUME Goto(p, "failed"), job[p].at = "loading", UNCHANGED <<file, late, started, faults>>
        PROVE  IInv'
    <2>1. "failed" \in Steps
      BY SMTT(30) DEF Steps
    <2>2. LocalInv(p)'
      BY <1>2, <2>1, GotoFields DEF LocalInv, CommandInv, StagedInv, PlacedInv, OutcomeInv, BackupInv, Own
    <2> QED BY <1>2, <2>1, <2>2, GotoFields, OthersKeep DEF TypeInv
  <1>3. ASSUME NEW docs \in Seq(Documents), job' = [job EXCEPT ![p].loaded = docs],
               job[p].at = "loading", Len(docs) <= Len(job[p].cmd.targets),
               UNCHANGED <<file, late, started, faults>>
        PROVE  IInv'
    <2>1. /\ job' \in [Procs -> Jobs]
          /\ job'[p].at = "loading" /\ job'[p].cmd = job[p].cmd /\ job'[p].loaded = docs
          /\ job'[p].order = job[p].order /\ job'[p].pos = job[p].pos
          /\ job'[p].orig = job[p].orig /\ job'[p].repl = job[p].repl
          /\ \A q \in Procs : q # p => job'[q] = job[q]
      BY ZenonT(40), <1>3 DEF TypeInv, Jobs
    <2>2. LocalInv(p)'
      BY <1>3, <2>1 DEF LocalInv, CommandInv, StagedInv, PlacedInv, OutcomeInv, BackupInv, Own
    <2> QED BY <1>3, <2>1, <2>2, OthersKeep DEF TypeInv
  <1>4. ASSUME Loading(p)
        PROVE  /\ job[p].at = "loading" /\ job[p].cmd \in Commands
               /\ job[p].loaded \in Seq(Documents) /\ NextTarget(p) \in Names
               /\ Len(job[p].loaded) + 1 <= Len(job[p].cmd.targets)
    <2>1. job[p].at = "loading" /\ job[p].cmd \in Commands /\ job[p].loaded \in Seq(Documents)
      BY <1>4 DEF Loading, LocalInv, CommandInv, TypeInv, Jobs
    <2>2. Len(job[p].loaded) \in Nat /\ Len(job[p].cmd.targets) \in Nat
      BY <2>1, EsiCommitAssumption
    <2>3. Len(job[p].loaded) + 1 \in 1..Len(job[p].cmd.targets)
      BY SMTT(30), <1>4, <2>2 DEF Loading
    <2> QED BY <2>1, <2>3, TargetNames DEF NextTarget
  <1>5. CASE CreateCheck(p)
    <2>1. Loading(p)
      BY <1>5 DEF CreateCheck
    <2>2. <<<<>>>> \in Seq(Documents) /\ Len(<<<<>>>>) <= Len(job[p].cmd.targets)
      <3>1. Len(job[p].loaded) \in Nat /\ Len(job[p].cmd.targets) \in Nat
        BY <1>4, <2>1, EsiCommitAssumption
      <3> QED BY <1>0, <1>4, <2>1, <3>1
    <2>3. CASE Goto(p, "failed")
      BY <1>2, <1>4, <1>5, <2>1, <2>3 DEF CreateCheck
    <2>4. CASE job' = [job EXCEPT ![p].loaded = <<<<>>>>]
      BY <1>3, <1>4, <1>5, <2>1, <2>2, <2>4 DEF CreateCheck
    <2> QED BY <1>5, <2>3, <2>4 DEF CreateCheck
  <1>6. CASE LoadDocument(p)
    <2>1. Loading(p)
      BY <1>6 DEF LoadDocument
    <2>2. CASE Goto(p, "failed")
      BY <1>2, <1>4, <1>6, <2>1, <2>2 DEF LoadDocument
    <2>3. CASE ~Goto(p, "failed")
      <3> DEFINE docs == Append(job[p].loaded, file[NextTarget(p)])
      <3>1. job' = [job EXCEPT ![p].loaded = docs] /\ IsDocument(file[NextTarget(p)])
        BY <1>6, <2>3 DEF LoadDocument
      <3>2. file[NextTarget(p)] \in Documents
        BY <1>4, <2>1, <3>1 DEF IsDocument, Contents, TypeInv
      <3>3. docs \in Seq(Documents) /\ Len(docs) = Len(job[p].loaded) + 1
        BY <1>4, <2>1, <3>2
      <3> HIDE DEF docs
      <3> QED BY <1>3, <1>4, <1>6, <2>1, <3>1, <3>3 DEF LoadDocument
    <2> QED BY <2>2, <2>3
  <1>7. CASE Edit(p)
    <2>1. job[p].at = "loading" /\ UNCHANGED <<file, late, started, faults>>
      BY <1>7 DEF Edit
    <2>2. CASE Goto(p, "failed")
      BY <1>2, <2>1, <2>2
    <2>3. CASE ~Goto(p, "failed")
      <3> DEFINE changed == {i \in DOMAIN job[p].loaded :
                                \/ job[p].cmd.kind = "create"
                                \/ Edited(job[p].cmd, job[p].loaded[i]) # job[p].loaded[i]}
      <3>1. /\ job' = [job EXCEPT ![p].at = "staging", ![p].stage = changed]
            /\ Valid(job[p].cmd.targets, job[p].cmd.backup)
        BY <1>7, <2>3, Zenon DEF Edit
      <3>2. /\ job[p].cmd \in Commands /\ job[p].loaded \in Seq(Documents)
            /\ Len(job[p].loaded) <= Len(job[p].cmd.targets)
        BY <2>1 DEF LocalInv, CommandInv, TypeInv, Jobs
      <3>3. changed \subseteq 1..Len(job[p].loaded) /\ Len(job[p].loaded) \in Nat
        BY <3>2
      <3> HIDE DEF changed
      <3>4. Len(job[p].cmd.targets) \in Nat
        BY <3>2, EsiCommitAssumption
      <3>5. /\ changed \subseteq 1..Len(job[p].cmd.targets)
            /\ changed \in SUBSET Nat
        BY <3>2, <3>3, <3>4
      <3> DEFINE mid == [job EXCEPT ![p].at = "staging"]
      <3>6. mid \in [Procs -> Jobs]
        BY ZenonT(40) DEF TypeInv, Jobs, Steps
      <3>7. job' \in [Procs -> Jobs]
        <4>1. job' = [mid EXCEPT ![p].stage = changed]
          BY <3>1 DEF TypeInv, Jobs
        <4> HIDE DEF mid
        <4> QED BY ZenonT(40), <3>5, <3>6, <4>1 DEF Jobs
      <3>8. /\ job'[p].at = "staging" /\ job'[p].cmd = job[p].cmd
            /\ job'[p].loaded = job[p].loaded /\ job'[p].stage = changed
            /\ job'[p].order = job[p].order /\ job'[p].pos = job[p].pos
            /\ job'[p].orig = job[p].orig /\ job'[p].repl = job[p].repl
            /\ \A q \in Procs : q # p => job'[q] = job[q]
        BY <3>1 DEF TypeInv, Jobs
      <3>9. CommandInv(p)'
        BY <2>1, <3>1, <3>2, <3>3, <3>5, <3>8 DEF LocalInv, CommandInv
      <3>10. StagedInv(p)' /\ PlacedInv(p)' /\ OutcomeInv(p)' /\ BackupInv(p)'
        <4>1. DOMAIN job[p].orig = {} /\ DOMAIN job[p].repl = {} /\ job[p].order = <<>> /\ job[p].pos = 0
          BY <2>1 DEF LocalInv, CommandInv
        <4>2. Own(p)' = {} /\ Len(job'[p].order) = 0
          BY <3>8, <4>1 DEF Own
        <4>3. StagedInv(p)' /\ PlacedInv(p)'
          BY <3>8, <4>1, <4>2 DEF StagedInv, PlacedInv
        <4>4. OutcomeInv(p)' /\ BackupInv(p)'
          BY <4>2 DEF OutcomeInv, BackupInv
        <4> QED BY <4>3, <4>4
      <3> QED BY <2>1, <3>7, <3>8, <3>9, <3>10, OthersKeep DEF LocalInv, TypeInv
    <2> QED BY <2>2, <2>3
  <1> QED BY <1>1, <1>5, <1>6, <1>7

-----------------------------------------------------------------------------
(* commit_documents                                                        *)

Committing == {"staging", "publishing", "rollback"}

\* When the first pos names are replaced and the others are not, a document that
\* was replaced has its old content in its backup, which comes before it.
LEMMA PlacedIsBackedUp ==
    ASSUME NEW p \in Procs, job' \in [Procs -> Jobs], job'[p].at \in Committing,
           job'[p].cmd \in Commands, StagedInv(p)', PlacedInv(p)'
    PROVE  OutcomeInv(p)' /\ BackupInv(p)'
  <1>1. OutcomeInv(p)'
    BY DEF OutcomeInv, Committing
  <1>2. job'[p].pos \in Nat /\ Len(job'[p].order) \in Nat
    BY DEF Jobs
  <1>3. ASSUME job'[p].cmd.backup, ~job'[p].error,
               NEW i \in DOMAIN job'[p].cmd.targets,
               {job'[p].cmd.targets[i], BackupOf[job'[p].cmd.targets[i]]} \subseteq Own(p)',
               file'[job'[p].cmd.targets[i]] # job'[p].orig[job'[p].cmd.targets[i]]
        PROVE  file'[BackupOf[job'[p].cmd.targets[i]]] = job'[p].orig[job'[p].cmd.targets[i]]
    <2> DEFINE doc == job'[p].cmd.targets[i]
               bak == BackupOf[doc]
    <2>1. i \in 1..Len(job'[p].cmd.targets)
      <3>1. job'[p].cmd.targets \in Seq(DOMAIN BackupOf)
        BY EsiCommitAssumption
      <3> QED BY <3>1
    <2>2. {doc, bak} \subseteq DOMAIN job'[p].orig /\ doc \notin late'[p] /\ bak \notin late'[p]
      BY SMTT(30), <1>3 DEF Own
    <2>3. /\ job'[p].repl[bak] = job'[p].orig[doc]
          /\ \E k \in 1..Len(job'[p].order) :
                /\ k + 1 \in 1..Len(job'[p].order)
                /\ job'[p].order[k] = bak /\ job'[p].order[k + 1] = doc
      BY SMTT(30), <1>3, <2>1, <2>2 DEF StagedInv, Committing
    <2>4. PICK k \in 1..Len(job'[p].order) :
                /\ k + 1 \in 1..Len(job'[p].order)
                /\ job'[p].order[k] = bak /\ job'[p].order[k + 1] = doc
      BY <2>3
    <2>5. k + 1 <= job'[p].pos
      BY SMTT(30), <1>2, <1>3, <2>2, <2>4 DEF PlacedInv, Committing
    <2>6. file'[bak] = job'[p].repl[bak]
      BY SMTT(30), <1>2, <2>2, <2>4, <2>5 DEF PlacedInv, Committing
    <2> QED BY <2>3, <2>6
  <1>4. BackupInv(p)'
    BY SMTT(30), <1>3 DEF BackupInv
  <1> QED BY <1>1, <1>4

\* After staging, only the position in the order changes.
LEMMA StagedKept ==
    ASSUME NEW p \in Procs, StagedInv(p), job[p].at \in Committing, job'[p].at # "staging",
           job'[p].cmd = job[p].cmd, job'[p].order = job[p].order,
           job'[p].orig = job[p].orig, job'[p].repl = job[p].repl,
           job'[p].pos <= Len(job[p].order)
    PROVE  StagedInv(p)'
  <1> DEFINE Names1(j) == /\ DOMAIN j.repl = DOMAIN j.orig
                          /\ \A n \in DOMAIN j.orig : \E k \in 1..Len(j.order) : j.order[k] = n
                          /\ \A k \in 1..Len(j.order) : j.order[k] \in DOMAIN j.orig
                          /\ \A k, l \in 1..Len(j.order) : j.order[k] = j.order[l] => k = l
  <1>1. Names1(job[p])
    BY DEF StagedInv, Committing
  <1>2. Names1(job'[p])
    BY SMTT(30), <1>1
  <1> DEFINE Pairs(j) == j.cmd.backup => \A i \in 1..Len(j.cmd.targets) :
                            LET doc == j.cmd.targets[i]
                                bak == BackupOf[doc]
                            IN  {doc, bak} \subseteq DOMAIN j.orig =>
                                    /\ j.repl[bak] = j.orig[doc]
                                    /\ \E k \in 1..Len(j.order) :
                                          /\ k + 1 \in 1..Len(j.order)
                                          /\ j.order[k] = bak /\ j.order[k + 1] = doc
  <1>3. Pairs(job[p])
    BY DEF StagedInv, Committing
  <1>4. Pairs(job'[p])
    BY <1>3
  <1> QED BY <1>2, <1>4 DEF StagedInv

\* A process that only goes to another step keeps the invariant.
LEMMA GotoIInv ==
    ASSUME IInv, NEW p \in Procs,
           \/ StageFailed(p) \/ Staged(p) \/ PublishFailed(p) \/ Published(p)
           \/ RolledBack(p) \/ Kill(p)
    PROVE  IInv'
  <1>0. TypeInv /\ LocalInv(p)
    BY DEF IInv
  <1>1. /\ UNCHANGED <<file, late>> /\ started' \in Nat /\ faults' \in Nat
    BY <1>0 DEF TypeInv, StageFailed, Staged, PublishFailed, Published, RolledBack, Kill
  <1>2. job[p].at # "idle" /\ job[p].cmd \in Commands
    BY <1>0 DEF LocalInv, CommandInv, StageFailed, Loading, Staged, PublishFailed, Published,
                RolledBack, Kill, Ended
  <1>3. job[p].pos \in Nat /\ Len(job[p].order) \in Nat
    BY <1>0 DEF TypeInv, Jobs
  <1>4. ASSUME NEW at \in Steps, Goto(p, at), at # "idle", at # "loading", at # "staging",
               StagedInv(p)', PlacedInv(p)', OutcomeInv(p)'
        PROVE  IInv'
    <2>1. CommandInv(p)' /\ BackupInv(p)'
      BY <1>0, <1>1, <1>2, <1>4, GotoFields DEF LocalInv, CommandInv, BackupInv, Own
    <2>2. LocalInv(p)'
      BY <1>4, <2>1 DEF LocalInv
    <2> QED BY SMTT(30), <1>0, <1>1, <1>4, <2>2, GotoFields, OthersKeep DEF TypeInv
  <1>5. ASSUME NEW at \in Steps, Goto(p, at), at = "killed"
        PROVE  StagedInv(p)' /\ PlacedInv(p)' /\ OutcomeInv(p)'
    BY <1>0, <1>5, GotoFields DEF StagedInv, PlacedInv, OutcomeInv
  <1>6. ASSUME Goto(p, "failed"),
               job[p].at = "loading" \/ (job[p].at \in {"staging", "rollback"} /\ job[p].pos = 0)
        PROVE  IInv'
    <2>1. "failed" \in Steps
      BY DEF Steps
    <2>2. StagedInv(p)' /\ PlacedInv(p)'
      BY <1>0, <1>6, <2>1, GotoFields DEF StagedInv, PlacedInv
    <2>3. ASSUME NEW n \in Own(p), ~job[p].error
          PROVE  file[n] = job[p].orig[n]
      <3>1. CASE job[p].at = "loading"
        BY <1>0, <2>3, <3>1 DEF LocalInv, CommandInv, Own
      <3>2. CASE job[p].at \in {"staging", "rollback"} /\ job[p].pos = 0
        <4>1. PICK k \in 1..Len(job[p].order) : job[p].order[k] = n
          BY <1>0, <2>3, <3>2 DEF LocalInv, StagedInv, Own
        <4>2. k > job[p].pos /\ n \notin late[p]
          BY <1>3, <2>3, <3>2, <4>1 DEF Own
        <4> QED BY <1>0, <2>3, <3>2, <4>1, <4>2 DEF LocalInv, PlacedInv
      <3> QED BY <1>6, <3>1, <3>2
    <2>4. OutcomeInv(p)'
      BY <1>0, <1>1, <1>6, <2>1, <2>3, GotoFields DEF OutcomeInv, Own
    <2> QED BY <1>4, <1>6, <2>1, <2>2, <2>4
  <1>7. CASE StageFailed(p)
    BY <1>0, <1>6, <1>7 DEF StageFailed, Loading, LocalInv, StagedInv
  <1>8. CASE RolledBack(p)
    BY <1>6, <1>8 DEF RolledBack
  <1>9. CASE Kill(p)
    BY <1>4, <1>5, <1>9 DEF Kill, Steps
  <1>10. CASE Staged(p)
    <2>1. "publishing" \in Steps /\ Goto(p, "publishing") /\ job[p].at = "staging"
      BY <1>10 DEF Steps, Staged
    <2>2. StagedInv(p)'
      <3>1. StagedInv(p) /\ job[p].pos <= Len(job[p].order)
        BY <1>0, <2>1 DEF LocalInv, StagedInv
      <3> QED BY SMTT(30), <1>0, <2>1, <3>1, GotoFields, StagedKept DEF Committing
    <2>3. PlacedInv(p)'
      BY <1>0, <1>1, <2>1, GotoFields DEF LocalInv, PlacedInv
    <2>4. OutcomeInv(p)'
      BY <1>0, <2>1, GotoFields DEF OutcomeInv
    <2> QED BY <1>4, <2>1, <2>2, <2>3, <2>4
  <1>11. CASE PublishFailed(p)
    <2>1. "rollback" \in Steps /\ Goto(p, "rollback") /\ job[p].at = "publishing"
      BY <1>11 DEF Steps, PublishFailed
    <2>2. StagedInv(p)'
      <3>1. StagedInv(p) /\ job[p].pos <= Len(job[p].order)
        BY <1>0, <2>1 DEF LocalInv, StagedInv
      <3> QED BY SMTT(30), <1>0, <2>1, <3>1, GotoFields, StagedKept DEF Committing
    <2>3. PlacedInv(p)'
      BY <1>0, <1>1, <2>1, GotoFields DEF LocalInv, PlacedInv
    <2>4. OutcomeInv(p)'
      BY <1>0, <2>1, GotoFields DEF OutcomeInv
    <2> QED BY <1>4, <2>1, <2>2, <2>3, <2>4
  <1>12. CASE Published(p)
    <2>1. "succeeded" \in Steps /\ Goto(p, "succeeded") /\ job[p].at = "publishing"
      BY <1>12 DEF Steps, Published
    <2>2. StagedInv(p)' /\ PlacedInv(p)'
      BY <1>0, <2>1, GotoFields DEF StagedInv, PlacedInv
    <2>3. ASSUME NEW n \in Own(p)
          PROVE  file[n] = job[p].repl[n]
      <3>1. PICK k \in 1..Len(job[p].order) : job[p].order[k] = n
        BY <1>0, <2>1, <2>3 DEF LocalInv, StagedInv, Own
      <3>2. k <= job[p].pos /\ n \notin late[p]
        BY <1>3, <1>12, <2>3, <3>1 DEF Own, Published
      <3> QED BY <1>0, <2>1, <3>1, <3>2 DEF LocalInv, PlacedInv
    <2>4. OutcomeInv(p)'
      BY <1>0, <1>1, <2>1, <2>3, GotoFields DEF OutcomeInv, Own
    <2> QED BY <1>4, <2>1, <2>2, <2>4
  <1> QED BY <1>7, <1>8, <1>9, <1>10, <1>11, <1>12

\* A rename, a restoring rename or a failed one, moves the position by one and
\* writes at most the name it passes.
LEMMA RenameIInv ==
    ASSUME IInv, NEW p \in Procs, Publish(p) \/ Rollback(p) \/ RollbackFailed(p)
    PROVE  IInv'
  <1> DEFINE order == job[p].order
             pos == job[p].pos
             next == job'[p].pos
  <1>0. TypeInv /\ LocalInv(p) /\ job \in [Procs -> Jobs]
    BY DEF IInv, TypeInv
  <1>1. /\ pos \in Nat /\ order \in Seq(Names) /\ Len(order) \in Nat
        /\ job[p].orig \in Partial /\ job[p].repl \in Partial /\ job[p].error \in BOOLEAN
    BY SMTT(30), <1>0 DEF Jobs
  <1>2. job[p].at \in {"publishing", "rollback"} /\ job[p].at \in Committing
        /\ StagedInv(p) /\ PlacedInv(p) /\ pos <= Len(order) /\ job[p].cmd \in Commands
    BY <1>0 DEF Publish, Rollback, RollbackFailed, Committing, LocalInv, CommandInv, StagedInv
  <1>3. /\ job' \in [Procs -> Jobs]
        /\ job'[p].at = job[p].at /\ job'[p].cmd = job[p].cmd /\ job'[p].loaded = job[p].loaded
        /\ job'[p].stage = job[p].stage /\ job'[p].order = order
        /\ job'[p].orig = job[p].orig /\ job'[p].repl = job[p].repl
        /\ \A q \in Procs : q # p => job'[q] = job[q]
    <2>1. CASE Publish(p)
      <3>1. pos + 1 \in Nat /\ job' = [job EXCEPT ![p].pos = pos + 1]
        BY <1>1, <2>1 DEF Publish
      <3> QED BY ZenonT(40), <1>0, <3>1 DEF Jobs
    <2>2. CASE Rollback(p)
      <3>1. pos - 1 \in Nat /\ job' = [job EXCEPT ![p].pos = pos - 1]
        BY <1>1, <2>2 DEF Rollback
      <3> QED BY ZenonT(40), <1>0, <3>1 DEF Jobs
    <2>3. CASE RollbackFailed(p)
      <3>1. pos - 1 \in Nat /\ job' = [job EXCEPT ![p].pos = pos - 1, ![p].error = TRUE]
        BY <1>1, <2>3 DEF RollbackFailed
      <3> QED BY ZenonT(40), <1>0, <3>1 DEF Jobs
    <2> QED BY <2>1, <2>2, <2>3
  <1>4. /\ Publish(p) => next = pos + 1 /\ next <= Len(order) /\ job'[p].error = job[p].error
        /\ Rollback(p) => next = pos - 1 /\ next \in Nat /\ job'[p].error = job[p].error
        /\ RollbackFailed(p) => next = pos - 1 /\ next \in Nat /\ job'[p].error = TRUE
    <2>1. Publish(p) => next = pos + 1 /\ next <= Len(order) /\ job'[p].error = job[p].error
      BY <1>0, <1>1 DEF Publish, Jobs
    <2>2. Rollback(p) => next = pos - 1 /\ next \in Nat /\ job'[p].error = job[p].error
      BY <1>0, <1>1 DEF Rollback, Jobs
    <2>3. RollbackFailed(p) => next = pos - 1 /\ next \in Nat /\ job'[p].error = TRUE
      BY <1>0, <1>1 DEF RollbackFailed, Jobs
    <2> QED BY <2>1, <2>2, <2>3
  <1>5. StagedInv(p)'
    BY <1>1, <1>2, <1>3, <1>4, StagedKept
  <1>6. CommandInv(p)'
    BY <1>0, <1>2, <1>3 DEF CommandInv, LocalInv
  <1>7. \A k, l \in 1..Len(order) : order[k] = order[l] => k = l
    BY <1>2 DEF StagedInv, Committing
  <1>8. \A k \in 1..Len(order) : order[k] \in DOMAIN job[p].orig /\ order[k] \in DOMAIN job[p].repl
    BY <1>2 DEF StagedInv, Committing
  <1>9. ASSUME NEW f \in Partial, NEW n \in DOMAIN f
        PROVE  n \in Names /\ f[n] \in Contents
    BY <1>9 DEF Partial
  <1>10. ASSUME PlacedInv(p)', \A q \in Procs : q # p => LocalInv(q)',
                file' \in [Names -> Contents], late' \in [Procs -> SUBSET Names]
         PROVE  IInv'
    <2>1. LocalInv(p)'
      BY <1>2, <1>3, <1>5, <1>6, <1>10, PlacedIsBackedUp DEF LocalInv
    <2>2. started' \in Nat /\ faults' \in Nat
      BY <1>0 DEF TypeInv, Publish, Rollback, RollbackFailed
    <2> QED BY <1>3, <1>10, <2>1, <2>2 DEF IInv, TypeInv
  <1>11. ASSUME NEW n \in Names, NEW v \in Contents, Write(p, n, v)
         PROVE  /\ file' = [file EXCEPT ![n] = v] /\ late'[p] = late[p]
                /\ file' \in [Names -> Contents] /\ late' \in [Procs -> SUBSET Names]
                /\ \A q \in Procs : q # p => LocalInv(q)'
    <2>1. \A q \in Procs : q # p => LocalInv(q)'
      BY <1>0, <1>3, <1>11, WriteInterference DEF IInv
    <2> QED BY <1>0, <1>11, <2>1 DEF Write, TypeInv
  <1>12. CASE Publish(p)
    <2> DEFINE n == order[pos + 1]
               v == job[p].repl[n]
    <2>1. pos + 1 \in 1..Len(order) /\ Write(p, n, v)
      BY <1>1, <1>12 DEF Publish
    <2>2. n \in Names /\ v \in Contents
      BY <1>1, <1>8, <1>9, <2>1
    <2>3. PlacedInv(p)'
      <3>1. ASSUME NEW k \in 1..Len(order), order[k] \notin late[p]
            PROVE  /\ k <= pos + 1 => file'[order[k]] = job[p].repl[order[k]]
                   /\ k > pos + 1 /\ ~(job[p].at = "rollback" /\ job[p].error) =>
                          file'[order[k]] = job[p].orig[order[k]]
        <4>1. CASE k = pos + 1
          BY <1>0, <1>1, <1>11, <2>1, <2>2, <4>1 DEF TypeInv
        <4>2. CASE k # pos + 1
          <5>1. order[k] # n /\ order[k] \in Names
            BY <1>1, <1>7, <2>1, <4>2
          <5>2. file'[order[k]] = file[order[k]]
            BY <1>0, <1>11, <2>1, <2>2, <5>1 DEF TypeInv
          <5>3. k <= pos + 1 => k <= pos
            BY <1>1, <4>2
          <5>4. k > pos + 1 => k > pos
            BY SMTT(30), <1>1
          <5> QED BY <1>2, <3>1, <5>2, <5>3, <5>4 DEF PlacedInv, Committing
        <4> QED BY SMTT(30), <4>1, <4>2
      <3>2. next = pos + 1 /\ job'[p].error = job[p].error /\ late'[p] = late[p]
        BY <1>4, <1>11, <1>12, <2>1, <2>2
      <3> QED BY <1>3, <3>1, <3>2 DEF PlacedInv
    <2> QED BY <1>10, <1>11, <2>1, <2>2, <2>3
  <1>13. CASE Rollback(p)
    <2> DEFINE n == order[pos]
               v == job[p].orig[n]
    <2>1. pos \in 1..Len(order) /\ Write(p, n, v)
      BY <1>1, <1>2, <1>13 DEF Rollback
    <2>2. n \in Names /\ v \in Contents
      BY <1>1, <1>8, <1>9, <2>1
    <2>3. PlacedInv(p)'
      <3>1. ASSUME NEW k \in 1..Len(order), order[k] \notin late[p]
            PROVE  /\ k <= pos - 1 => file'[order[k]] = job[p].repl[order[k]]
                   /\ k > pos - 1 /\ ~(job[p].at = "rollback" /\ job[p].error) =>
                          file'[order[k]] = job[p].orig[order[k]]
        <4>1. CASE k = pos
          BY <1>0, <1>1, <1>11, <2>1, <2>2, <4>1 DEF TypeInv
        <4>2. CASE k # pos
          <5>1. order[k] # n /\ order[k] \in Names
            BY <1>1, <1>7, <2>1, <4>2
          <5>2. file'[order[k]] = file[order[k]]
            BY <1>0, <1>11, <2>1, <2>2, <5>1 DEF TypeInv
          <5>3. k <= pos - 1 => k <= pos
            BY <1>1, <4>2
          <5>4. k > pos - 1 => k > pos
            BY <1>1, <4>2
          <5> QED BY <1>2, <3>1, <5>2, <5>3, <5>4 DEF PlacedInv, Committing
        <4> QED BY SMTT(30), <4>1, <4>2
      <3>2. next = pos - 1 /\ job'[p].error = job[p].error /\ late'[p] = late[p]
        BY <1>4, <1>11, <1>13, <2>1, <2>2
      <3> QED BY <1>3, <3>1, <3>2 DEF PlacedInv
    <2> QED BY <1>10, <1>11, <2>1, <2>2, <2>3
  <1>14. CASE RollbackFailed(p)
    <2>1. UNCHANGED <<file, late>> /\ job[p].at = "rollback" /\ pos > 0
      BY <1>14 DEF RollbackFailed
    <2>2. PlacedInv(p)'
      <3>1. \A k \in 1..Len(order) : k <= pos - 1 => k <= pos
        BY <1>1
      <3>2. next = pos - 1 /\ job'[p].error = TRUE
        BY <1>4, <1>14
      <3> QED BY <1>2, <1>3, <2>1, <3>1, <3>2 DEF PlacedInv, Committing
    <2>3. \A q \in Procs : q # p => LocalInv(q)'
      BY <1>3, <2>1, Interference DEF IInv
    <2> QED BY <1>0, <1>10, <2>1, <2>2, <2>3 DEF TypeInv
  <1> QED BY <1>12, <1>13, <1>14

\* The names renamed for one target.
LEMMA PublishOrderNames ==
    ASSUME NEW doc \in Names, NEW bak \in Names, NEW s,
           s = <<doc>> \/ (s = <<bak, doc>> /\ bak # doc)
    PROVE  /\ s \in Seq(Names) /\ Len(s) \in {1, 2}
           /\ s[Len(s)] = doc
           /\ Len(s) = 2 => s = <<bak, doc>> /\ s[1] = bak /\ bak # doc
           /\ doc \in ToSet(s) /\ ToSet(s) \subseteq Names
           /\ \A n \in ToSet(s) : \E k \in 1..Len(s) : s[k] = n
           /\ \A k \in 1..Len(s) : s[k] \in ToSet(s)
           /\ \A n \in ToSet(s) : n # doc => n = bak /\ Len(s) = 2
  <1>1. CASE s = <<bak, doc>> /\ bak # doc
    <2>1. /\ s \in Seq(Names) /\ Len(s) = 2 /\ s[1] = bak /\ s[2] = doc
          /\ DOMAIN s = {1, 2} /\ 1..Len(s) = {1, 2}
      BY <1>1
    <2>2. ToSet(s) = {bak, doc}
      BY <2>1 DEF ToSet
    <2>3. /\ \A n \in ToSet(s) : \E k \in 1..Len(s) : s[k] = n
          /\ \A k \in 1..Len(s) : s[k] \in ToSet(s)
      BY <2>1, <2>2
    <2> QED BY <1>1, <2>1, <2>2, <2>3
  <1>2. CASE s = <<doc>>
    <2>1. /\ s \in Seq(Names) /\ Len(s) = 1 /\ s[1] = doc
          /\ DOMAIN s = {1} /\ 1..Len(s) = {1}
      BY <1>2
    <2>2. ToSet(s) = {doc}
      BY <2>1 DEF ToSet
    <2>3. /\ \A n \in ToSet(s) : \E k \in 1..Len(s) : s[k] = n
          /\ \A k \in 1..Len(s) : s[k] \in ToSet(s)
      BY <2>1, <2>2
    <2> QED BY <1>2, <2>1, <2>2, <2>3
  <1> QED BY <1>1, <1>2

\* Staging one target keeps the invariant: its names are new to the command, and
\* they are appended to the order, the backup first.
LEMMA StageIInv ==
    ASSUME IInv, NEW p \in Procs, Stage(p)
    PROVE  IInv'
  <1> DEFINE c == job[p].cmd
             order == job[p].order
             known == DOMAIN job[p].orig
  <1>0. TypeInv /\ LocalInv(p) /\ job \in [Procs -> Jobs] /\ file \in [Names -> Contents]
    BY SMTT(30) DEF IInv, TypeInv
  <1>1. job[p].at = "staging" /\ UNCHANGED <<file, late, started, faults>>
    BY DEF Stage
  <1>2. /\ c \in Commands /\ Valid(c.targets, c.backup)
        /\ job[p].stage \subseteq 1..Len(job[p].loaded)
        /\ job[p].stage \subseteq 1..Len(c.targets)
        /\ \A n \in known : \E j \in 1..Len(c.targets) : j \notin job[p].stage /\ n \in NamesOf(c, j)
    BY <1>0, <1>1 DEF LocalInv, CommandInv
  <1>3. /\ order \in Seq(Names) /\ Len(order) \in Nat /\ job[p].pos = 0
        /\ job[p].loaded \in Seq(Documents) /\ job[p].stage \in SUBSET Nat
        /\ job[p].orig \in Partial /\ job[p].repl \in Partial /\ DOMAIN job[p].repl = known
    BY <1>0, <1>1 DEF LocalInv, StagedInv, Jobs
  <1> DEFINE doc(i) == c.targets[i]
             bak(i) == BackupOf[c.targets[i]]
             names(i) == PublishOrder(doc(i), c.backup /\ file[doc(i)] # None)
             content(i, n) == IF n = doc(i) THEN Edited(c, job[p].loaded[i]) ELSE file[doc(i)]
             orig(i) == [n \in known \cup ToSet(names(i)) |->
                            IF n \in known THEN job[p].orig[n] ELSE file[n]]
             repl(i) == [n \in known \cup ToSet(names(i)) |->
                            IF n \in known THEN job[p].repl[n] ELSE content(i, n)]
  <1>4. PICK i \in job[p].stage :
            job' = [job EXCEPT ![p].stage = job[p].stage \ {i},
                               ![p].order = order \o names(i),
                               ![p].orig = orig(i),
                               ![p].repl = repl(i)]
    BY Zenon DEF Stage
  <1>5. /\ i \in 1..Len(c.targets) /\ i \in 1..Len(job[p].loaded)
        /\ doc(i) \in Names /\ bak(i) \in Names /\ c.backup \in BOOLEAN
        /\ job[p].loaded[i] \in Documents
    <2>1. i \in 1..Len(c.targets) /\ i \in 1..Len(job[p].loaded)
      BY <1>2
    <2> QED BY <1>2, <1>3, <2>1, TargetNames
  <1> DEFINE N == ToSet(names(i))
  <1>6. names(i) = <<doc(i)>> \/ (names(i) = <<bak(i), doc(i)>> /\ bak(i) # doc(i) /\ c.backup)
    <2>1. c.backup => bak(i) # doc(i)
      BY <1>2, <1>5, TargetsApart
    <2> QED BY <2>1 DEF PublishOrder
  \* The names of the target.
  <1>7. /\ names(i) \in Seq(Names) /\ Len(names(i)) \in {1, 2}
        /\ names(i)[Len(names(i))] = doc(i)
        /\ Len(names(i)) = 2 => names(i)[1] = bak(i) /\ bak(i) # doc(i) /\ c.backup
        /\ doc(i) \in N /\ N \subseteq Names
        /\ \A n \in N : \E k \in 1..Len(names(i)) : names(i)[k] = n
        /\ \A k \in 1..Len(names(i)) : names(i)[k] \in N
        /\ \A n \in N : n # doc(i) => n = bak(i) /\ Len(names(i)) = 2
    <2>1. Len(names(i)) = 2 => c.backup
      BY <1>6
    <2> HIDE DEF names, doc, bak
    <2> QED BY <1>5, <1>6, <2>1, PublishOrderNames
  <1>8. N \subseteq NamesOf(c, i)
    BY <1>7 DEF NamesOf
  <1>9. known \cap NamesOf(c, i) = {}
    <2> SUFFICES ASSUME NEW n \in known PROVE n \notin NamesOf(c, i)
      OBVIOUS
    <2>1. PICK j \in 1..Len(c.targets) : j \notin job[p].stage /\ n \in NamesOf(c, j)
      BY SMTT(30), <1>2
    <2>2. j # i
      BY <1>4, <2>1
    <2>3. NamesOf(c, i) \cap NamesOf(c, j) = {}
      BY <1>2, <1>5, <2>2, TargetsApart
    <2> QED BY <2>1, <2>3
  <1>10. orig(i) \in Partial /\ repl(i) \in Partial
    <2>1. \A f \in Partial : DOMAIN f \subseteq Names /\ \A n \in DOMAIN f : f[n] \in Contents
      BY DEF Partial
    <2>2. \A n \in N : content(i, n) \in Contents
      BY <1>0, <1>2, <1>5, EditedType
    <2>3. \A n \in N : file[n] \in Contents
      BY ZenonT(40), <1>0, <1>7
    <2> HIDE DEF content, N, known
    <2>4. orig(i) \in [known \cup N -> Contents] /\ known \cup N \in SUBSET Names
      BY ZenonT(40), <1>3, <1>7, <2>1, <2>3 DEF N, known
    <2>5. repl(i) \in [known \cup N -> Contents]
      BY ZenonT(40), <1>3, <1>7, <2>1, <2>2 DEF N, known
    <2> QED BY <2>4, <2>5 DEF Partial
  <1> DEFINE len == Len(order)
  \* The job after the step.
  <1>11. /\ job' \in [Procs -> Jobs]
         /\ job'[p].at = "staging" /\ job'[p].cmd = c /\ job'[p].loaded = job[p].loaded
         /\ job'[p].stage = job[p].stage \ {i} /\ job'[p].order = order \o names(i)
         /\ job'[p].pos = 0 /\ job'[p].orig = orig(i) /\ job'[p].repl = repl(i)
         /\ \A q \in Procs : q # p => job'[q] = job[q]
    <2> DEFINE j1 == job[p].stage \ {i}
               j2 == order \o names(i)
               j3 == orig(i)
               j4 == repl(i)
               m1 == [job EXCEPT ![p].stage = j1]
               m2 == [m1 EXCEPT ![p].order = j2]
               m3 == [m2 EXCEPT ![p].orig = j3]
    <2>1. j1 \in SUBSET Nat /\ j2 \in Seq(Names) /\ j3 \in Partial /\ j4 \in Partial
      <3>1. j1 \in SUBSET Nat
        BY <1>3
      <3>2. j2 \in Seq(Names)
        <4> HIDE DEF names, order
        <4> QED BY SMTT(30), <1>3, <1>7
      <3> QED BY <1>10, <3>1, <3>2
    <2>2. job' = [job EXCEPT ![p].stage = j1, ![p].order = j2, ![p].orig = j3, ![p].repl = j4]
      BY <1>4
    <2> HIDE DEF j1, j2, j3, j4
    <2>3. job' = [m3 EXCEPT ![p].repl = j4]
      BY <1>0, <2>2 DEF Jobs
    <2>4. m1 \in [Procs -> Jobs]
      BY ZenonT(40), <1>0, <2>1 DEF Jobs
    <2>5. m2 \in [Procs -> Jobs]
      <3> HIDE DEF m1
      <3> QED BY ZenonT(40), <2>1, <2>4 DEF Jobs
    <2>6. m3 \in [Procs -> Jobs]
      <3> HIDE DEF m2
      <3> QED BY ZenonT(40), <2>1, <2>5 DEF Jobs
    <2>7. job' \in [Procs -> Jobs]
      <3> HIDE DEF m3
      <3> QED BY ZenonT(40), <2>1, <2>3, <2>6 DEF Jobs
    <2>8. /\ job'[p].at = "staging" /\ job'[p].cmd = c /\ job'[p].loaded = job[p].loaded
          /\ job'[p].stage = j1 /\ job'[p].order = j2
          /\ job'[p].pos = 0 /\ job'[p].orig = j3 /\ job'[p].repl = j4
          /\ \A q \in Procs : q # p => job'[q] = job[q]
      BY SMTT(30), <1>0, <1>1, <1>3, <2>2 DEF Jobs
    <2> QED BY ZenonT(40), <2>7, <2>8 DEF j1, j2, j3, j4
  <1>12. /\ DOMAIN orig(i) = known \cup N /\ DOMAIN repl(i) = known \cup N
         /\ \A n \in known : orig(i)[n] = job[p].orig[n] /\ repl(i)[n] = job[p].repl[n]
         /\ \A n \in N : n \notin known /\ orig(i)[n] = file[n]
         /\ bak(i) \in N /\ bak(i) # doc(i) => repl(i)[bak(i)] = file[doc(i)]
    BY <1>8, <1>9
  <1> DEFINE neworder == order \o names(i)
  <1>13. /\ neworder \in Seq(Names) /\ Len(neworder) = len + Len(names(i))
         /\ \A k \in 1..len : neworder[k] = order[k]
         /\ \A k \in 1..Len(names(i)) : neworder[len + k] = names(i)[k]
         /\ \A k \in 1..Len(neworder) : k \notin 1..len => k - len \in 1..Len(names(i))
    <2> HIDE DEF names, order
    <2>1. len \in Nat /\ Len(names(i)) \in Nat
      BY <1>3, <1>7
    <2>2. /\ neworder \in Seq(Names) /\ Len(neworder) = len + Len(names(i))
          /\ \A k \in 1..len + Len(names(i)) :
                neworder[k] = IF k <= len THEN order[k] ELSE names(i)[k - len]
      BY <1>3, <1>7, ConcatProperties
    <2> HIDE DEF neworder, len
    <2>3. \A k \in 1..len : neworder[k] = order[k]
      BY <2>1, <2>2
    <2>4. \A k \in 1..Len(names(i)) : neworder[len + k] = names(i)[k]
      BY <2>1, <2>2
    <2>5. \A k \in 1..Len(neworder) : k \notin 1..len => k - len \in 1..Len(names(i))
      BY <2>1, <2>2
    <2> QED BY <2>2, <2>3, <2>4, <2>5
  <1> HIDE DEF known, N, names, orig, repl, neworder, len, doc, bak, order
  <1>14. /\ len \in Nat /\ Len(names(i)) \in {1, 2} /\ Len(neworder) \in Nat
         /\ \A n \in known : \E k \in 1..len : order[k] = n
         /\ \A k \in 1..len : order[k] \in known
         /\ \A k, l \in 1..len : order[k] = order[l] => k = l
         /\ \A k \in 1..len : order[k] \notin late[p] => file[order[k]] = job[p].orig[order[k]]
    <2>1. /\ \A n \in known : \E k \in 1..len : order[k] = n
          /\ \A k \in 1..len : order[k] \in known
          /\ \A k, l \in 1..len : order[k] = order[l] => k = l
      BY <1>0, <1>1 DEF LocalInv, StagedInv, known, len, order
    <2>2. \A k \in 1..len : order[k] \notin late[p] => file[order[k]] = job[p].orig[order[k]]
      BY <1>0, <1>1, <1>3 DEF LocalInv, PlacedInv, known, len, order
    <2>3. len \in Nat /\ Len(names(i)) \in {1, 2} /\ Len(neworder) \in Nat
      BY <1>3, <1>7, <1>13 DEF len
    <2> QED BY <2>1, <2>2, <2>3
  <1>15. CommandInv(p)'
    <2>1. \A n \in DOMAIN orig(i) :
             \E j \in 1..Len(c.targets) : j \notin job[p].stage \ {i} /\ n \in NamesOf(c, j)
      <3> SUFFICES ASSUME NEW n \in known \cup N
                   PROVE  \E j \in 1..Len(c.targets) :
                              j \notin job[p].stage \ {i} /\ n \in NamesOf(c, j)
        BY <1>12
      <3>1. CASE n \in known
        BY <1>2, <3>1
      <3>2. CASE n \in N
        BY <1>5, <1>8, <3>2
      <3> QED BY <3>1, <3>2
    <2> QED BY <1>2, <1>11, <2>1 DEF CommandInv
  \* Every name is in the order, once.
  <1>16. /\ \A n \in known \cup N : \E k \in 1..Len(neworder) : neworder[k] = n
         /\ \A k \in 1..Len(neworder) : neworder[k] \in known \cup N
         /\ \A k, l \in 1..Len(neworder) : neworder[k] = neworder[l] => k = l
    <2>1. \A k \in 1..len : k \in 1..Len(neworder)
      BY <1>13, <1>14
    <2>2. \A k \in 1..Len(names(i)) : len + k \in 1..Len(neworder)
      BY <1>13, <1>14
    <2>3. \A k \in 1..Len(neworder) : k \in 1..len => neworder[k] \in known
      BY <1>13, <1>14
    <2>4. \A k \in 1..Len(neworder) : k \notin 1..len =>
              /\ neworder[k] \in N /\ k - len \in 1..Len(names(i))
              /\ neworder[k] = names(i)[k - len]
      <3> SUFFICES ASSUME NEW k \in 1..Len(neworder), k \notin 1..len
                   PROVE  /\ neworder[k] \in N /\ k - len \in 1..Len(names(i))
                          /\ neworder[k] = names(i)[k - len]
        OBVIOUS
      <3>1. k - len \in 1..Len(names(i)) /\ len + (k - len) = k
        BY <1>13, <1>14
      <3> QED BY <1>7, <1>13, <3>1
    <2>5. \A k, l \in 1..Len(names(i)) : names(i)[k] = names(i)[l] => k = l
      <3>1. CASE Len(names(i)) = 1
        BY <3>1
      <3>2. CASE Len(names(i)) = 2
        BY <1>7, <3>2
      <3> QED BY <1>14, <3>1, <3>2
    <2>6. \A n \in known \cup N : \E k \in 1..Len(neworder) : neworder[k] = n
      <3>1. ASSUME NEW n \in known PROVE \E k \in 1..Len(neworder) : neworder[k] = n
        BY <1>13, <1>14, <2>1
      <3>2. ASSUME NEW n \in N PROVE \E k \in 1..Len(neworder) : neworder[k] = n
        <4>1. PICK k \in 1..Len(names(i)) : names(i)[k] = n
          BY <1>7
        <4> QED BY <1>13, <2>2, <4>1
      <3> QED BY <3>1, <3>2
    <2>7. ASSUME NEW k \in 1..Len(neworder), NEW l \in 1..Len(neworder),
                 neworder[k] = neworder[l]
          PROVE  k = l
      <3>1. CASE k \in 1..len /\ l \in 1..len
        BY <1>13, <1>14, <2>7, <3>1
      <3>2. CASE k \notin 1..len /\ l \notin 1..len
        <4>1. k - len = l - len
          BY <2>4, <2>5, <2>7, <3>2
        <4> QED BY <1>14, <4>1
      <3>3. CASE (k \in 1..len) # (l \in 1..len)
        BY <1>12, <2>3, <2>4, <2>7, <3>3
      <3> QED BY <3>1, <3>2, <3>3
    <2> QED BY <2>3, <2>4, <2>6, <2>7
  <1>17. ASSUME c.backup, NEW j \in 1..Len(c.targets),
                {c.targets[j], BackupOf[c.targets[j]]} \subseteq known \cup N
         PROVE  /\ repl(i)[BackupOf[c.targets[j]]] = orig(i)[c.targets[j]]
                /\ \E k \in 1..Len(neworder) :
                      /\ k + 1 \in 1..Len(neworder)
                      /\ neworder[k] = BackupOf[c.targets[j]] /\ neworder[k + 1] = c.targets[j]
    <2>1. {c.targets[j], BackupOf[c.targets[j]]} \subseteq NamesOf(c, j)
      BY SMTT(30), <1>17 DEF NamesOf
    <2>2. CASE j = i
      <3>1. doc(i) = c.targets[j] /\ bak(i) = BackupOf[c.targets[j]]
        BY <2>2 DEF doc, bak
      <3>2. bak(i) \in N /\ bak(i) # doc(i)
        BY ZenonT(40), <1>2, <1>5, <1>9, <1>17, <2>1, <2>2, <3>1, TargetsApart
      <3>3. Len(names(i)) = 2 /\ names(i)[1] = bak(i) /\ names(i)[2] = doc(i)
        BY <1>7, <3>2
      <3>4. neworder[len + 1] = bak(i) /\ neworder[len + 2] = doc(i)
        BY <1>13, <3>3
      <3>5. len + 1 \in 1..Len(neworder) /\ (len + 1) + 1 \in 1..Len(neworder) /\ (len + 1) + 1 = len + 2
        BY <1>13, <1>14, <3>3
      <3>6. repl(i)[bak(i)] = orig(i)[doc(i)]
        BY SMTT(30), <1>7, <1>12, <3>2
      <3> QED BY <3>1, <3>4, <3>5, <3>6
    <2>3. CASE j # i
      <3>1. {c.targets[j], BackupOf[c.targets[j]]} \subseteq known
        <4>1. NamesOf(c, i) \cap NamesOf(c, j) = {}
          BY SMTT(30), <1>2, <1>5, <2>3, TargetsApart
        <4> QED BY <1>8, <1>17, <2>1, <4>1
      <3>2. /\ job[p].repl[BackupOf[c.targets[j]]] = job[p].orig[c.targets[j]]
            /\ \E k \in 1..len :
                  /\ k + 1 \in 1..len
                  /\ order[k] = BackupOf[c.targets[j]] /\ order[k + 1] = c.targets[j]
        BY <1>0, <1>1, <1>17, <3>1 DEF LocalInv, StagedInv, known, len, order
      <3>3. PICK k \in 1..len :
                  /\ k + 1 \in 1..len
                  /\ order[k] = BackupOf[c.targets[j]] /\ order[k + 1] = c.targets[j]
        BY <3>2
      <3>4. k \in 1..Len(neworder) /\ k + 1 \in 1..Len(neworder)
        BY <1>13, <1>14, <3>3
      <3>5. neworder[k] = order[k] /\ neworder[k + 1] = order[k + 1]
        BY SMTT(30), <1>13, <3>3
      <3>6. repl(i)[BackupOf[c.targets[j]]] = orig(i)[c.targets[j]]
        BY <1>12, <3>1, <3>2
      <3> QED BY <3>3, <3>4, <3>5, <3>6
    <2> QED BY <2>2, <2>3
  <1>18. StagedInv(p)'
    <2>1. job'[p].order = neworder
      BY <1>11 DEF neworder
    <2> QED BY <1>11, <1>12, <1>14, <1>16, <1>17, <2>1 DEF StagedInv
  <1>19. PlacedInv(p)'
    <2>1. job'[p].order = neworder
      BY <1>11 DEF neworder
    <2>2. ASSUME NEW k \in 1..Len(neworder), neworder[k] \notin late[p]
          PROVE  file[neworder[k]] = orig(i)[neworder[k]]
      <3>1. CASE neworder[k] \in known
        <4>1. PICK l \in 1..len : order[l] = neworder[k]
          BY <1>14, <3>1
        <4> QED BY <1>12, <1>14, <2>2, <3>1, <4>1
      <3>2. CASE neworder[k] \in N
        BY <1>12, <3>2
      <3> QED BY <1>16, <3>1, <3>2
    <2> QED BY <1>1, <1>11, <1>14, <2>1, <2>2 DEF PlacedInv
  <1>20. LocalInv(p)'
    BY <1>2, <1>11, <1>15, <1>18, <1>19, PlacedIsBackedUp DEF LocalInv, Committing
  <1> QED BY <1>0, <1>1, <1>11, <1>20, OthersKeep DEF TypeInv

-----------------------------------------------------------------------------
\* Every step keeps the invariant.
LEMMA NextIInv == IInv /\ [Next]_vars => IInv'
  <1> SUFFICES ASSUME IInv, [Next]_vars PROVE IInv'
    OBVIOUS
  <1>1. CASE Next
    BY <1>1, LoadIInv, StageIInv, GotoIInv, RenameIInv DEF Next, ProcStep
  <1>2. CASE UNCHANGED vars
    <2>1. \A p \in Procs : LocalInv(p)'
      BY <1>2, Interference DEF IInv, vars
    <2> QED BY <1>2, <2>1 DEF IInv, TypeInv, vars
  <1> QED BY <1>1, <1>2

\* The invariant holds in every behaviour of the commands.
THEOREM SpecIInv == Spec => []IInv
  BY InitIInv, NextIInv, PTL DEF Spec

\* The rename loop of commit_documents and its rollback: a command that succeeds has
\* put every version and every backup in place, one that fails without saying that
\* the rollback failed has left all of them as it found them, whatever the documents,
\* the commands and the other processes.
THEOREM CommitIsAtomic == Spec => []AllOrNothing
  <1>1. IInv => AllOrNothing
    BY DEF IInv, LocalInv, OutcomeInv, AllOrNothing
  <1> QED BY <1>1, SpecIInv, PTL

\* The order of the renames, backup first: the content a command with backups
\* replaces is in the backup at every moment, also when the process is killed between
\* two renames.
THEOREM ReplacedContentIsKept == Spec => []ReplacedIsBackedUp
  <1>1. IInv => ReplacedIsBackedUp
    BY DEF IInv, LocalInv, BackupInv, ReplacedIsBackedUp
  <1> QED BY <1>1, SpecIInv, PTL
=============================================================================
