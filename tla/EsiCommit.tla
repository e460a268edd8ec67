----------------------------- MODULE EsiCommit ------------------------------
(***************************************************************************)
(* The commands that edit remote indexes, .esi documents: esi create, add  *)
(* and remove (src/src/bin/elfshaker/esi.rs), and commit_documents with    *)
(* its backups and its rollback (src/src/esi.rs).  A document is the       *)
(* function from the URLs it lists to their digests; its line endings and  *)
(* blank lines are kept by the code and left out here.  Several processes  *)
(* run commands without a lock; reading or renaming a file may fail and a  *)
(* process may be killed.  A staging file holds content under a name       *)
(* nobody else uses, until it is renamed.                                  *)
(***************************************************************************)
EXTENDS Integers, Sequences, SequencesExt

CONSTANTS Procs,        \* processes
          Names,        \* file names: documents and their backups
          Urls,         \* the URLs of entries
          Digests,      \* the digests of entries
          BackupOf,     \* document -> the name of its backup
          Commands,     \* command lines: [kind, targets, url, digest, force, backup]
          InitialFiles, \* the contents the files may have at the start
          Garbage,      \* content that is not a valid document
          None,         \* no such file
          MaxCommands,  \* bound on the commands that are run
          MaxFaults     \* bound on failing file-system calls and kills

\* A document: its entries, by URL.
Documents == UNION {[S -> Digests] : S \in SUBSET Urls}

\* What is found under a name.
Contents == Documents \cup {Garbage, None}

ASSUME EsiCommitAssumption ==
    /\ DOMAIN BackupOf \subseteq Names
    /\ BackupOf \in [DOMAIN BackupOf -> Names]
    /\ Commands \subseteq [kind : {"create", "add", "remove"}, targets : Seq(DOMAIN BackupOf),
                           url : Urls, digest : Digests, force : BOOLEAN, backup : BOOLEAN]
    /\ InitialFiles \subseteq [Names -> Contents]
    /\ MaxCommands \in Nat /\ MaxFaults \in Nat

VARIABLES
    file,    \* name -> content
    job,     \* process -> its command, see IdleJob
    late,    \* process -> names another process wrote after it staged them
    started, \* number of commands started
    faults   \* number of faults so far

vars == <<file, job, late, started, faults>>

(***************************************************************************)
(* A command: at, its step; cmd; loaded, the documents read; stage, the    *)
(* targets still to stage; order, the staged names in the order of their   *)
(* renames, of which the first pos are in place; orig, repl: name -> the   *)
(* content found when it was staged and the one to be renamed over it;     *)
(* error: a rollback failed as well.                                       *)
(***************************************************************************)
IdleJob == [at |-> "idle", cmd |-> None, loaded |-> <<>>, stage |-> {}, order |-> <<>>,
            pos |-> 0, orig |-> <<>>, repl |-> <<>>, error |-> FALSE]

Ended == {"idle", "succeeded", "failed", "killed"}

Init ==
    /\ file \in InitialFiles
    /\ job = [p \in Procs |-> IdleJob]
    /\ late = [p \in Procs |-> {}]
    /\ started = 0
    /\ faults = 0

Goto(p, at) == job' = [job EXCEPT ![p].at = at]

\* A file is replaced or removed; whoever has staged it does not see that.
Write(p, n, content) ==
    /\ file' = [file EXCEPT ![n] = content]
    /\ late' = [q \in Procs |-> IF q # p /\ n \in DOMAIN job[q].orig
                                THEN late[q] \cup {n} ELSE late[q]]

-----------------------------------------------------------------------------
(* The command line, loading and editing                                   *)

Begin(p, c) ==
    /\ job[p].at \in Ended
    /\ started < MaxCommands
    /\ started' = started + 1
    /\ job' = [job EXCEPT ![p] = [IdleJob EXCEPT !.at = "loading", !.cmd = c]]
    /\ late' = [late EXCEPT ![p] = {}]
    /\ UNCHANGED <<file, faults>>

\* The next document to load.
NextTarget(p) == job[p].cmd.targets[Len(job[p].loaded) + 1]
Loading(p) == job[p].at = "loading" /\ Len(job[p].loaded) < Len(job[p].cmd.targets)

IsDocument(content) == content \notin {Garbage, None}

\* create only asks whether the path exists.
CreateCheck(p) ==
    /\ Loading(p) /\ job[p].cmd.kind = "create"
    /\ IF file[NextTarget(p)] # None /\ ~job[p].cmd.force
       THEN Goto(p, "failed")
       ELSE job' = [job EXCEPT ![p].loaded = <<<<>>>>]
    /\ UNCHANGED <<file, late, started, faults>>

\* load_document: read and parse.
LoadDocument(p) ==
    /\ Loading(p) /\ job[p].cmd.kind # "create"
    /\ IF IsDocument(file[NextTarget(p)])
       THEN job' = [job EXCEPT ![p].loaded = Append(@, file[NextTarget(p)])]
       ELSE Goto(p, "failed")
    /\ UNCHANGED <<file, late, started, faults>>

\* Document::create: headers only.
Create == <<>>

\* Document::add: a URL that is there is refused, or replaced if forced.
AddEntry(doc, url, digest, force) ==
    IF url \in DOMAIN doc /\ ~force THEN None
    ELSE [u \in (DOMAIN doc) \cup {url} |-> IF u = url THEN digest ELSE doc[u]]

\* Document::remove: a URL that is not there is refused, or passed over if forced.
RemoveEntry(doc, url, force) ==
    IF url \notin DOMAIN doc /\ ~force THEN None
    ELSE [u \in (DOMAIN doc) \ {url} |-> doc[u]]

\* The edit of a command, None if it is refused.
Edited(c, doc) ==
    CASE c.kind = "create" -> Create
      [] c.kind = "add" -> AddEntry(doc, c.url, c.digest, c.force)
      [] c.kind = "remove" -> RemoveEntry(doc, c.url, c.force)

\* validate_document_writes: no name is written twice, as target or as backup.
Valid(targets, backup) ==
    /\ IsInjective(targets)
    /\ backup => /\ \A i, j \in DOMAIN targets : BackupOf[targets[i]] # targets[j]
                 /\ IsInjective([i \in DOMAIN targets |-> BackupOf[targets[i]]])

\* All edits, then publish_documents: the targets are validated, and those whose
\* content changes are left to stage.  create always writes.
Edit(p) ==
    LET c == job[p].cmd
        docs == job[p].loaded
        changed == {i \in DOMAIN docs : c.kind = "create" \/ Edited(c, docs[i]) # docs[i]}
    IN  /\ job[p].at = "loading" /\ ~Loading(p)
        /\ IF (\A i \in DOMAIN docs : Edited(c, docs[i]) # None) /\ Valid(c.targets, c.backup)
           THEN job' = [job EXCEPT ![p].at = "staging", ![p].stage = changed]
           ELSE Goto(p, "failed")
        /\ UNCHANGED <<file, late, started, faults>>

-----------------------------------------------------------------------------
(* commit_documents                                                        *)

\* Mutant: a document is replaced before its backup is.
PublishOrderSwapped(doc, withBackup) == IF withBackup THEN <<doc, BackupOf[doc]>> ELSE <<doc>>

\* The renames of one target: its backup first.
PublishOrder(doc, withBackup) == IF withBackup THEN <<BackupOf[doc], doc>> ELSE <<doc>>

\* The next target: read_existing, the replacement and the copy to restore, and,
\* when the document existed, the same for its backup.
Stage(p) ==
    /\ job[p].at = "staging"
    /\ \E i \in job[p].stage :
          LET doc == job[p].cmd.targets[i]
              names == PublishOrder(doc, job[p].cmd.backup /\ file[doc] # None)
              content(n) == IF n = doc THEN Edited(job[p].cmd, job[p].loaded[i]) ELSE file[doc]
              known == DOMAIN job[p].orig
          IN  /\ \A j \in job[p].stage : i <= j
              /\ job' = [job EXCEPT ![p].stage = @ \ {i},
                           ![p].order = @ \o names,
                           ![p].orig = [n \in known \cup ToSet(names) |->
                                           IF n \in known THEN @[n] ELSE file[n]],
                           ![p].repl = [n \in known \cup ToSet(names) |->
                                           IF n \in known THEN @[n] ELSE content(n)]]
    /\ UNCHANGED <<file, late, started, faults>>

\* Reading a document, a pack or a file to stage, or writing a staging file, fails:
\* nothing has been changed.
StageFailed(p) ==
    /\ Loading(p) \/ (job[p].at = "staging" /\ job[p].stage # {})
    /\ faults < MaxFaults
    /\ faults' = faults + 1
    /\ Goto(p, "failed")
    /\ UNCHANGED <<file, late, started>>

Staged(p) ==
    /\ job[p].at = "staging"
    /\ job[p].stage = {}
    /\ Goto(p, "publishing")
    /\ UNCHANGED <<file, late, started, faults>>

\* StagedFile::publish: a rename.
Publish(p) ==
    /\ job[p].at = "publishing"
    /\ job[p].pos < Len(job[p].order)
    /\ LET n == job[p].order[job[p].pos + 1] IN Write(p, n, job[p].repl[n])
    /\ job' = [job EXCEPT ![p].pos = @ + 1]
    /\ UNCHANGED <<started, faults>>

\* Mutant: only documents are rolled back, not the backups.
PublishFailedDocs(p) ==
    LET docs == SelectSeq(SubSeq(job[p].order, 1, job[p].pos),
                          LAMBDA n : Contains(job[p].cmd.targets, n))
    IN  /\ job[p].at = "publishing"
        /\ job[p].pos < Len(job[p].order)
        /\ faults < MaxFaults
        /\ faults' = faults + 1
        /\ job' = [job EXCEPT ![p].at = "rollback", ![p].order = docs, ![p].pos = Len(docs)]
        /\ UNCHANGED <<file, late, started>>

\* A rename fails: what was published is rolled back, last first.
PublishFailed(p) ==
    /\ job[p].at = "publishing"
    /\ job[p].pos < Len(job[p].order)
    /\ faults < MaxFaults
    /\ faults' = faults + 1
    /\ Goto(p, "rollback")
    /\ UNCHANGED <<file, late, started>>

Published(p) ==
    /\ job[p].at = "publishing"
    /\ job[p].pos = Len(job[p].order)
    /\ Goto(p, "succeeded")
    /\ UNCHANGED <<file, late, started, faults>>

\* The restoring rename, or remove_if_exists for a file that was not there.
Rollback(p) ==
    /\ job[p].at = "rollback"
    /\ job[p].pos > 0
    /\ LET n == job[p].order[job[p].pos] IN Write(p, n, job[p].orig[n])
    /\ job' = [job EXCEPT ![p].pos = @ - 1]
    /\ UNCHANGED <<started, faults>>

\* A rollback step fails: the error is kept and the others are still tried.
RollbackFailed(p) ==
    /\ job[p].at = "rollback"
    /\ job[p].pos > 0
    /\ faults < MaxFaults
    /\ faults' = faults + 1
    /\ job' = [job EXCEPT ![p].pos = @ - 1, ![p].error = TRUE]
    /\ UNCHANGED <<file, late, started>>

\* Mutant: a failed rollback is never reported.
RolledBackOk(p) ==
    /\ job[p].at = "rollback"
    /\ job[p].pos = 0
    /\ ~job[p].error
    /\ Goto(p, "failed")
    /\ UNCHANGED <<file, late, started, faults>>

RolledBack(p) ==
    /\ job[p].at = "rollback"
    /\ job[p].pos = 0
    /\ Goto(p, "failed")
    /\ UNCHANGED <<file, late, started, faults>>

Kill(p) ==
    /\ job[p].at \notin Ended
    /\ faults < MaxFaults
    /\ faults' = faults + 1
    /\ Goto(p, "killed")
    /\ UNCHANGED <<file, late, started>>

ProcStep(p) ==
    \/ CreateCheck(p) \/ LoadDocument(p) \/ Edit(p)
    \/ Stage(p) \/ StageFailed(p) \/ Staged(p)
    \/ Publish(p) \/ PublishFailed(p) \/ Published(p)
    \/ Rollback(p) \/ RollbackFailed(p) \/ RolledBack(p)

Next == \E p \in Procs : ProcStep(p) \/ Kill(p) \/ \E c \in Commands : Begin(p, c)

\* A running process keeps running.
Spec == Init /\ [][Next]_vars /\ \A p \in Procs : WF_vars(ProcStep(p))

-----------------------------------------------------------------------------
(* Properties                                                              *)

\* What a command staged and nobody else has written since.
Own(p) == (DOMAIN job[p].orig) \ late[p]

\* A command that succeeds has put in place the new version of every document it
\* changes, and the replaced version in every backup; one that fails, at whatever
\* step, leaves every document and every backup as it found it, unless it says
\* that the rollback failed.  Commands on other documents may run meanwhile.
AllOrNothing ==
    \A p \in Procs : \A n \in Own(p) :
        /\ job[p].at = "succeeded" => file[n] = job[p].repl[n]
        /\ job[p].at = "failed" /\ ~job[p].error => file[n] = job[p].orig[n]

\* At every moment, also after a kill or a failed rename: when a document no longer
\* has the content a command with backups found, that content is in the backup.
\* Not even a version written between loading and staging is lost.  The exception
\* is a failed rollback step: the backup is restored even when its document was not.
ReplacedIsBackedUp ==
    \A p \in Procs :
        job[p].at # "idle" /\ job[p].cmd.backup /\ ~job[p].error =>
            \A i \in DOMAIN job[p].cmd.targets :
                LET doc == job[p].cmd.targets[i]
                    bak == BackupOf[doc]
                IN  {doc, bak} \subseteq Own(p) /\ file[doc] # job[p].orig[doc] =>
                        file[bak] = job[p].orig[doc]

\* Every command ends, whatever fails: the renames and their rollback are finite.
Terminates == \A p \in Procs : job[p].at \notin Ended ~> job[p].at \in Ended
=============================================================================
