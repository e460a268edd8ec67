---------------------------- MODULE RemoteProofs ----------------------------
(***************************************************************************)
(* Proofs about Remote for any processes, packs and number of releases.    *)
(*                                                                         *)
(* A file is Good when it is the server's, or has met with an accident, or *)
(* is being written.  Only an upload and a failed clone make a good file   *)
(* bad, and after an upload no command is quiet; so what a command has     *)
(* brought up to date stays so (ConvergeInv).  A clone runs alone          *)
(* (PhaseInv), and its directory is complete when it ends (CloneInv).      *)
(***************************************************************************)
EXTENDS Remote, TLAPS

Contents == Listings \cup (0..MaxVersion) \cup {None, Broken}

Jobs == [cmd : {"none", "clone", "update", "fetch"},
         at : {"idle", "missing", "waiting", "writing", "packs", "ok"},
         file : Files, probe : BOOLEAN, adding : BOOLEAN, since : BOOLEAN, body : Contents,
         listed : Listings, todo : SUBSET Packs,
         quiet : BOOLEAN, overtaken : BOOLEAN, served : BOOLEAN]

TypeInv ==
    /\ release \in Listings
    /\ server \in [Files -> Contents] /\ local \in [Files -> Contents]
    /\ meta \in {1, 2}
    /\ fresh \subseteq Files /\ excused \subseteq Files
    /\ cloned \in BOOLEAN
    /\ job \in [Procs -> Jobs]

Good(f) == f \in excused \/ Writing(f) \/ local[f] = server[f]

\* FreshIsCurrent for one file.
FreshInv(f) == f \in fresh => Good(f)

\* What is missing is a pack; a request goes with the time stamp of a file that is
\* still fresh; a body that is written is usable, and the server's unless overtaken.
RequestInv(p) ==
    /\ job[p].at = "missing" => \E n \in Packs : job[p].file = Pack(n)
    /\ job[p].at = "waiting" /\ job[p].since => job[p].file \in fresh
    /\ job[p].at = "writing" =>
          /\ job[p].body \notin {None, Broken}
          /\ job[p].file = Esi => job[p].body \in Listings
          /\ ~job[p].overtaken => job[p].body = server[job[p].file]

\* The command is asking for a file or writing it.
Fetching(p, f) == job[p].at \in {"waiting", "writing"} /\ job[p].file = f

\* The command has its remote index, and goes by it.
Past(p) == job[p].at \in {"packs", "ok"} \/ \E n \in Packs : Fetching(p, Idx(n))

\* A pack index as a listing wants it, unless the server had none to offer.
GoodIndex(n, version) ==
    Good(Idx(n)) \/ local[Idx(n)] = version \/ server[Idx(n)] = Broken

\* What a quiet command has looked at is up to date.
ConvergeInv(p) ==
    Past(p) /\ job[p].quiet =>
        /\ Good(Esi)
        /\ \A n \in Listed(job[p].listed) :
              n \in job[p].todo \/ Fetching(p, Idx(n)) \/ GoodIndex(n, job[p].listed[n])

Active(p) == job[p].at \notin Ended

\* A clone runs alone, and before everything else.
PhaseInv ==
    /\ \A p \in Procs : job[p].at = "ok" => cloned /\ job[p].todo = {}
    /\ \A p \in Procs : Active(p) /\ job[p].cmd # "clone" => cloned
    /\ \A p \in Procs : Active(p) /\ job[p].cmd = "clone" =>
          ~cloned /\ \A q \in Procs : q # p => job[q].at = "idle"

Usable(f) == local[f] \notin {None, Broken}

\* What the clone has in its directory.
CloneInv ==
    ~cloned =>
        /\ \A f \in fresh : Writing(f) \/ Usable(f)
        /\ \A p \in Procs : Past(p) =>
              /\ local[Esi] = job[p].listed
              /\ \A n \in Listed(job[p].listed) :
                    n \in job[p].todo \/ Fetching(p, Idx(n)) \/ Usable(Idx(n)) \/ job[p].served

\* The inductive invariant.
IInv ==
    /\ TypeInv
    /\ \A f \in Files : FreshInv(f)
    /\ \A p \in Procs : RequestInv(p) /\ ConvergeInv(p)
    /\ PhaseInv /\ CloneInv

-----------------------------------------------------------------------------
(* Files and jobs                                                          *)

\* The remote index, the pack indexes and the packs are different files.
LEMMA FileFacts ==
    /\ \A f \in Files : f = Esi \/ (\E n \in Packs : f = Idx(n)) \/ (\E n \in Packs : f = Pack(n))
    /\ Esi \in Files /\ Esi[1] = "esi"
    /\ \A n \in Packs : /\ Idx(n) \in Files /\ Idx(n)[1] = "idx" /\ Idx(n)[2] = n
                        /\ Pack(n) \in Files /\ Pack(n)[1] = "pack" /\ Pack(n)[2] = n
    /\ \A n \in Packs : Idx(n) # Esi /\ Pack(n) # Esi
    /\ \A n, m \in Packs : Idx(n) # Pack(m) /\ (Idx(n) = Idx(m) => n = m)
  <1>1. Esi[1] = "esi"
    BY DEF Esi
  <1>2. \A n \in Packs : Idx(n)[1] = "idx" /\ Idx(n)[2] = n
    BY DEF Idx
  <1>3. \A n \in Packs : Pack(n)[1] = "pack" /\ Pack(n)[2] = n
    BY DEF Pack
  <1>4. \A n \in Packs : Idx(n) # Esi /\ Pack(n) # Esi
    BY <1>1, <1>2, <1>3
  <1>5. \A n, m \in Packs : Idx(n) # Pack(m) /\ (Idx(n) = Idx(m) => n = m)
    BY <1>2, <1>3
  <1> QED BY <1>1, <1>2, <1>3, <1>4, <1>5 DEF Files

\* A process without a command.
LEMMA IdleFacts ==
    /\ IdleJob \in Jobs /\ IdleJob.at = "idle" /\ IdleJob.cmd = "none" /\ IdleJob.file = Esi
    /\ IdleJob.todo = {} /\ IdleJob.since = FALSE /\ IdleJob.listed = [n \in Packs |-> 0]
  <1>1. [n \in Packs |-> 0] \in Listings
    BY RemoteAssumption DEF Listings
  <1> QED BY <1>1, FileFacts DEF IdleJob, Jobs, Contents

\* The jobs that Ask and Go return.
LEMMA AskFacts ==
    ASSUME NEW j \in Jobs, NEW f \in Files
    PROVE  /\ Ask(j, f) \in Jobs
           /\ Ask(j, f).at = "waiting" /\ Ask(j, f).file = f
           /\ Ask(j, f).since <=> f \in fresh
           /\ Ask(j, f).cmd = j.cmd /\ Ask(j, f).listed = j.listed /\ Ask(j, f).todo = j.todo
           /\ Ask(j, f).quiet = j.quiet /\ Ask(j, f).served = j.served
  <1> DEFINE r(b) == [j EXCEPT !.at = "waiting", !.file = f, !.since = b,
                               !.body = None, !.overtaken = FALSE, !.probe = FALSE]
  <1>1. ASSUME NEW b \in BOOLEAN
        PROVE  /\ r(b) \in Jobs /\ r(b).at = "waiting" /\ r(b).file = f /\ r(b).since = b
               /\ r(b).cmd = j.cmd /\ r(b).listed = j.listed /\ r(b).todo = j.todo
               /\ r(b).quiet = j.quiet /\ r(b).served = j.served
    BY ZenonT(40) DEF Jobs, Contents
  <1>2. (f \in fresh) = TRUE => Ask(j, f) = r(TRUE)
    BY DEF Ask
  <1>3. (f \in fresh) = FALSE => Ask(j, f) = r(FALSE)
    BY DEF Ask
  <1> HIDE DEF r
  <1>4. CASE f \in fresh
    <2>1. Ask(j, f) = r(TRUE)
      BY <1>2, <1>4
    <2> QED BY <1>1, <1>4, <2>1
  <1>5. CASE f \notin fresh
    <2>1. Ask(j, f) = r(FALSE)
      BY <1>3, <1>5
    <2> QED BY <1>1, <1>5, <2>1
  <1> QED BY <1>4, <1>5

\* Go keeps the command and the history, and goes by the listing it is given.
LEMMA GoFacts ==
    ASSUME NEW j \in Jobs, NEW listing \in Listings, NEW left \in SUBSET Packs
    PROVE  /\ Go(j, listing, left) \in Jobs
           /\ Go(j, listing, left).at = "packs" /\ Go(j, listing, left).file = Esi
           /\ Go(j, listing, left).listed = listing /\ Go(j, listing, left).todo = left
           /\ Go(j, listing, left).cmd = j.cmd
           /\ Go(j, listing, left).quiet = j.quiet /\ Go(j, listing, left).served = j.served
  <1> DEFINE r(i) == [i EXCEPT !.cmd = j.cmd, !.at = "packs", !.listed = listing,
                               !.todo = left, !.quiet = j.quiet, !.served = j.served]
  <1>1. ASSUME NEW i \in Jobs
        PROVE  /\ r(i) \in Jobs /\ r(i).at = "packs" /\ r(i).file = i.file
               /\ r(i).listed = listing /\ r(i).todo = left /\ r(i).cmd = j.cmd
               /\ r(i).quiet = j.quiet /\ r(i).served = j.served
    BY DEF Jobs
  <1>2. Go(j, listing, left) = r(IdleJob)
    BY DEF Go
  <1> HIDE DEF r
  <1> QED BY <1>1, <1>2, IdleFacts

\* Only the job of one process changes.
LEMMA SetFacts ==
    ASSUME TypeInv, NEW p \in Procs, NEW r \in Jobs, Set(p, r)
    PROVE  job' \in [Procs -> Jobs] /\ job'[p] = r /\ \A q \in Procs : q # p => job'[q] = job[q]
  BY DEF TypeInv, Set

\* A clone stays the only command.
LEMMA PhaseKept ==
    ASSUME PhaseInv, NEW p \in Procs, cloned' = cloned,
           \A q \in Procs : q # p => job'[q] = job[q],
           \/ job'[p].at = "idle"
           \/ /\ job'[p].at \notin Ended
              /\ \/ Active(p) /\ job'[p].cmd = job[p].cmd
                 \/ job'[p].cmd # "clone" /\ cloned
                 \/ job'[p].cmd = "clone" /\ ~cloned /\ \A q \in Procs : q # p => job[q].at = "idle"
    PROVE  PhaseInv'
  BY DEF PhaseInv, Active, Ended

-----------------------------------------------------------------------------
(* Steps of one command                                                    *)

\* A step of a process leaves a file good or leaves it alone.
Touch(f) ==
    \/ Good(f)'
    \/ /\ local'[f] = local[f]
       /\ f \in excused => f \in excused'
       /\ Writing(f) => Writing(f)'
       /\ f \in fresh' => f \in fresh

\* So what is good stays good.
LEMMA TouchFacts ==
    ASSUME NEW f \in Files, server' = server, Touch(f)
    PROVE  /\ Good(f) => Good(f)'
           /\ FreshInv(f) => FreshInv(f)'
  BY DEF Touch, Good, FreshInv

\* The same of a pack index that is as a listing wants it.
LEMMA TouchIndex ==
    ASSUME NEW n \in Packs, NEW v, server' = server, Touch(Idx(n)), GoodIndex(n, v)
    PROVE  Good(Idx(n))' \/ local'[Idx(n)] = v \/ server'[Idx(n)] = Broken
  BY FileFacts, TouchFacts DEF GoodIndex, Touch

\* The invariant of the other processes is kept.
LEMMA StepIInv ==
    ASSUME IInv, NEW p \in Procs, TypeInv', server' = server, fresh \subseteq fresh',
           \A q \in Procs : q # p => job'[q] = job[q],
           \A f \in Files : Touch(f),
           RequestInv(p)', ConvergeInv(p)', PhaseInv', CloneInv'
    PROVE  IInv'
  <1>1. ASSUME NEW f \in Files PROVE FreshInv(f)'
    BY TouchFacts DEF IInv
  <1>2. ASSUME NEW q \in Procs, q # p PROVE RequestInv(q)' /\ ConvergeInv(q)'
    <2>1. RequestInv(q) /\ ConvergeInv(q) /\ job'[q] = job[q] /\ job[q] \in Jobs
      BY <1>2 DEF IInv, TypeInv
    <2>2. RequestInv(q)'
      BY <2>1 DEF RequestInv
    <2>3. Past(q)' = Past(q) /\ \A f \in Files : Fetching(q, f)' = Fetching(q, f)
      BY <2>1 DEF Past, Fetching
    <2>4. ASSUME Past(q)', job'[q].quiet
          PROVE  /\ Good(Esi)'
                 /\ \A n \in Listed(job'[q].listed) :
                       n \in job'[q].todo \/ Fetching(q, Idx(n))' \/ GoodIndex(n, job[q].listed[n])'
      <3>1. Good(Esi)'
        BY <2>1, <2>3, <2>4, FileFacts, TouchFacts DEF ConvergeInv
      <3>2. ASSUME NEW n \in Listed(job[q].listed), n \notin job[q].todo, ~Fetching(q, Idx(n))
            PROVE  GoodIndex(n, job[q].listed[n])'
        <4>1. n \in Packs /\ GoodIndex(n, job[q].listed[n])
          BY <2>1, <2>3, <2>4, <3>2 DEF ConvergeInv, Listed
        <4> QED BY <2>1, <4>1, TouchIndex, FileFacts DEF GoodIndex
      <3>3. \A n \in Listed(job[q].listed) : Fetching(q, Idx(n))' = Fetching(q, Idx(n))
        BY <2>3, FileFacts DEF Listed
      <3> QED BY <2>1, <3>1, <3>2, <3>3
    <2>5. ConvergeInv(q)'
      BY <2>1, <2>4 DEF ConvergeInv
    <2> QED BY <2>2, <2>5
  <1> QED BY <1>1, <1>2 DEF IInv

\* A process that leaves the files alone, and has nothing to go by yet or any more.
LEMMA QuietIInv ==
    ASSUME IInv, NEW p \in Procs, NEW r \in Jobs, Set(p, r), job[p].at # "writing",
           UNCHANGED <<release, server, meta, local, fresh, excused, cloned>>,
           \/ r.at = "idle"
           \/ r.at = "missing" /\ PhaseInv' /\ \E n \in Packs : r.file = Pack(n)
           \/ r.at = "waiting" /\ (r.since => r.file \in fresh) /\ PhaseInv'
              /\ \A n \in Packs : r.file # Idx(n)
    PROVE  IInv'
  <1>0. TypeInv /\ PhaseInv /\ CloneInv
    BY DEF IInv
  <1>1. job' \in [Procs -> Jobs] /\ job'[p] = r /\ \A q \in Procs : q # p => job'[q] = job[q]
    BY <1>0, SetFacts
  <1>2. TypeInv'
    BY <1>0, <1>1 DEF TypeInv
  <1>3. PhaseInv'
    BY <1>0, <1>1, PhaseKept
  <1>4. \A f \in Files : Writing(f)' <=> Writing(f)
    BY <1>1 DEF Writing
  <1>5. \A f \in Files : Touch(f)
    BY <1>4 DEF Touch
  <1>6. RequestInv(p)'
    BY <1>1 DEF RequestInv
  <1>7. ~Past(p)'
    BY <1>1 DEF Past, Fetching
  <1>8. CloneInv'
    <2>1. ASSUME NEW q \in Procs, Past(q)', ~cloned
          PROVE  /\ local[Esi] = job'[q].listed
                 /\ \A n \in Listed(job'[q].listed) :
                       n \in job'[q].todo \/ Fetching(q, Idx(n))' \/ Usable(Idx(n)) \/ job'[q].served
      <3>1. q # p /\ job'[q] = job[q]
        BY <1>1, <1>7, <2>1
      <3>2. Past(q) /\ \A f \in Files : Fetching(q, f)' = Fetching(q, f)
        BY <2>1, <3>1 DEF Past, Fetching
      <3> QED BY <1>0, <2>1, <3>1, <3>2, FileFacts DEF CloneInv, Listed
    <2>2. ASSUME NEW f \in fresh, ~cloned PROVE Writing(f)' \/ Usable(f)
      BY <1>0, <1>4, <2>2 DEF CloneInv, TypeInv
    <2>3. \A f \in Files : Usable(f)' <=> Usable(f)
      BY DEF Usable
    <2>4. cloned' = cloned /\ local' = local /\ fresh' = fresh
      OBVIOUS
    <2>5. ASSUME NEW q \in Procs, Past(q)', ~cloned'
          PROVE  /\ local'[Esi] = job'[q].listed
                 /\ \A n \in Listed(job'[q].listed) :
                       n \in job'[q].todo \/ Fetching(q, Idx(n))' \/ Usable(Idx(n))' \/ job'[q].served
      BY <2>1, <2>3, <2>4, <2>5, FileFacts DEF Listed
    <2>6. ASSUME NEW f \in fresh', ~cloned' PROVE Writing(f)' \/ Usable(f)'
      BY <1>0, <2>2, <2>3, <2>4, <2>6 DEF TypeInv
    <2> QED BY <2>5, <2>6 DEF CloneInv
  <1>9. ConvergeInv(p)'
    BY <1>7 DEF ConvergeInv
  <1> QED BY <1>1, <1>2, <1>3, <1>5, <1>6, <1>8, <1>9, StepIInv

\* A command that is not writing fails, or a clone does at any moment.
LEMMA FailIInv ==
    ASSUME IInv, NEW p \in Procs, Fail(p), Active(p),
           job[p].cmd = "clone" \/ job[p].at # "writing"
    PROVE  IInv'
  <1>0. TypeInv /\ PhaseInv /\ CloneInv
    BY DEF IInv
  <1>1. /\ Set(p, IdleJob) /\ UNCHANGED <<release, server, meta, cloned>>
        /\ IF job[p].cmd = "clone"
           THEN local' = [f \in Files |-> None] /\ fresh' = {} /\ excused' = {}
           ELSE UNCHANGED <<local, fresh, excused>>
    BY DEF Fail
  <1>2. CASE job[p].cmd # "clone"
    BY <1>1, <1>2, IdleFacts, QuietIInv
  <1>3. CASE job[p].cmd = "clone"
    <2>1. local' = [f \in Files |-> None] /\ fresh' = {} /\ excused' = {}
      BY <1>1, <1>3
    <2>2. ~cloned /\ \A q \in Procs : q # p => job[q].at = "idle"
      BY <1>0, <1>3 DEF PhaseInv
    <2>3. job' \in [Procs -> Jobs] /\ \A q \in Procs : job'[q].at = "idle"
      BY <1>0, <1>1, <2>2, IdleFacts, SetFacts
    <2>4. TypeInv'
      BY <1>0, <1>1, <2>1, <2>3 DEF TypeInv, Contents
    <2>5. \A q \in Procs : ~Past(q)' /\ RequestInv(q)' /\ ConvergeInv(q)'
      BY <2>3 DEF Past, Fetching, RequestInv, ConvergeInv
    <2>6. PhaseInv'
      BY <1>1, <2>2, <2>3 DEF PhaseInv, Active, Ended
    <2>7. CloneInv' /\ \A f \in Files : FreshInv(f)'
      BY <2>1, <2>5 DEF CloneInv, FreshInv
    <2> QED BY <2>4, <2>5, <2>6, <2>7 DEF IInv
  <1> QED BY <1>2, <1>3

-----------------------------------------------------------------------------
(* The publisher                                                           *)

\* Nothing has been downloaded, and nothing is asked for, at first.
LEMMA InitIInv == Init => IInv
  <1> SUFFICES ASSUME Init PROVE IInv
    OBVIOUS
  <1>1. [n \in Packs |-> 0] \in Listings
    BY RemoteAssumption DEF Listings
  <1>2. TypeInv
    BY <1>1, IdleFacts DEF Init, TypeInv, Contents
  <1>3. \A p \in Procs : job[p].at = "idle"
    BY IdleFacts DEF Init
  <1>4. \A p \in Procs : ~Past(p) /\ RequestInv(p) /\ ConvergeInv(p)
    BY <1>3 DEF Past, Fetching, RequestInv, ConvergeInv
  <1>5. PhaseInv
    BY <1>3 DEF PhaseInv, Active, Ended
  <1>6. CloneInv /\ \A f \in Files : FreshInv(f)
    BY <1>4 DEF Init, CloneInv, FreshInv
  <1> QED BY <1>2, <1>4, <1>5, <1>6 DEF IInv

\* Nothing but the type of what is released matters to the clients.
LEMMA StutterIInv ==
    ASSUME IInv, release' \in Listings,
           UNCHANGED <<server, meta, local, fresh, excused, cloned, job>>
    PROVE  IInv'
  <1>1. TypeInv'
    BY DEF IInv, TypeInv
  <1>2. \A f \in Files : FreshInv(f)'
    BY DEF IInv, FreshInv, Good, Writing
  <1>3. \A p \in Procs : RequestInv(p)' /\ ConvergeInv(p)'
    BY DEF IInv, RequestInv, ConvergeInv, Past, Fetching, GoodIndex, Good, Writing
  <1>4. PhaseInv' /\ CloneInv'
    BY DEF IInv, PhaseInv, Active, CloneInv, Past, Fetching, Usable, Writing
  <1> QED BY <1>1, <1>2, <1>3, <1>4 DEF IInv

\* What the publisher uploads can be the content of a file.
LEMMA TargetType ==
    ASSUME TypeInv, NEW f \in Files
    PROVE  Target(f) \in Contents
  <1>1. CASE f = Esi
    BY <1>1 DEF Target, TypeInv, Contents
  <1>2. CASE f # Esi
    <2>1. f[2] \in Packs
      BY <1>2, FileFacts
    <2>2. release[f[2]] \in 0..MaxVersion
      BY <2>1 DEF TypeInv, Listings
    <2> QED BY <1>2, <2>2 DEF Target, Contents
  <1> QED BY <1>1, <1>2

\* An upload makes its file stale, or excuses it; requests that it overtakes are
\* marked, and no running command is quiet any more.
LEMMA UploadIInv ==
    ASSUME IInv, NEW f \in Files, NEW content \in Contents, NEW sameSecond \in BOOLEAN,
           Upload(f, content, sameSecond)
    PROVE  IInv'
  <1>0. TypeInv /\ PhaseInv /\ CloneInv
    BY DEF IInv
  <1>1. /\ server' = [server EXCEPT ![f] = content]
        /\ fresh' = IF sameSecond THEN fresh ELSE fresh \ {f}
        /\ excused' = IF sameSecond THEN excused \cup {f} ELSE excused \ {f}
        /\ UNCHANGED <<release, meta, local, cloned>>
    BY DEF Upload
  <1>2. ASSUME NEW p \in Procs
        PROVE  /\ job'[p] \in Jobs
               /\ job'[p].cmd = job[p].cmd /\ job'[p].at = job[p].at /\ job'[p].file = job[p].file
               /\ job'[p].body = job[p].body /\ job'[p].listed = job[p].listed
               /\ job'[p].todo = job[p].todo /\ job'[p].served = job[p].served
               /\ job'[p].quiet => job[p].at = "idle"
               /\ job'[p].since => job[p].since /\ (job[p].file = f => sameSecond)
               /\ ~job'[p].overtaken => ~job[p].overtaken /\ ~(job[p].file = f /\ job[p].at = "writing")
    <2> DEFINE r(a, b, c) == [job[p] EXCEPT !.quiet = a, !.since = b, !.overtaken = c]
               quiet == job[p].quiet /\ job[p].at = "idle"
               since == job[p].since /\ (job[p].file = f => sameSecond)
               overtaken == job[p].overtaken \/ (job[p].file = f /\ job[p].at = "writing")
    <2>1. job'[p] = r(quiet, since, overtaken)
      BY DEF Upload
    <2>2. ASSUME NEW a \in BOOLEAN, NEW b \in BOOLEAN, NEW c \in BOOLEAN
          PROVE  /\ r(a, b, c) \in Jobs
                 /\ r(a, b, c).cmd = job[p].cmd /\ r(a, b, c).at = job[p].at
                 /\ r(a, b, c).file = job[p].file
                 /\ r(a, b, c).body = job[p].body /\ r(a, b, c).listed = job[p].listed
                 /\ r(a, b, c).todo = job[p].todo /\ r(a, b, c).served = job[p].served
                 /\ r(a, b, c).quiet = a /\ r(a, b, c).since = b /\ r(a, b, c).overtaken = c
      <3>1. job[p] \in Jobs
        BY <1>0 DEF TypeInv
      <3> QED BY ZenonT(40), <3>1 DEF Jobs
    <2>3. quiet \in BOOLEAN /\ since \in BOOLEAN /\ overtaken \in BOOLEAN
      OBVIOUS
    <2> HIDE DEF r, quiet, since, overtaken
    <2>4. /\ job'[p] \in Jobs
          /\ job'[p].cmd = job[p].cmd /\ job'[p].at = job[p].at /\ job'[p].file = job[p].file
          /\ job'[p].body = job[p].body /\ job'[p].listed = job[p].listed
          /\ job'[p].todo = job[p].todo /\ job'[p].served = job[p].served
          /\ job'[p].quiet = quiet /\ job'[p].since = since /\ job'[p].overtaken = overtaken
      BY <2>1, <2>2, <2>3
    <2>5. quiet => job[p].at = "idle"
      BY DEF quiet
    <2>6. since => job[p].since /\ (job[p].file = f => sameSecond)
      BY DEF since
    <2>7. ~overtaken => ~job[p].overtaken /\ ~(job[p].file = f /\ job[p].at = "writing")
      BY DEF overtaken
    <2> QED BY <2>4, <2>5, <2>6, <2>7
  <1>3. job' \in [Procs -> Jobs]
    BY <1>2 DEF Upload
  <1>4. TypeInv'
    BY <1>0, <1>1, <1>3 DEF TypeInv
  <1>5. \A g \in Files : Writing(g)' <=> Writing(g)
    BY <1>2 DEF Writing
  <1>6. ASSUME NEW g \in Files PROVE FreshInv(g)'
    <2>1. FreshInv(g)
      BY DEF IInv
    <2>2. CASE g = f
      BY <1>1, <2>2 DEF FreshInv, Good
    <2>3. CASE g # f
      <3>1. server'[g] = server[g] /\ (g \in excused => g \in excused') /\ (g \in fresh' => g \in fresh)
        BY <1>0, <1>1, <2>3 DEF TypeInv
      <3> QED BY <1>1, <1>5, <2>1, <3>1 DEF FreshInv, Good
    <2> QED BY <2>2, <2>3
  <1>7. ASSUME NEW p \in Procs PROVE RequestInv(p)' /\ ConvergeInv(p)'
    <2>1. RequestInv(p) /\ job[p].file \in Files
      BY <1>0 DEF IInv, TypeInv, Jobs
    <2>2. job[p].file # f => server'[job[p].file] = server[job[p].file]
      BY <1>0, <1>1, <2>1 DEF TypeInv
    <2>3. RequestInv(p)'
      BY <1>1, <1>2, <2>1, <2>2 DEF RequestInv
    <2>4. ConvergeInv(p)'
      BY <1>2 DEF ConvergeInv, Past, Fetching
    <2> QED BY <2>3, <2>4
  <1>8. PhaseInv'
    BY <1>0, <1>1, <1>2 DEF PhaseInv, Active
  <1>9. CloneInv'
    <2>1. \A p \in Procs : /\ Past(p)' <=> Past(p)
                           /\ \A g \in Files : Fetching(p, g)' <=> Fetching(p, g)
      BY <1>2 DEF Past, Fetching
    <2>2. ASSUME ~cloned', NEW g \in fresh' PROVE Writing(g)' \/ Usable(g)'
      <3>1. g \in fresh /\ g \in Files
        BY <1>0, <1>1, <2>2 DEF TypeInv
      <3> QED BY <1>0, <1>1, <1>5, <2>2, <3>1 DEF CloneInv, Usable
    <2>3. ASSUME ~cloned', NEW p \in Procs, Past(p)'
          PROVE  /\ local'[Esi] = job'[p].listed
                 /\ \A n \in Listed(job'[p].listed) :
                       n \in job'[p].todo \/ Fetching(p, Idx(n))' \/ Usable(Idx(n))' \/ job'[p].served
      BY <1>0, <1>1, <1>2, <2>1, <2>3, FileFacts DEF CloneInv, Usable, Listed
    <2> QED BY <2>2, <2>3 DEF CloneInv
  <1> QED BY <1>4, <1>6, <1>7, <1>8, <1>9 DEF IInv

-----------------------------------------------------------------------------
(* The commands                                                            *)

\* A command begins, looks for its pack, or asks for the index again.
LEMMA BeginIInv ==
    ASSUME IInv, NEW p \in Procs,
           \/ Clone(p) \/ Update(p) \/ (\E n \in Packs : Fetch(p, n))
           \/ FindPack(p) \/ NotFound(p) \/ RequestFails(p) \/ Refuse(p)
    PROVE  IInv'
  <1>0. TypeInv /\ PhaseInv /\ job[p] \in Jobs /\ job[p].file \in Files
    BY DEF IInv, TypeInv, Jobs
  <1> DEFINE Same == UNCHANGED <<release, server, meta, local, fresh, excused, cloned>>
  <1>1. ASSUME NEW r \in Jobs, Set(p, r), Same, job[p].at # "writing",
               \/ r.at = "missing" /\ \E n \in Packs : r.file = Pack(n)
               \/ /\ r.at = "waiting" /\ (r.since => r.file \in fresh)
                  /\ \A n \in Packs : r.file # Idx(n),
               \/ Active(p) /\ r.cmd = job[p].cmd
               \/ r.cmd # "clone" /\ cloned
               \/ r.cmd = "clone" /\ ~cloned /\ \A q \in Procs : q # p => job[q].at = "idle"
        PROVE  IInv'
    <2>1. PhaseInv'
      BY <1>0, <1>1, SetFacts, PhaseKept DEF Ended
    <2> QED BY <1>1, <2>1, QuietIInv
  <1>2. CASE Clone(p)
    <2> DEFINE a == [IdleJob EXCEPT !.cmd = "clone", !.adding = TRUE]
               r == [Ask(a, Esi) EXCEPT !.probe = TRUE]
    <2>1. a \in Jobs /\ a.cmd = "clone"
      BY IdleFacts DEF Jobs
    <2> HIDE DEF a
    <2>2. /\ Ask(a, Esi) \in Jobs /\ Ask(a, Esi).at = "waiting" /\ Ask(a, Esi).file = Esi
          /\ (Ask(a, Esi).since <=> Esi \in fresh) /\ Ask(a, Esi).cmd = "clone"
      BY SMTT(30), <2>1, AskFacts, FileFacts
    <2>3. /\ r \in Jobs /\ r.at = "waiting" /\ r.file = Esi /\ r.cmd = "clone"
          /\ r.since = Ask(a, Esi).since
      BY <2>2 DEF Jobs
    <2>4. Set(p, r) /\ Same /\ ~cloned /\ \A q \in Procs : job[q].at \in Ended
      BY <1>2 DEF Clone, a
    <2> HIDE DEF r
    <2>5. \A q \in Procs : job[q].at = "idle"
      BY <1>0, <2>4 DEF PhaseInv, Ended
    <2> QED BY <1>1, <2>2, <2>3, <2>4, <2>5, FileFacts
  <1>3. CASE Update(p)
    <2> DEFINE a == [IdleJob EXCEPT !.cmd = "update"]
    <2>1. a \in Jobs /\ a.cmd = "update"
      BY IdleFacts DEF Jobs
    <2>2. job[p].at \in Ended /\ cloned /\ Same
          /\ (Set(p, Ask(a, Esi)) \/ Set(p, IdleJob))
      BY <1>3 DEF Update
    <2> HIDE DEF a
    <2>3. CASE Set(p, Ask(a, Esi))
      <3>1. /\ Ask(a, Esi) \in Jobs /\ Ask(a, Esi).at = "waiting" /\ Ask(a, Esi).file = Esi
            /\ (Ask(a, Esi).since <=> Esi \in fresh) /\ Ask(a, Esi).cmd = "update"
        BY SMTT(30), <2>1, AskFacts, FileFacts
      <3> QED BY <1>1, <2>2, <2>3, <3>1, FileFacts DEF Ended
    <2>4. CASE Set(p, IdleJob)
      BY <2>2, <2>4, IdleFacts, QuietIInv DEF Ended
    <2> QED BY <2>2, <2>3, <2>4
  <1>4. ASSUME NEW n \in Packs, Fetch(p, n) PROVE IInv'
    <2> DEFINE r == [IdleJob EXCEPT !.cmd = "fetch", !.at = "missing", !.file = Pack(n)]
    <2>1. r \in Jobs /\ r.cmd = "fetch" /\ r.at = "missing" /\ r.file = Pack(n)
      BY IdleFacts, FileFacts DEF Jobs
    <2>2. job[p].at \in Ended /\ cloned /\ Same /\ Set(p, r)
      BY <1>4 DEF Fetch
    <2> HIDE DEF r
    <2> QED BY <1>1, <2>1, <2>2 DEF Ended
  <1>5. ASSUME Fail(p), job[p].at \in {"missing", "waiting"} PROVE IInv'
    BY <1>5, FailIInv DEF Active, Ended
  <1>6. CASE FindPack(p)
    <2>1. CASE Fail(p)
      BY <1>5, <1>6, <2>1 DEF FindPack
    <2>2. CASE ~Fail(p)
      <3> DEFINE n == job[p].file[2]
                 a == [job[p] EXCEPT !.listed = local[Esi]]
      <3>1. /\ job[p].at = "missing" /\ local[Esi] \in Listings /\ local[Esi][n] # 0
            /\ Set(p, Ask(a, Pack(n))) /\ Same
        BY <1>6, <2>2 DEF FindPack
      <3>2. a \in Jobs /\ a.cmd = job[p].cmd
        BY <1>0, <3>1 DEF Jobs
      <3> HIDE DEF a
      <3>3. n \in Packs
        BY <3>1, FileFacts DEF IInv, RequestInv
      <3>4. /\ Ask(a, Pack(n)) \in Jobs /\ Ask(a, Pack(n)).at = "waiting"
            /\ Ask(a, Pack(n)).file = Pack(n) /\ (Ask(a, Pack(n)).since <=> Pack(n) \in fresh)
            /\ Ask(a, Pack(n)).cmd = job[p].cmd
        <4>1. Pack(n) \in Files
          BY <3>3, FileFacts
        <4> QED BY <3>2, <4>1, AskFacts
      <3>5. \A m \in Packs : Pack(n) # Idx(m)
        BY <3>3, FileFacts
      <3> HIDE DEF n
      <3> QED BY <1>1, <3>1, <3>4, <3>5 DEF Active, Ended
    <2> QED BY <2>1, <2>2
  <1>7. CASE NotFound(p)
    <2>1. job[p].at = "waiting"
      BY <1>7 DEF NotFound, Answered
    <2>2. CASE Fail(p)
      BY <1>5, <2>1, <2>2
    <2>3. CASE ~Fail(p)
      <3>1. Set(p, Ask(job[p], Esi)) /\ Same
        BY <1>7, <2>3 DEF NotFound
      <3>2. /\ Ask(job[p], Esi) \in Jobs /\ Ask(job[p], Esi).at = "waiting"
            /\ Ask(job[p], Esi).file = Esi /\ (Ask(job[p], Esi).since <=> Esi \in fresh)
            /\ Ask(job[p], Esi).cmd = job[p].cmd
        <4>1. Esi \in Files
          BY FileFacts
        <4> QED BY <1>0, <4>1, AskFacts
      <3> QED BY <1>1, <2>1, <3>1, <3>2, FileFacts DEF Active, Ended
    <2> QED BY <2>2, <2>3
  <1>8. CASE RequestFails(p) \/ Refuse(p)
    BY <1>5, <1>8 DEF RequestFails, Refuse, Answered
  <1> QED BY <1>2, <1>3, <1>4, <1>6, <1>7, <1>8

\* The index a command asks for.
Asked(r, n) == r.at = "waiting" /\ r.file = Idx(n)

\* A command that goes by its remote index looks at pack indexes and leaves the files
\* alone.
LEMMA LookIInv ==
    ASSUME IInv, NEW p \in Procs, NEW r \in Jobs, Set(p, r), Active(p), job[p].at # "writing",
           UNCHANGED <<release, server, meta, local, fresh, excused, cloned>>,
           r.cmd = job[p].cmd,
           r.at = "packs" \/ (r.at = "waiting" /\ (r.since => r.file \in fresh)),
           r.quiet => /\ Good(Esi)
                      /\ \A n \in Listed(r.listed) :
                            n \in r.todo \/ Asked(r, n) \/ GoodIndex(n, r.listed[n]),
           ~cloned => /\ local[Esi] = r.listed
                      /\ \A n \in Listed(r.listed) :
                            n \in r.todo \/ Asked(r, n) \/ Usable(Idx(n)) \/ r.served
    PROVE  IInv'
  <1>0. TypeInv /\ PhaseInv /\ CloneInv
    BY DEF IInv
  <1>1. job' \in [Procs -> Jobs] /\ job'[p] = r /\ \A q \in Procs : q # p => job'[q] = job[q]
    BY <1>0, SetFacts
  <1>2. TypeInv'
    BY <1>0, <1>1 DEF TypeInv
  <1>3. PhaseInv'
    BY <1>0, <1>1, PhaseKept DEF Ended
  <1>4. \A f \in Files : /\ Writing(f)' <=> Writing(f)
                         /\ Good(f)' <=> Good(f)
                         /\ Usable(f)' <=> Usable(f)
    <2>1. \A f \in Files : Writing(f)' <=> Writing(f)
      BY <1>1 DEF Writing
    <2> QED BY <2>1 DEF Good, Usable
  <1>5. \A f \in Files : Touch(f)
    BY <1>4 DEF Touch
  <1>6. RequestInv(p)'
    BY <1>1 DEF RequestInv
  <1>7. \A n \in Packs : Fetching(p, Idx(n))' <=> Asked(r, n)
    BY <1>1 DEF Fetching, Asked
  <1>8. \A n \in Packs, v \in 0..MaxVersion : GoodIndex(n, v) => GoodIndex(n, v)'
    BY <1>4, FileFacts DEF GoodIndex
  <1>9. r.listed \in Listings /\ \A n \in Packs : r.listed[n] \in 0..MaxVersion
    BY DEF Jobs, Listings
  <1>10. ConvergeInv(p)'
    <2>1. ASSUME r.quiet
          PROVE  /\ Good(Esi)'
                 /\ \A n \in Listed(r.listed) :
                       n \in r.todo \/ Fetching(p, Idx(n))' \/ GoodIndex(n, r.listed[n])'
      BY <1>4, <1>7, <1>8, <1>9, <2>1, FileFacts DEF Listed
    <2> QED BY <1>1, <2>1 DEF ConvergeInv
  <1>11. CloneInv'
    <2>1. ASSUME ~cloned', NEW f \in fresh' PROVE Writing(f)' \/ Usable(f)'
      BY <1>0, <1>4, <2>1 DEF CloneInv, TypeInv
    <2>2. ASSUME ~cloned', NEW q \in Procs, Past(q)'
          PROVE  /\ local'[Esi] = job'[q].listed
                 /\ \A n \in Listed(job'[q].listed) :
                       n \in job'[q].todo \/ Fetching(q, Idx(n))' \/ Usable(Idx(n))' \/ job'[q].served
      <3>1. CASE q = p
        BY <1>1, <1>4, <1>7, <2>2, <3>1, FileFacts DEF Listed
      <3>2. CASE q # p
        <4>1. job[q].at = "idle"
          BY <1>0, <2>2, <3>2 DEF PhaseInv
        <4> QED BY <1>1, <2>2, <3>2, <4>1 DEF Past, Fetching
      <3> QED BY <3>1, <3>2
    <2> QED BY <2>1, <2>2 DEF CloneInv
  <1> QED BY <1>1, <1>2, <1>3, <1>5, <1>6, <1>10, <1>11, StepIInv

\* 304, an index that does not parse, the next index, and the end.
LEMMA LookStepsIInv ==
    ASSUME IInv, NEW p \in Procs, NotModified(p) \/ SkipBroken(p) \/ NextIndex(p)
    PROVE  IInv'
  <1>0. /\ TypeInv /\ PhaseInv /\ CloneInv /\ RequestInv(p) /\ ConvergeInv(p)
        /\ job[p] \in Jobs /\ job[p].file \in Files
        /\ job[p].listed \in Listings /\ job[p].todo \in SUBSET Packs
    BY DEF IInv, TypeInv, Jobs
  <1> DEFINE Same == UNCHANGED <<release, server, meta, local, fresh, excused, cloned>>
  <1>1. ASSUME Set(p, IdleJob), Same, job[p].at = "waiting" PROVE IInv'
    BY <1>1, IdleFacts, QuietIInv
  <1>2. ASSUME ~cloned, Active(p) PROVE \A q \in Procs : q # p => job[q].at = "idle"
    BY <1>0, <1>2 DEF PhaseInv
  \* An index has been asked for: the others are as they were.
  <1>3. ASSUME NEW n \in Packs, job[p].at = "waiting", job[p].file = Idx(n)
        PROVE  /\ job[p].quiet => /\ Good(Esi)
                                  /\ \A m \in Listed(job[p].listed) : m # n =>
                                        m \in job[p].todo \/ GoodIndex(m, job[p].listed[m])
               /\ ~cloned => /\ local[Esi] = job[p].listed
                             /\ \A m \in Listed(job[p].listed) : m # n =>
                                   m \in job[p].todo \/ Usable(Idx(m)) \/ job[p].served
    <2>1. Past(p)
      BY <1>3 DEF Past, Fetching
    <2>2. \A m \in Packs : m # n => ~Fetching(p, Idx(m))
      BY <1>3, FileFacts DEF Fetching
    <2> QED BY <1>0, <2>1, <2>2 DEF ConvergeInv, CloneInv, Listed
  \* The file of a 304 is fresh, so it is good, and usable for a clone.
  <1>4. ASSUME Answered(p, 304)
        PROVE  /\ job[p].at = "waiting" /\ Good(job[p].file)
               /\ ~cloned => Usable(job[p].file)
    <2>1. job[p].at = "waiting" /\ job[p].since
      BY <1>4 DEF Answered, Answer
    <2>2. job[p].file \in fresh
      BY <1>0, <2>1 DEF RequestInv
    <2>3. Good(job[p].file)
      BY <1>0, <2>2 DEF IInv, FreshInv
    <2>4. ~cloned => \A q \in Procs : job[q].at # "writing"
      BY <1>2, <2>1 DEF Active, Ended
    <2>5. ~cloned => Usable(job[p].file)
      BY <1>0, <2>2, <2>4 DEF CloneInv, Writing
    <2> QED BY <2>1, <2>3, <2>5
  <1>5. CASE NotModified(p)
    <2>1. Answered(p, 304) /\ Same
      BY <1>5 DEF NotModified
    <2>2. CASE job[p].file = Esi
      <3>1. CASE local[Esi] \in Listings
        <4> DEFINE r == Go(job[p], local[Esi], Listed(local[Esi]))
        <4>1. Set(p, r)
          BY <1>5, <2>2, <3>1, FileFacts DEF NotModified
        <4>2. Listed(local[Esi]) \in SUBSET Packs
          BY DEF Listed
        <4>3. /\ r \in Jobs /\ r.at = "packs" /\ r.listed = local[Esi]
              /\ r.todo = Listed(local[Esi]) /\ r.cmd = job[p].cmd
          BY <1>0, <3>1, <4>2, GoFacts
        <4> HIDE DEF r
        <4> QED BY <1>4, <2>1, <2>2, <4>1, <4>3, LookIInv DEF Active, Ended
      <3>2. CASE local[Esi] \notin Listings
        BY <1>1, <1>4, <1>5, <2>1, <2>2, <3>2, FileFacts DEF NotModified
      <3> QED BY <3>1, <3>2
    <2>3. ASSUME NEW n \in Packs, job[p].file = Idx(n) PROVE IInv'
      <3> DEFINE r == Go(job[p], job[p].listed, job[p].todo)
      <3>1. Set(p, r)
        BY <1>5, <2>3, FileFacts DEF NotModified
      <3>2. /\ r \in Jobs /\ r.at = "packs" /\ r.listed = job[p].listed
            /\ r.todo = job[p].todo /\ r.cmd = job[p].cmd
            /\ r.quiet = job[p].quiet /\ r.served = job[p].served
        BY <1>0, GoFacts
      <3> HIDE DEF r
      <3>3. \A v : GoodIndex(n, v)
        BY <1>4, <2>1, <2>3 DEF GoodIndex
      <3>4. ~cloned => Usable(Idx(n))
        BY <1>4, <2>1, <2>3
      <3>5. job[p].at = "waiting"
        BY <1>4, <2>1
      <3>6. r.quiet => /\ Good(Esi)
                       /\ \A m \in Listed(r.listed) :
                             m \in r.todo \/ Asked(r, m) \/ GoodIndex(m, r.listed[m])
        BY <1>3, <2>3, <3>2, <3>3, <3>5
      <3>7. ~cloned => /\ local[Esi] = r.listed
                       /\ \A m \in Listed(r.listed) :
                             m \in r.todo \/ Asked(r, m) \/ Usable(Idx(m)) \/ r.served
        BY <1>3, <2>3, <3>2, <3>4, <3>5
      <3> QED BY <2>1, <3>1, <3>2, <3>5, <3>6, <3>7, LookIInv DEF Active, Ended
    <2>4. ASSUME NEW n \in Packs, job[p].file = Pack(n) PROVE IInv'
      <3>1. job[p].file # Esi /\ job[p].file[1] = "pack"
        BY <2>4, FileFacts
      <3>2. Set(p, IdleJob)
        BY <1>5, <3>1 DEF NotModified
      <3> QED BY <1>1, <1>4, <2>1, <3>2
    <2> QED BY <1>0, <2>2, <2>3, <2>4, FileFacts
  <1>6. CASE SkipBroken(p)
    <2>1. /\ job[p].at = "waiting" /\ Same
          /\ server[job[p].file] = Broken /\ Acceptable(job[p], Broken)
      BY <1>6 DEF SkipBroken, Answered
    <2>2. Broken \notin Listings /\ Broken \notin 0..MaxVersion
      BY RemoteAssumption DEF Listings
    <2>3. PICK n \in Packs : job[p].file = Idx(n)
      <3>1. job[p].file # Esi
        BY <2>1, <2>2, FileFacts DEF Acceptable
      <3>2. ASSUME NEW m \in Packs, job[p].file = Pack(m) PROVE FALSE
        <4>1. job[p].file # Esi /\ job[p].file[1] = "pack" /\ job[p].file[2] = m
          BY <3>2, FileFacts
        <4>2. Broken = job[p].listed[m]
          BY <2>1, <4>1 DEF Acceptable
        <4> QED BY <1>0, <2>2, <4>2 DEF Listings
      <3> QED BY <1>0, <3>1, <3>2, FileFacts
    <2> DEFINE a == [job[p] EXCEPT !.served = TRUE]
               r == Go(a, job[p].listed, job[p].todo)
    <2>4. Set(p, r)
      BY <1>6 DEF SkipBroken
    <2>5. a \in Jobs /\ a.cmd = job[p].cmd /\ a.quiet = job[p].quiet /\ a.served = TRUE
      BY <1>0 DEF Jobs
    <2> HIDE DEF a
    <2>6. /\ r \in Jobs /\ r.at = "packs" /\ r.listed = job[p].listed
          /\ r.todo = job[p].todo /\ r.cmd = job[p].cmd
          /\ r.quiet = job[p].quiet /\ r.served = TRUE
      BY <1>0, <2>5, GoFacts
    <2> HIDE DEF r
    <2>7. \A v : GoodIndex(n, v)
      BY <2>1, <2>3 DEF GoodIndex
    <2>8. r.quiet => /\ Good(Esi)
                     /\ \A m \in Listed(r.listed) :
                           m \in r.todo \/ Asked(r, m) \/ GoodIndex(m, r.listed[m])
      BY <1>3, <2>1, <2>3, <2>6, <2>7
    <2>9. ~cloned => local[Esi] = r.listed
      BY <1>3, <2>1, <2>3, <2>6
    <2> QED BY <2>1, <2>4, <2>6, <2>8, <2>9, LookIInv DEF Active, Ended
  <1>7. CASE NextIndex(p)
    <2>1. PICK n \in job[p].todo :
              /\ job[p].at = "packs" /\ Same
              /\ Set(p, IF local[Idx(n)] = job[p].listed[n]
                        THEN [job[p] EXCEPT !.todo = @ \ {n}]
                        ELSE Ask([job[p] EXCEPT !.todo = @ \ {n}], Idx(n)))
      <3>1. \A n : LET j == [job[p] EXCEPT !.todo = @ \ {n}]
                   IN  j.at = job[p].at /\ j.listed = job[p].listed
        BY <1>0 DEF Jobs
      <3> QED BY <1>7, <3>1 DEF NextIndex
    <2> DEFINE a == [job[p] EXCEPT !.todo = @ \ {n}]
    <2>2. /\ a \in Jobs /\ a.at = "packs" /\ a.cmd = job[p].cmd /\ a.listed = job[p].listed
          /\ a.todo = job[p].todo \ {n} /\ a.quiet = job[p].quiet /\ a.served = job[p].served
      BY <1>0, <2>1 DEF Jobs
    <2>3. Set(p, IF local[Idx(n)] = job[p].listed[n] THEN a ELSE Ask(a, Idx(n)))
      BY <2>1
    <2> HIDE DEF a
    <2>4. n \in Packs /\ Idx(n) \in Files /\ job[p].listed[n] \in 0..MaxVersion
      BY <1>0, <2>1, FileFacts DEF Listings
    <2>5. /\ job[p].quiet => /\ Good(Esi)
                             /\ \A m \in Listed(job[p].listed) : m # n =>
                                   m \in a.todo \/ GoodIndex(m, job[p].listed[m])
          /\ ~cloned => /\ local[Esi] = job[p].listed
                        /\ \A m \in Listed(job[p].listed) : m # n =>
                              m \in a.todo \/ Usable(Idx(m)) \/ job[p].served
      <3>1. Past(p) /\ \A m \in Packs : ~Fetching(p, Idx(m))
        BY <2>1 DEF Past, Fetching
      <3> QED BY <1>0, <2>2, <3>1 DEF ConvergeInv, CloneInv, Listed
    <2>6. CASE local[Idx(n)] = job[p].listed[n]
      <3>1. Set(p, a)
        BY <2>3, <2>6
      <3>2. GoodIndex(n, job[p].listed[n])
        BY <2>6 DEF GoodIndex
      <3>3. Usable(Idx(n))
        BY <2>4, <2>6, RemoteAssumption DEF Usable
      <3>4. a.quiet => /\ Good(Esi)
                       /\ \A m \in Listed(a.listed) :
                             m \in a.todo \/ Asked(a, m) \/ GoodIndex(m, a.listed[m])
        BY <2>2, <2>5, <3>2
      <3>5. ~cloned => /\ local[Esi] = a.listed
                       /\ \A m \in Listed(a.listed) :
                             m \in a.todo \/ Asked(a, m) \/ Usable(Idx(m)) \/ a.served
        BY <2>2, <2>5, <3>3
      <3> QED BY <2>1, <2>2, <3>1, <3>4, <3>5, LookIInv DEF Active, Ended
    <2>7. CASE local[Idx(n)] # job[p].listed[n]
      <3> DEFINE r == Ask(a, Idx(n))
      <3>1. Set(p, r)
        BY <2>3, <2>7
      <3>2. /\ r \in Jobs /\ r.at = "waiting" /\ r.file = Idx(n)
            /\ (r.since <=> Idx(n) \in fresh)
            /\ r.cmd = job[p].cmd /\ r.listed = job[p].listed /\ r.todo = a.todo
            /\ r.quiet = job[p].quiet /\ r.served = job[p].served
        BY <2>2, <2>4, AskFacts
      <3> HIDE DEF r
      <3>3. Asked(r, n)
        BY <3>2 DEF Asked
      <3>4. r.quiet => /\ Good(Esi)
                       /\ \A m \in Listed(r.listed) :
                             m \in r.todo \/ Asked(r, m) \/ GoodIndex(m, r.listed[m])
        BY <2>5, <3>2, <3>3
      <3>5. ~cloned => /\ local[Esi] = r.listed
                       /\ \A m \in Listed(r.listed) :
                             m \in r.todo \/ Asked(r, m) \/ Usable(Idx(m)) \/ r.served
        BY <2>5, <3>2, <3>3
      <3> QED BY <2>1, <3>1, <3>2, <3>4, <3>5, LookIInv DEF Active, Ended
    <2> QED BY <2>6, <2>7
  <1> QED BY <1>5, <1>6, <1>7

\* A clone's directory is renamed into place.
LEMMA FinishIInv ==
    ASSUME IInv, NEW p \in Procs, Finish(p)
    PROVE  IInv'
  <1>0. TypeInv /\ PhaseInv /\ ConvergeInv(p) /\ job[p] \in Jobs
    BY DEF IInv, TypeInv
  <1>1. /\ job[p].at = "packs" /\ job[p].todo = {} /\ cloned' = TRUE
        /\ UNCHANGED <<release, server, meta, local, fresh, excused>>
    BY DEF Finish
  <1>2. PICK r \in Jobs : /\ Set(p, r) /\ r.at = "ok" /\ r.todo = {}
                          /\ r.quiet = job[p].quiet /\ r.listed = job[p].listed
    <2> DEFINE r == [job[p] EXCEPT !.at = "ok"]
    <2>1. r \in Jobs /\ r.at = "ok" /\ r.todo = {} /\ r.quiet = job[p].quiet
          /\ r.listed = job[p].listed
      BY <1>0, <1>1 DEF Jobs
    <2>2. Set(p, r)
      BY DEF Finish
    <2> HIDE DEF r
    <2> QED BY <2>1, <2>2
  <1>3. job' \in [Procs -> Jobs] /\ job'[p] = r /\ \A q \in Procs : q # p => job'[q] = job[q]
    BY <1>0, <1>1, <1>2, SetFacts
  <1>4. TypeInv'
    BY <1>0, <1>1, <1>3 DEF TypeInv
  <1>5. PhaseInv'
    <2>1. ASSUME NEW q \in Procs, job'[q].at = "ok" PROVE job'[q].todo = {}
      BY <1>0, <1>2, <1>3, <2>1 DEF PhaseInv
    <2>2. ASSUME NEW q \in Procs, Active(q)', job'[q].cmd = "clone" PROVE FALSE
      BY <1>0, <1>1, <1>2, <1>3, <2>2 DEF PhaseInv, Active, Ended
    <2> QED BY <1>1, <2>1, <2>2 DEF PhaseInv
  <1>6. \A f \in Files : /\ Writing(f)' <=> Writing(f)
                         /\ Good(f)' <=> Good(f)
    <2>1. \A f \in Files : Writing(f)' <=> Writing(f)
      BY <1>1, <1>2, <1>3 DEF Writing
    <2> QED BY <1>1, <2>1 DEF Good
  <1>7. \A f \in Files : Touch(f)
    BY <1>1, <1>6 DEF Touch
  <1>8. RequestInv(p)'
    BY <1>2, <1>3 DEF RequestInv
  <1>9. ConvergeInv(p)'
    <2>1. Past(p) /\ \A n \in Packs : ~Fetching(p, Idx(n))
      BY <1>1 DEF Past, Fetching
    <2>2. ASSUME r.quiet
          PROVE  /\ Good(Esi)'
                 /\ \A n \in Listed(r.listed) : GoodIndex(n, r.listed[n])'
      <3>1. Good(Esi) /\ \A n \in Listed(r.listed) : GoodIndex(n, r.listed[n])
        BY <1>0, <1>1, <1>2, <2>1, <2>2 DEF ConvergeInv, Listed
      <3>2. ASSUME NEW n \in Listed(r.listed) PROVE GoodIndex(n, r.listed[n])'
        <4>1. n \in Packs /\ GoodIndex(n, r.listed[n])
          BY <3>1 DEF Listed
        <4> QED BY <1>1, <1>3, <1>6, <4>1, FileFacts DEF GoodIndex
      <3> QED BY <1>6, <3>1, <3>2, FileFacts
    <2> QED BY <1>3, <2>2 DEF ConvergeInv
  <1>10. CloneInv'
    BY <1>1 DEF CloneInv
  <1> QED BY <1>1, <1>3, <1>4, <1>5, <1>7, <1>8, <1>9, <1>10, StepIInv

\* A step that writes the file it fetches, and leaves it good.
LEMMA WriteIInv ==
    ASSUME IInv, NEW p \in Procs, NEW r \in Jobs, Set(p, r),
           NEW f \in Files, job[p].file = f, job[p].at \in {"waiting", "writing"},
           NEW content \in Contents, local' = [local EXCEPT ![f] = content],
           UNCHANGED <<release, server, meta, cloned>>,
           fresh \subseteq fresh', fresh' \subseteq fresh \cup {f},
           excused' \subseteq Files, excused \ {f} \subseteq excused',
           Good(f)', RequestInv(p)',
           ~cloned => Writing(f)' \/ content \notin {None, Broken},
           \/ r.at = "idle"
           \/ /\ r.cmd = job[p].cmd
              /\ \/ r.at = "waiting" /\ r.file = Esi
                 \/ r.at = "writing" /\ r.file = f /\ \A n \in Packs : f # Idx(n)
                 \/ /\ f = Esi /\ r.at = "packs" /\ r.todo = Listed(r.listed)
                    /\ ~cloned => content = r.listed
                 \/ /\ \E n \in Packs : f = Idx(n)
                    /\ r.at = "packs" \/ (r.at = "writing" /\ r.file = f)
                    /\ r.listed = job[p].listed /\ r.todo = job[p].todo
                    /\ r.quiet = job[p].quiet /\ r.served = job[p].served
    PROVE  IInv'
  <1>0. TypeInv /\ PhaseInv /\ CloneInv /\ ConvergeInv(p)
    BY DEF IInv
  <1>1. job' \in [Procs -> Jobs] /\ job'[p] = r /\ \A q \in Procs : q # p => job'[q] = job[q]
    BY <1>0, SetFacts
  <1>2. TypeInv'
    BY <1>0, <1>1 DEF TypeInv
  <1>3. Active(p) /\ PhaseInv'
    <2>1. Active(p)
      BY DEF Active, Ended
    <2> QED BY <1>0, <1>1, <2>1, PhaseKept DEF Ended
  <1>4. local'[f] = content /\ \A g \in Files : g # f => local'[g] = local[g]
    BY <1>0 DEF TypeInv
  <1>5. \A g \in Files : g # f /\ Writing(g) => Writing(g)'
    BY <1>1 DEF Writing
  <1>6. \A g \in Files : Touch(g)
    BY <1>4, <1>5 DEF Touch
  <1>7. ConvergeInv(p)'
    <2>1. CASE \E n \in Packs : f = Idx(n) /\ Past(p)'
      <3>1. PICK n \in Packs : f = Idx(n)
        BY <2>1
      <3>2. /\ r.at # "idle" /\ ~(r.at = "waiting" /\ r.file = Esi) /\ f # Esi
            /\ ~(r.at = "writing" /\ \A m \in Packs : f # Idx(m))
        BY <1>1, <2>1, <3>1, FileFacts DEF Past, Fetching
      <3>3. /\ r.listed = job[p].listed /\ r.todo = job[p].todo /\ r.quiet = job[p].quiet
        BY <3>2
      <3>4. Past(p) /\ \A m \in Packs : m # n => ~Fetching(p, Idx(m))
        BY <3>1, FileFacts DEF Past, Fetching
      <3>5. ASSUME r.quiet, NEW m \in Listed(r.listed), m \notin r.todo
            PROVE  GoodIndex(m, r.listed[m])'
        <4>1. m \in Packs
          BY <3>5 DEF Listed
        <4>2. CASE m = n
          BY <3>1, <4>2 DEF GoodIndex
        <4>3. CASE m # n
          <5>1. GoodIndex(m, job[p].listed[m])
            BY <1>0, <3>3, <3>4, <3>5, <4>1, <4>3 DEF ConvergeInv
          <5>2. Touch(Idx(m))
            BY <1>6, <4>1, FileFacts
          <5> QED BY <1>1, <3>3, <4>1, <5>1, <5>2, TouchIndex DEF GoodIndex
        <4> QED BY <4>2, <4>3
      <3>6. r.quiet => Good(Esi)'
        BY <1>0, <1>6, <3>3, <3>4, FileFacts, TouchFacts DEF ConvergeInv
      <3> QED BY <1>1, <3>5, <3>6 DEF ConvergeInv
    <2>2. CASE f = Esi /\ r.at = "packs" /\ r.todo = Listed(r.listed)
      BY <1>1, <2>2 DEF ConvergeInv
    <2>3. CASE ~Past(p)'
      BY <2>3 DEF ConvergeInv
    <2>4. \/ r.at = "idle"
          \/ r.at \in {"waiting", "writing"} /\ \A n \in Packs : r.file # Idx(n)
          => ~Past(p)'
      BY <1>1 DEF Past, Fetching
    <2> QED BY <2>1, <2>2, <2>3, <2>4, FileFacts
  <1>8. CloneInv'
    <2>1. ASSUME ~cloned', NEW g \in fresh' PROVE Writing(g)' \/ Usable(g)'
      <3>1. CASE g = f
        BY <1>4, <2>1, <3>1 DEF Usable
      <3>2. CASE g # f
        <4>1. g \in fresh /\ g \in Files /\ local'[g] = local[g]
          BY <1>0, <1>4, <2>1, <3>2 DEF TypeInv
        <4> QED BY <1>0, <1>5, <2>1, <3>2, <4>1 DEF CloneInv, Usable
      <3> QED BY <3>1, <3>2
    <2>2. ASSUME ~cloned', NEW q \in Procs, Past(q)' PROVE q = p
      BY <1>0, <1>1, <1>3, <2>2 DEF PhaseInv, Past, Fetching
    <2>3. ASSUME ~cloned', Past(p)'
          PROVE  /\ local'[Esi] = r.listed
                 /\ \A n \in Listed(r.listed) :
                       n \in r.todo \/ Fetching(p, Idx(n))' \/ Usable(Idx(n))' \/ r.served
      <3>1. CASE \E n \in Packs : f = Idx(n)
        <4>1. PICK n \in Packs : f = Idx(n)
          BY <3>1
        <4>2. /\ r.at # "idle" /\ ~(r.at = "waiting" /\ r.file = Esi) /\ f # Esi
              /\ ~(r.at = "writing" /\ \A m \in Packs : f # Idx(m))
          BY <1>1, <2>3, <4>1, FileFacts DEF Past, Fetching
        <4>3. /\ r.listed = job[p].listed /\ r.todo = job[p].todo /\ r.served = job[p].served
              /\ r.at = "packs" \/ (r.at = "writing" /\ r.file = f)
          BY <4>2
        <4>4. Past(p) /\ \A m \in Packs : m # n => ~Fetching(p, Idx(m))
          BY <4>1, FileFacts DEF Past, Fetching
        <4>5. local'[Esi] = r.listed
          BY <1>0, <1>4, <2>3, <4>2, <4>3, <4>4, FileFacts DEF CloneInv
        <4>6. ASSUME NEW m \in Listed(r.listed), m \notin r.todo, ~r.served
              PROVE  Fetching(p, Idx(m))' \/ Usable(Idx(m))'
          <5>1. m \in Packs
            BY <4>6 DEF Listed
          <5>2. CASE m # n
            <6>1. Usable(Idx(m)) /\ Idx(m) \in Files /\ Idx(m) # f
              BY <1>0, <2>3, <4>1, <4>3, <4>4, <4>6, <5>1, <5>2, FileFacts DEF CloneInv
            <6> QED BY <1>4, <6>1 DEF Usable
          <5>3. CASE m = n /\ r.at = "writing"
            BY <1>1, <4>1, <4>3, <5>3 DEF Fetching
          <5>4. CASE m = n /\ r.at = "packs"
            <6>1. f \in fresh' => Writing(f)' \/ Usable(f)'
              BY <2>1, <2>3
            <6>2. ~Writing(f)'
              <7>1. \A q \in Procs : q # p => job'[q].at = "idle"
                BY <1>0, <1>1, <1>3, <2>3 DEF PhaseInv
              <7> QED BY <1>1, <5>4, <7>1 DEF Writing
            <6> QED BY <1>4, <2>3, <4>1, <5>4, <6>2 DEF Usable
          <5> QED BY <4>3, <5>2, <5>3, <5>4
        <4> QED BY <4>5, <4>6
      <3>2. CASE f = Esi /\ r.at = "packs" /\ r.todo = Listed(r.listed)
        BY <1>4, <2>3, <3>2, FileFacts
      <3>3. CASE \/ r.at = "idle"
                 \/ r.at \in {"waiting", "writing"} /\ \A n \in Packs : r.file # Idx(n)
        BY <1>1, <2>3, <3>3 DEF Past, Fetching
      <3> QED BY <3>1, <3>2, <3>3, FileFacts
    <2>4. ASSUME ~cloned', NEW q \in Procs, Past(q)'
          PROVE  /\ local'[Esi] = job'[q].listed
                 /\ \A n \in Listed(job'[q].listed) :
                       n \in job'[q].todo \/ Fetching(q, Idx(n))' \/ Usable(Idx(n))' \/ job'[q].served
      BY <1>1, <2>2, <2>3, <2>4
    <2> QED BY <2>1, <2>4 DEF CloneInv
  <1> QED BY <1>1, <1>2, <1>3, <1>6, <1>7, <1>8, StepIInv

\* A response is accepted.
LEMMA TruncateIInv ==
    ASSUME IInv, NEW p \in Procs, Truncate(p)
    PROVE  IInv'
  <1>0. TypeInv /\ PhaseInv /\ RequestInv(p) /\ job[p] \in Jobs /\ job[p].file \in Files
    BY DEF IInv, TypeInv, Jobs
  <1>1. PICK f \in Files : f = job[p].file
    BY <1>0
  <1>2. /\ job[p].at = "waiting" /\ Answer(job[p]) = 200
        /\ Acceptable(job[p], server[f]) /\ server[f] # Broken
        /\ local' = [local EXCEPT ![f] = Broken] /\ fresh' = fresh \cup {f}
        /\ UNCHANGED <<release, server, meta, excused, cloned>>
    BY <1>1 DEF Truncate, Answered
  <1>3. server[f] \in Contents /\ server[f] \notin {None, Broken}
    <2>1. server[f] # None
      BY <1>1, <1>2 DEF Answer
    <2> QED BY <1>0, <1>2, <2>1 DEF TypeInv
  <1>4. f = Esi => server[f] \in Listings
    BY <1>1, <1>2, FileFacts DEF Acceptable
  <1>5. PICK r \in Jobs : /\ Set(p, r) /\ r.at = "writing" /\ r.file = f /\ r.body = server[f]
                          /\ r.cmd = job[p].cmd /\ r.listed = job[p].listed
                          /\ r.todo = job[p].todo /\ r.quiet = job[p].quiet
                          /\ r.served = job[p].served
    <2> DEFINE r == [job[p] EXCEPT !.at = "writing", !.body = server[f]]
    <2>1. /\ r \in Jobs /\ r.at = "writing" /\ r.file = f /\ r.body = server[f]
          /\ r.cmd = job[p].cmd /\ r.listed = job[p].listed
          /\ r.todo = job[p].todo /\ r.quiet = job[p].quiet /\ r.served = job[p].served
      BY <1>0, <1>1, <1>3 DEF Jobs
    <2>2. Set(p, r)
      BY <1>1 DEF Truncate
    <2> HIDE DEF r
    <2> QED BY <2>1, <2>2
  <1>6. job'[p] = r
    BY <1>0, <1>5, SetFacts
  <1>7. Writing(f)' /\ Good(f)'
    BY <1>5, <1>6 DEF Writing, Good
  <1>8. RequestInv(p)'
    BY <1>2, <1>3, <1>4, <1>5, <1>6 DEF RequestInv
  <1>9. /\ Broken \in Contents /\ excused' \subseteq Files /\ excused \ {f} \subseteq excused'
        /\ fresh \subseteq fresh' /\ fresh' \subseteq fresh \cup {f}
    BY <1>0, <1>2 DEF Contents, TypeInv
  <1>10. /\ Set(p, r) /\ job[p].file = f /\ job[p].at \in {"waiting", "writing"}
         /\ local' = [local EXCEPT ![f] = Broken]
         /\ UNCHANGED <<release, server, meta, cloned>>
    BY <1>1, <1>2, <1>5
  <1>11. /\ r.cmd = job[p].cmd /\ r.at = "writing" /\ r.file = f
         /\ r.listed = job[p].listed /\ r.todo = job[p].todo
         /\ r.quiet = job[p].quiet /\ r.served = job[p].served
    BY <1>5
  <1>12. CASE \E n \in Packs : f = Idx(n)
    BY <1>7, <1>8, <1>9, <1>10, <1>11, <1>12, WriteIInv
  <1>13. CASE \A n \in Packs : f # Idx(n)
    BY <1>7, <1>8, <1>9, <1>10, <1>11, <1>13, WriteIInv
  <1> QED BY <1>12, <1>13

\* The body is in place.
LEMMA WriteAllIInv ==
    ASSUME IInv, NEW p \in Procs, WriteAll(p)
    PROVE  IInv'
  <1>0. /\ TypeInv /\ PhaseInv /\ RequestInv(p)
        /\ job[p] \in Jobs /\ job[p].file \in Files /\ job[p].body \in Contents
        /\ job[p].listed \in Listings /\ job[p].todo \in SUBSET Packs
    BY DEF IInv, TypeInv, Jobs
  <1>1. PICK f \in Files : f = job[p].file
    BY <1>0
  <1>2. /\ job[p].at = "writing" /\ fresh' = fresh \cup {f}
        /\ excused' = IF job[p].overtaken \/ Rivals(p) # {} THEN excused \cup {f} ELSE excused \ {f}
        /\ UNCHANGED <<release, server, meta, cloned>>
        /\ Set(p, CASE f = Esi /\ job[p].adding ->
                         [Ask([job[p] EXCEPT !.adding = FALSE], Esi) EXCEPT !.since = TRUE]
                    [] f = Esi /\ ~job[p].adding -> Go(job[p], job[p].body, Listed(job[p].body))
                    [] f[1] = "idx" -> Go(job[p], job[p].listed, job[p].todo)
                    [] f[1] = "pack" -> IdleJob)
    BY <1>1 DEF WriteAll
  <1>3. PICK content \in Contents :
            /\ local' = [local EXCEPT ![f] = content]
            /\ Rivals(p) = {} => content = job[p].body
    <2>1. PICK content \in {job[p].body} \cup IF \E q \in Rivals(p) : job[q].body # job[p].body
                                             THEN {Broken} ELSE {} :
              local' = [local EXCEPT ![f] = content]
      BY <1>1 DEF WriteAll
    <2>2. content \in Contents /\ (Rivals(p) = {} => content = job[p].body)
      BY <1>0, <2>1 DEF Contents
    <2> QED BY <2>1, <2>2
  <1>4. /\ job[p].body \notin {None, Broken}
        /\ f = Esi => job[p].body \in Listings
        /\ ~job[p].overtaken => job[p].body = server[f]
    BY <1>0, <1>1, <1>2 DEF RequestInv
  <1>5. Good(f)'
    <2>1. CASE job[p].overtaken \/ Rivals(p) # {}
      BY <1>2, <2>1 DEF Good
    <2>2. CASE ~(job[p].overtaken \/ Rivals(p) # {})
      <3>1. local'[f] = server'[f]
        BY <1>0, <1>2, <1>3, <1>4, <2>2 DEF TypeInv
      <3> QED BY <3>1 DEF Good
    <2> QED BY <2>1, <2>2
  <1>6. ~cloned => content = job[p].body
    <2>1. ~cloned => \A q \in Procs : q # p => job[q].at = "idle"
      BY <1>0, <1>2 DEF PhaseInv, Active, Ended
    <2>2. ~cloned => Rivals(p) = {}
      BY <2>1 DEF Rivals
    <2> QED BY <1>3, <2>2
  <1>7. /\ fresh \subseteq fresh' /\ fresh' \subseteq fresh \cup {f}
        /\ excused' \subseteq Files /\ excused \ {f} \subseteq excused'
    BY <1>0, <1>2 DEF TypeInv
  <1>8. ASSUME NEW r \in Jobs, Set(p, r),
               r.at \in {"idle", "waiting", "packs"}, r.at = "waiting" /\ r.since => r.file \in fresh'
        PROVE  RequestInv(p)'
    <2>1. job'[p] = r
      BY SMTT(30), <1>0, <1>8, SetFacts
    <2> QED BY <1>7, <1>8, <2>1 DEF RequestInv
  <1>9. CASE f = Esi /\ job[p].adding
    <2> DEFINE a == [job[p] EXCEPT !.adding = FALSE]
    <2>1. a \in Jobs /\ a.cmd = job[p].cmd
      BY <1>0 DEF Jobs
    <2>2. Set(p, [Ask(a, Esi) EXCEPT !.since = TRUE])
      BY <1>2, <1>9, FileFacts
    <2> HIDE DEF a
    <2>3. PICK r \in Jobs : Set(p, r) /\ r.at = "waiting" /\ r.file = Esi /\ r.cmd = job[p].cmd
      <3>1. Esi \in Files
        BY FileFacts
      <3>2. PICK b \in Jobs : b = Ask(a, Esi) /\ b.at = "waiting" /\ b.file = Esi /\ b.cmd = a.cmd
        BY <2>1, <3>1, AskFacts
      <3>3. PICK r : r = [b EXCEPT !.since = TRUE]
        OBVIOUS
      <3>4. r \in Jobs /\ r.at = b.at /\ r.file = b.file /\ r.cmd = b.cmd
        BY <3>3 DEF Jobs
      <3> QED BY <2>1, <2>2, <3>2, <3>3, <3>4
    <2>4. RequestInv(p)'
      <3>1. Esi \in fresh'
        BY <1>2, <1>9
      <3> QED BY <1>8, <2>3, <3>1
    <2> QED BY <1>1, <1>2, <1>3, <1>4, <1>5, <1>6, <1>7, <2>3, <2>4, WriteIInv
  <1>10. CASE f = Esi /\ ~job[p].adding
    <2>1. job[p].body \in Listings /\ Listed(job[p].body) \in SUBSET Packs
      BY <1>4, <1>10 DEF Listed
    <2>2. PICK r \in Jobs : /\ r = Go(job[p], job[p].body, Listed(job[p].body))
                            /\ r.at = "packs" /\ r.listed = job[p].body
                            /\ r.todo = Listed(job[p].body) /\ r.cmd = job[p].cmd
      BY <1>0, <2>1, GoFacts
    <2>3. Set(p, r)
      BY <1>2, <1>10, <2>2, FileFacts
    <2>4. RequestInv(p)'
      BY <1>8, <2>2, <2>3
    <2> QED BY <1>1, <1>2, <1>3, <1>4, <1>5, <1>6, <1>7, <1>10, <2>2, <2>3, <2>4, WriteIInv
  <1>11. ASSUME NEW n \in Packs, f = Idx(n) PROVE IInv'
    <2>1. PICK r \in Jobs : /\ r = Go(job[p], job[p].listed, job[p].todo)
                            /\ r.at = "packs" /\ r.listed = job[p].listed
                            /\ r.todo = job[p].todo /\ r.cmd = job[p].cmd
                            /\ r.quiet = job[p].quiet /\ r.served = job[p].served
      BY <1>0, GoFacts
    <2>2. f # Esi /\ f[1] = "idx"
      BY <1>11, FileFacts
    <2>3. Set(p, r)
      BY <1>2, <2>1, <2>2
    <2>4. RequestInv(p)'
      BY <1>8, <2>1, <2>3
    <2> QED BY <1>1, <1>2, <1>3, <1>4, <1>5, <1>6, <1>7, <1>11, <2>1, <2>3, <2>4, WriteIInv
  <1>12. ASSUME NEW n \in Packs, f = Pack(n) PROVE IInv'
    <2>1. f # Esi /\ f[1] = "pack"
      BY <1>12, FileFacts
    <2>2. Set(p, IdleJob) /\ IdleJob \in Jobs /\ IdleJob.at = "idle"
      BY <1>2, <2>1, IdleFacts
    <2>3. RequestInv(p)'
      BY <1>8, <2>2
    <2> QED BY <1>1, <1>2, <1>3, <1>4, <1>5, <1>6, <1>7, <2>2, <2>3, WriteIInv
  <1> QED BY <1>9, <1>10, <1>11, <1>12, FileFacts

\* A killed process leaves a file cut short, which is excused.
LEMMA KillIInv ==
    ASSUME IInv, NEW p \in Procs, Kill(p)
    PROVE  IInv'
  <1>0. /\ TypeInv /\ PhaseInv /\ RequestInv(p)
        /\ job[p] \in Jobs /\ job[p].file \in Files
    BY DEF IInv, TypeInv, Jobs
  <1>1. PICK f \in Files : f = job[p].file
    BY <1>0
  <1>2. Active(p)
    BY DEF Kill, Active
  <1>3. CASE job[p].at # "writing" \/ job[p].cmd = "clone"
    <2>1. Fail(p)
      BY <1>3 DEF Kill
    <2> QED BY <1>2, <1>3, <2>1, FailIInv
  <1>4. CASE job[p].at = "writing" /\ job[p].cmd # "clone"
    <2> DEFINE shorter == {[n \in Packs |-> IF n \in S THEN job[p].body[n] ELSE 0] : S \in SUBSET Packs}
    <2>1. /\ \E content \in {Broken} \cup IF f = Esi THEN shorter ELSE {} :
                 local' = [local EXCEPT ![f] = content]
          /\ excused' = excused \cup {f}
          /\ Set(p, IdleJob)
          /\ UNCHANGED <<release, server, meta, fresh, cloned>>
      BY <1>1, <1>4 DEF Kill
    <2>2. f = Esi => shorter \subseteq Listings
      <3>1. f = Esi => job[p].body \in Listings
        BY <1>0, <1>1, <1>4 DEF RequestInv
      <3> QED BY <3>1, RemoteAssumption DEF Listings
    <2>3. PICK content \in Contents : local' = [local EXCEPT ![f] = content]
      BY <2>1, <2>2 DEF Contents
    <2>4. cloned
      BY <1>0, <1>2, <1>4 DEF PhaseInv
    <2>5. Good(f)'
      BY <2>1 DEF Good
    <2>6. RequestInv(p)'
      BY <1>0, <2>1, IdleFacts, SetFacts DEF RequestInv
    <2>7. excused' \subseteq Files /\ excused \subseteq excused'
      BY <1>0, <2>1 DEF TypeInv
    <2> QED BY <1>1, <1>4, <2>1, <2>3, <2>4, <2>5, <2>6, <2>7, IdleFacts, WriteIInv
  <1> QED BY <1>3, <1>4

-----------------------------------------------------------------------------
(* The theorems                                                            *)

\* One step per action.
LEMMA NextIInv == IInv /\ [Next]_vars => IInv'
  <1> SUFFICES ASSUME IInv, [Next]_vars PROVE IInv'
    OBVIOUS
  <1>1. ASSUME NEW n \in Packs, Release(n) PROVE IInv'
    <2>1. release' \in Listings
      BY <1>1, RemoteAssumption DEF Release, IInv, TypeInv, Listings
    <2> QED BY <1>1, <2>1, StutterIInv DEF Release
  <1>2. ASSUME NEW f \in Files, NEW s \in BOOLEAN, UploadBegin(f, s) \/ UploadEnd(f, s)
        PROVE  IInv'
    <2>1. Target(f) \in Contents /\ Broken \in Contents
      BY TargetType DEF IInv, Contents
    <2> QED BY <1>2, <2>1, UploadIInv DEF UploadBegin, UploadEnd
  <1>3. ASSUME NEW n \in Packs, NEW s \in BOOLEAN, UploadPack(n, s) PROVE IInv'
    <2>1. Pack(n) \in Files
      BY FileFacts
    <2>2. Target(Pack(n)) \in Contents
      BY <2>1, TargetType DEF IInv
    <2> QED BY <1>3, <2>1, <2>2, UploadIInv DEF UploadPack
  <1>4. ASSUME NEW p \in Procs, Clone(p) \/ Update(p) \/ \E n \in Packs : Fetch(p, n) PROVE IInv'
    BY <1>4, BeginIInv
  <1>5. ASSUME NEW p \in Procs, Response(p) PROVE IInv'
    BY <1>5, BeginIInv, LookStepsIInv, TruncateIInv DEF Response
  <1>6. ASSUME NEW p \in Procs, RequestFails(p) PROVE IInv'
    BY <1>6, BeginIInv
  <1>7. ASSUME NEW p \in Procs, ProcStep(p) PROVE IInv'
    BY <1>7, BeginIInv, LookStepsIInv, WriteAllIInv, FinishIInv DEF ProcStep
  <1>8. ASSUME NEW p \in Procs, Kill(p) PROVE IInv'
    BY <1>8, KillIInv
  <1>9. CASE UNCHANGED vars
    BY <1>9, StutterIInv DEF vars, IInv, TypeInv
  <1> QED BY <1>1, <1>2, <1>3, <1>4, <1>5, <1>6, <1>7, <1>8, <1>9 DEF Next

\* The invariant holds throughout.
THEOREM SpecIInv == Spec => []IInv
  BY InitIInv, NextIInv, PTL DEF Spec

\* open_remote_resource with If-Modified-Since: a file that the time stamps say is up to date
\* is the server's, however commands and uploads interleave, but for the accidents
\* that FreshIsCurrent names.
THEOREM FreshStaysCurrent == Spec => []FreshIsCurrent
  <1>1. IInv => FreshIsCurrent
    BY DEF IInv, FreshInv, Good, FreshIsCurrent
  <1> QED BY <1>1, SpecIInv, PTL

\* update_remote and update_remote_pack_indexes: a clone or an update that succeeds
\* while the server holds one complete release leaves the index and every listed
\* pack index at that release.
THEOREM QuietUpdatesConverge == Spec => []UpdateConverges
  <1>1. IInv => UpdateConverges
    <2> SUFFICES ASSUME IInv, NEW p \in Procs, job[p].at = "ok", job[p].quiet, Settled
                 PROVE  /\ Esi \in excused \/ Writing(Esi) \/ local[Esi] = release
                        /\ \A n \in Listed(release) : job[p].listed = release =>
                              Idx(n) \in excused \/ Writing(Idx(n)) \/ local[Idx(n)] = release[n]
      BY DEF UpdateConverges
    <2>1. /\ Past(p) /\ \A n \in Packs : ~Fetching(p, Idx(n))
          /\ job[p].todo = {}
      BY DEF Past, Fetching, IInv, PhaseInv
    <2>2. Good(Esi) /\ \A n \in Listed(job[p].listed) : GoodIndex(n, job[p].listed[n])
      BY <2>1 DEF IInv, ConvergeInv, Listed
    <2>3. server[Esi] = release
      BY FileFacts DEF Settled, Target
    <2>4. ASSUME NEW n \in Listed(release), job[p].listed = release
          PROVE  Idx(n) \in excused \/ Writing(Idx(n)) \/ local[Idx(n)] = release[n]
      <3>1. n \in Packs /\ release[n] # 0 /\ GoodIndex(n, release[n])
        BY <2>2, <2>4 DEF Listed
      <3>2. Idx(n) \in Files /\ Idx(n) # Esi /\ Idx(n)[2] = n
        BY <3>1, FileFacts
      <3>3. server[Idx(n)] = release[n]
        BY <3>1, <3>2 DEF Settled, Target
      <3>4. release[n] # Broken
        BY <3>1, RemoteAssumption DEF IInv, TypeInv, Listings
      <3> QED BY <3>1, <3>3, <3>4 DEF GoodIndex, Good
    <2> QED BY <2>2, <2>3, <2>4 DEF Good
  <1> QED BY <1>1, SpecIInv, PTL

\* clone builds in a temporary directory: it appears only with a complete index and
\* an index for every pack that one lists, but for those the server had broken.
THEOREM CloneAppearsComplete == Spec => CloneIsComplete
  <1> DEFINE A == ~cloned /\ cloned' =>
                     /\ local[Esi] \in Listings
                     /\ \A n \in Packs : local[Esi][n] # 0 =>
                           local[Idx(n)] \notin {None, Broken} \/ \E p \in Procs : job[p].served
  <1>1. IInv /\ [Next]_vars => [A]_vars
    <2> SUFFICES ASSUME IInv, Next, ~cloned, cloned'
                 PROVE  /\ local[Esi] \in Listings
                        /\ \A n \in Packs : local[Esi][n] # 0 =>
                              local[Idx(n)] \notin {None, Broken} \/ \E p \in Procs : job[p].served
      OBVIOUS
    <2>1. PICK p \in Procs : Finish(p)
      BY ZenonT(40) DEF Next, Release, UploadBegin, UploadEnd, UploadPack, Upload, Clone, Update, Fetch,
             Response, NotFound, NotModified, Refuse, SkipBroken, Truncate, RequestFails, Fail,
             ProcStep, FindPack, WriteAll, NextIndex, Kill
    <2>2. job[p].at = "packs" /\ job[p].todo = {} /\ job[p].listed \in Listings
      BY <2>1 DEF Finish, IInv, TypeInv, Jobs
    <2>3. Past(p) /\ \A n \in Packs : ~Fetching(p, Idx(n))
      BY <2>2 DEF Past, Fetching
    <2> QED BY <2>2, <2>3 DEF IInv, CloneInv, Listed, Usable
  <1>2. Spec => [][A]_vars
    BY <1>1, SpecIInv, PTL DEF Spec
  <1> QED BY <1>2 DEF CloneIsComplete

=============================================================================
