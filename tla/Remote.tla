------------------------------- MODULE Remote -------------------------------
(***************************************************************************)
(* Remotes (src/src/repo/remote.rs): clone, update and the fetching of a   *)
(* pack on demand, against an HTTP server whose publisher replaces files   *)
(* meanwhile.  A file is a version number, or Broken; the remote index     *)
(* lists a version for each pack, by its checksums.  Files are downloaded  *)
(* when the server's is newer than the local one: of the two clocks only   *)
(* this comparison is kept.  Local files are written in place.  Commands   *)
(* of several processes overlap, as all of them hold the repository mutex  *)
(* shared; requests may fail or get no answer, and processes be killed.    *)
(***************************************************************************)
EXTENDS Integers, Sequences

CONSTANTS Procs,       \* client processes
          Packs,       \* pack names
          MaxVersion,  \* bound on the releases of one pack
          None,        \* no such file
          Broken       \* a file that is incomplete or does not parse

ASSUME RemoteAssumption ==
    /\ MaxVersion \in Nat
    /\ None # Broken
    /\ {None, Broken} \cap (0..MaxVersion) = {}
    /\ {None, Broken} \cap [Packs -> 0..MaxVersion] = {}

Esi == <<"esi">>
Idx(n) == <<"idx", n>>
Pack(n) == <<"pack", n>>
Files == {Esi} \cup {Idx(n) : n \in Packs} \cup {Pack(n) : n \in Packs}

\* A remote index: the version of each pack, 0 for a pack it does not list.
Listings == [Packs -> 0..MaxVersion]

VARIABLES
    release, \* the listing of what the publisher has released
    server,  \* file -> its content on the server
    meta,    \* the format the server offers: 1, or 2 with sizes
    local,   \* file -> its content in the repository
    fresh,   \* files that are locally not older than on the server
    excused, \* history: files a download of which was overtaken or cut short
    cloned,  \* the directory of the clone is in place
    job      \* process -> its command, see IdleJob

vars == <<release, server, meta, local, fresh, excused, cloned, job>>

(***************************************************************************)
(* A command: cmd and at, its step; file, the file being fetched; probe,   *)
(* the request is for the v2 sibling of the index; adding, a clone is in   *)
(* add_remote; since, the file on the server is not newer than the         *)
(* If-Modified-Since of the request; body, that of the response; listed,   *)
(* the index it goes by; todo, the packs whose indexes it has yet to look  *)
(* at.  History: quiet, the server has not changed since it began;         *)
(* overtaken, the file has changed since the response; served, it was      *)
(* served a broken index.  A command that failed, or fetched, leaves none. *)
(***************************************************************************)
IdleJob == [cmd |-> "none", at |-> "idle", file |-> Esi, probe |-> FALSE,
            adding |-> FALSE, since |-> FALSE, body |-> None,
            listed |-> [n \in Packs |-> 0], todo |-> {},
            quiet |-> TRUE, overtaken |-> FALSE, served |-> FALSE]

Ended == {"idle", "ok"}

Init ==
    /\ release = [n \in Packs |-> 0]
    /\ server = [f \in Files |-> IF f = Esi THEN release ELSE None]
    /\ meta \in {1, 2}
    /\ local = [f \in Files |-> None]
    /\ fresh = {}
    /\ excused = {}
    /\ cloned = FALSE
    /\ job = [p \in Procs |-> IdleJob]

-----------------------------------------------------------------------------
(* The publisher                                                           *)

\* What the publisher wants on the server.
Target(f) == IF f = Esi THEN release ELSE IF release[f[2]] = 0 THEN None ELSE release[f[2]]
Settled == \A f \in Files : server[f] = Target(f)

Release(n) ==
    /\ release[n] < MaxVersion
    /\ release' = [release EXCEPT ![n] = @ + 1]
    /\ UNCHANGED <<server, meta, local, fresh, excused, cloned, job>>

\* A file changes on the server, incomplete at first; sameSecond: within the second
\* of the local file's time stamp, so that it does not count as newer.
Upload(f, content, sameSecond) ==
    /\ sameSecond => f \in fresh
    /\ server' = [server EXCEPT ![f] = content]
    /\ fresh' = IF sameSecond THEN fresh ELSE fresh \ {f}
    /\ excused' = IF sameSecond THEN excused \cup {f} ELSE excused \ {f}
    /\ job' = [p \in Procs |->
                  LET j == job[p] IN
                  [j EXCEPT !.quiet = @ /\ j.at = "idle",
                            !.since = @ /\ (j.file = f => sameSecond),
                            !.overtaken = @ \/ (j.file = f /\ j.at = "writing")]]
    /\ UNCHANGED <<release, meta, local, cloned>>

UploadBegin(f, sameSecond) ==
    f[1] # "pack" /\ server[f] \notin {Target(f), Broken} /\ Upload(f, Broken, sameSecond)
UploadEnd(f, sameSecond) == server[f] = Broken /\ Upload(f, Target(f), sameSecond)

\* Clients refuse a pack that is incomplete as they refuse one of another release.
UploadPack(n, sameSecond) ==
    server[Pack(n)] # Target(Pack(n)) /\ Upload(Pack(n), Target(Pack(n)), sameSecond)

-----------------------------------------------------------------------------
(* Requests                                                                *)

\* The command asks for a file, unless it is older than the local one.
Ask(j, f) == [j EXCEPT !.at = "waiting", !.file = f, !.since = f \in fresh,
                       !.body = None, !.overtaken = FALSE, !.probe = FALSE]

Set(p, j) == job' = [job EXCEPT ![p] = j]

\* A command fails; a clone removes its directory.
Fail(p) ==
    /\ Set(p, IdleJob)
    /\ IF job[p].cmd = "clone"
       THEN /\ local' = [f \in Files |-> None]
            /\ fresh' = {} /\ excused' = {}
       ELSE UNCHANGED <<local, fresh, excused>>
    /\ UNCHANGED <<release, server, meta, cloned>>

\* open_remote_resource: the status of the response.  The v2 sibling of the index
\* is there in format 2.
Answer(j) ==
    IF (j.probe /\ meta = 1) \/ server[j.file] = None THEN 404
    ELSE IF j.since THEN 304 ELSE 200

\* A response arrives, with its whole body, and is looked at.
Answered(p, status) == job[p].at = "waiting" /\ Answer(job[p]) = status

\* The connection fails, the status is another one, or 15 seconds pass (a request
\* for a pack has no time limit).
RequestFails(p) == job[p].at = "waiting" /\ Fail(p)

-----------------------------------------------------------------------------
(* The commands                                                            *)

\* clone: add_remote of an unversioned URL, which asks for the v2 sibling first.
Clone(p) ==
    /\ job[p].at \in Ended
    /\ ~cloned
    /\ \A q \in Procs : job[q].at \in Ended
    /\ Set(p, [Ask([IdleJob EXCEPT !.cmd = "clone", !.adding = TRUE], Esi) EXCEPT !.probe = TRUE])
    /\ UNCHANGED <<release, server, meta, local, fresh, excused, cloned>>

\* update: load_remotes, then update_remote.  With a local index that does not parse
\* it ends at once.
Update(p) ==
    /\ job[p].at \in Ended
    /\ cloned
    /\ Set(p, IF local[Esi] \in Listings THEN Ask([IdleJob EXCEPT !.cmd = "update"], Esi)
              ELSE IdleJob)
    /\ UNCHANGED <<release, server, meta, local, fresh, excused, cloned>>

\* A pack whose index is there is needed and cannot be opened: it is not there
\* (one cut short still opens, as a pack of the legacy format).
Fetch(p, n) ==
    /\ job[p].at \in Ended
    /\ cloned
    /\ local[Idx(n)] \notin {None, Broken}
    /\ local[Pack(n)] = None
    /\ Set(p, [IdleJob EXCEPT !.cmd = "fetch", !.at = "missing", !.file = Pack(n)])
    /\ UNCHANGED <<release, server, meta, local, fresh, excused, cloned>>

\* update_remote_pack of the repository: the remote that lists the pack is asked.
FindPack(p) ==
    LET n == job[p].file[2] IN
    /\ job[p].at = "missing"
    /\ IF local[Esi] \in Listings /\ local[Esi][n] # 0
       THEN /\ Set(p, Ask([job[p] EXCEPT !.listed = local[Esi]], Pack(n)))
            /\ UNCHANGED <<release, server, meta, local, fresh, excused, cloned>>
       ELSE Fail(p)

\* The packs of an index.
Listed(listing) == {n \in Packs : listing[n] # 0}

\* On to the pack indexes that are left.
Go(j, listing, left) == [IdleJob EXCEPT !.cmd = j.cmd, !.at = "packs", !.listed = listing,
                                        !.todo = left, !.quiet = j.quiet, !.served = j.served]

\* Mutant: a pack index that is not there is passed over.
NotFoundIgnored(p) ==
    LET j == job[p] IN
    /\ Answered(p, 404)
    /\ IF j.probe
       THEN Set(p, Ask(j, Esi)) /\ UNCHANGED <<local, fresh, excused>>
       ELSE Set(p, Go(j, j.listed, j.todo)) /\ UNCHANGED <<local, fresh, excused>>
    /\ UNCHANGED <<release, server, meta, cloned>>

\* 404: clone falls back to the URL it was given; anything else is an error.
NotFound(p) ==
    LET j == job[p] IN
    /\ Answered(p, 404)
    /\ IF j.probe
       THEN /\ Set(p, Ask(j, Esi))
            /\ UNCHANGED <<release, server, meta, local, fresh, excused, cloned>>
       ELSE Fail(p)

\* 304: the local file is used as it is.
NotModified(p) ==
    LET j == job[p] IN
    /\ Answered(p, 304)
    /\ CASE j.file = Esi /\ local[Esi] \in Listings -> Set(p, Go(j, local[Esi], Listed(local[Esi])))
         [] j.file = Esi /\ local[Esi] \notin Listings -> Set(p, IdleJob)
         [] j.file[1] = "idx" -> Set(p, Go(j, j.listed, j.todo))
         [] j.file[1] = "pack" -> Set(p, IdleJob)
    /\ UNCHANGED <<release, server, meta, local, fresh, excused, cloned>>

\* The body is what was asked for: an index that parses, a pack with the listed
\* checksum, a pack index of the listed size.  Versions differ in size.
Acceptable(j, body) ==
    CASE j.file = Esi -> body \in Listings
      [] j.file[1] = "pack" -> body = j.listed[j.file[2]]
      [] j.file[1] = "idx" -> meta = 1 \/ body = j.listed[j.file[2]]

Refuse(p) ==
    /\ Answered(p, 200)
    /\ ~Acceptable(job[p], server[job[p].file])
    /\ Fail(p)

\* A pack index that does not parse is reported and the next one is looked at.
SkipBroken(p) ==
    LET j == job[p] IN
    /\ Answered(p, 200)
    /\ Acceptable(j, server[j.file]) /\ server[j.file] = Broken
    /\ Set(p, Go([j EXCEPT !.served = TRUE], j.listed, j.todo))
    /\ UNCHANGED <<release, server, meta, local, fresh, excused, cloned>>

\* Mutant: the file is created before the body is looked at.
TruncateEarly(p) ==
    /\ Answered(p, 200)
    /\ Set(p, IF Acceptable(job[p], server[job[p].file]) /\ server[job[p].file] # Broken
              THEN [job[p] EXCEPT !.at = "writing", !.body = server[job[p].file]] ELSE IdleJob)
    /\ local' = [local EXCEPT ![job[p].file] = Broken]
    /\ fresh' = fresh \cup {job[p].file}
    /\ UNCHANGED <<release, server, meta, excused, cloned>>

\* create_file or fs::write: the local file is emptied.
Truncate(p) ==
    LET j == job[p] IN
    /\ Answered(p, 200)
    /\ Acceptable(j, server[j.file]) /\ server[j.file] # Broken
    /\ Set(p, [j EXCEPT !.at = "writing", !.body = server[j.file]])
    /\ local' = [local EXCEPT ![j.file] = Broken]
    /\ fresh' = fresh \cup {j.file}
    /\ UNCHANGED <<release, server, meta, excused, cloned>>

\* Other processes that are writing the same file.
Rivals(p) == {q \in Procs \ {p} : job[q].at = "writing" /\ job[q].file = job[p].file}

\* The body is in place; with another process's bytes mixed in if that one is
\* writing another version.
WriteAll(p) ==
    LET j == job[p]
        f == j.file
    IN  /\ j.at = "writing"
        /\ \E content \in {j.body} \cup IF \E q \in Rivals(p) : job[q].body # j.body
                                        THEN {Broken} ELSE {} :
              local' = [local EXCEPT ![f] = content]
        /\ fresh' = fresh \cup {f}
        /\ excused' = IF j.overtaken \/ Rivals(p) # {} THEN excused \cup {f} ELSE excused \ {f}
        \* A clone goes on with update_remote, which sends the time of this write.
        /\ Set(p, CASE f = Esi /\ j.adding ->
                         [Ask([j EXCEPT !.adding = FALSE], Esi) EXCEPT !.since = TRUE]
                    [] f = Esi /\ ~j.adding -> Go(j, j.body, Listed(j.body))
                    [] f[1] = "idx" -> Go(j, j.listed, j.todo)
                    [] f[1] = "pack" -> IdleJob)
        /\ UNCHANGED <<release, server, meta, cloned>>

\* Mutant: a pack index that is there is not compared with the listing.
NextIndexIfMissing(p) ==
    \E n \in job[p].todo :
        LET j == [job[p] EXCEPT !.todo = @ \ {n}] IN
        /\ j.at = "packs"
        /\ Set(p, IF local[Idx(n)] # None THEN j ELSE Ask(j, Idx(n)))
        /\ UNCHANGED <<release, server, meta, local, fresh, excused, cloned>>

\* update_remote_pack_indexes: one whose checksum is the listed one is up to date.
NextIndex(p) ==
    \E n \in job[p].todo :
        LET j == [job[p] EXCEPT !.todo = @ \ {n}] IN
        /\ j.at = "packs"
        /\ Set(p, IF local[Idx(n)] = j.listed[n] THEN j ELSE Ask(j, Idx(n)))
        /\ UNCHANGED <<release, server, meta, local, fresh, excused, cloned>>

\* A clone's directory is renamed into place when all is done.
Finish(p) ==
    /\ job[p].at = "packs"
    /\ job[p].todo = {}
    /\ Set(p, [job[p] EXCEPT !.at = "ok"])
    /\ cloned' = TRUE
    /\ UNCHANGED <<release, server, meta, local, fresh, excused>>

\* A process is killed, or its disk is full.  A file it was writing stays cut short;
\* a remote index cut between lines is a shorter one.
Kill(p) ==
    LET j == job[p]
        cut == {Broken} \cup IF j.file = Esi
                             THEN {[n \in Packs |-> IF n \in S THEN j.body[n] ELSE 0] : S \in SUBSET Packs}
                             ELSE {}
    IN  /\ j.at \notin Ended
        /\ IF j.at # "writing" \/ j.cmd = "clone"
           THEN Fail(p)
           ELSE /\ \E content \in cut : local' = [local EXCEPT ![j.file] = content]
                /\ excused' = excused \cup {j.file}
                /\ Set(p, IdleJob)
                /\ UNCHANGED <<release, server, meta, fresh, cloned>>

\* A process goes on.
ProcStep(p) ==
    FindPack(p) \/ WriteAll(p) \/ NextIndex(p) \/ Finish(p)

\* The response to a request arrives.
Response(p) ==
    NotFound(p) \/ NotModified(p) \/ Refuse(p) \/ SkipBroken(p) \/ Truncate(p)

Next ==
    \/ \E n \in Packs : Release(n)
    \/ \E f \in Files, s \in BOOLEAN : UploadBegin(f, s) \/ UploadEnd(f, s)
    \/ \E n \in Packs, s \in BOOLEAN : UploadPack(n, s)
    \/ \E p \in Procs : \/ Clone(p) \/ Update(p) \/ \E n \in Packs : Fetch(p, n)
                        \/ Response(p) \/ RequestFails(p)
                        \/ ProcStep(p)
                        \/ Kill(p)

Spec == Init /\ [][Next]_vars

-----------------------------------------------------------------------------
(* Properties                                                              *)

Writing(f) == \E p \in Procs : job[p].at = "writing" /\ job[p].file = f

\* A file that the time stamps say is up to date, for which the server would answer
\* 304, is the server's, however clone, update, fetches and uploads interleave.
\* The exceptions: the file changed on the server between the response and the
\* local write, or within the second of the time stamp, or the write was cut
\* short, or two processes wrote it at once.
FreshIsCurrent ==
    \A f \in Files : f \in fresh \ excused /\ ~Writing(f) => local[f] = server[f]

\* A clone or an update that succeeds while the server holds one complete release
\* brings the local index and every listed pack index to that release, except for
\* files with one of the above accidents.
UpdateConverges ==
    \A p \in Procs :
        job[p].at = "ok" /\ job[p].cmd # "fetch" /\ job[p].quiet /\ Settled =>
            /\ Esi \in excused \/ Writing(Esi) \/ local[Esi] = release
            /\ \A n \in Listed(release) : job[p].listed = release =>
                  Idx(n) \in excused \/ Writing(Idx(n)) \/ local[Idx(n)] = release[n]

\* The directory of a clone appears only with a complete index and a pack index for
\* every pack it lists, apart from those the server had broken.
CloneIsComplete ==
    [][~cloned /\ cloned' =>
          /\ local[Esi] \in Listings
          /\ \A n \in Packs : local[Esi][n] # 0 =>
                local[Idx(n)] \notin {None, Broken} \/ \E p \in Procs : job[p].served]_vars
=============================================================================
