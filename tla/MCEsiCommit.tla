---------------------------- MODULE MCEsiCommit -----------------------------
(***************************************************************************)
(* EsiCommit on two documents, one of which has a backup that a careless   *)
(* command names as a second document.                                     *)
(***************************************************************************)
EXTENDS EsiCommit

CONSTANTS a, abak, abakbak, b, bbak

MCNames == {a, abak, abakbak, b, bbak}
MCBackupOf == [n \in {a, b, abak} |-> CASE n = a -> abak [] n = b -> bbak [] n = abak -> abakbak]

Listing(digest) == [u \in {"u"} |-> digest]

\* Documents that may be missing or invalid, beside backups from earlier.
MCInitialFiles ==
    {f \in [MCNames -> {Listing(0), Listing(1), Garbage, None}] :
        /\ f[a] \in {Listing(1), None}
        /\ f[b] \in {Listing(1), Garbage, None}
        /\ f[abak] \in {Listing(0), None}
        /\ f[bbak] \in {Listing(0), None}
        /\ f[abakbak] = None}

Cmd(kind, targets, digest, force, backup) ==
    [kind |-> kind, targets |-> targets, url |-> "u", digest |-> digest,
     force |-> force, backup |-> backup]

MCCommands == {
    Cmd("create", <<a>>, 0, FALSE, TRUE),
    Cmd("create", <<b>>, 0, TRUE, TRUE),
    Cmd("add", <<a, b>>, 2, TRUE, TRUE),
    Cmd("add", <<a, abak>>, 3, TRUE, TRUE),
    Cmd("add", <<b, a>>, 2, TRUE, FALSE),
    Cmd("remove", <<b>>, 0, FALSE, TRUE)}
=============================================================================
