--------------------------- MODULE WriteOnceName ---------------------------
(***************************************************************************)
(* What AtomicCreateFile (src/src/atomicfile.rs) promises about one name:  *)
(* creators compete for the right to publish it, at most one holds that    *)
(* right at a time, it is granted only while nothing is published, and     *)
(* what appears under the name is always one writer's complete content.    *)
(* A forced write (src/src/repo/fs.rs, write_file_atomic) replaces the     *)
(* content without asking for the right.                                   *)
(***************************************************************************)
CONSTANTS Creators, Forcers, Nobody

VARIABLES owner,      \* the creator holding the right to publish, or Nobody
          published   \* the writer whose content the name shows, or Nobody

vars == <<owner, published>>

Init == owner = Nobody /\ published = Nobody

Claim(p) == /\ owner = Nobody
            /\ published = Nobody
            /\ owner' = p
            /\ UNCHANGED published

\* The owner publishes.  A forced write that came after the claim is lost.
Publish(p) == /\ owner = p
              /\ published' = p
              /\ owner' = Nobody

\* The owner gives up or dies; the name is free again.
Abandon(p) == /\ owner = p
              /\ owner' = Nobody
              /\ UNCHANGED published

Overwrite(p) == /\ published' = p
                /\ UNCHANGED owner

\* Deletion happens only while no creator is at work.
Remove == /\ owner = Nobody
          /\ published' = Nobody
          /\ UNCHANGED owner

Next == \/ \E p \in Creators : Claim(p) \/ Publish(p) \/ Abandon(p)
        \/ \E p \in Forcers : Overwrite(p)
        \/ Remove

Spec == Init /\ [][Next]_vars
=============================================================================
