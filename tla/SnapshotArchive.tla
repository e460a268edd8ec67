-------------------------- MODULE SnapshotArchive --------------------------
(***************************************************************************)
(* What store, pack, explode and gc (src/src/repo/repository.rs) promise   *)
(* together: a store happens at once, and replaces what was stored under   *)
(* the tag; a pack appears at once, whole, under a name that showed none,  *)
(* and its index has snapshots exactly as they are stored at that moment.  *)
(* Nothing else is visible: neither gc, explode and the update of HEAD nor *)
(* a command that fails or is killed change what is stored and packed.     *)
(***************************************************************************)
CONSTANTS Tags, Contents, Packs, Absent

VARIABLES stored,  \* tag -> the content stored last, or Absent
          packs    \* name -> the index of the pack: tag -> content, or Absent

vars == <<stored, packs>>

Init == /\ stored = [t \in Tags |-> Absent]
        /\ packs = [n \in Packs |-> Absent]

\* create_snapshot
Store(t, c) == /\ stored' = [stored EXCEPT ![t] = c]
               /\ UNCHANGED packs

\* create_pack
Pack(n, S) == /\ packs[n] = Absent
              /\ S # {}
              /\ \A t \in S : stored[t] # Absent
              /\ packs' = [packs EXCEPT ![n] = [t \in S |-> stored[t]]]
              /\ UNCHANGED stored

Next == \/ \E t \in Tags, c \in Contents : Store(t, c)
        \/ \E n \in Packs, S \in SUBSET Tags : Pack(n, S)

Spec == Init /\ [][Next]_vars
=============================================================================
