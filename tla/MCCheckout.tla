----------------------------- MODULE MCCheckout -----------------------------
(***************************************************************************)
(* Checkout with a directory of two paths that may be a file or a link     *)
(* instead.  Snapshots that exist from the start are interchangeable, and  *)
(* so are the two paths.                                                   *)
(***************************************************************************)
EXTENDS Checkout, TLC

CONSTANTS d, x, y,   \* d, d/x and d/y
          v, l       \* a file and a link

MCParent == [p \in {x, y} |-> d]

\* d is a file, a link or a directory; store makes the other trees.
MCSnapshots == {[p \in Paths |-> IF p = d THEN v ELSE None],
                [p \in Paths |-> IF p = d THEN l ELSE None],
                [p \in Paths |-> IF p = d THEN None ELSE v]}

Symmetry == Permutations(Packed) \cup Permutations({x, y})
=============================================================================
