------------------------------- MODULE MCrmap -------------------------------
(* Five keys, so that the fourth doubles the array of four buckets.  k1,   *)
(* k2 and k3 start in one bucket and k4, k5 in another; the larger array   *)
(* separates k3 and k5 and leaves k1 and k2, of equal hash, together.  One *)
(* block more than keys lets an element move in a full map.                *)
EXTENDS rmap, TLC

CONSTANTS k1, k2, k3, k4, k5, b1, b2, b3, b4, b5, b6

MCKeys == {k1, k2, k3, k4, k5}
MCHash == k1 :> 0 @@ k2 :> 0 @@ k3 :> 4 @@ k4 :> 1 @@ k5 :> 5
MCBlocks == {b1, b2, b3, b4, b5, b6}
Symmetry == Permutations(MCBlocks)

=============================================================================
