----------------------------- MODULE MCralcGen ------------------------------
(* A buffer of 132 bytes with the layout of a 64-bit build whose widest    *)
(* scalar has 8 bytes (RAT_ALIGNMENT 8, sizeof(block) 16): a split can be  *)
(* left with 8 bytes that hold no header.  132 is not aligned, so the last *)
(* 4 bytes are never used.                                                 *)
EXTENDS ralcGenUsage, TLC

CONSTANTS o1, o2, o3, o4, o5

MCIds == {o1, o2, o3, o4, o5}
MCRequests == {0, 5, 24, 60}
Symmetry == Permutations(MCIds)

=============================================================================
