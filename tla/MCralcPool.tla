----------------------------- MODULE MCralcPool -----------------------------
(* Slots for 12-byte elements, so of 16 bytes, two in a chunk; a parent    *)
(* that gives 20 bytes more makes it three, with 4 bytes left over.  A     *)
(* request of 3 bytes fits a slot, one of 20 does not.                     *)
EXTENDS ralcPool, TLC

CONSTANTS b1, b2

MCBlocks == {b1, b2}
MCExtra == {0, 20}
MCRequests == {3, 20}
Symmetry == Permutations(MCBlocks)

=============================================================================
