------------------------------ MODULE MCrlist -------------------------------
(* Lists of up to four elements: runs removed at the front, in the middle, *)
(* at the back and as a whole, and elements that move past each other.     *)
EXTENDS rlist, TLC

CONSTANTS b1, b2, b3, b4

MCBlocks == {b1, b2, b3, b4}
MCExtra == {0, 8}
MCRequests == {0, 8}
MCSpoilsNot == {FALSE}
Symmetry == Permutations(MCBlocks)

=============================================================================
