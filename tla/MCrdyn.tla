------------------------------- MODULE MCrdyn -------------------------------
(* Two blocks, so that the buffer can move; up to four elements of two     *)
(* values, which overflow the buffer and halve it in several ways.         *)
EXTENDS rdyn, TLC

CONSTANTS b1, b2, v1, v2

MCBlocks == {b1, b2}
MCValues == {v1, v2}
MCExtra == {0, 1}
Symmetry == Permutations(MCBlocks) \cup Permutations(MCValues)

=============================================================================
