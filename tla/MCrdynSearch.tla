---------------------------- MODULE MCrdynSearch ----------------------------
(* Two blocks, so that the buffer can move; four elements of two values,   *)
(* which overflow the buffer and halve it in several ways, and are sorted  *)
(* with runs of equal ones.  The middle target is in no array.             *)
EXTENDS rdynSearch

CONSTANTS b1, b2

MCBlocks == {b1, b2}
MCExtra == {0, 1}

=============================================================================
