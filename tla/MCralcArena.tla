---------------------------- MODULE MCralcArena -----------------------------
(* Chunks of 16 bytes of payload with a 24-byte header (three words of a   *)
(* 64-bit build): a push of 0 bytes takes 8 of them, one of 20 bytes takes *)
(* 24 and asks for a chunk of twice that.  The parent gives 8 bytes more   *)
(* at times, so chunks made for one size differ in capacity.               *)
EXTENDS ralcArena, TLC

CONSTANTS b1, b2, b3

MCBlocks == {b1, b2, b3}
MCExtra == {0, 8}
MCRequests == {0, 20}
Symmetry == Permutations(MCBlocks)

=============================================================================
