--------------------------- MODULE MCralcPoolArena --------------------------
(* Chunks of one 8-byte slot over an arena whose chunks hold 80 bytes: two *)
(* chunks of the pool and two small objects share a chunk of the arena,    *)
(* and an object of 16 bytes does not fit behind them.                     *)
EXTENDS ralcPoolArena, TLC

CONSTANTS b1, b2

MCArenaBlocks == {b1, b2}
Symmetry == Permutations(MCArenaBlocks)

(* The objects of the length of a chunk of the pool.                       *)
MCBlocks == [block : MCArenaBlocks, at : 0..80, len : {GrowSize}]

=============================================================================
