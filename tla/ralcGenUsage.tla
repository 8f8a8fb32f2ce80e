---------------------------- MODULE ralcGenUsage ----------------------------
(***************************************************************************)
(* ralcGen_getUsage, src/rat/src/rat_ralcGen.c: the accounting that a walk *)
(* over the blocks of the general-purpose allocator reports.               *)
(***************************************************************************)
EXTENDS ralcGen, FiniteSets, FiniteSetsExt

PayloadSum(S) == MapThenSumSet(LAMBDA b : blocks[b].size, S)

Unused == {b \in DOMAIN blocks : blocks[b].unused}

(* Mutant of Tail: the header of the next block is counted as payload.     *)
TailWithHeader == Cap - size

(* Payload bytes of the part of the buffer no block was ever put in.       *)
Tail == IF Cap - size > Header THEN Cap - size - Header ELSE 0

(* *out_usage.                                                             *)
Usage ==
    LET held == PayloadSum(DOMAIN blocks \ Unused)
        free == PayloadSum(Unused) + Tail
    IN  [blockCount |-> Cardinality(DOMAIN blocks \ Unused), blockSize |-> held,
         holeCount  |-> Cardinality(Unused), holeSize |-> free,
         systemSize |-> Cap - held - free]

-----------------------------------------------------------------------------
(* The walk reports as blocks what the client holds: as many objects, and  *)
(* as many bytes as the client was told, whatever the calls since then did *)
(* to the buffer.  Every other byte is accounted for once: what is neither *)
(* payload nor hole is one header per block, and room for one more (or the *)
(* little there is) at the end; so the size_t subtractions never wrap.     *)
UsageIsExact ==
    LET held == {i \in Ids : Live(i)}
    IN  /\ Usage.blockCount = Cardinality(held)
        /\ Usage.blockSize = MapThenSumSet(LAMBDA i : obj[i].len, held)
        /\ Usage.systemSize =
               Header * (Usage.blockCount + Usage.holeCount)
                   + (IF Cap - size > Header THEN Header ELSE Cap - size)

=============================================================================
