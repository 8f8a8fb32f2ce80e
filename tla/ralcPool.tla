------------------------------ MODULE ralcPool ------------------------------
(***************************************************************************)
(* The fixed-size pool allocator, src/rat/src/rat_ralcPool.c, over a       *)
(* parent allocator, with the checks its generic interface adds            *)
(* (src/rat/src/rat_ralc.c).                                               *)
(*                                                                         *)
(* A slot is its chunk's block and its index in it.  A free slot stores    *)
(* the link of the free list in its own bytes, so a slot that is both free *)
(* and live would corrupt both; freeSlots is that list.  The parent may    *)
(* refuse, and may give some bytes more than it was asked for, which can   *)
(* make room for more slots.                                               *)
(*                                                                         *)
(* live is the client's view: the slots it holds, and the bytes it asked   *)
(* for when it got them.                                                   *)
(***************************************************************************)
EXTENDS Integers, Sequences, FiniteSets, FiniteSetsExt

CONSTANTS
    Blocks,         \* blocks of memory the parent may give, all distinct
    Extra,          \* how many bytes more than asked for a parent may give
    Alignment,      \* RAT_ALIGNMENT
    Header,         \* HEADER_SIZE
    SlotLink,       \* sizeof(freeSlot)
    ElemSize,       \* elemSize given to ralcPool_init
    InitChunkCap,   \* initChunkCap given to ralcPool_init
    Requests        \* sizes asked for through ralc_alloc

ASSUME PoolAssumption ==
    /\ {Header, ElemSize, InitChunkCap} \subseteq Nat
    /\ Alignment \in Nat \ {0} /\ SlotLink \in Nat \ {0}
    /\ Extra \subseteq Nat /\ Requests \subseteq Nat

VARIABLES
    chunks,     \* p->chunks, newest first
    freeSlots,  \* p->freeSlots, from its head
    count,      \* p->count
    lent,       \* block of the parent |-> its size, while it is allocated
    live        \* slot the client holds |-> bytes it asked for

vars == <<chunks, freeSlots, count, lent, live>>

Align(n) == ((n + Alignment - 1) \div Alignment) * Alignment

(* Mutant of elemSize: the size is not rounded up.                         *)
elemSizeUnaligned == IF ElemSize > SlotLink THEN ElemSize ELSE SlotLink

elemSize == Align(IF ElemSize > SlotLink THEN ElemSize ELSE SlotLink)

chunkCap == IF InitChunkCap = 0 THEN 1 ELSE InitChunkCap

GrowSize == Header + chunkCap * elemSize

(* Mutant of NewChunk: the header is counted as slots.                     *)
NewChunkAllSlots(blk, bytes) ==
    [block |-> blk, cap |-> bytes \div elemSize, blockSize |-> bytes]

NewChunk(blk, bytes) ==
    [block |-> blk, cap |-> (bytes - Header) \div elemSize, blockSize |-> bytes]

Slot(blk, i) == [block |-> blk, index |-> i]

SlotsOf(c) == {Slot(c.block, i) : i \in 0..(c.cap - 1)}

(* The free list with the slots of chunk c pushed on it, the last first.   *)
WithSlots(c) == [i \in 1..c.cap |-> Slot(c.block, i - 1)] \o freeSlots

(* ralc_alloc and ralc_realloc of a pool: what does not fit a slot is      *)
(* refused; no bytes count as one.                                         *)
TooLarge(n) == Align(IF n = 0 THEN 1 ELSE n) > elemSize

-----------------------------------------------------------------------------
Init ==
    /\ chunks = <<>>
    /\ freeSlots = <<>>
    /\ count = 0
    /\ lent = [b \in {} |-> 0]
    /\ live = [s \in {} |-> 0]

(* The head of the free list goes to the client.                           *)
Take(free, n) ==
    /\ freeSlots' = Tail(free)
    /\ count' = count + 1
    /\ live' = [s \in DOMAIN live \cup {Head(free)} |->
                   IF s = Head(free) THEN n ELSE live[s]]

(* grow with the block the parent gave, then the allocation itself.        *)
GrowInto(blk, bytes, n) ==
    LET c == NewChunk(blk, bytes) IN
    /\ chunks' = <<c>> \o chunks
    /\ Take(WithSlots(c), n)

AllocFree(n) ==
    /\ ~TooLarge(n)
    /\ freeSlots # <<>>
    /\ Take(freeSlots, n)
    /\ UNCHANGED <<chunks, lent>>

(* grow with a block the parent lends, and the allocation.                 *)
Borrow(blk, bytes, n) ==
    /\ lent' = [b \in DOMAIN lent \cup {blk} |-> IF b = blk THEN bytes ELSE lent[b]]
    /\ GrowInto(blk, bytes, n)

AllocGrow(n) ==
    /\ ~TooLarge(n)
    /\ freeSlots = <<>>
    /\ \E blk \in Blocks \ DOMAIN lent, more \in Extra : Borrow(blk, GrowSize + more, n)

(* Too large, or the parent refuses.                                       *)
AllocNull(n) == (TooLarge(n) \/ freeSlots = <<>>) /\ UNCHANGED vars

Freed(s) ==
    /\ freeSlots' = <<s>> \o freeSlots
    /\ count' = count - 1
    /\ live' = [t \in DOMAIN live \ {s} |-> live[t]]
    /\ UNCHANGED chunks

free(s) == Freed(s) /\ UNCHANGED lent

(* Mutant of Cleared: the free list survives its chunks.                   *)
ClearedButSlots ==
    /\ chunks' = <<>>
    /\ count' = 0
    /\ live' = [s \in {} |-> 0]
    /\ UNCHANGED freeSlots

Cleared ==
    /\ chunks' = <<>>
    /\ freeSlots' = <<>>
    /\ count' = 0
    /\ live' = [s \in {} |-> 0]

(* Mutant of clear: next_p is freed in place of chunk_p.                   *)
clearNext ==
    /\ Cleared
    /\ LET freed == {chunks[i].block : i \in 2..Len(chunks)}
       IN  lent' = [b \in DOMAIN lent \ freed |-> lent[b]]

clear ==
    /\ Cleared
    /\ LET freed == {chunks[i].block : i \in 1..Len(chunks)}
       IN  lent' = [b \in DOMAIN lent \ freed |-> lent[b]]

Next ==
    \/ \E n \in Requests : AllocFree(n) \/ AllocGrow(n) \/ AllocNull(n)
    \/ \E s \in DOMAIN live : free(s)
    \/ clear

Spec == Init /\ [][Next]_vars

-----------------------------------------------------------------------------
(* ralcPool_getUsage, over a parent that serves this pool only.            *)

TotalCap == MapThenSumSet(LAMBDA i : chunks[i].cap, DOMAIN chunks)

(* Mutant of SystemSize: bytes past the last slot of a chunk are forgotten.*)
SystemSizeHeaders == Len(chunks) * Header

SystemSize ==
    MapThenSumSet(LAMBDA i : chunks[i].blockSize - chunks[i].cap * elemSize,
                  DOMAIN chunks)

ParentUsage ==
    [blockCount |-> Cardinality(DOMAIN lent),
     blockSize  |-> MapThenSumSet(LAMBDA b : lent[b], DOMAIN lent)]

Usage ==
    LET holes == TotalCap - count
    IN  [blockCount |-> ParentUsage.blockCount - Len(chunks) + count,
         blockSize  |-> ParentUsage.blockSize - (SystemSize + holes * elemSize),
         holeCount  |-> holes,
         holeSize   |-> holes * elemSize,
         systemSize |-> SystemSize]

-----------------------------------------------------------------------------
(* Type invariant, with what ralcPool_getUsage asserts of a chunk: its     *)
(* header and its slots fit its block.                                     *)
TypeOK ==
    /\ count \in Nat
    /\ DOMAIN lent \subseteq Blocks
    /\ \A i \in DOMAIN chunks :
          /\ chunks[i].block \in Blocks
          /\ chunks[i].cap \in Nat
          /\ chunks[i].blockSize \in Nat
          /\ Header + chunks[i].cap * elemSize <= chunks[i].blockSize

AllSlots == UNION {SlotsOf(chunks[i]) : i \in DOMAIN chunks}

(* A slot is live or free and never both, the free list runs through every *)
(* free slot once, and the count is right: so no history of allocations,   *)
(* frees and clears gives one slot to two owners or loses one.             *)
SlotsPartitioned ==
    /\ {freeSlots[i] : i \in DOMAIN freeSlots} = AllSlots \ DOMAIN live
    /\ DOMAIN live \subseteq AllSlots
    /\ Len(freeSlots) + Cardinality(DOMAIN live) = Cardinality(AllSlots)
    /\ count = Cardinality(DOMAIN live)

(* Every slot lies inside the memory the parent lent, is aligned and has   *)
(* room for what the client asked for, and for the link it holds when it   *)
(* is free.                                                                *)
SlotsFit ==
    /\ \A s \in AllSlots :
          /\ s.block \in DOMAIN lent
          /\ Header + (s.index + 1) * elemSize <= lent[s.block]
          /\ (s.index * elemSize) % Alignment = 0
    /\ \A s \in DOMAIN live : live[s] <= elemSize
    /\ SlotLink <= elemSize

(* Each block borrowed from the parent is that of exactly one chunk: clear *)
(* leaks none.                                                             *)
ChunksLent ==
    /\ DOMAIN lent = {chunks[i].block : i \in DOMAIN chunks}
    /\ \A i, j \in DOMAIN chunks : chunks[i].block = chunks[j].block => i = j

(* The account of the parent, corrected by the pool, shows the live slots  *)
(* as blocks: getUsage's subtractions leave exactly the client's bytes.    *)
UsageIsLive ==
    /\ Usage.blockCount = Cardinality(DOMAIN live)
    /\ Usage.blockSize = Cardinality(DOMAIN live) * elemSize

=============================================================================
