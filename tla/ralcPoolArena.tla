--------------------------- MODULE ralcPoolArena ----------------------------
(***************************************************************************)
(* A pool whose parent is an arena: ralcPool (src/rat/src/rat_ralcPool.c)  *)
(* over ralcArena (src/rat/src/rat_ralcArena.c), joined by the dispatch of *)
(* src/rat/src/rat_ralc.c.                                                 *)
(*                                                                         *)
(* Every block lent to the pool is an object of the arena, which the rest  *)
(* of the program uses as well.  ralc_free of an arena does nothing, so a  *)
(* pool that is cleared leaves its blocks in the arena until the program   *)
(* rewinds or clears that, which it does only when it takes none away that *)
(* the pool still has.                                                     *)
(***************************************************************************)
EXTENDS ralcPool

CONSTANTS
    ArenaBlocks,    \* blocks of memory the arena's own parent may give
    ArenaExtra,     \* how many bytes more than asked for it may give
    ChunkCap,       \* p->chunkCap of the arena
    MaxMarks,       \* bound: marks the program holds at a time
    MaxPushed       \* bound: objects in the arena

VARIABLES
    arenaChunks, arenaSize, arenaLent, objs, marks  \* as in ralcArena

arenaVars == <<arenaChunks, arenaSize, arenaLent, objs, marks>>
joinVars == <<arenaVars, vars>>

Arena == INSTANCE ralcArena WITH
    Blocks <- ArenaBlocks, Extra <- ArenaExtra, Requests <- Nat,
    chunks <- arenaChunks, size <- arenaSize, lent <- arenaLent

(* What the arena needs, and that it never gives more than it was asked    *)
(* for once the size is aligned.                                           *)
ASSUME JoinAssumption ==
    /\ {ChunkCap, MaxMarks, MaxPushed} \subseteq Nat
    /\ Header # 0 /\ Header % Alignment = 0
    /\ ArenaExtra \subseteq Nat
    /\ 0 \in Extra

(* What the arena gives: its objects are the blocks the pool may get.      *)
Objects == [block : ArenaBlocks, at : Nat, len : Nat]

-----------------------------------------------------------------------------
JoinInit == Arena!Init /\ Init

(* ralc_alloc dispatched to ralcArena_push.                                *)
ArenaPush(n) ==
    /\ Len(objs) < MaxPushed
    /\ Arena!PushTop(n) \/ Arena!PushChunk(n)

(* Mutant of Pushed: the object at the bottom of the arena.                *)
PushedFirst == objs'[1]

(* The object that ralcArena_push returns.                                 *)
Pushed == objs'[Len(objs')]

(* ralcPool_alloc with grow, which pushes a chunk on the arena.            *)
AllocOver(n) ==
    /\ ~TooLarge(n)
    /\ freeSlots = <<>>
    /\ ArenaPush(GrowSize)
    /\ Borrow(Pushed, Pushed.len, n)

(* Mutant of PoolClear: the free list survives.                            *)
PoolClearButSlots ==
    ClearedButSlots /\ lent' = [b \in {} |-> 0] /\ UNCHANGED arenaVars

PoolClear == clear /\ UNCHANGED arenaVars

PoolOnly ==
    /\ \/ \E n \in Requests : AllocFree(n) \/ AllocNull(n)
       \/ \E s \in DOMAIN live : free(s)
    /\ UNCHANGED arenaVars

(* The rest of the program.                                                *)
OtherPush == (\E n \in Requests : ArenaPush(n)) /\ UNCHANGED vars

Mark == Arena!mark /\ UNCHANGED vars

(* The blocks of the pool are among the c oldest objects.                  *)
PoolBelow(c) == DOMAIN lent \subseteq {objs[i] : i \in 1..c}

Rewind ==
    /\ \E m \in marks : PoolBelow(m.count) /\ Arena!rewind(m)
    /\ UNCHANGED vars

ArenaClear == PoolBelow(0) /\ Arena!clear /\ UNCHANGED vars

JoinNext ==
    \/ \E n \in Requests : AllocOver(n)
    \/ PoolClear \/ PoolOnly
    \/ OtherPush \/ Mark \/ Rewind \/ ArenaClear

JoinSpec == JoinInit /\ [][JoinNext]_joinVars

-----------------------------------------------------------------------------
(* An arena is a parent as the pool wants it: the pool over an arena does  *)
(* nothing that the pool over any parent may not do, so everything that is *)
(* true of that is true here.  It takes that the arena never gives a block *)
(* twice, whatever the program pushes, rewinds and clears in between.      *)
PoolSpec == Spec

(* Each slot of the pool, live or free, lies inside an object of the arena *)
(* that the rest of the program was not given, and apart from all others:  *)
(* none survives in the free list of a cleared pool when the arena hands   *)
(* its memory to somebody else.                                            *)
SlotsInArena ==
    /\ Arena!ObjectsOK
    /\ \A b \in DOMAIN lent : lent[b] = b.len /\ \E i \in DOMAIN objs : objs[i] = b
    /\ \A s \in AllSlots :
          /\ s.block \in DOMAIN lent
          /\ Header + (s.index + 1) * elemSize <= s.block.len
    /\ {freeSlots[i] : i \in DOMAIN freeSlots} \cup DOMAIN live = AllSlots

(* The assertion of ralcPool_getUsage that every chunk of the pool is a    *)
(* block of the parent's account: it subtracts them from blockCount.       *)
ChunksAreParentBlocks == Len(chunks) <= Arena!Usage.blockCount

=============================================================================
