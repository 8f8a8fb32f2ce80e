------------------------------ MODULE ralcGen -------------------------------
(***************************************************************************)
(* The general-purpose allocator, src/rat/src/rat_ralcGen.c.               *)
(*                                                                         *)
(* The allocator packs blocks from offset 0 to offset `size' of one        *)
(* caller-provided buffer of Cap bytes.  A block is a header of Header     *)
(* bytes (struct block: the size of the previous payload with the unused   *)
(* flag in its low bit, then the size of its own payload) followed by its  *)
(* payload.  Every pointer of the code is an offset from p->buf here.      *)
(*                                                                         *)
(* `blocks' maps the offset of each header the code can still reach to its *)
(* fields; the flag bit is a field of its own, which is what aligned (so   *)
(* even) payload sizes make it.  A header that a merge or a split absorbs  *)
(* into a payload leaves the map: its bytes may be overwritten by a client *)
(* at once, so reading it again would be a bug and is an error here.       *)
(*                                                                         *)
(* The client is the rest of the program.  obj[i] is what it was told last *)
(* about its object i: pointer and *out_actualSize.  It frees and resizes  *)
(* only live objects, as ralcGen.h asks.                                   *)
(*                                                                         *)
(* No size_t expression wraps when Header + Align(n) + Cap is below 2^w    *)
(* for every request n; sizes are then natural numbers, as they are here.  *)
(***************************************************************************)
EXTENDS Integers

CONSTANTS
    Ids,        \* names the client gives to its objects
    Cap,        \* p->cap, the length of the buffer
    Alignment,  \* RAT_ALIGNMENT
    Header,     \* sizeof(block)
    Requests    \* sizes the client asks for

ASSUME CapAssumption == Cap \in Nat
ASSUME AlignmentAssumption == Alignment \in Nat \ {0}
ASSUME HeaderAssumption == Header \in Nat \ {0} /\ Header % Alignment = 0
ASSUME RequestsAssumption == Requests \subseteq Nat

VARIABLES
    size,       \* p->size, the used part of the buffer
    blocks,     \* offset of a header |-> its fields
    obj         \* what the client knows about its objects

vars == <<size, blocks, obj>>

Fields == [prev : Nat, unused : BOOLEAN, size : Nat]

Spans == [at : Nat, len : Nat]

Null == [at |-> 0, len |-> 0]

(* Mutant of Align: RAT_ALIGN is forgotten.                                *)
AlignForgotten(n) == n

Align(n) == ((n + Alignment - 1) \div Alignment) * Alignment

Live(i) == obj[i] # Null

-----------------------------------------------------------------------------
(* The helpers of the source, on a header map m and a used size e.         *)

NextOf(m, b) == b + Header + m[b].size             \* BLOCK_NEXT
PrevOf(m, b) == b - Header - m[b].prev             \* BLOCK_PREV
HeaderOf(p)  == p.at - Header                      \* (block *)ptr - 1

(* Mutant of Put: block_setSize leaves the block that follows as it was.   *)
PutNoBackLink(m, e, b, h) ==
    [x \in {y \in DOMAIN m : y < b \/ b + Header + h.size <= y} \cup {b} |->
        IF x = b THEN h ELSE m[x]]

(* The header h written at b.  Its payload swallows the headers that were  *)
(* inside, and block_setSize repeats its size in the block that follows,   *)
(* unless b now ends at the end of the used buffer.                        *)
Put(m, e, b, h) ==
    LET q == b + Header + h.size
    IN  [x \in {y \in DOMAIN m : y < b \/ q <= y} \cup {b} |->
            IF x = b THEN h
            ELSE IF x = q /\ q < e
            THEN [prev |-> h.size, unused |-> m[x].unused, size |-> m[x].size]
            ELSE m[x]]

(* Makes a used block of `used' bytes at b out of the `avail' bytes that   *)
(* start at its payload.  The rest becomes an unused block when it can     *)
(* hold a header and stays part of the block when it cannot.               *)
SplitSize(avail, used) == IF avail - used >= Header THEN used ELSE avail

SplitRest(m, e, b, avail, used) ==
    IF avail - used >= Header
    THEN Put(m, e, b + Header + used,
             [prev |-> 0, unused |-> TRUE, size |-> avail - used - Header])
    ELSE m

Split(m, e, b, avail, used) ==
    Put(SplitRest(m, e, b, avail, used), e, b,
        [prev |-> m[b].prev, unused |-> FALSE, size |-> SplitSize(avail, used)])

(* A freed block and the unused blocks next to it become one unused block. *)
MergeStart(m, b) ==
    IF b > 0 /\ m[PrevOf(m, b)].unused
    THEN b - (m[PrevOf(m, b)].size + Header)
    ELSE b

(* Mutant of MergeNext: the hole after the freed block stays its own.      *)
MergeNextForgotten(m, b) == NextOf(m, b)

MergeNext(m, b) ==
    LET q == NextOf(m, b) IN IF m[q].unused THEN NextOf(m, q) ELSE q

MergeBlocks(m, e, b) ==
    LET s == MergeStart(m, b)
    IN  IF NextOf(m, b) >= e
        THEN [x \in {y \in DOMAIN m : y < s} |-> m[x]]
        ELSE Put(m, e, s, [prev |-> m[s].prev, unused |-> TRUE,
                           size |-> MergeNext(m, b) - s - Header])

(* Mutant of MergeEnd: only the freed block is given back to the buffer,   *)
(* not the hole before it.                                                 *)
MergeEndHoleForgotten(m, e, b) ==
    IF NextOf(m, b) >= e THEN e - (NextOf(m, b) - b) ELSE e

(* A merged block that reaches the end is given back to the buffer.        *)
MergeEnd(m, e, b) ==
    IF NextOf(m, b) >= e THEN e - (NextOf(m, b) - MergeStart(m, b)) ELSE e

-----------------------------------------------------------------------------
(* ralcGen_alloc.  The walk over the blocks ends at the first one that is  *)
(* unused and large enough, or else at the end of the used buffer with the *)
(* size of the block it saw last.                                          *)

Fitting(w) == {b \in DOMAIN blocks : blocks[b].unused /\ blocks[b].size >= w}

FirstFit(b, w) == b \in Fitting(w) /\ \A c \in Fitting(w) : b <= c

Reuse(b, w) == Split(blocks, size, b, blocks[b].size, w)
(* Mutant of ReuseSize: the caller is told the size it asked for.          *)
ReuseSizeAsked(b, w) == w

ReuseSize(b, w) == SplitSize(blocks[b].size, w)

(* Mutant of CanAppend: the header is not counted.                         *)
CanAppendNoHeader(w) == Fitting(w) = {} /\ Cap - size >= w

CanAppend(w) == Fitting(w) = {} /\ Cap - size >= Header + w

LastSize ==
    IF size = 0 THEN 0
    ELSE blocks[CHOOSE b \in DOMAIN blocks : NextOf(blocks, b) = size].size

Appended(w) ==
    Put(blocks, size + Header + w, size,
        [prev |-> LastSize, unused |-> FALSE, size |-> w])

NoRoom(w) == Fitting(w) = {} /\ Cap - size < Header + w

Told(i, b, len) == obj' = [obj EXCEPT ![i] = [at |-> b + Header, len |-> len]]

-----------------------------------------------------------------------------
Init ==
    /\ size = 0
    /\ blocks = [b \in {} |-> [prev |-> 0, unused |-> FALSE, size |-> 0]]
    /\ obj = [i \in Ids |-> Null]

AllocReuse(i, n) ==
    /\ ~Live(i)
    /\ \E b \in DOMAIN blocks :
          /\ FirstFit(b, Align(n))
          /\ blocks' = Reuse(b, Align(n))
          /\ Told(i, b, ReuseSize(b, Align(n)))
    /\ UNCHANGED size

AllocAppend(i, n) ==
    /\ ~Live(i)
    /\ CanAppend(Align(n))
    /\ size' = size + Header + Align(n)
    /\ blocks' = Appended(Align(n))
    /\ Told(i, size, Align(n))

(* NULL: the client's object stays unallocated.                            *)
AllocNull(i, n) ==
    /\ ~Live(i)
    /\ NoRoom(Align(n))
    /\ UNCHANGED vars

-----------------------------------------------------------------------------
(* ralcGen_realloc with a NULL pointer is ralcGen_alloc; the actions below *)
(* are its other paths, in the order the code tries them.                  *)

IsLast(b) == NextOf(blocks, b) >= size

(* Mutant of FitsInPlace: the last block grows past the capacity.          *)
FitsInPlaceUnbounded(b, w) == IsLast(b)

FitsInPlace(b, w) == IsLast(b) /\ size - blocks[b].size + w <= Cap

Available(b) ==
    LET q == NextOf(blocks, b)
    IN  IF ~IsLast(b) /\ blocks[q].unused
        THEN blocks[b].size + Header + blocks[q].size
        ELSE blocks[b].size

MustMove(b, w) == ~FitsInPlace(b, w) /\ Available(b) < w

(* The last block grows or shrinks together with the used buffer.          *)
ReallocLast(i, n) ==
    /\ Live(i)
    /\ LET b == HeaderOf(obj[i]) IN
          /\ FitsInPlace(b, Align(n))
          /\ size' = size - blocks[b].size + Align(n)
          /\ blocks' = Put(blocks, size', b, [blocks[b] EXCEPT !.size = Align(n)])
          /\ Told(i, b, Align(n))

(* An inner block shrinks, or grows into the unused block that follows.    *)
ReallocSplit(i, n) ==
    /\ Live(i)
    /\ LET b == HeaderOf(obj[i]) IN
          /\ ~FitsInPlace(b, Align(n))
          /\ Available(b) >= Align(n)
          /\ blocks' = Split(blocks, size, b, Available(b), Align(n))
          /\ Told(i, b, SplitSize(Available(b), Align(n)))
    /\ UNCHANGED size

(* The object moves: ralcGen_alloc, memcpy of the old payload, block_merge *)
(* of the old block in the buffer that ralcGen_alloc left.                 *)
ReallocMoveReuse(i, n) ==
    /\ Live(i)
    /\ LET b == HeaderOf(obj[i]) IN
          /\ MustMove(b, Align(n))
          /\ \E c \in DOMAIN blocks :
                /\ FirstFit(c, Align(n))
                /\ blocks' = MergeBlocks(Reuse(c, Align(n)), size, b)
                /\ size' = MergeEnd(Reuse(c, Align(n)), size, b)
                /\ Told(i, c, ReuseSize(c, Align(n)))

ReallocMoveAppend(i, n) ==
    /\ Live(i)
    /\ LET b == HeaderOf(obj[i])
           e == size + Header + Align(n) IN
          /\ MustMove(b, Align(n))
          /\ CanAppend(Align(n))
          /\ blocks' = MergeBlocks(Appended(Align(n)), e, b)
          /\ size' = MergeEnd(Appended(Align(n)), e, b)
          /\ Told(i, size, Align(n))

(* NULL: the old object stays as it was.                                   *)
ReallocNull(i, n) ==
    /\ Live(i)
    /\ MustMove(HeaderOf(obj[i]), Align(n))
    /\ NoRoom(Align(n))
    /\ UNCHANGED vars

Free(i) ==
    /\ Live(i)
    /\ blocks' = MergeBlocks(blocks, size, HeaderOf(obj[i]))
    /\ size' = MergeEnd(blocks, size, HeaderOf(obj[i]))
    /\ obj' = [obj EXCEPT ![i] = Null]

Clear ==
    /\ size' = 0
    /\ blocks' = [b \in {} |-> [prev |-> 0, unused |-> FALSE, size |-> 0]]
    /\ obj' = [i \in Ids |-> Null]

Alloc(i, n) == AllocReuse(i, n) \/ AllocAppend(i, n) \/ AllocNull(i, n)

Realloc(i, n) ==
    \/ ReallocLast(i, n)
    \/ ReallocSplit(i, n)
    \/ ReallocMoveReuse(i, n)
    \/ ReallocMoveAppend(i, n)
    \/ ReallocNull(i, n)

Next ==
    \/ \E i \in Ids, n \in Requests : Alloc(i, n) \/ Realloc(i, n)
    \/ \E i \in Ids : Free(i)
    \/ Clear

Spec == Init /\ [][Next]_vars

-----------------------------------------------------------------------------
(* The invariant, in parts.  Each part is about a header map m and a used  *)
(* size e, so that the parts can be stated of intermediate buffers too.    *)

HeadersIn(m, e) ==
    /\ e \in Nat
    /\ DOMAIN m \subseteq Nat
    /\ m \in [DOMAIN m -> Fields]

(* Blocks follow each other without gap or overlap from 0 to e.            *)
Tiled(m, e) ==
    /\ e > 0 => 0 \in DOMAIN m
    /\ \A b \in DOMAIN m : NextOf(m, b) = e \/ NextOf(m, b) \in DOMAIN m
    /\ \A b \in DOMAIN m : NextOf(m, b) <= e
    /\ \A b, c \in DOMAIN m : b < c => NextOf(m, b) <= c
    /\ e > 0 => \E b \in DOMAIN m : NextOf(m, b) = e

(* BLOCK_PREV of every block but the first is the block before it.         *)
BackLinked(m) ==
    \A b \in DOMAIN m : b > 0 =>
        /\ PrevOf(m, b) \in DOMAIN m
        /\ NextOf(m, PrevOf(m, b)) = b

(* An unused block is followed by a used one: neighbours have been merged, *)
(* and no hole is left at the end.                                         *)
Coalesced(m, e) ==
    \A b \in DOMAIN m : m[b].unused =>
        /\ NextOf(m, b) < e
        /\ ~m[NextOf(m, b)].unused

(* b is a used block with a payload of len bytes.                          *)
UsedAt(m, b, len) == b \in DOMAIN m /\ ~m[b].unused /\ m[b].size = len

(* The used blocks of m are exactly the live objects of o, and the size    *)
(* the client was told is the size the header has.                         *)
Owned(m, o) ==
    /\ \A i \in Ids : o[i] # Null => UsedAt(m, HeaderOf(o[i]), o[i].len)
    /\ \A i, j \in Ids : o[i] # Null /\ o[i] = o[j] => i = j
    /\ \A b \in DOMAIN m : ~m[b].unused =>
          \E i \in Ids : o[i] # Null /\ HeaderOf(o[i]) = b

WellFormed(m, e) ==
    HeadersIn(m, e) /\ Tiled(m, e) /\ BackLinked(m) /\ Coalesced(m, e)

-----------------------------------------------------------------------------
(* Type invariant.                                                         *)
TypeOK ==
    /\ size \in 0..Cap
    /\ HeadersIn(blocks, size)
    /\ obj \in [Ids -> Spans]

(* After any history of calls the buffer is a doubly linked tiling by      *)
(* blocks with every hole merged, whatever block_split and block_merge     *)
(* absorbed on the way: what every later walk, merge and BLOCK_PREV of     *)
(* rat_ralcGen.c relies on.                                                *)
BlocksOK == WellFormed(blocks, size)

(* The used blocks are exactly the objects of the client, and the size the *)
(* client was told is the size the header has now: no operation on another *)
(* object has moved, resized or released it.                               *)
ObjectsOK == Owned(blocks, obj)

(* The inductive invariant.                                                *)
GenInv == TypeOK /\ BlocksOK /\ ObjectsOK

(* Every pointer given out is aligned, and so is every payload size, which *)
(* is what leaves the low bit of prevSize_unused to the flag.              *)
PayloadsAligned ==
    \A b \in DOMAIN blocks :
        (b + Header) % Alignment = 0 /\ blocks[b].size % Alignment = 0

(* When the client has released everything the whole buffer is free again: *)
(* no history of splits and merges leaks a byte.                           *)
NothingLeaks == (\A i \in Ids : ~Live(i)) => size = 0

(* ralcGen_alloc gives up on w bytes only when no run of Header + w bytes  *)
(* anywhere in the buffer is free of the client's objects and of their     *)
(* headers: first fit over merged holes never misses room that is there.   *)
FailsOnlyWhenFull ==
    \A n \in Requests : NoRoom(Align(n)) =>
        ~ \E x \in 0..(Cap - Header - Align(n)) :
            \A b \in DOMAIN blocks : ~blocks[b].unused =>
                NextOf(blocks, b) <= x \/ x + Header + Align(n) <= b

(* The allocator implements the contract of a heap: live objects are big   *)
(* enough, inside the buffer and apart from each other, a failed call      *)
(* changes nothing, and a realloc that moves copies between regions that   *)
(* are apart, as the restrict pointers of its memcpy require.              *)
Contract == INSTANCE Heap
ContractSpec == Contract!Spec

=============================================================================
