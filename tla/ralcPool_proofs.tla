-------------------------- MODULE ralcPool_proofs ---------------------------
(***************************************************************************)
(* The pool gives each slot to one owner at a time, for every parent, size *)
(* of elements, capacity of chunks and set of requests; and an arena is    *)
(* such a parent, though the rest of the program uses it as well.          *)
(***************************************************************************)
EXTENDS ralcPoolArena, FiniteSetTheorems, SequenceTheorems, Lemmas, TLAPS

Slots == [block : Blocks, index : Nat]
Chunk == [block : Blocks, cap : Nat, blockSize : Nat]

Distinct(s) == \A i, j \in DOMAIN s : s[i] = s[j] => i = j
Elems(s) == {s[i] : i \in DOMAIN s}

(***************************************************************************)
(* The parts of the invariant.  The free list is a list of all slots but   *)
(* those in held, without repetition; held is what the client has.         *)
(***************************************************************************)
ChunksShaped ==
    /\ chunks \in Seq(Chunk)
    /\ DOMAIN lent \subseteq Blocks
    /\ \A i \in DOMAIN chunks :
          /\ Header + chunks[i].cap * elemSize <= chunks[i].blockSize
          /\ chunks[i].block \in DOMAIN lent
          /\ lent[chunks[i].block] = chunks[i].blockSize

FreeListOf(list, all, held) ==
    /\ list \in Seq(Slots)
    /\ Distinct(list)
    /\ Elems(list) = all \ held

Holding(all, held, n) ==
    held \subseteq all /\ IsFiniteSet(held) /\ n = Cardinality(held)

LiveFits == \A s \in DOMAIN live : live[s] \in Nat /\ live[s] <= elemSize

PoolInv ==
    /\ ChunksShaped
    /\ ChunksLent
    /\ FreeListOf(freeSlots, AllSlots, DOMAIN live)
    /\ Holding(AllSlots, DOMAIN live, count)
    /\ LiveFits

(***************************************************************************)
(* Arithmetic.                                                             *)
(***************************************************************************)
LEMMA MultipleOf ==
    ASSUME NEW k \in Nat, NEW a \in Nat \ {0}
    PROVE  (k * a) % a = 0
OBVIOUS

LEMMA AlignUp ==
    ASSUME NEW n \in Nat
    PROVE  Align(n) \in Nat /\ Align(n) >= n /\ Align(n) % Alignment = 0
<1> DEFINE q == (n + Alignment - 1) \div Alignment
<1>1. q \in Nat /\ Alignment \in Nat \ {0}
  BY PoolAssumption
<1>2. Align(n) \in Nat /\ Align(n) >= n
  BY PoolAssumption DEF Align
<1>3. Align(n) = q * Alignment
  BY DEF Align
<1> HIDE DEF q
<1>4. (q * Alignment) % Alignment = 0
  BY <1>1, MultipleOf
<1> QED
  BY <1>2, <1>3, <1>4

LEMMA elemSizeFits ==
    /\ elemSize \in Nat \ {0}
    /\ elemSize >= SlotLink
    /\ elemSize % Alignment = 0
<1> DEFINE n == IF ElemSize > SlotLink THEN ElemSize ELSE SlotLink
<1>1. n \in Nat \ {0} /\ n >= SlotLink
  BY PoolAssumption
<1>2. elemSize = Align(n)
  BY DEF elemSize
<1> HIDE DEF n
<1> QED
  BY <1>1, <1>2, AlignUp, PoolAssumption

LEMMA SlotAligned ==
    ASSUME NEW i \in Nat
    PROVE  (i * elemSize) % Alignment = 0
<1> DEFINE q == elemSize \div Alignment
<1>1. /\ Alignment \in Nat \ {0} /\ elemSize \in Nat
      /\ q \in Nat /\ elemSize = q * Alignment
  BY elemSizeFits, PoolAssumption
<1> HIDE DEF q
<1>2. i * elemSize = (i * q) * Alignment /\ i * q \in Nat
  BY <1>1
<1>3. ((i * q) * Alignment) % Alignment = 0
  BY <1>1, <1>2, MultipleOf
<1> QED
  BY <1>2, <1>3

(* A request that is not too large fits a slot.                            *)
LEMMA RequestFits ==
    ASSUME NEW n \in Requests, ~ TooLarge(n)
    PROVE  n \in Nat /\ n <= elemSize
<1> DEFINE k == IF n = 0 THEN 1 ELSE n
<1>1. n \in Nat /\ k \in Nat /\ n <= k
  BY PoolAssumption
<1>2. Align(k) <= elemSize /\ Align(k) \in Nat
  BY <1>1, AlignUp, elemSizeFits DEF TooLarge
<1> HIDE DEF k
<1> QED
  BY <1>1, <1>2, AlignUp, elemSizeFits

(* The chunk that grow makes of a block has slots, which fit the block.    *)
LEMMA NewChunkFits ==
    ASSUME NEW blk \in Blocks, NEW more \in Extra
    PROVE  LET c == NewChunk(blk, GrowSize + more) IN
           /\ c \in Chunk /\ c.cap >= 1
           /\ c.block = blk /\ c.blockSize = GrowSize + more
           /\ Header + c.cap * elemSize <= c.blockSize
<1> DEFINE room == chunkCap * elemSize + more
           capacity == room \div elemSize
<1>1. chunkCap \in Nat \ {0} /\ more \in Nat /\ Header \in Nat /\ elemSize \in Nat \ {0}
  BY PoolAssumption, elemSizeFits DEF chunkCap
<1>2. room \in Nat /\ room >= elemSize
  BY <1>1
<1>3. GrowSize + more = Header + room /\ (GrowSize + more) - Header = room
  BY <1>1 DEF GrowSize
<1> HIDE DEF room
<1>4. capacity \in Nat /\ capacity >= 1 /\ capacity * elemSize <= room
  BY <1>1, <1>2
<1>5. NewChunk(blk, GrowSize + more)
        = [block |-> blk, cap |-> capacity, blockSize |-> Header + room]
  BY <1>3 DEF NewChunk
<1> HIDE DEF capacity
<1>6. Header + room \in Nat /\ capacity * elemSize \in Nat
  BY <1>1, <1>2, <1>4
<1> QED
  BY <1>1, <1>3, <1>4, <1>5, <1>6 DEF Chunk

(***************************************************************************)
(* The free list.                                                          *)
(***************************************************************************)
(* The head of the free list goes to the client.                           *)
LEMMA TakeKeeps ==
    ASSUME NEW list, NEW all, FreeListOf(list, all, DOMAIN live), Holding(all, DOMAIN live, count), LiveFits,
           list # <<>>, NEW n \in Nat, n <= elemSize, Take(list, n)
    PROVE  /\ FreeListOf(freeSlots', all, DOMAIN live')
           /\ Holding(all, DOMAIN live', count') /\ LiveFits'
<1> DEFINE h == Head(list)
           held == DOMAIN live
<1>1. list \in Seq(Slots) /\ Distinct(list) /\ Elems(list) = all \ held
  BY DEF FreeListOf
<1>2. Len(list) \in Nat \ {0} /\ DOMAIN list = 1..Len(list) /\ h = list[1]
  BY <1>1
<1>3. /\ Tail(list) \in Seq(Slots) /\ Len(Tail(list)) = Len(list) - 1
      /\ \A i \in 1..(Len(list) - 1) : Tail(list)[i] = list[i + 1]
  BY <1>1, <1>2, HeadTailProperties
<1>4. DOMAIN Tail(list) = 1..(Len(list) - 1)
  BY <1>2, <1>3
<1>5. freeSlots' = Tail(list) /\ count' = count + 1 /\ DOMAIN live' = held \cup {h}
      /\ \A s \in held \cup {h} : live'[s] = IF s = h THEN n ELSE live[s]
  BY DEF Take
<1>6. h \in all /\ h \notin held
  BY <1>1, <1>2 DEF Elems
<1>7. Distinct(freeSlots')
  BY <1>1, <1>2, <1>3, <1>4, <1>5 DEF Distinct
<1>8. Elems(Tail(list)) = Elems(list) \ {h}
  <2>1. ASSUME NEW x \in Elems(Tail(list)) PROVE x \in Elems(list) \ {h}
    <3>1. PICK i \in 1..(Len(list) - 1) : x = list[i + 1]
      BY <1>3, <1>4 DEF Elems
    <3>2. i + 1 \in 1..Len(list) /\ i + 1 # 1 /\ 1 \in 1..Len(list)
      BY <1>2
    <3> QED
      BY <3>1, <3>2, <1>1, <1>2 DEF Elems, Distinct
  <2>2. ASSUME NEW x \in Elems(list), x # h PROVE x \in Elems(Tail(list))
    <3>1. PICK i \in 1..Len(list) : x = list[i]
      BY <1>2 DEF Elems
    <3>2. i - 1 \in 1..(Len(list) - 1) /\ (i - 1) + 1 = i
      BY <3>1, <2>2, <1>2
    <3> QED
      BY <3>1, <3>2, <1>3, <1>4 DEF Elems
  <2> QED
    BY <2>1, <2>2
<1>9. FreeListOf(freeSlots', all, DOMAIN live')
  BY <1>1, <1>3, <1>5, <1>7, <1>8 DEF FreeListOf
<1>10. IsFiniteSet(DOMAIN live') /\ count' = Cardinality(DOMAIN live')
  BY <1>5, <1>6, FS_AddElement DEF Holding
<1>11. LiveFits'
  BY <1>5 DEF LiveFits
<1>12. DOMAIN live' \subseteq all
  BY <1>5, <1>6 DEF Holding
<1> QED
  BY <1>9, <1>10, <1>11, <1>12 DEF Holding

(* The slots of a new chunk, on an empty free list.                        *)
LEMMA NewSlots ==
    ASSUME NEW c \in Chunk, c.cap >= 1, freeSlots = <<>>,
           NEW held, held \cap SlotsOf(c) = {}
    PROVE  WithSlots(c) # <<>> /\ FreeListOf(WithSlots(c), held \cup SlotsOf(c), held)
<1> DEFINE f == [i \in 1..c.cap |-> Slot(c.block, i - 1)]
<1>1. c.cap \in Nat \ {0} /\ c.block \in Blocks
  BY DEF Chunk
<1>2. \A i \in 1..c.cap : Slot(c.block, i - 1) \in Slots
  BY <1>1 DEF Slot, Slots
<1>3. f \in [1..c.cap -> Slots]
  BY <1>2
<1>4. f \in Seq(Slots) /\ DOMAIN f = 1..c.cap
  <2> HIDE DEF f
  <2> QED
    BY <1>1, <1>3
<1>5. WithSlots(c) = f
  <2> HIDE DEF f
  <2>1. f \o <<>> = f
    BY <1>4, ConcatEmptySeq
  <2> QED
    BY <2>1 DEF WithSlots, f
<1>6. Distinct(f)
  <2>1. ASSUME NEW i \in 1..c.cap, NEW j \in 1..c.cap, f[i] = f[j] PROVE i = j
    <3>1. i - 1 = j - 1
      BY <2>1 DEF Slot
    <3> QED
      BY <3>1, <1>1
  <2> QED
    BY <2>1 DEF Distinct
<1>7. Elems(f) = SlotsOf(c)
  <2>1. ASSUME NEW x \in Elems(f) PROVE x \in SlotsOf(c)
    <3>1. PICK i \in 1..c.cap : x = Slot(c.block, i - 1)
      BY DEF Elems
    <3>2. i - 1 \in 0..(c.cap - 1)
      BY <1>1
    <3> QED
      BY <3>1, <3>2 DEF SlotsOf
  <2>2. ASSUME NEW x \in SlotsOf(c) PROVE x \in Elems(f)
    <3>1. PICK i \in 0..(c.cap - 1) : x = Slot(c.block, i)
      BY DEF SlotsOf
    <3>2. i + 1 \in 1..c.cap /\ (i + 1) - 1 = i
      BY <1>1
    <3>3. f[i + 1] = x
      BY <3>1, <3>2
    <3> QED
      BY <3>2, <3>3 DEF Elems
  <2> QED
    BY <2>1, <2>2
<1> HIDE DEF f
<1>8. f # <<>>
  BY <1>1, <1>4
<1> QED
  BY <1>4, <1>5, <1>6, <1>7, <1>8 DEF FreeListOf

(* A freed slot goes in front of the free list.                            *)
LEMMA FreedKeeps ==
    ASSUME NEW all \in SUBSET Slots, FreeListOf(freeSlots, all, DOMAIN live),
           Holding(all, DOMAIN live, count), LiveFits,
           NEW s \in DOMAIN live, Freed(s)
    PROVE  /\ FreeListOf(freeSlots', all, DOMAIN live')
           /\ Holding(all, DOMAIN live', count') /\ LiveFits'
<1> DEFINE one == <<s>>
           held == DOMAIN live
<1>1. /\ freeSlots \in Seq(Slots) /\ Distinct(freeSlots) /\ Elems(freeSlots) = all \ held
      /\ s \in all /\ s \in Slots
  BY DEF FreeListOf, Holding
<1>2. Len(freeSlots) \in Nat /\ DOMAIN freeSlots = 1..Len(freeSlots)
  BY <1>1
<1>3. one \in Seq(Slots) /\ Len(one) = 1 /\ one[1] = s
  BY <1>1
<1> HIDE DEF one
<1>4. freeSlots' = one \o freeSlots
  BY DEF Freed, one
<1>5. /\ freeSlots' \in Seq(Slots) /\ Len(freeSlots') = 1 + Len(freeSlots)
      /\ \A i \in 1..(1 + Len(freeSlots)) :
            freeSlots'[i] = IF i <= 1 THEN one[i] ELSE freeSlots[i - 1]
  <2>1. /\ one \o freeSlots \in Seq(Slots)
        /\ Len(one \o freeSlots) = Len(one) + Len(freeSlots)
        /\ \A i \in 1..(Len(one) + Len(freeSlots)) :
              (one \o freeSlots)[i] = IF i <= Len(one) THEN one[i] ELSE freeSlots[i - Len(one)]
    BY <1>1, <1>3, ConcatProperties
  <2> QED
    BY <2>1, <1>3, <1>4
<1>6. /\ DOMAIN freeSlots' = 1..(1 + Len(freeSlots))
      /\ freeSlots'[1] = s
      /\ \A i \in 2..(1 + Len(freeSlots)) :
            i - 1 \in 1..Len(freeSlots) /\ freeSlots'[i] = freeSlots[i - 1]
  BY <1>2, <1>3, <1>5
<1>7. DOMAIN live' = held \ {s} /\ count' = count - 1
      /\ \A t \in held \ {s} : live'[t] = live[t]
  BY DEF Freed
<1>8. s \notin Elems(freeSlots)
  BY <1>1
<1>9. Distinct(freeSlots')
  <2>1. ASSUME NEW i \in 1..(1 + Len(freeSlots)), NEW j \in 1..(1 + Len(freeSlots)),
               freeSlots'[i] = freeSlots'[j]
        PROVE  i = j
    <3>1. CASE i = 1 /\ j = 1
      BY <3>1
    <3>2. CASE i = 1 /\ j # 1
      <4>1. j \in 2..(1 + Len(freeSlots))
        BY <3>2, <1>2
      <4> QED
        BY <2>1, <3>2, <4>1, <1>2, <1>6, <1>8 DEF Elems
    <3>3. CASE i # 1 /\ j = 1
      <4>1. i \in 2..(1 + Len(freeSlots))
        BY <3>3, <1>2
      <4> QED
        BY <2>1, <3>3, <4>1, <1>2, <1>6, <1>8 DEF Elems
    <3>4. CASE i # 1 /\ j # 1
      <4>1. i \in 2..(1 + Len(freeSlots)) /\ j \in 2..(1 + Len(freeSlots))
        BY <3>4, <1>2
      <4>2. i - 1 = j - 1
        BY <2>1, <4>1, <1>1, <1>2, <1>6 DEF Distinct
      <4> QED
        BY <4>1, <4>2
    <3> QED
      BY <3>1, <3>2, <3>3, <3>4
  <2> QED
    BY <2>1, <1>6 DEF Distinct
<1>10. Elems(freeSlots') = Elems(freeSlots) \cup {s}
  <2>1. ASSUME NEW x \in Elems(freeSlots') PROVE x \in Elems(freeSlots) \cup {s}
    <3>1. PICK i \in 1..(1 + Len(freeSlots)) : x = freeSlots'[i]
      BY <1>6 DEF Elems
    <3>2. i = 1 \/ i \in 2..(1 + Len(freeSlots))
      BY <1>2
    <3> QED
      BY <3>1, <3>2, <1>2, <1>6 DEF Elems
  <2>2. ASSUME NEW x \in Elems(freeSlots) PROVE x \in Elems(freeSlots')
    <3>1. PICK i \in 1..Len(freeSlots) : x = freeSlots[i]
      BY <1>2 DEF Elems
    <3>2. i + 1 \in 2..(1 + Len(freeSlots)) /\ (i + 1) - 1 = i /\ i + 1 \in 1..(1 + Len(freeSlots))
      BY <1>2
    <3> QED
      BY <3>1, <3>2, <1>6 DEF Elems
  <2>3. s \in Elems(freeSlots')
    <3>1. 1 \in 1..(1 + Len(freeSlots))
      BY <1>2
    <3> QED
      BY <3>1, <1>6 DEF Elems
  <2> QED
    BY <2>1, <2>2, <2>3
<1>11. FreeListOf(freeSlots', all, DOMAIN live')
  BY <1>1, <1>5, <1>7, <1>9, <1>10 DEF FreeListOf
<1>12. IsFiniteSet(DOMAIN live') /\ count' = Cardinality(DOMAIN live')
  BY <1>7, FS_RemoveElement DEF Holding
<1>13. DOMAIN live' \subseteq all /\ LiveFits'
  BY <1>7 DEF Holding, LiveFits
<1> QED
  BY <1>11, <1>12, <1>13 DEF Holding

-----------------------------------------------------------------------------
(***************************************************************************)
(* One lemma for each operation.                                           *)
(***************************************************************************)
LEMMA InitPoolInv ==
    ASSUME Init
    PROVE  PoolInv
<1>1. chunks = <<>> /\ freeSlots = <<>> /\ count = 0 /\ DOMAIN lent = {} /\ DOMAIN live = {}
  BY DEF Init
<1>2. AllSlots = {}
  BY <1>1 DEF AllSlots
<1>3. FreeListOf(freeSlots, AllSlots, DOMAIN live)
  BY <1>1, <1>2 DEF FreeListOf, Distinct, Elems
<1>4. Holding(AllSlots, DOMAIN live, count) /\ LiveFits
  BY <1>1, <1>2, FS_EmptySet DEF Holding, LiveFits
<1>5. ChunksShaped /\ ChunksLent
  BY <1>1 DEF ChunksShaped, ChunksLent
<1> QED
  BY <1>3, <1>4, <1>5 DEF PoolInv

LEMMA SlotTypes ==
    ASSUME ChunksShaped
    PROVE  /\ AllSlots \subseteq Slots
           /\ \A s \in AllSlots : s.block \in DOMAIN lent
<1> SUFFICES ASSUME NEW s \in AllSlots PROVE s \in Slots /\ s.block \in DOMAIN lent
  OBVIOUS
<1>1. PICK i \in DOMAIN chunks : s \in SlotsOf(chunks[i])
  BY DEF AllSlots
<1>2. chunks[i] \in Chunk /\ chunks[i].block \in DOMAIN lent
  BY DEF ChunksShaped
<1>3. PICK k \in 0..(chunks[i].cap - 1) : s = Slot(chunks[i].block, k)
  BY <1>1 DEF SlotsOf
<1> QED
  BY <1>2, <1>3 DEF Slot, Slots, Chunk

LEMMA AllocFreeKeeps ==
    ASSUME PoolInv, NEW n \in Requests, AllocFree(n)
    PROVE  PoolInv'
<1>1. n \in Nat /\ n <= elemSize
  BY RequestFits DEF AllocFree
<1>2. freeSlots # <<>> /\ Take(freeSlots, n) /\ chunks' = chunks /\ lent' = lent
  BY DEF AllocFree
<1>3. AllSlots' = AllSlots
  BY <1>2 DEF AllSlots
<1>4. /\ FreeListOf(freeSlots', AllSlots, DOMAIN live')
      /\ Holding(AllSlots, DOMAIN live', count') /\ LiveFits'
  BY <1>1, <1>2, TakeKeeps DEF PoolInv
<1>5. ChunksShaped' /\ ChunksLent'
  BY <1>2 DEF PoolInv, ChunksShaped, ChunksLent
<1> QED
  BY <1>3, <1>4, <1>5 DEF PoolInv

(* The chunks with one more on top.                                        *)
LEMMA ChunkPushed ==
    ASSUME chunks \in Seq(Chunk), NEW c \in Chunk, chunks' = <<c>> \o chunks
    PROVE  /\ chunks' \in Seq(Chunk)
           /\ DOMAIN chunks' = 1..(Len(chunks) + 1) /\ Len(chunks) \in Nat
           /\ DOMAIN chunks = 1..Len(chunks)
           /\ chunks'[1] = c
           /\ \A i \in 2..(Len(chunks) + 1) :
                 i - 1 \in 1..Len(chunks) /\ chunks'[i] = chunks[i - 1]
<1> DEFINE one == <<c>>
<1>1. one \in Seq(Chunk) /\ Len(one) = 1 /\ one[1] = c
  OBVIOUS
<1> HIDE DEF one
<1>2. /\ one \o chunks \in Seq(Chunk)
      /\ Len(one \o chunks) = Len(one) + Len(chunks)
      /\ \A i \in 1..(Len(one) + Len(chunks)) :
            (one \o chunks)[i] = IF i <= Len(one) THEN one[i] ELSE chunks[i - Len(one)]
  BY <1>1, ConcatProperties
<1>3. chunks' = one \o chunks
  BY DEF one
<1>4. Len(chunks) \in Nat /\ DOMAIN chunks = 1..Len(chunks)
  OBVIOUS
<1>5. chunks' \in Seq(Chunk) /\ Len(chunks') = Len(chunks) + 1
  BY <1>1, <1>2, <1>3, <1>4
<1>6. DOMAIN chunks' = 1..(Len(chunks) + 1)
  BY <1>4, <1>5
<1>7. \A i \in 1..(Len(chunks) + 1) : chunks'[i] = IF i <= 1 THEN one[i] ELSE chunks[i - 1]
  BY <1>1, <1>2, <1>3, <1>4
<1> QED
  BY <1>1, <1>4, <1>5, <1>6, <1>7

LEMMA AllocGrowKeeps ==
    ASSUME PoolInv, NEW n \in Requests, AllocGrow(n)
    PROVE  PoolInv'
<1>1. PICK blk \in Blocks \ DOMAIN lent, more \in Extra :
          /\ lent' = [b \in DOMAIN lent \cup {blk} |->
                         IF b = blk THEN GrowSize + more ELSE lent[b]]
          /\ GrowInto(blk, GrowSize + more, n)
  BY DEF AllocGrow, Borrow
<1> DEFINE c == NewChunk(blk, GrowSize + more)
           held == DOMAIN live
<1>2. /\ c \in Chunk /\ c.cap >= 1
      /\ c.block = blk /\ c.blockSize = GrowSize + more
      /\ Header + c.cap * elemSize <= c.blockSize
  BY NewChunkFits
<1>3. /\ chunks' = <<c>> \o chunks
      /\ Take(WithSlots(c), n)
  BY <1>1 DEF GrowInto
<1> HIDE DEF c
<1>4. n \in Nat /\ n <= elemSize /\ freeSlots = <<>>
  BY RequestFits DEF AllocGrow
<1>5. /\ ChunksShaped /\ ChunksLent /\ Holding(AllSlots, held, count) /\ LiveFits
      /\ FreeListOf(freeSlots, AllSlots, held) /\ chunks \in Seq(Chunk)
  BY DEF PoolInv, ChunksShaped
<1>6. /\ chunks' \in Seq(Chunk)
      /\ DOMAIN chunks' = 1..(Len(chunks) + 1) /\ Len(chunks) \in Nat
      /\ DOMAIN chunks = 1..Len(chunks)
      /\ chunks'[1] = c
      /\ \A i \in 2..(Len(chunks) + 1) :
            i - 1 \in 1..Len(chunks) /\ chunks'[i] = chunks[i - 1]
  BY <1>2, <1>3, <1>5, ChunkPushed
<1>7. held = AllSlots
  <2>1. Elems(freeSlots) = {}
    BY <1>4 DEF Elems
  <2>2. Elems(freeSlots) = AllSlots \ held /\ held \subseteq AllSlots
    BY <1>5 DEF FreeListOf, Holding
  <2> QED
    BY <2>1, <2>2
<1>a. AllSlots' = UNION {SlotsOf(chunks'[i]) : i \in DOMAIN chunks'}
  BY DEF AllSlots, SlotsOf
<1>8. AllSlots' = held \cup SlotsOf(c)
  <2>1. ASSUME NEW s \in AllSlots' PROVE s \in AllSlots \cup SlotsOf(c)
    <3>1. PICK i \in 1..(Len(chunks) + 1) : s \in SlotsOf(chunks'[i])
      BY <2>1, <1>6, <1>a
    <3>2. i = 1 \/ i \in 2..(Len(chunks) + 1)
      BY <1>6
    <3> QED
      BY <3>1, <3>2, <1>6 DEF AllSlots
  <2>2. ASSUME NEW s \in AllSlots PROVE s \in AllSlots'
    <3>1. PICK i \in 1..Len(chunks) : s \in SlotsOf(chunks[i])
      BY <1>6 DEF AllSlots
    <3>2. i + 1 \in 2..(Len(chunks) + 1) /\ i + 1 \in 1..(Len(chunks) + 1) /\ (i + 1) - 1 = i
      BY <1>6
    <3>3. s \in SlotsOf(chunks'[i + 1])
      BY <3>1, <3>2, <1>6
    <3> QED
      BY <3>2, <3>3, <1>6, <1>a
  <2>3. ASSUME NEW s \in SlotsOf(c) PROVE s \in AllSlots'
    <3>1. 1 \in DOMAIN chunks' /\ s \in SlotsOf(chunks'[1])
      BY <2>3, <1>6
    <3> QED
      BY <3>1, <1>a
  <2> QED
    BY <2>1, <2>2, <2>3, <1>7
<1>9. held \cap SlotsOf(c) = {}
  <2>1. \A s \in held : s.block \in DOMAIN lent
    BY <1>5, <1>7, SlotTypes
  <2>2. \A s \in SlotsOf(c) : s.block = blk
    BY <1>2 DEF SlotsOf, Slot
  <2> QED
    BY <2>1, <2>2, <1>1
<1> DEFINE all == held \cup SlotsOf(c)
<1>10. WithSlots(c) # <<>> /\ FreeListOf(WithSlots(c), all, held)
  BY <1>2, <1>4, <1>9, NewSlots
<1>11. Holding(all, held, count)
  BY <1>5 DEF Holding
<1>12. /\ FreeListOf(freeSlots', all, DOMAIN live')
       /\ Holding(all, DOMAIN live', count') /\ LiveFits'
  <2> HIDE DEF all
  <2> QED
    BY <1>3, <1>4, <1>5, <1>10, <1>11, TakeKeeps
<1>13. DOMAIN lent' = DOMAIN lent \cup {blk} /\ blk \in Blocks /\ blk \notin DOMAIN lent
       /\ lent'[blk] = GrowSize + more
       /\ \A b \in DOMAIN lent : lent'[b] = lent[b]
  BY <1>1
<1>14. ChunksShaped'
  <2>1. ASSUME NEW i \in DOMAIN chunks'
        PROVE  /\ Header + chunks'[i].cap * elemSize <= chunks'[i].blockSize
               /\ chunks'[i].block \in DOMAIN lent'
               /\ lent'[chunks'[i].block] = chunks'[i].blockSize
    <3>1. i = 1 \/ i \in 2..(Len(chunks) + 1)
      BY <1>6
    <3>2. CASE i = 1
      BY <3>2, <1>2, <1>6, <1>13
    <3>3. CASE i \in 2..(Len(chunks) + 1)
      BY <3>3, <1>5, <1>6, <1>13 DEF ChunksShaped
    <3> QED
      BY <3>1, <3>2, <3>3
  <2>2. DOMAIN lent' \subseteq Blocks
    BY <1>5, <1>13 DEF ChunksShaped
  <2> QED
    BY <2>1, <2>2, <1>6 DEF ChunksShaped, elemSize
<1>15. ChunksLent'
  <2>1. \A i \in 1..Len(chunks) : chunks[i].block # blk
    BY <1>5, <1>6, <1>13 DEF ChunksShaped
  <2>2. ASSUME NEW i \in DOMAIN chunks', NEW j \in DOMAIN chunks',
               chunks'[i].block = chunks'[j].block
        PROVE  i = j
    <3>1. i = 1 \/ i \in 2..(Len(chunks) + 1)
      BY <1>6
    <3>2. j = 1 \/ j \in 2..(Len(chunks) + 1)
      BY <1>6
    <3>3. CASE i \in 2..(Len(chunks) + 1) /\ j \in 2..(Len(chunks) + 1)
      <4>1. i - 1 = j - 1
        BY <2>2, <3>3, <1>5, <1>6 DEF ChunksLent
      <4> QED
        BY <3>3, <4>1
    <3> QED
      BY <3>1, <3>2, <3>3, <2>1, <2>2, <1>2, <1>6
  <2>3. DOMAIN lent' = {chunks'[i].block : i \in DOMAIN chunks'}
    <3>1. ASSUME NEW b \in DOMAIN lent' PROVE \E i \in DOMAIN chunks' : b = chunks'[i].block
      <4>1. CASE b = blk
        <5>1. 1 \in DOMAIN chunks'
          BY <1>6
        <5> QED
          BY <4>1, <5>1, <1>2, <1>6
      <4>2. CASE b \in DOMAIN lent
        <5>1. PICK i \in 1..Len(chunks) : b = chunks[i].block
          BY <4>2, <1>5, <1>6 DEF ChunksLent
        <5>2. i + 1 \in 2..(Len(chunks) + 1) /\ i + 1 \in DOMAIN chunks' /\ (i + 1) - 1 = i
          BY <1>6
        <5> QED
          BY <5>1, <5>2, <1>6
      <4> QED
        BY <4>1, <4>2, <1>13
    <3>2. \A i \in DOMAIN chunks' : chunks'[i].block \in DOMAIN lent'
      BY <1>14 DEF ChunksShaped
    <3> QED
      BY <3>1, <3>2
  <2> QED
    BY <2>2, <2>3 DEF ChunksLent
<1> QED
  BY <1>8, <1>12, <1>14, <1>15 DEF PoolInv

LEMMA freeKeeps ==
    ASSUME PoolInv, NEW s \in DOMAIN live, free(s)
    PROVE  PoolInv'
<1>1. Freed(s) /\ chunks' = chunks /\ lent' = lent
  BY DEF free, Freed
<1>2. AllSlots' = AllSlots
  BY <1>1 DEF AllSlots
<1>3. AllSlots \in SUBSET Slots
  BY SlotTypes DEF PoolInv
<1>4. /\ FreeListOf(freeSlots', AllSlots, DOMAIN live')
      /\ Holding(AllSlots, DOMAIN live', count') /\ LiveFits'
  BY <1>1, <1>3, FreedKeeps DEF PoolInv
<1>5. ChunksShaped' /\ ChunksLent'
  BY <1>1 DEF PoolInv, ChunksShaped, ChunksLent
<1> QED
  BY <1>2, <1>4, <1>5 DEF PoolInv

LEMMA clearKeeps ==
    ASSUME PoolInv, clear
    PROVE  PoolInv'
<1>1. chunks' = <<>> /\ freeSlots' = <<>> /\ count' = 0 /\ DOMAIN live' = {}
  BY DEF clear, Cleared
<1>2. DOMAIN lent' = {}
  <2>1. chunks \in Seq(Chunk) /\ DOMAIN chunks = 1..Len(chunks)
    BY DEF PoolInv, ChunksShaped
  <2>2. DOMAIN lent' = DOMAIN lent \ {chunks[i].block : i \in 1..Len(chunks)}
    BY DEF clear
  <2> QED
    BY <2>1, <2>2 DEF PoolInv, ChunksLent
<1>3. AllSlots' = {}
  BY <1>1 DEF AllSlots
<1>4. FreeListOf(freeSlots', AllSlots', DOMAIN live')
  BY <1>1, <1>3 DEF FreeListOf, Distinct, Elems
<1>5. Holding(AllSlots', DOMAIN live', count') /\ LiveFits'
  BY <1>1, <1>3, FS_EmptySet DEF Holding, LiveFits
<1>6. ChunksShaped' /\ ChunksLent'
  BY <1>1, <1>2 DEF ChunksShaped, ChunksLent
<1> QED
  BY <1>4, <1>5, <1>6 DEF PoolInv

LEMMA StutterKeeps ==
    ASSUME PoolInv, UNCHANGED vars
    PROVE  PoolInv'
<1>1. /\ chunks' = chunks /\ freeSlots' = freeSlots /\ count' = count
      /\ lent' = lent /\ live' = live
  BY DEF vars
<1>2. AllSlots' = AllSlots
  BY <1>1 DEF AllSlots
<1> QED
  BY <1>1, <1>2 DEF PoolInv, ChunksShaped, ChunksLent, LiveFits

-----------------------------------------------------------------------------
(***************************************************************************)
(* The invariant is inductive.  SlotsPartitioned alone is not: that a new  *)
(* chunk brings new slots takes ChunksLent, that taking the head of the    *)
(* free list leaves no second copy of it takes Distinct.                   *)
(***************************************************************************)
THEOREM PoolInvHolds == Spec => []PoolInv
<1>1. Init => PoolInv
  BY InitPoolInv
<1>2. PoolInv /\ [Next]_vars => PoolInv'
  <2> SUFFICES ASSUME PoolInv, [Next]_vars PROVE PoolInv'
    OBVIOUS
  <2>1. ASSUME NEW n \in Requests, AllocFree(n) \/ AllocGrow(n) \/ AllocNull(n)
        PROVE  PoolInv'
    <3>1. CASE AllocNull(n)
      BY <3>1, StutterKeeps DEF AllocNull
    <3> QED
      BY <2>1, <3>1, AllocFreeKeeps, AllocGrowKeeps
  <2>2. ASSUME NEW s \in DOMAIN live, free(s) PROVE PoolInv'
    BY <2>2, freeKeeps
  <2>3. CASE clear
    BY <2>3, clearKeeps
  <2>4. CASE UNCHANGED vars
    BY <2>4, StutterKeeps
  <2> QED
    BY <2>1, <2>2, <2>3, <2>4 DEF Next
<1> QED
  BY <1>1, <1>2, PTL DEF Spec

LEMMA Monotone ==
    ASSUME NEW a \in Nat, NEW b \in Nat, NEW e \in Nat, a <= b
    PROVE  a * e <= b * e /\ a * e \in Nat /\ b * e \in Nat
OBVIOUS

(* A list without repetition is as long as the set of its elements.        *)
LEMMA DistinctLen ==
    ASSUME NEW s \in Seq(Slots), Distinct(s)
    PROVE  IsFiniteSet(Elems(s)) /\ Cardinality(Elems(s)) = Len(s)
<1>1. Len(s) \in Nat /\ DOMAIN s = 1..Len(s) /\ s \in [1..Len(s) -> Elems(s)]
  BY DEF Elems
<1>2. s \in Bijection(1..Len(s), Elems(s))
  BY <1>1 DEF Distinct, Elems, Bijection, Injection, IsInjective, Surjection
<1>3. ExistsBijection(1..Len(s), Elems(s))
  BY <1>2 DEF ExistsBijection
<1>4. IsFiniteSet(1..Len(s)) /\ Cardinality(1..Len(s)) = Len(s)
  BY <1>1, FS_Interval
<1> QED
  BY <1>3, <1>4, FS_Bijection

(* Headers and slots of every chunk fit the block it lives in.             *)
THEOREM TypeOKHolds == Spec => []TypeOK
<1>1. PoolInv => TypeOK
  <2> SUFFICES ASSUME PoolInv PROVE TypeOK
    OBVIOUS
  <2>1. count \in Nat
    BY FS_CardinalityType DEF PoolInv, Holding
  <2>2. chunks \in Seq(Chunk) /\ \A i \in DOMAIN chunks : chunks[i] \in Chunk
    BY DEF PoolInv, ChunksShaped
  <2> QED
    BY <2>1, <2>2 DEF PoolInv, ChunksShaped, TypeOK, Chunk
<1> QED
  BY PoolInvHolds, <1>1, PTL

(* The pool borrows one block of the parent for each chunk, and leaks none.*)
THEOREM ChunksLentHolds == Spec => []ChunksLent
<1>1. PoolInv => ChunksLent
  BY DEF PoolInv
<1> QED
  BY PoolInvHolds, <1>1, PTL

(***************************************************************************)
(* No history of calls gives a slot to two owners or loses one: a slot is  *)
(* live, or once on the free list.                                         *)
(***************************************************************************)
THEOREM SlotsPartitionedHolds == Spec => []SlotsPartitioned
<1>1. PoolInv => SlotsPartitioned
  <2> SUFFICES ASSUME PoolInv PROVE SlotsPartitioned
    OBVIOUS
  <2> DEFINE held == DOMAIN live
  <2>1. /\ freeSlots \in Seq(Slots) /\ Distinct(freeSlots)
        /\ Elems(freeSlots) = AllSlots \ held
        /\ held \subseteq AllSlots /\ IsFiniteSet(held) /\ count = Cardinality(held)
    BY DEF PoolInv, FreeListOf, Holding
  <2>2. IsFiniteSet(Elems(freeSlots)) /\ Cardinality(Elems(freeSlots)) = Len(freeSlots)
    BY <2>1, DistinctLen
  <2>3. AllSlots = Elems(freeSlots) \cup held /\ Elems(freeSlots) \cap held = {}
    BY <2>1
  <2>4. Cardinality(AllSlots) = Len(freeSlots) + Cardinality(held)
    <3>1. Cardinality(Elems(freeSlots) \cup held)
            = Cardinality(Elems(freeSlots)) + Cardinality(held) - Cardinality({})
      BY <2>1, <2>2, <2>3, FS_Union
    <3>2. Cardinality({}) = 0 /\ Cardinality(held) \in Nat /\ Len(freeSlots) \in Nat
      BY <2>1, FS_EmptySet, FS_CardinalityType
    <3> QED
      BY <3>1, <3>2, <2>2, <2>3
  <2> QED
    BY <2>1, <2>4 DEF SlotsPartitioned, Elems
<1> QED
  BY PoolInvHolds, <1>1, PTL

(***************************************************************************)
(* Every slot is aligned, lies inside memory the parent lent, and has room *)
(* for what its owner asked for and for the link of the free list.         *)
(***************************************************************************)
THEOREM SlotsFitHolds == Spec => []SlotsFit
<1>1. PoolInv => SlotsFit
  <2> SUFFICES ASSUME PoolInv PROVE SlotsFit
    OBVIOUS
  <2>1. ASSUME NEW s \in AllSlots
        PROVE  /\ s.block \in DOMAIN lent
               /\ Header + (s.index + 1) * elemSize <= lent[s.block]
               /\ (s.index * elemSize) % Alignment = 0
    <3>1. PICK i \in DOMAIN chunks : s \in SlotsOf(chunks[i])
      BY DEF AllSlots
    <3>2. /\ chunks[i].cap \in Nat /\ chunks[i].blockSize \in Nat
          /\ Header + chunks[i].cap * elemSize <= chunks[i].blockSize
          /\ chunks[i].block \in DOMAIN lent
          /\ lent[chunks[i].block] = chunks[i].blockSize
      <4>1. chunks[i] \in Chunk
        BY DEF PoolInv, ChunksShaped
      <4> QED
        BY <4>1 DEF PoolInv, ChunksShaped, Chunk
    <3>3. PICK k \in 0..(chunks[i].cap - 1) : s = Slot(chunks[i].block, k)
      BY <3>1 DEF SlotsOf
    <3>4. k \in Nat /\ k + 1 \in Nat /\ k + 1 <= chunks[i].cap
      BY <3>2, <3>3
    <3>5. s.block = chunks[i].block /\ s.index = k
      BY <3>3 DEF Slot
    <3>6. /\ (k + 1) * elemSize <= chunks[i].cap * elemSize
          /\ (k + 1) * elemSize \in Nat /\ chunks[i].cap * elemSize \in Nat
      BY <3>2, <3>4, Monotone, elemSizeFits
    <3>7. Header + (k + 1) * elemSize <= chunks[i].blockSize
      BY <3>2, <3>6, PoolAssumption
    <3> QED
      BY <3>2, <3>4, <3>5, <3>7, SlotAligned
  <2>2. \A s \in DOMAIN live : live[s] <= elemSize
    BY DEF PoolInv, LiveFits
  <2>3. SlotLink <= elemSize
    BY elemSizeFits, PoolAssumption
  <2> QED
    BY <2>1, <2>2, <2>3 DEF SlotsFit
<1> QED
  BY PoolInvHolds, <1>1, PTL

(***************************************************************************)
(* The account.  Each sum getUsage makes is the total of a function over   *)
(* the chunks.                                                             *)
(***************************************************************************)
Caps  == [i \in DOMAIN chunks |-> chunks[i].cap]
Sizes == [i \in DOMAIN chunks |-> chunks[i].blockSize]
Overs == [i \in DOMAIN chunks |-> chunks[i].blockSize - chunks[i].cap * elemSize]

LEMMA TotalCapIs == TotalCap = Total(Caps, DOMAIN chunks)
<1> DEFINE S == DOMAIN chunks
           It(h) == h = [s \in SUBSET S |->
                            IF s = {} THEN 0
                            ELSE LET x == CHOOSE x \in s : TRUE IN chunks[x].cap + h[s \ {x}]]
<1>1. ASSUME NEW h PROVE It(h) <=> IsSum(h, Caps, S)
  <2>1. \A s \in SUBSET S : s # {} => (CHOOSE x \in s : TRUE) \in S
    OBVIOUS
  <2> QED
    BY <2>1 DEF IsSum, Caps
<1>2. TotalCap = (CHOOSE h : It(h))[S]
  BY DEF TotalCap, MapThenSumSet, MapThenFoldSet
<1> HIDE DEF It
<1>3. (CHOOSE h : It(h)) = CHOOSE h : IsSum(h, Caps, S)
  BY <1>1, Zenon
<1> QED
  BY <1>2, <1>3 DEF Total

LEMMA SystemSizeIs == SystemSize = Total(Overs, DOMAIN chunks)
<1> DEFINE S == DOMAIN chunks
           It(h) == h = [s \in SUBSET S |->
                            IF s = {} THEN 0
                            ELSE LET x == CHOOSE x \in s : TRUE
                                 IN  (chunks[x].blockSize - chunks[x].cap * elemSize) + h[s \ {x}]]
<1>1. ASSUME NEW h PROVE It(h) <=> IsSum(h, Overs, S)
  <2>1. \A s \in SUBSET S : s # {} => (CHOOSE x \in s : TRUE) \in S
    OBVIOUS
  <2> QED
    BY <2>1 DEF IsSum, Overs
<1>2. SystemSize = (CHOOSE h : It(h))[S]
  BY DEF SystemSize, MapThenSumSet, MapThenFoldSet
<1> HIDE DEF It
<1>3. (CHOOSE h : It(h)) = CHOOSE h : IsSum(h, Overs, S)
  BY <1>1, Zenon
<1> QED
  BY <1>2, <1>3 DEF Total

(* The blocks the parent lent are those of the chunks.                     *)
LEMMA LentIs ==
    ASSUME PoolInv
    PROVE  /\ ParentUsage.blockCount = Len(chunks)
           /\ ParentUsage.blockSize = Total(Sizes, DOMAIN chunks)
<1> DEFINE S == DOMAIN chunks
           m == [i \in S |-> chunks[i].block]
<1>1. S = 1..Len(chunks) /\ Len(chunks) \in Nat
  BY DEF PoolInv, ChunksShaped
<1>2. IsFiniteSet(S) /\ Cardinality(S) = Len(chunks)
  BY <1>1, CardUpTo
<1>3. \A i \in S : Sizes[i] \in Nat /\ Sizes[i] = lent[m[i]]
  <2>1. \A i \in S : chunks[i] \in Chunk
    BY DEF PoolInv, ChunksShaped
  <2> QED
    BY <2>1 DEF PoolInv, ChunksShaped, Chunk, Sizes
<1>4. \A i \in S : \A j \in S : m[i] = m[j] => i = j
  BY DEF PoolInv, ChunksLent
<1> DEFINE R == DOMAIN lent
<1>5. (\A i \in S : m[i] \in R) /\ \A b \in R : \E i \in S : b = m[i]
  BY DEF PoolInv, ChunksLent
<1> HIDE DEF m, S, R
<1>6. Recount(Sizes, S, lent, R)
  <2>1. Counts(Sizes, S)
    BY <1>3 DEF Counts
  <2> QED
    BY <1>2, <1>3, <1>4, <1>5, <2>1, TotalReindex
<1>7. MapThenSumSet(LAMBDA b : lent[b], DOMAIN lent) = Total(lent, DOMAIN lent)
  BY TotalIs
<1> QED
  BY <1>2, <1>6, <1>7 DEF ParentUsage, Recount, S, R

(***************************************************************************)
(* What getUsage reports as blocks is the client's slots: the headers, the *)
(* bytes past the last slot of each chunk and the free slots that it       *)
(* subtracts are all that the parent lent besides.                         *)
(***************************************************************************)
THEOREM UsageIsLiveHolds == Spec => []UsageIsLive
<1>1. PoolInv => UsageIsLive
  <2> SUFFICES ASSUME PoolInv PROVE UsageIsLive
    OBVIOUS
  <2> DEFINE S == DOMAIN chunks
             Bytes == [i \in S |-> chunks[i].cap * elemSize]
             c == TotalCap
             e == elemSize
             n == Cardinality(DOMAIN live)
  <2>1. IsFiniteSet(S)
    <3>1. S = 1..Len(chunks) /\ Len(chunks) \in Nat
      BY DEF PoolInv, ChunksShaped
    <3> QED
      BY <3>1, CardUpTo
  <2>2. e \in Nat /\ Header \in Nat
    BY elemSizeFits, PoolAssumption
  <2>3. ASSUME NEW i \in S
        PROVE  /\ Caps[i] \in Nat /\ Bytes[i] \in Nat /\ Bytes[i] = Caps[i] * e
               /\ Overs[i] \in Nat /\ Sizes[i] = Overs[i] + Bytes[i]
    <3> DEFINE a == chunks[i].cap
               k == chunks[i].cap * elemSize
               b == chunks[i].blockSize
    <3>1. chunks[i] \in Chunk /\ Header + k <= b
      BY DEF PoolInv, ChunksShaped
    <3>2. a \in Nat /\ b \in Nat
      BY <3>1 DEF Chunk
    <3>3. k \in Nat
      BY <3>2, <2>2
    <3>4. Caps[i] = a /\ Bytes[i] = k /\ Overs[i] = b - k /\ Sizes[i] = b /\ k = a * e
      BY DEF Caps, Overs, Sizes
    <3> HIDE DEF a, k, b
    <3>5. b - k \in Nat /\ b = (b - k) + k
      BY <3>1, <3>2, <3>3, <2>2
    <3> HIDE DEF e, S, Bytes
    <3> QED
      BY <3>2, <3>3, <3>4, <3>5
  <2>4. count = n /\ n \in Nat
    BY FS_CardinalityType DEF PoolInv, Holding
  <2> HIDE DEF Bytes, S, e, n
  <2>5. Total(Bytes, S) = Total(Caps, S) * e
    BY <2>1, <2>2, <2>3, TotalTimes
  <2>6. Total(Sizes, S) = Total(Overs, S) + Total(Bytes, S)
    BY <2>1, <2>3, TotalPlus
  <2>7. Total(Overs, S) \in Nat /\ Total(Caps, S) \in Nat
    BY <2>1, <2>3, TotalNat
  <2> DEFINE o == SystemSize
  <2>8. /\ c \in Nat /\ o \in Nat /\ ParentUsage.blockCount = Len(chunks)
        /\ ParentUsage.blockSize = o + c * e
    BY <2>5, <2>6, <2>7, TotalCapIs, SystemSizeIs, LentIs DEF S
  <2>9. Len(chunks) \in Nat
    BY DEF PoolInv, ChunksShaped
  <2>10. /\ Usage.blockCount = (ParentUsage.blockCount - Len(chunks)) + n
         /\ Usage.blockSize = ParentUsage.blockSize - (o + (c - n) * e)
    BY <2>4 DEF Usage, e
  <2> HIDE DEF c, o
  <2>11. (c - n) * e = c * e - n * e /\ c * e \in Nat /\ n * e \in Nat
    BY <2>2, <2>4, <2>8
  <2>12. Usage.blockCount = n /\ Usage.blockSize = n * e
    BY <2>4, <2>8, <2>9, <2>10, <2>11
  <2> QED
    BY <2>12 DEF UsageIsLive, n, e
<1> QED
  BY PoolInvHolds, <1>1, PTL

-----------------------------------------------------------------------------
(***************************************************************************)
(* The pool over an arena.  Proved is the arena with what is proved of it. *)
(***************************************************************************)
Proved == INSTANCE ralcArena_proofs WITH
    Blocks <- ArenaBlocks, Extra <- ArenaExtra, Requests <- Nat,
    chunks <- arenaChunks, size <- arenaSize, lent <- arenaLent

LEMMA ArenaAssumed ==
    /\ ChunkCap \in Nat /\ Alignment \in Nat \ {0} /\ MaxMarks \in Nat
    /\ Header \in Nat \ {0} /\ Header % Alignment = 0
    /\ ArenaExtra \subseteq Nat /\ Nat \subseteq Nat
  BY PoolAssumption, JoinAssumption

(* A chunk of the pool is a whole number of aligned slots, so the arena has*)
(* nothing to add to what the pool asks for.                               *)
LEMMA GrowSizeAligned ==
    /\ GrowSize \in Nat \ {0}
    /\ GrowSize % Alignment = 0
<1> DEFINE q == elemSize \div Alignment
           h == Header \div Alignment
<1>1. /\ Alignment \in Nat \ {0} /\ Header \in Nat \ {0} /\ chunkCap \in Nat
      /\ elemSize \in Nat /\ elemSize % Alignment = 0 /\ Header % Alignment = 0
  BY elemSizeFits, ArenaAssumed, PoolAssumption DEF chunkCap
<1>2. /\ q \in Nat /\ elemSize = q * Alignment
      /\ h \in Nat /\ Header = h * Alignment
  BY <1>1
<1> HIDE DEF q, h
<1>3. GrowSize = (h + chunkCap * q) * Alignment /\ h + chunkCap * q \in Nat
  BY <1>1, <1>2 DEF GrowSize
<1>4. GrowSize \in Nat \ {0}
  BY <1>1 DEF GrowSize
<1> QED
  BY <1>1, <1>3, <1>4, MultipleOf

LEMMA AlignedStays ==
    ASSUME NEW n \in Nat, n % Alignment = 0
    PROVE  Align(n) = n
<1> DEFINE q == n \div Alignment
<1>1. Alignment \in Nat \ {0} /\ q \in Nat /\ n = q * Alignment
  BY PoolAssumption
<1> HIDE DEF q
<1>2. (n + Alignment - 1) \div Alignment = q
  BY <1>1
<1> QED
  BY <1>1, <1>2 DEF Align

LEMMA GrowSizePushed == Arena!PushSize(GrowSize) = GrowSize
<1>1. GrowSize # 0
  BY GrowSizeAligned
<1>2. Align(GrowSize) = GrowSize
  BY GrowSizeAligned, AlignedStays
<1> QED
  BY <1>1, <1>2 DEF Arena!PushSize, Arena!Align, Align

-----------------------------------------------------------------------------
(***************************************************************************)
(* Whatever the pool and the rest of the program do, to the arena they are *)
(* one client.                                                             *)
(***************************************************************************)
LEMMA PushIsArenas ==
    ASSUME NEW n \in Nat, ArenaPush(n)
    PROVE  Proved!PushTop(n) \/ Proved!PushChunk(n)
<1>1. Arena!PushTop(n) => Proved!PushTop(n)
  BY DEF Arena!PushTop, Proved!PushTop, Arena!Fits, Proved!Fits, Arena!Pushed, Proved!Pushed,
         Arena!PushSize, Proved!PushSize, Arena!Align, Proved!Align
<1>2. Arena!PushChunk(n) => Proved!PushChunk(n)
  BY DEF Arena!PushChunk, Proved!PushChunk, Arena!Fits, Proved!Fits, Arena!Pushed, Proved!Pushed,
         Arena!PushSize, Proved!PushSize, Arena!Align, Proved!Align,
         Arena!NewChunkSize, Proved!NewChunkSize, Arena!chunkAllocSize, Proved!chunkAllocSize,
         Arena!NewChunk, Proved!NewChunk
<1> QED
  BY <1>1, <1>2 DEF ArenaPush

LEMMA MarkIsArenas ==
    ASSUME Arena!mark
    PROVE  Proved!mark
  BY DEF Arena!mark, Proved!mark, Arena!Cardinality, Proved!Cardinality

LEMMA RewindIsArenas ==
    ASSUME NEW m \in marks, Arena!rewind(m)
    PROVE  Proved!rewind(m)
  BY DEF Arena!rewind, Proved!rewind, Arena!Rewound, Proved!Rewound, Arena!Left, Proved!Left,
         Arena!Popped, Proved!Popped, Arena!Freed, Proved!Freed, Arena!Min, Proved!Min

LEMMA ClearIsArenas ==
    ASSUME Arena!clear
    PROVE  Proved!clear
  BY DEF Arena!clear, Proved!clear, Arena!Freed, Proved!Freed

LEMMA StepIsArenas ==
    ASSUME [JoinNext]_joinVars
    PROVE  [Proved!Next]_Proved!vars
<1>1. ASSUME NEW n \in Nat, ArenaPush(n)
      PROVE  Proved!Next
  BY <1>1, PushIsArenas DEF Proved!Next
<1>2. ASSUME NEW n \in Requests, AllocOver(n)
      PROVE  Proved!Next
  BY <1>1, <1>2, GrowSizeAligned DEF AllocOver
<1>3. ASSUME UNCHANGED arenaVars
      PROVE  UNCHANGED Proved!vars
  BY <1>3 DEF arenaVars, Proved!vars
<1>4. PoolClear \/ PoolOnly \/ UNCHANGED joinVars => UNCHANGED Proved!vars
  BY <1>3 DEF PoolClear, PoolOnly, joinVars
<1>5. OtherPush => Proved!Next
  BY <1>1, PoolAssumption DEF OtherPush
<1>6. Mark \/ Rewind \/ ArenaClear => Proved!Next
  BY MarkIsArenas, RewindIsArenas, ClearIsArenas DEF Mark, Rewind, ArenaClear, Proved!Next
<1> QED
  BY <1>2, <1>4, <1>5, <1>6 DEF JoinNext

(* In the composition the arena does only what an arena does.              *)
THEOREM ArenaKept == JoinSpec => Proved!Spec
<1>1. JoinInit => Proved!Init
  BY DEF JoinInit, Arena!Init, Proved!Init
<1> QED
  BY <1>1, StepIsArenas, PTL DEF JoinSpec, Proved!Spec

LEMMA ArenaStaysSound == JoinSpec => []Proved!ArenaInv
<1>1. Proved!Spec => []Proved!ArenaInv
  BY ArenaAssumed, Proved!ArenaInvHolds
<1> QED
  BY <1>1, ArenaKept, PTL

-----------------------------------------------------------------------------
(***************************************************************************)
(* What the pool has borrowed are objects of the arena.  With what is true *)
(* of the arena it is inductive.                                           *)
(***************************************************************************)
BorrowedObjects ==
    \A b \in DOMAIN lent : lent[b] = b.len /\ \E i \in 1..Len(objs) : objs[i] = b

LEMMA ObjectFacts ==
    ASSUME Proved!ArenaInv
    PROVE  /\ objs \in Seq(Proved!Obj) /\ Len(objs) \in Nat
           /\ \A m \in marks : m.count \in Nat /\ m.count <= Len(objs)
<1>1. objs \in Seq(Proved!Obj)
  BY DEF Proved!ArenaInv, Proved!Apart
<1>2. ASSUME NEW m \in marks PROVE m.count \in Nat /\ m.count <= Len(objs)
  BY DEF Proved!ArenaInv, Proved!Snap, Proved!Older, Proved!Mark
<1> QED
  BY <1>1, <1>2, LenProperties

(* The object that a push adds is on top, and none of the others.          *)
LEMMA PushedIs ==
    ASSUME Proved!ArenaInv, Proved!ArenaInv', NEW n \in Nat, ArenaPush(n)
    PROVE  /\ Pushed \in Proved!Obj /\ Pushed.len = Arena!PushSize(n)
           /\ \A i \in 1..Len(objs) : objs[i] # Pushed /\ objs'[i] = objs[i]
           /\ Len(objs') = Len(objs) + 1 /\ objs'[Len(objs) + 1] = Pushed
<1>1. PICK blk, at : objs' = Append(objs, [block |-> blk, at |-> at, len |-> Arena!PushSize(n)])
  BY DEF ArenaPush, Arena!PushTop, Arena!PushChunk, Arena!Pushed
<1> DEFINE o == [block |-> blk, at |-> at, len |-> Arena!PushSize(n)]
<1>2. /\ objs \in Seq(Proved!Obj) /\ Len(objs) \in Nat
      /\ objs' \in Seq(Proved!Obj)
  BY ObjectFacts DEF Proved!ArenaInv, Proved!Apart
<1>3. /\ Len(objs') = Len(objs) + 1 /\ objs'[Len(objs) + 1] = o
      /\ \A i \in 1..Len(objs) : objs'[i] = objs[i]
  BY <1>1, <1>2, AppendProperties
<1>4. Pushed = o /\ o \in Proved!Obj
  BY <1>2, <1>3 DEF Pushed
<1>5. ASSUME NEW i \in 1..Len(objs), objs[i] = o
      PROVE  FALSE
  <2>1. \A j, k \in 1..Len(objs') : j < k /\ objs'[j].block = objs'[k].block =>
            objs'[j].at + objs'[j].len <= objs'[k].at
    BY DEF Proved!ArenaInv, Proved!Apart
  <2>2. o.at + o.len <= o.at
    BY <2>1, <1>2, <1>3, <1>5
  <2>3. o.at \in Nat /\ o.len \in Nat /\ o.len # 0
    BY <1>4 DEF Proved!Obj
  <2> QED
    BY ONLY <2>2, <2>3
<1> QED
  BY <1>3, <1>4, <1>5

LEMMA BorrowedInit ==
    ASSUME JoinInit
    PROVE  BorrowedObjects
  BY DEF JoinInit, Init, BorrowedObjects

LEMMA AllocOverKeeps ==
    ASSUME BorrowedObjects, Proved!ArenaInv, Proved!ArenaInv', NEW n \in Requests, AllocOver(n)
    PROVE  BorrowedObjects'
<1>1. ArenaPush(GrowSize) /\ GrowSize \in Nat
  BY GrowSizeAligned DEF AllocOver
<1>2. /\ \A i \in 1..Len(objs) : objs'[i] = objs[i]
      /\ Len(objs') = Len(objs) + 1 /\ objs'[Len(objs) + 1] = Pushed
      /\ Len(objs) \in Nat
  BY <1>1, PushedIs, ObjectFacts
<1>3. lent' = [b \in DOMAIN lent \cup {Pushed} |-> IF b = Pushed THEN Pushed.len ELSE lent[b]]
  BY DEF AllocOver, Borrow
<1> SUFFICES ASSUME NEW b \in DOMAIN lent'
             PROVE  lent'[b] = b.len /\ \E i \in 1..Len(objs') : objs'[i] = b
  BY DEF BorrowedObjects
<1>4. CASE b = Pushed
  BY <1>2, <1>3, <1>4
<1>5. CASE b # Pushed
  <2>1. b \in DOMAIN lent /\ lent'[b] = lent[b]
    BY <1>3, <1>5
  <2>2. PICK i \in 1..Len(objs) : objs[i] = b
    BY <2>1 DEF BorrowedObjects
  <2>3. i \in 1..Len(objs') /\ objs'[i] = b
    BY <1>2, <2>2
  <2> QED
    BY <2>1, <2>3 DEF BorrowedObjects
<1> QED
  BY <1>4, <1>5

(* What goes from the arena is above the pool.                             *)
LEMMA CutKeeps ==
    ASSUME BorrowedObjects, NEW c \in Nat, PoolBelow(c), UNCHANGED lent,
           Len(objs') = c, \A i \in 1..c : objs'[i] = objs[i]
    PROVE  BorrowedObjects'
  BY DEF BorrowedObjects, PoolBelow

LEMMA RewindKeeps ==
    ASSUME BorrowedObjects, Proved!ArenaInv, Rewind
    PROVE  BorrowedObjects'
<1>1. PICK m \in marks : PoolBelow(m.count) /\ Arena!rewind(m)
  BY DEF Rewind
<1>2. objs' = SubSeq(objs, 1, m.count) /\ UNCHANGED lent
  BY <1>1 DEF Arena!rewind, Rewind, vars
<1>3. objs \in Seq(Proved!Obj) /\ m.count \in Nat /\ m.count <= Len(objs) /\ Len(objs) \in Nat
  BY ObjectFacts
<1>4. \A i \in 1..m.count : objs[i] \in Proved!Obj
  BY <1>3, LenProperties
<1>5. Len(objs') = m.count /\ \A i \in 1..m.count : objs'[i] = objs[i]
  BY <1>2, <1>3, <1>4, SubSeqProperties
<1> QED
  BY <1>1, <1>2, <1>3, <1>5, CutKeeps

LEMMA ArenaClearKeeps ==
    ASSUME BorrowedObjects, ArenaClear
    PROVE  BorrowedObjects'
  BY DEF BorrowedObjects, ArenaClear, PoolBelow, vars

LEMMA BorrowedNext ==
    ASSUME BorrowedObjects, Proved!ArenaInv, Proved!ArenaInv', [JoinNext]_joinVars
    PROVE  BorrowedObjects'
<1>1. ASSUME OtherPush
      PROVE  BorrowedObjects'
  <2>1. PICK n \in Requests : ArenaPush(n)
    BY <1>1 DEF OtherPush
  <2>2. n \in Nat /\ UNCHANGED lent
    BY <1>1, PoolAssumption DEF OtherPush, vars
  <2>3. \A i \in 1..Len(objs) : i \in 1..Len(objs') /\ objs'[i] = objs[i]
    BY <2>1, <2>2, PushedIs, ObjectFacts
  <2> QED
    BY <2>2, <2>3 DEF BorrowedObjects
<1>2. ASSUME PoolClear
      PROVE  BorrowedObjects'
  BY <1>2 DEF PoolClear, clear, arenaVars, BorrowedObjects
<1>3. ASSUME UNCHANGED <<lent, objs>>
      PROVE  BorrowedObjects'
  BY <1>3 DEF BorrowedObjects
<1>4. PoolOnly => UNCHANGED <<lent, objs>>
  BY DEF PoolOnly, AllocFree, AllocNull, free, vars, arenaVars
<1>5. Mark \/ UNCHANGED joinVars => UNCHANGED <<lent, objs>>
  BY DEF Mark, Arena!mark, joinVars, vars, arenaVars
<1> QED
  BY <1>1, <1>2, <1>3, <1>4, <1>5, AllocOverKeeps, RewindKeeps, ArenaClearKeeps DEF JoinNext

LEMMA BorrowedHolds == JoinSpec => [](Proved!ArenaInv /\ BorrowedObjects)
<1>1. JoinInit => BorrowedObjects
  BY BorrowedInit
<1>2. BorrowedObjects /\ Proved!ArenaInv /\ Proved!ArenaInv' /\ [JoinNext]_joinVars
        => BorrowedObjects'
  BY BorrowedNext
<1> QED
  BY <1>1, <1>2, ArenaStaysSound, PTL DEF JoinSpec

LEMMA GrowsAsAlone ==
    ASSUME Objects \subseteq Blocks, BorrowedObjects, Proved!ArenaInv, Proved!ArenaInv',
           NEW n \in Requests, AllocOver(n)
    PROVE  AllocGrow(n)
<1>1. ArenaPush(GrowSize) /\ GrowSize \in Nat
  BY GrowSizeAligned DEF AllocOver
<1>2. /\ Pushed \in Proved!Obj /\ Pushed.len = GrowSize
      /\ \A i \in 1..Len(objs) : objs[i] # Pushed
  BY <1>1, PushedIs, GrowSizePushed
<1>3. Pushed \in Blocks
  BY <1>2 DEF Objects, Proved!Obj
<1>4. Pushed \notin DOMAIN lent
  BY <1>2 DEF BorrowedObjects
<1>5. Pushed.len = GrowSize + 0 /\ 0 \in Extra
  BY <1>1, <1>2, JoinAssumption
<1> QED
  BY <1>3, <1>4, <1>5 DEF AllocOver, AllocGrow

(***************************************************************************)
(* The pool over an arena implements the pool over any parent.             *)
(***************************************************************************)
THEOREM PoolHolds ==
    ASSUME Objects \subseteq Blocks
    PROVE  JoinSpec => PoolSpec
<1>1. JoinInit => Init
  BY DEF JoinInit
<1>2. ASSUME BorrowedObjects, Proved!ArenaInv, Proved!ArenaInv', [JoinNext]_joinVars
      PROVE  [Next]_vars
  <2>1. ASSUME NEW n \in Requests, AllocOver(n) PROVE Next
    BY <1>2, <2>1, GrowsAsAlone DEF Next
  <2>2. PoolClear \/ PoolOnly => Next
    BY DEF PoolClear, PoolOnly, Next
  <2>3. OtherPush \/ Mark \/ Rewind \/ ArenaClear \/ UNCHANGED joinVars => UNCHANGED vars
    BY DEF OtherPush, Mark, Rewind, ArenaClear, joinVars
  <2> QED
    BY <1>2, <2>1, <2>2, <2>3 DEF JoinNext
<1> QED
  BY <1>1, <1>2, BorrowedHolds, PTL DEF JoinSpec, Spec, PoolSpec

(***************************************************************************)
(* So its slots are in memory of the arena that is nobody else's.          *)
(***************************************************************************)
LEMMA SlotsBorrowed ==
    ASSUME Proved!ArenaInv, Proved!ObjectsOK, BorrowedObjects, SlotsPartitioned, SlotsFit
    PROVE  SlotsInArena
<1>1. Arena!ObjectsOK
  BY DEF Arena!ObjectsOK, Proved!ObjectsOK
<1>2. DOMAIN objs = 1..Len(objs)
  BY ObjectFacts, LenProperties
<1>3. \A b \in DOMAIN lent : lent[b] = b.len /\ \E i \in DOMAIN objs : objs[i] = b
  BY <1>2 DEF BorrowedObjects
<1>4. ASSUME NEW s \in AllSlots
      PROVE  s.block \in DOMAIN lent /\ Header + (s.index + 1) * elemSize <= s.block.len
  BY <1>3 DEF SlotsFit
<1>5. {freeSlots[i] : i \in DOMAIN freeSlots} \cup DOMAIN live = AllSlots
  BY DEF SlotsPartitioned
<1> QED
  BY <1>1, <1>3, <1>4, <1>5 DEF SlotsInArena

THEOREM SlotsInArenaHolds ==
    ASSUME Objects \subseteq Blocks
    PROVE  JoinSpec => []SlotsInArena
<1>1. Proved!Spec => []Proved!ObjectsOK
  BY ArenaAssumed, Proved!ObjectsOKHolds
<1>2. Proved!ArenaInv /\ BorrowedObjects /\ Proved!ObjectsOK /\ SlotsPartitioned /\ SlotsFit
        => SlotsInArena
  BY SlotsBorrowed
<1>3. JoinSpec => Spec
  BY PoolHolds DEF PoolSpec
<1> QED
  BY <1>1, <1>2, <1>3, ArenaKept, BorrowedHolds, SlotsPartitionedHolds, SlotsFitHolds, PTL

=============================================================================
