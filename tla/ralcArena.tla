----------------------------- MODULE ralcArena ------------------------------
(***************************************************************************)
(* The chunked bump allocator, src/rat/src/rat_ralcArena.c, over a parent  *)
(* allocator.                                                              *)
(*                                                                         *)
(* `chunks' is the list p->chunks from the top down.  A chunk lives in one *)
(* block of the parent, after Header bytes; offsets of objects count from  *)
(* its first payload byte.  The parent is any ralc_iface: it may refuse,   *)
(* and it may give up to some bytes more than it was asked for.            *)
(*                                                                         *)
(* The client's view is history: objs is the stack of the objects it       *)
(* pushed, marks the marks it holds that are still valid (ralcArena.h: not *)
(* "invalidated by clear or by rewinding below it"), each with the chunks  *)
(* and the number of objects there were when it was taken.                 *)
(***************************************************************************)
EXTENDS Integers, Sequences, SequencesExt, FiniteSets, FiniteSetsExt

CONSTANTS
    Blocks,     \* blocks of memory the parent may give, all distinct
    Extra,      \* how many bytes more than asked for a parent may give
    ChunkCap,   \* p->chunkCap
    Alignment,  \* RAT_ALIGNMENT
    Header,     \* HEADER_SIZE
    Requests,   \* sizes the client asks for
    MaxMarks    \* bound: marks the client holds at a time

ASSUME SizesAssumption ==
    /\ ChunkCap \in Nat /\ Alignment \in Nat \ {0} /\ MaxMarks \in Nat
    /\ Header \in Nat \ {0} /\ Header % Alignment = 0
    /\ Extra \subseteq Nat /\ Requests \subseteq Nat

VARIABLES
    chunks,     \* p->chunks, top first
    size,       \* p->size
    lent,       \* block of the parent |-> its size, while it is allocated
    objs,       \* objects of the client, oldest first
    marks       \* valid marks of the client

vars == <<chunks, size, lent, objs, marks>>

Align(n) == ((n + Alignment - 1) \div Alignment) * Alignment

(* A push of no bytes reserves one.                                        *)
PushSize(n) == Align(IF n = 0 THEN 1 ELSE n)

(* Mutant of Fits: a chunk with any room left takes the object.            *)
FitsAnyRoom(n) == chunks # <<>> /\ chunks[1].cap > chunks[1].size

(* The top chunk, and only the top chunk, is tried.                        *)
Fits(n) == chunks # <<>> /\ chunks[1].cap - chunks[1].size >= n

chunkAllocSize(cap) == Header + cap

NewChunkSize(n) == chunkAllocSize(IF ChunkCap > n THEN ChunkCap ELSE 2 * n)

(* Mutant of NewChunk: the header is counted as payload.                   *)
NewChunkAllPayload(blk, bytes, n) == [block |-> blk, cap |-> bytes, size |-> n]

NewChunk(blk, bytes, n) == [block |-> blk, cap |-> bytes - Header, size |-> n]

(* What is left of d bytes after i whole chunks have been popped.          *)
Left(d) ==
    LET left[i \in 0..Len(chunks)] ==
            IF i = 0 THEN d ELSE left[i - 1] - chunks[i].size
    IN  left

(* The chunks below the first n, less the bytes still to be popped.        *)
Popped(n, left) ==
    LET rest == SubSeq(chunks, n + 1, Len(chunks))
    IN  IF left = 0 THEN rest ELSE [rest EXCEPT ![1].size = @ - left]

(* Mutant of Rewound: >= for >, a chunk that becomes empty stays.          *)
RewoundKeepsEmpty(d) ==
    LET left == Left(d)
        n == Min({i \in 0..Len(chunks) :
                    left[i] = 0 \/ (i < Len(chunks) /\ chunks[i + 1].size >= left[i])})
    IN  Popped(n, left[n])

(* The chunks after d bytes have been popped off them, newest first: n     *)
(* whole chunks go, until nothing is left to pop or a chunk is larger.     *)
Rewound(d) ==
    LET left == Left(d)
        n == Min({i \in 0..Len(chunks) :
                    left[i] = 0 \/ (i < Len(chunks) /\ chunks[i + 1].size > left[i])})
    IN  Popped(n, left[n])

(* Mutant of Freed: next_p is freed in place of chunk_p.                   *)
FreedNext(n) == {chunks[i].block : i \in 2..n}

(* The blocks given back to the parent when the n top chunks go.           *)
Freed(n) == {chunks[i].block : i \in 1..n}

-----------------------------------------------------------------------------
Init ==
    /\ chunks = <<>>
    /\ size = 0
    /\ lent = [b \in {} |-> 0]
    /\ objs = <<>>
    /\ marks = {}

(* What both ways to push have in common: the client gets n bytes at `at'. *)
Pushed(blk, at, n) ==
    /\ size' = size + n
    /\ objs' = Append(objs, [block |-> blk, at |-> at, len |-> n])
    /\ UNCHANGED marks

PushTop(n) ==
    /\ Fits(PushSize(n))
    /\ chunks' = [chunks EXCEPT ![1].size = @ + PushSize(n)]
    /\ Pushed(chunks[1].block, chunks[1].size, PushSize(n))
    /\ UNCHANGED lent

PushChunk(n) ==
    /\ ~Fits(PushSize(n))
    /\ \E blk \in Blocks \ DOMAIN lent, more \in Extra :
          LET bytes == NewChunkSize(PushSize(n)) + more IN
          /\ lent' = [b \in DOMAIN lent \cup {blk} |->
                         IF b = blk THEN bytes ELSE lent[b]]
          /\ chunks' = <<NewChunk(blk, bytes, PushSize(n))>> \o chunks
          /\ Pushed(blk, 0, PushSize(n))

(* The parent refuses.                                                     *)
PushNull(n) == ~Fits(PushSize(n)) /\ UNCHANGED vars

mark ==
    /\ Cardinality(marks) < MaxMarks
    /\ marks' = marks \cup {[size |-> size, chunks |-> chunks, count |-> Len(objs)]}
    /\ UNCHANGED <<chunks, size, lent, objs>>

rewind(m) ==
    /\ chunks' = Rewound(size - m.size)
    /\ size' = m.size
    /\ LET freed == Freed(Len(chunks) - Len(chunks'))
       IN  lent' = [b \in DOMAIN lent \ freed |-> lent[b]]
    /\ objs' = SubSeq(objs, 1, m.count)
    /\ marks' = {k \in marks : k.size <= m.size}

clear ==
    /\ lent' = [b \in DOMAIN lent \ Freed(Len(chunks)) |-> lent[b]]
    /\ chunks' = <<>>
    /\ size' = 0
    /\ objs' = <<>>
    /\ marks' = {}

Next ==
    \/ \E n \in Requests : PushTop(n) \/ PushChunk(n) \/ PushNull(n)
    \/ mark
    \/ \E m \in marks : rewind(m)
    \/ clear

Spec == Init /\ [][Next]_vars

-----------------------------------------------------------------------------
(* ralcArena_getUsage, over a parent that serves this arena only.          *)

Holes == {i \in 1..Len(chunks) : chunks[i].cap > chunks[i].size}

(* Mutant of HoleSize: only the top chunk is looked at.                    *)
HoleSizeTop == IF 1 \in Holes THEN chunks[1].cap - chunks[1].size ELSE 0

HoleSize == MapThenSumSet(LAMBDA i : chunks[i].cap - chunks[i].size, Holes)

ParentUsage ==
    [blockCount |-> Cardinality(DOMAIN lent),
     blockSize  |-> MapThenSumSet(LAMBDA b : lent[b], DOMAIN lent)]

Usage ==
    LET system == Len(chunks) * Header
    IN  [blockCount |-> ParentUsage.blockCount,
         blockSize  |-> ParentUsage.blockSize - (system + HoleSize),
         holeCount  |-> Cardinality(Holes),
         holeSize   |-> HoleSize,
         systemSize |-> system]

-----------------------------------------------------------------------------
(* Type invariant; a chunk is never empty, which ralcArena_rewind needs to *)
(* find its way back, and never overfull.                                  *)
TypeOK ==
    /\ size \in Nat
    /\ DOMAIN lent \subseteq Blocks
    /\ \A i \in DOMAIN chunks :
          /\ chunks[i].block \in Blocks
          /\ chunks[i].cap \in Nat
          /\ chunks[i].size \in 1..chunks[i].cap
    /\ Cardinality(marks) <= MaxMarks

(* Whatever the mix of pushes and rewinds, every object the client still   *)
(* has lies in the used part of a chunk and inside the memory the parent   *)
(* lent, and no two of them share a byte or a pointer.                     *)
ObjectsOK ==
    /\ \A i \in DOMAIN objs :
          LET o == objs[i] IN
          /\ o.block \in DOMAIN lent /\ Header + o.at + o.len <= lent[o.block]
          /\ \E c \in DOMAIN chunks :
                chunks[c].block = o.block /\ o.at + o.len <= chunks[c].size
    /\ \A i, j \in DOMAIN objs : i < j /\ objs[i].block = objs[j].block =>
          objs[i].len > 0 /\ objs[i].at + objs[i].len <= objs[j].at

(* Each block borrowed from the parent is that of exactly one chunk: none  *)
(* is leaked by a rewind or a clear, and none is used after it was freed.  *)
ChunksLent ==
    /\ DOMAIN lent = {chunks[i].block : i \in DOMAIN chunks}
    /\ \A i, j \in DOMAIN chunks : chunks[i].block = chunks[j].block => i = j

(* A mark is only a byte count, yet rewinding to a valid one brings back   *)
(* exactly the chunks there were when it was taken, however many chunks    *)
(* have come and gone since and however full the older ones were.          *)
MarksRestore ==
    \A m \in marks : m.size <= size /\ Rewound(size - m.size) = m.chunks

(* What getUsage reports as blocks, after it took headers and chunk tails  *)
(* from the parent's account, is what the client holds.                    *)
UsageIsLive ==
    /\ Usage.blockSize = size
    /\ Usage.blockSize = MapThenSumSet(LAMBDA i : objs[i].len, DOMAIN objs)

=============================================================================
