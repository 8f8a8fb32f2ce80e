# Formal models of ratlib

ratlib is a small C library: four allocators behind one interface, containers
over those allocators, and some pure helpers. This directory holds TLA+ models
of its stateful parts, of its searches and of its digests, the TLC
configurations that check them on small instances, and proofs of their safety
properties for every instance.

The library has no threads, no I/O and no time. What is hard in it is elsewhere:

- **long sequences of legal calls.** Headers that repeat each other, linked
  chunks, free lists that run through user memory and chains that are rehashed
  have to stay consistent however calls follow each other.
- **one step of several failing.** Every container asks a parent allocator, which
  may refuse, may round sizes up, and may refuse `realloc` only, in which case
  the caller falls back to allocate, copy, free.
- **pointers that become stale.** A `realloc` moves an element that neighbours,
  buckets, iterators or the ends of a list still point to.
- **boundaries.** Alignment, a remainder too small for a header, a chunk rewound
  to exactly zero bytes, wrap-around by a single subtraction.
- **composition.** `free` of an arena does nothing, and "block" in
  `ralc_usage` means something else in every allocator.

## Inventory

| component | state | operations | what makes it correct |
|---|---|---|---|
| `ralcGen` general allocator over one buffer | used size; in the buffer, a header per block: its size, the size before it, an unused flag | alloc (first fit, split, append), realloc (in place, into the next hole, move), free (merge), clear, getUsage | headers consistent; objects apart, aligned, inside; nothing lost; fails only if it must |
| `ralcArena` chunked bump allocator | stack of chunks (cap, size), total size | push, mark, rewind, clear, getUsage | a mark restores the chunks; parent's blocks given back once |
| `ralcPool` fixed slots | chunks, free list, count | alloc (grow), free, clear, getUsage | a slot is free or live, never both |
| `rring` ring buffer over caller's storage | first, count | push, pushFront, pop, popFront, at, last, clear | is a double-ended queue |
| `rlist` doubly linked list, also an allocator | first, last, count; links in the elements | insert, resize, remove of runs, at, index, getUsage | links read both ways are the client's sequence |
| `rdyn` dynamic array | buf, cap, count, allowShrink | insert (grow), remove (shrink), resize, setCap, clear | contents survive growing, shrinking and moving |
| `rmap` chained hash map | buckets, count; next pointers in the elements; iterator | set, get, getOrAdd, remove, clear, iterate with removal | is the client's dictionary; iterates over each key once |
| `ralc` dispatch | none | alloc, realloc, free, getUsage by kind | sizes, refusals |
| `ralcCustom` | callbacks | forwards | - |
| `rarr` | caller's array | insert, remove, resize, binary searches | moves the right elements; finds leftmost/rightmost |
| `rhash` (HalfSipHash or SipHash) | running state, an incomplete word, the length | init, add, result, calc | the hash of the stream, however it was cut into buffers |
| `rcrc` (bit by bit) | parameters, register, how much of `init` is used up | init, addByte, add, result, calc | the CRC of the stream, however it was cut |
| `rcmp`, `rbit`, `rorder`, `common.h`, `extra.h` | none | pure functions and macros | - |

Interaction is by calls only. A container holds a pointer to its parent's
`ralc_iface`; `rat_ralc.c` dispatches on its kind. The client owns the
structures and may hold pointers to objects, marks and an iterator.

## Modules

| module | models | over |
|---|---|---|
| `Heap` | abstract: what an allocator promises its client | - |
| `ralcGen` | `rat_ralcGen.c` | the caller's buffer |
| `ralcGenUsage` | `ralcGen_getUsage` | extends `ralcGen` |
| `ralcArena` | `rat_ralcArena.c` | any parent |
| `ralcPool` | `rat_ralcPool.c` | any parent |
| `ralcPoolArena` | a pool whose parent is an arena | extends `ralcPool`, instance of `ralcArena` |
| `Deque` | abstract: a bounded double-ended queue | - |
| `rring` | `rat_rring.c` | the caller's storage |
| `rlist` | `rat_rlist.c` | any parent |
| `rdyn` | `rat_rdyn.c`, `rarr_insert`, `rarr_remove` | any parent |
| `rdynSearch` | the binary searches of `rat_rarr.c`, turn by turn | extends `rdyn` |
| `rmap` | `rat_rmap.c` with the iterator | any parents |
| `rbit` | the masks, flags and shifts of `rbit.h` that the digests use | - |
| `rhash` | `rat_rhash.c` | `rbit` |
| `rcrc` | `rat_rcrc.c` | `rbit` |
| `digests` | a client that streams a message into one of them | extends `rhash`, `rcrc` |
| `MC<module>` | constants for TLC | the module |

Proofs are in modules of their own: `ralcGen_proofs` (about `ralcGen` and
`ralcGenUsage`), `ralcArena_proofs`, `ralcPool_proofs` (about `ralcPool` and
`ralcPoolArena`), `streams_proofs` (about `rring` and `digests`), `rlist_proofs`,
`rdyn_proofs` (about `rdyn` and `rdynSearch`) and `rmap_proofs`. What several of
them need, about least and greatest elements, division and sums over finite sets,
is in `Lemmas`.

In every module a call is one step: nothing in the library runs concurrently
with it. The exception are the binary searches, whose loop is a step per turn
because the property is about the loop. Each variable is a field of the C
structure or memory it owns, and the last ones are the client's view (`obj`,
`objs` and `marks`, `live`, `items`, `dict` and `todo`, `stream`): what the client
asked for, was told or gave. Properties relate the two. Definitions named
`... Mutant of X` in a comment are wrong versions of `X` that show which mistake a
property notices; no specification uses them.

**Parents.** "Any parent" is a nondeterministic `ralc_iface`: it gives a block
that is not in use, of the size asked for plus some `Extra`, or refuses;
`realloc` may also work in place or move. `lent` (`tables` and the domain of
`node` in `rmap`) is what is borrowed at the moment. Parents that do less, as
an arena that never reallocates, are among its behaviours.

These parents stand for code outside the library as well, the callbacks of a
`ralcCustom`, so what describes them alone (`Given`, `Resized`, `ParentUsage`) is
modelled from how the code calls them and translates no function of `rat_ralc.c`.

**ralcGen.** `blocks` maps the offset of each header in the used buffer to its
fields; `prev` and `unused` are the two parts of `prevSize_unused`. `Put` is
`block_setSize`; `Split` and `MergeBlocks`/`MergeEnd` are `block_split` and
`block_merge`. One action per path through alloc and realloc.

**ralcArena.** `chunks` is the stack, top first. A mark carries the chunks there
were when it was taken, which the code does not have: it is what `rewind` is
compared with. Marks above a rewind are invalid, as `ralcArena.h` says.

**ralcPool.** A slot is a chunk's block and an index. `live` maps the slots the
client holds to what it asked for.

**ralcPoolArena.** A block of the pool is an object of the arena. The program
also pushes objects of its own, takes marks, rewinds and clears. `PoolBelow` is its
discipline, not code: it rewinds to a mark only if the pool's blocks are older
than it, and clears the arena only when the pool has none. A pool that is cleared
"frees" its blocks, which the arena ignores: they stay objects there, but are the
pool's no more, so a later rewind may give their memory to somebody else.

**rlist.** Blocks are element pointers, `node` their headers. `Spoils` says
whether a refusing `realloc` may have written its out-parameter.

**rdyn.** `arr` is the memory of the buffer, entries nobody wrote are `Junk`, and
what a removal leaves behind the last element stays. `Lost` in `items` is an
element that a `setCap` below `count` gave up. `rdyn_resize` is an insert or a
remove of the difference.

**rdynSearch.** Every operation of `rdyn` and, between them, searches in either
direction of an array that is sorted. A comparison counts by its sign only. What
a search returned is about the array as it was, so any change forgets it.

**rbit, rhash, rcrc, digests.** An unsigned integer is the set of its one bits, so
`|` is union and `^` the symmetric difference, and bits that should have been
cleared show. A word of `rhash` is a function from byte positions to bytes. The
SipHash rounds are constants of the model, uninterpreted: which words they are
given, in which order and with which padding is what the code around them
decides. In `rcrc` the register is as wide as the integer, keeps what is above
`bitWidth`, and takes `init` in with the first bytes, as the code does; the
reference is the remainder of a division of polynomials.

**rmap.** A pointer to a pointer (`prevNext`) is the index of a bucket or the
element whose `next` it points to. `Rehashed` walks the chains as the code does.
Any other modification drops the client's iterator, as `rmap.h` says.

## Runs

| run | what it asks | bounds | distinct states |
|---|---|---|---|
| `gen` | headers, objects, alignment, leaks, failure, the contract of `Heap`, the account | buffer of 132 bytes, 5 objects, requests 0, 5, 24, 60 | 7 839 |
| `arena` | objects, chunks, marks, the account | 3 parent blocks, extra 0 or 8, requests 0 and 20, 2 marks | 147 854 |
| `pool` | slots, chunks, the account | 2 blocks of 2 or 3 slots | 2 696 |
| `poolArena` | is it still a pool? do its slots lie in memory the arena gave nobody else? | pool chunks of one slot in arena chunks of 80 bytes, 5 objects, a mark | 23 537 |
| `poolArenaAssert` | the assertion of `ralcPool_getUsage` (fails) | as `poolArena` | - |
| `ring` | is it a deque? | 4 slots, 2 values | 725 |
| `list` | links, blocks, payloads, walks, the account | 4 blocks, extra 0 or 8, payloads 0 and 8 | 341 |
| `dyn` | contents, the one buffer, `count <= cap`; what a binary search finds, and that it returns | 4 elements of the values 1 and 3, targets 1, 2 and 3, 2 blocks, extra 0 or 1 | 189 630 |
| `dynCap` | is every counted element written? (no) | as `dyn`, without searches | - |
| `map` | lookups, chains, blocks, iteration | 5 keys, 6 blocks | 634 |
| `digests` | is a digest that of the whole stream? | bytes of 2 bits, integers of 5, words of 4 bytes; streams of up to 9 bytes into a hash and 3 into a CRC | 31 623 |
| `crcShort` | the same for a CRC of fewer bits than its width (no) | as `digests` | - |

Why these are enough for the cases that matter:

- `gen`: with RAT_ALIGNMENT 8 and 16-byte headers (a 64-bit build whose widest
  scalar has 8 bytes) three to five blocks fit, so a block has a neighbour on
  each side, holes on one or both; request 5 against holes of 24 leaves
  remainders too small for a header; 60 reaches the capacity in place; 132 is not
  aligned.
- `arena`: three chunks of different capacity, each partly used, empty marks
  and marks at a chunk boundary.
- `pool`: chunks of both capacities at once, requests that do not fit, an
  element size that is not aligned.
- `poolArena`: an arena chunk holds two blocks of the pool, with objects of the
  program between and behind; marks are taken and rewound with the pool below and,
  after it was cleared, above.
- `list`: runs at the front, in the middle, at the back and as a whole.
- `dyn`: the buffer grows by half, falls back to the exact size, and is halved
  by removals; two blocks make every move visible. The targets are equal to,
  between and beyond the elements, and equal elements fill any part of the
  array, so both searches end at both ends and in the middle.
- `map`: the fourth key doubles the array, three keys share a bucket and two
  of them a hash.
- `digests`: with words of four bytes a stream of nine has two whole words and
  a byte; every way to cut it is a behaviour. CRC widths below, at and above a
  byte, and no multiple of one; both reflections; `init` and `xorOut` not zero.

Model values for blocks, objects and values are interchangeable, so those runs
use symmetry. `dyn` does not: it checks a liveness property, and its values are
numbers.

**Bounds** that are no part of the code: `Extra`, `Requests`, `MaxMarks` in the
arena, `MaxPushed` in `ralcPoolArena`, `MaxCount` and runs of at most two
elements in `rdyn`, `Targets` in `rdynSearch`, and in `digests` `MaxHashed`,
`MaxChecked`, `HashBytes` and the `Algorithms` tried. They appear in guards or as
quantified sets only. `CHAR_BIT`, `UINTMAX_BITS` and `WordSize` are parameters of
the platform, made small; that `CHAR_BIT <= UINTMAX_BITS` is assumed, because a
`uintmax_t` is made of bytes.

**Deadlock and fairness.** Deadlock checking is on in every run: a call that the
parent refuses, a push of no bytes or a buffer of no bytes is always possible.
`SearchSpec` has weak fairness of `Loop` and `Return`: the thread that began a
search runs on, and nothing else in the library can stop it. `SearchEnds` says
that then the search returns. No other specification has fairness: a library
that is called has no step of its own to be fair to. Loops inside a call are
evaluated within its step, so their termination is the model's evaluation
terminating.

## What the failing runs show

- `poolArenaAssert`: `ralc.h:13` calls `blockCount` the "Live user-visible allocation
  count.", and `ralcArena_getUsage` adjusts `blockSize` to what users see but
  leaves `blockCount` as the number of chunks. Over an arena, then, the assertion
  `chunkCount <= out_usage->blockCount` of `ralcPool_getUsage`
  (`rat_ralcPool.c:149`) fails, and without assertions the difference wraps.
- `dynCap`: after `rdyn_setCap(p, n)` with `n < count`, over a parent that refuses
  `realloc` and rounds up (an arena, say), `count` may stay above `n` although
  only `n` elements were copied.
- `crcShort`: `init` goes in with the first bytes, so a stream shorter than
  `bitWidth` leaves part of it out, and `rcrc_result` does not add it: the
  CRC-32/ISO-HDLC of "a" comes out as E84841BC instead of E8B7BE43. `rcrc.h:10-11`
  says the parameters follow the RevEng catalogue, where `init` is the register
  before the first bit. `CrcOfStream` is about all longer streams, and holds.

One more, of which there is no run: `rlist_resize` passes the size it will need for
its fallback as the out-parameter of `ralc_realloc` (`rat_rlist.c:80`). A callback may
write that and return NULL, as the one in `tests/test_rdyn.c:57-66` does; the fallback
then asks for too small a block (line 83), and the element is smaller than asked for.
`rdyn` keeps the two sizes apart. `list` has only parents that leave the out-parameter
alone (`Spoils` is `{FALSE}`), for which `PayloadsFitHolds` proves that every payload
fits. With `BOOLEAN` in `MCrlist` TLC finds `PayloadsFit` violated in two steps, an
insert of 0 bytes and a resize to 8.

## Proofs

What is proved holds for every value of the constants that satisfies the
assumptions named in the modules (`ASSUME`): sizes are natural numbers, NULL is
no block, the header is a multiple of the alignment, and the like. TLC evaluates
them in the runs.

Two tools serve most of the proofs. The least element of a set of numbers
(`LeastOf` in `Lemmas`) stands in for induction: a loop, a chain or a recursive
function is what it should be, or there is a first place where it is not. And an
accounting walk is a sum over a finite set: `Total` is that sum as a function of
what is summed, `TotalIs` and its kin in each module connect it with the sums the
models write, and `OneByOne`, induction over the subsets of a finite set as a
statement about a set of subsets, gives the rules of calculation: a term more
(`TotalGrows`), a sum of sums (`TotalPlus`), a common factor (`TotalTimes`), a set in
two parts (`TotalParts`), other names for the terms (`TotalReindex`).

**The general allocator.** `GenInvHolds` is the inductive invariant `GenInv`.
`BlocksOK` alone is not inductive: that a merge finds the right neighbours needs
the tiling of the used buffer (`Tiled`), the back links (`BackLinked`), that no
two holes touch and none is last (`Coalesced`), and that used blocks are the
client's objects (`Owned`). The proof states what `Put` does to each of these on a
header map that is almost well formed, then what `Split` and `MergeBlocks` return,
and every action is one of those or two in a row (a realloc that moves).
`TypeOKHolds`, `BlocksOKHolds`, `ObjectsOKHolds` and `NothingLeaksHolds` follow.
`ContractHolds`, `Spec => ContractSpec`, is the refinement of `Heap`: each path of
alloc and realloc is the `Heap` action of that name, in which a given span is
inside the buffer, at least as long as asked for and apart from the others.

`PayloadsAlignedHolds` adds `AlignedMap`: every header is at a multiple of the
alignment and every payload size is one. The capacity need not be, so splitting,
appending, merging and growing in place are looked at one by one.

`FailsOnlyWhenFullHolds` says that first fit, which follows the headers from the
first, misses no hole. Every byte of the used buffer belongs to a block, so a hole
that is large enough is met: the argument takes, of the blocks that end after its
start, the one that ends first, found as a least element (`LeastOf`).

`UsageIsExactHolds`: the blocks before a position, with their headers, are as many
bytes as the position (`WholesSum`, from the last of them back), so the payloads and
one header for each block are the used buffer; and the used blocks can be recounted
as the client's objects, because `Owned` is a one-to-one relation.

**The arena.** A mark is a number of bytes, so that rewinding finds its way back is
about sums of chunk sizes. `ArenaInvHolds` relates every mark to the state of now,
and every two marks to each other (`Older`): the chunks of the older one are at the
bottom of the younger, equal except that its top chunk may have got more bytes
(`Under`), and equal counts mean equal states. Without the comparison of marks with
each other a rewind to one would say nothing of the rest. `Tops` gives a list of
chunks its suffix sums; `LeftIs` says that the recursion in `Left` computes them, and
`RewoundIs` that the loop stops at the first chunk that has been there at the mark:
no chunk is empty (`Stack`), so it stops no sooner and no later. `TypeOKHolds`,
`ChunksLentHolds`, `ObjectsOKHolds` and `MarksRestoreHolds` follow.

`UsageIsLiveHolds` says that `size`, the objects of the client and what `getUsage`
makes of the parent's account are one number. That the chunks hold `size` bytes is in
`Stack`. That the objects do is `SizesInvHolds`: it has to say as much of every mark
and the objects below it, or a rewind would not keep it.

**The pool.** `PoolInvHolds`: the free list has no repetition (`Distinct`) and its
elements are the slots of the chunks that the client does not hold, and chunks
are different blocks of the parent, of the size they record. That the head of the
list is in no second place takes `Distinct`, that a new chunk brings new slots
takes `ChunksLent`. `TypeOKHolds`, `ChunksLentHolds`, `SlotsPartitionedHolds` and
`SlotsFitHolds` follow, with the arithmetic of `elemSize` as lemmas. `UsageIsLiveHolds`
sums up what a chunk is made of: its slots, and what is left of its block.

**The pool over an arena.** The two theorems of the parts do not give that of the
whole: the pool's proof has its parent's blocks be those of its chunks only, and an
arena gives blocks to others, ignores `free` and takes many back at once.

- `ArenaKept`, `JoinSpec => Proved!Spec`: to the arena, the pool and the rest of the
  program are one client, so all that is proved of the arena holds here. It takes
  that a pool's request is a whole number of aligned slots (`GrowSizeAligned`).
- `BorrowedObjects` says that what the pool has borrowed are objects the arena still
  has. It is inductive together with the arena's invariant (`BorrowedHolds`): a push
  adds an object that differs from all the others, because no two overlap and none
  is empty (`PushedIs`), and a rewind takes only what is above the pool.
- So the block of a chunk is one the pool does not have, of the size asked for, and
  every step is a step of a pool over a parent or a stutter: `PoolHolds`,
  `JoinSpec => PoolSpec`. All that is proved of pools follows, and with it
  `SlotsInArenaHolds`.

Both theorems suppose that `Blocks`, the parameter of `ralcPool`, contains what an
arena may give (`Objects`): records of a block, an offset and a length. The run
`poolArena` lists the ones that fit its arena.

**The ring.** `RingInvHolds`, `TypeOKHolds`, `EndsAgreeHolds`, and `QueueHolds`, the refinement of
`Deque`. The argument is that `Wrap` of `first + i` gives different slots for
different `i < Cap`, so a push writes a slot that holds no element.

**The list.** `ListInvHolds`: the headers chain the sequence `items`, whose elements
are different blocks, with the sizes the parent lent (`Shape`). One lemma for each
kind of write (`InsertKeeps`, `ResizeKeeps`, `CutKeeps`) says that the new headers
chain the new sequence; it takes `Distinct`, because a write through the pointer
of a neighbour must change no other element. `remove` and the walks are
recursive functions: `RunIs` and `BackIs` show that they are the sequence read from
a place on, by taking the first place where they would differ. From it come
`TypeOKHolds`, `LinksOKHolds`, `NodesLentHolds`, `WalksAgreeHolds`, `UsageIsLiveHolds`
and, if `Spoils` does not contain TRUE, `PayloadsFitHolds`.

**The array.** `DynInvHolds` has for each memmove and copy (insertion, removal,
moving to another buffer) what it does to the elements below, in and above the
gap; `TypeOKHolds`, `ContentsKeptHolds` and `BufferLentHolds` follow.
`SearchInvHolds` is the loop invariant of the binary searches: everything left of
`left` has been passed, everything from `right` on has not, and since the array is
sorted the comparison at `mid` decides for one side. `SearchFindsHolds` is what it
gives when the two meet; `ArrayStaysSound` says that searches do not disturb the
array's invariant.

**The map.** `MapInvHolds` is the inductive invariant of the map and of its client's
iterator, `MapInv /\ IterInv`; TLC had agreed with both on the run `map`.

- A chain is a sequence of elements that `next` leads along to NULL (`Linked`), and a
  table is sound when its buckets' chains divide the elements among them, each in
  the chain its hash belongs to (`Threads`). `ChainIs` shows that following the
  pointers gives that sequence.
- Every call but a rehash changes one chain: an element in front (`PushFront`), one
  less (`Unlink`), or another in its place (`Swap`). `OneChain` says what that does to
  the table: as chains share no element, a write through `prevNext` leaves the others
  alone.
- The rehash is two loops of pointer writes, in which elements are in both arrays
  for a while. `Part` says that the elements moved so far are a sound table; it
  survives one element (`ReinsertedIs`), one bucket (`MovedIs`), and so all
  (`RehashedIs`).
- `Counted` bounds the count by three quarters of the array, which is what a rehash
  restores before an element comes; `Known` says that `dict` is the inverse of the
  keys in the elements, so that what `rmap_get` stops at is the client's element.
- `Cursor` puts the iterator between two elements of a chain: what is behind it has
  been returned, `KeysAhead` is what `todo` still has, and `prevNext` and
  `lastPrevNext` are the pointers in front of the next and the last element. A
  removal through the iterator takes one element out right behind the cursor.

`TypeOKHolds`, `LookupsAgreeHolds`, `ChainsOKHolds`, `BlocksLentHolds` and
`IterationCompleteHolds` follow, and `EndIsComplete`, a property of steps: an
iteration ends only when nothing is left to return.

**The hash.** `HashInvHolds`: after any cut of a stream into buffers the state is
that of its `q` whole words and `r` bytes left over (`Took`): the words compressed in
order, the bytes in `rem` with zeros behind them, the length counted. `rhash_add`
completes the word it finds begun, or does not (`AddCompletes`, `AddToPart`), takes
whole words and keeps the rest (`AddToWhole`). That compressing the words of two
streams one after the other is compressing those of both is about folds
(`FoldConcat`): folds are functions of the length here, and two that agree at every
step agree because there is no first place where they differ. `HashOfStreamHolds`
adds the padding of `rhash_result`, and that `rhash_calc` is the case of one buffer.
The rounds of SipHash stay arbitrary functions.

**The CRC.** `CrcInvHolds`: the register is the remainder of what was taken in, with
some quotient (`Divided`). That no smaller statement is inductive is the point: the
shift doubles the quotient, and whether the polynomial is subtracted decides its
next bit (`DivideBit`; the bits of a byte are `DivideBits`). A product of
polynomials is stated coefficient by coefficient, as the parity of a number of
pairs (`Odd`). What `init` adds to the stream, a byte at a time and reflected as
`refIn` has it, is in `Checked`, with `initOffset` as the count of the bits it was
used up to. Bits of the register above `bitWidth` are left alone by the code; the
invariant lets them be anything. `CrcOfStreamHolds` takes the remainder out
through `refOut` and `xorOut`, for all algorithms `rcrc_init` accepts. It
is about streams of at least `bitWidth` bits, because `crcShort` shows that shorter
ones are wrong.

**Model-checked only.** `SearchEnds`, that a binary search returns: liveness under
fairness is out of the prover's reach. Every other property of a passing run is
proved.

## Not modelled

- Overflow of `size_t` in capacity computations (`rat_ralcGen.c:129`,
  `rat_rdyn.c:47`), and the assertions against it: models use mathematical
  integers, and only a request near `SIZE_MAX` wraps.
- Memory contents, except where a property is about them (`rring`, `rdyn`): that
  `memcpy` copies is taken for granted, how much it copies is not. Keys of the map
  are values, so a key pointer into the map itself (`rat_rmap.c:158`) is not seen.
- Reads of memory that the same call frees or overwrites. `rlist_remove` and the
  rehash of the map fetch `next` before they free or relink an element; the models
  read these pointers as they were before the call, so the properties show what the
  loops leave behind and not that order.
- The rows of the table of predefined CRC algorithms, which are data, and the
  rounds of SipHash, which are arithmetic on one word.
- `rcmp` beyond the comparison of numbers (buffers, strings, floating point),
  `rorder` (byte swaps) and `ralcCustom` (forwards to a callback): no state of their
  own. What a callback may do is what the parents of the models do.
- The list as an allocator for other containers (`RALC_LIST`), which the "any
  parent" of those covers.
- `ralcGen_getUsage` counts the unused tail of the buffer in `holeSize` but not in
  `holeCount`, though `ralc.h:15` calls that a "Reusable or uncommitted payload
  region count."; the model has it as the code does.

## Plan

1. Done: every allocator and container, the pool over an arena, the binary
   searches and the digests; proofs of every safety property and every refinement
   that the passing runs check.
2. Next: compositions. `rdyn` over an arena, where every move leaves the old buffer
   behind; the list as a parent of an array.
3. The capacity computations with integers of a width, to state for which requests
   they do not wrap around.
