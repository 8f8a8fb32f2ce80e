------------------------------- MODULE rlist --------------------------------
(***************************************************************************)
(* The doubly linked list over a parent allocator, src/rat/src/rat_rlist.c.*)
(*                                                                         *)
(* An element is one block of the parent: Header bytes with its links and  *)
(* the size of its payload, then the payload.  node maps the blocks that   *)
(* are allocated to those headers; reading the header of a block that was  *)
(* freed is an error here.  Pointers are blocks, or NULL.                  *)
(*                                                                         *)
(* The parent is any ralc_iface.  alloc may refuse or round up; realloc    *)
(* may refuse, work in place, or move the block with its contents.  When   *)
(* it refuses it may have written to *out_actualNewSize: ralc.h does not   *)
(* say, and the allocator of src/tests/test_rdyn.c writes 0.               *)
(*                                                                         *)
(* items is the client's view: the elements in list order, each with its   *)
(* pointer and the payload size the client asked for last.                 *)
(***************************************************************************)
EXTENDS Integers, Sequences, SequencesExt, FiniteSets, FiniteSetsExt

CONSTANTS
    Blocks,     \* blocks of memory the parent may give, all distinct
    NULL,       \* the NULL pointer
    Extra,      \* how many bytes more than asked for a parent may give
    Header,     \* HEADER_SIZE
    Requests,   \* payload sizes the client asks for
    Spoils      \* may a realloc that refuses have set *out_actualNewSize to 0?

ASSUME ListAssumption ==
    /\ NULL \notin Blocks /\ IsFiniteSet(Blocks)
    /\ Header \in Nat \ {0}
    /\ Extra \subseteq Nat /\ Requests \subseteq Nat
    /\ Spoils \subseteq BOOLEAN

VARIABLES
    first, last, count,     \* p->first, p->last, p->count
    node,                   \* block |-> its elem header
    lent,                   \* block of the parent |-> its size
    items                   \* the client's view

vars == <<first, last, count, node, lent, items>>

elemAllocSize(n) == Header + n

(* Mutant of ElemOf: the size of the payload counts the header.            *)
ElemOfWholeBlock(prev, next, bytes) ==
    [prev |-> prev, next |-> next, size |-> bytes]

ElemOf(prev, next, bytes) ==
    [prev |-> prev, next |-> next, size |-> bytes - Header]

(* The parent gives block x with the given number of bytes.                *)
Given(x, bytes) ==
    lent' = [b \in DOMAIN lent \cup {x} |-> IF b = x THEN bytes ELSE lent[b]]

(* p->next = x and p->prev = x, or the ends of the list when p is NULL.    *)
LinkNext(nd, p, x) == IF p = NULL THEN nd ELSE [nd EXCEPT ![p].next = x]
LinkPrev(nd, p, x) == IF p = NULL THEN nd ELSE [nd EXCEPT ![p].prev = x]

(* Mutant of Linked: the element after x keeps its old back link.          *)
LinkedForward(nd, x) == LinkNext(nd, nd[x].prev, x)

(* x is reachable from both of its neighbours.                             *)
Linked(nd, x) == LinkPrev(LinkNext(nd, nd[x].prev, x), nd[x].next, x)

IndexOf(p) == CHOOSE i \in DOMAIN items : items[i].at = p

-----------------------------------------------------------------------------
Init ==
    /\ first = NULL /\ last = NULL /\ count = 0
    /\ node = [b \in {} |-> ElemOf(NULL, NULL, Header)]
    /\ lent = [b \in {} |-> 0]
    /\ items = <<>>

(* rlist_insert before element p, or at the back when p is NULL.           *)
insert(p, n) ==
    \E x \in Blocks \ DOMAIN lent, more \in Extra :
       LET bytes == elemAllocSize(n) + more
           prev  == IF p = NULL THEN last ELSE node[p].prev
       IN
       /\ Given(x, bytes)
       /\ node' = Linked([b \in DOMAIN node \cup {x} |->
                             IF b = x THEN ElemOf(prev, p, bytes) ELSE node[b]], x)
       /\ first' = IF prev = NULL THEN x ELSE first
       /\ last' = IF p = NULL THEN x ELSE last
       /\ count' = count + 1
       /\ items' = InsertAt(items, IF p = NULL THEN Len(items) + 1 ELSE IndexOf(p),
                            [at |-> x, len |-> n])

(* What rlist_resize does with the block y that took the place of p.       *)
Relinked(p, y, bytes, n) ==
    LET nd == [b \in (DOMAIN node \ {p}) \cup {y} |->
                  IF b = y THEN [node[p] EXCEPT !.size = bytes - Header]
                  ELSE node[b]]
    IN
    /\ node' = Linked(nd, y)
    /\ first' = IF node[p].prev = NULL THEN y ELSE first
    /\ last' = IF node[p].next = NULL THEN y ELSE last
    /\ items' = [items EXCEPT ![IndexOf(p)] = [at |-> y, len |-> n]]
    /\ UNCHANGED count

(* ralc_realloc in place.                                                  *)
resizeInPlace(p, n) ==
    \E more \in Extra :
        LET bytes == elemAllocSize(n) + more IN
        /\ lent' = [lent EXCEPT ![p] = bytes]
        /\ Relinked(p, p, bytes, n)

(* ralc_realloc moves the block.                                           *)
resizeMoved(p, n) ==
    \E y \in Blocks \ DOMAIN lent, more \in Extra :
        LET bytes == elemAllocSize(n) + more IN
        /\ lent' = [b \in (DOMAIN lent \ {p}) \cup {y} |->
                       IF b = y THEN bytes ELSE lent[b]]
        /\ Relinked(p, y, bytes, n)

(* Mutant of resizeCopied: the old block is not given back.                *)
resizeCopiedLeaks(p, n) ==
    \E y \in Blocks \ DOMAIN lent, more \in Extra, spoilt \in Spoils :
        LET bytes == elemAllocSize(IF spoilt THEN 0 ELSE n) + more IN
        /\ Given(y, bytes)
        /\ Relinked(p, y, bytes, n)

(* ralc_realloc refuses; ralc_alloc, memcpy and ralc_free instead.  The    *)
(* size asked for is read again from where realloc could write to it.      *)
resizeCopied(p, n) ==
    \E y \in Blocks \ DOMAIN lent, more \in Extra, spoilt \in Spoils :
        LET bytes == elemAllocSize(IF spoilt THEN 0 ELSE n) + more IN
        /\ lent' = [b \in (DOMAIN lent \ {p}) \cup {y} |->
                       IF b = y THEN bytes ELSE lent[b]]
        /\ Relinked(p, y, bytes, n)

(* The parent refuses: insert and resize return NULL.                      *)
Refused == UNCHANGED vars

(* The run of n elements that starts at p, and what follows it: each next  *)
(* pointer is read before its element is freed.                            *)
Run(p, n) ==
    LET step[i \in 0..n] == IF i = 0 THEN p ELSE node[step[i - 1]].next
    IN  step

(* Mutant of remove: the element after the run keeps its back link.        *)
removeKeepsBackLink(p, n) ==
    LET run    == Run(p, n)
        before == node[p].prev
        after  == run[n]
        gone   == {run[i] : i \in 0..(n - 1)}
        nd     == [b \in DOMAIN node \ gone |-> node[b]]
    IN
    /\ lent' = [b \in DOMAIN lent \ gone |-> lent[b]]
    /\ node' = LinkNext(nd, before, after)
    /\ first' = IF before = NULL THEN after ELSE first
    /\ last' = IF after = NULL THEN before ELSE last
    /\ count' = count - n
    /\ items' = SubSeq(items, 1, IndexOf(p) - 1)
                    \o SubSeq(items, IndexOf(p) + n, Len(items))

remove(p, n) ==
    LET run    == Run(p, n)
        before == node[p].prev
        after  == run[n]
        gone   == {run[i] : i \in 0..(n - 1)}
        nd     == [b \in DOMAIN node \ gone |-> node[b]]
    IN
    /\ lent' = [b \in DOMAIN lent \ gone |-> lent[b]]
    /\ node' = LinkPrev(LinkNext(nd, before, after), after, before)
    /\ first' = IF before = NULL THEN after ELSE first
    /\ last' = IF after = NULL THEN before ELSE last
    /\ count' = count - n
    /\ items' = SubSeq(items, 1, IndexOf(p) - 1)
                    \o SubSeq(items, IndexOf(p) + n, Len(items))

Pointers == {items[i].at : i \in DOMAIN items}

(* rlist_clear is remove of the whole list from p->first.                  *)
Next ==
    \/ \E n \in Requests, p \in Pointers \cup {NULL} : insert(p, n)
    \/ \E n \in Requests, p \in Pointers :
          resizeInPlace(p, n) \/ resizeMoved(p, n) \/ resizeCopied(p, n)
    \/ Refused
    \/ \E i \in DOMAIN items : \E n \in 1..(Len(items) - i + 1) :
          remove(items[i].at, n)

Spec == Init /\ [][Next]_vars

-----------------------------------------------------------------------------
(* The walks of rlist_at, from the nearer end, and of rlist_index.         *)

Forward(k) == Run(first, k)[k]

Backward(k) ==
    LET step[i \in 0..k] == IF i = 0 THEN last ELSE node[step[i - 1]].prev
    IN  step[k]

(* Mutant of at: the walk from the back starts one too far.                *)
atOffByOne(index) ==
    IF index < count \div 2 THEN Forward(index)
    ELSE IF index = 0 THEN last ELSE Backward(count - index)

at(index) ==
    IF index < count \div 2 THEN Forward(index) ELSE Backward(count - index - 1)

index(p) == CHOOSE k \in 0..(count - 1) : Forward(k) = p

(* rlist_getUsage, over a parent that serves this list only.               *)
ParentUsage ==
    [blockCount |-> Cardinality(DOMAIN lent),
     blockSize  |-> MapThenSumSet(LAMBDA b : lent[b], DOMAIN lent)]

(* Mutant of Usage: the header of the last element is counted as payload.  *)
UsageHeaderShort ==
    LET system == IF count = 0 THEN 0 ELSE (count - 1) * Header
    IN  [blockCount |-> ParentUsage.blockCount,
         blockSize  |-> ParentUsage.blockSize - system,
         systemSize |-> system]

Usage ==
    LET system == count * Header
    IN  [blockCount |-> ParentUsage.blockCount,
         blockSize  |-> ParentUsage.blockSize - system,
         systemSize |-> system]

-----------------------------------------------------------------------------
(* Type invariant; no pointer of the list leads to a freed element.        *)
TypeOK ==
    /\ {first, last} \subseteq DOMAIN node \cup {NULL}
    /\ count \in 0..Cardinality(Blocks)
    /\ \A x \in DOMAIN node :
          /\ {node[x].prev, node[x].next} \subseteq DOMAIN node \cup {NULL}
          /\ node[x].size \in Nat
    /\ DOMAIN lent \subseteq Blocks

At(i) == IF i \in DOMAIN items THEN items[i].at ELSE NULL

(* Whatever was inserted, moved and removed where, the links of the list   *)
(* read forwards and backwards are the client's elements in its order, so  *)
(* no operation left a neighbour with a pointer to a freed or moved block. *)
LinksOK ==
    /\ count = Len(items)
    /\ first = At(1) /\ last = At(Len(items))
    /\ \A i \in DOMAIN items :
          node[items[i].at].prev = At(i - 1) /\ node[items[i].at].next = At(i + 1)

(* The blocks borrowed from the parent are the elements of the list, each  *)
(* once: a resize that moves and a remove of a run give back what they     *)
(* must and nothing else.                                                  *)
NodesLent ==
    /\ DOMAIN lent = DOMAIN node
    /\ DOMAIN node = {items[i].at : i \in DOMAIN items}
    /\ Cardinality(DOMAIN node) = Len(items)

(* An element has at least the payload the client asked for, and no more   *)
(* than its block holds.                                                   *)
PayloadsFit ==
    \A i \in DOMAIN items :
        LET x == items[i].at IN
        /\ x \in DOMAIN lent
        /\ node[x].size >= items[i].len
        /\ node[x].size + Header = lent[x]

(* What getUsage reports as blocks is what the elements themselves say     *)
(* they hold, and they are as many as the client has.                      *)
UsageIsLive ==
    /\ Usage.blockCount = Len(items)
    /\ Usage.blockSize =
          MapThenSumSet(LAMBDA i : node[items[i].at].size, DOMAIN items)

(* rlist_at finds element k from either end, and rlist_index is its        *)
(* inverse.                                                                *)
WalksAgree ==
    \A k \in 0..(count - 1) :
        at(k) = items[k + 1].at /\ index(items[k + 1].at) = k

=============================================================================
