-------------------------------- MODULE rmap --------------------------------
(***************************************************************************)
(* The chained hash map, src/rat/src/rat_rmap.c, with its iterator.        *)
(*                                                                         *)
(* An element is one block of elemsRalc: node maps the blocks in use to    *)
(* their headers, next pointer and key.  buckets is the bucket array, the  *)
(* heads of the chains at 0..bucketCount - 1; bucketCount 0 is the map     *)
(* without an array.  The stored hashVal is Hash[key], which never changes,*)
(* and equality of keys is the client's equals.                            *)
(*                                                                         *)
(* A pointer to a pointer, as *prevNext_pp and the iterator have, is the   *)
(* index of a bucket or the element whose next field it points to.         *)
(*                                                                         *)
(* The parents may refuse; realloc may also work in place or move the      *)
(* element with its header.                                                *)
(*                                                                         *)
(* dict is the client's view: the keys it stored, each with the element    *)
(* the map told it is theirs.  todo are the keys its iteration has not yet *)
(* been given.                                                             *)
(***************************************************************************)
EXTENDS Integers, Sequences, SequencesExt, FiniteSets, FiniteSetsExt

CONSTANTS
    Keys,       \* keys
    Hash,       \* the hash of a key
    Blocks,     \* blocks of memory for elements
    NULL        \* the NULL pointer

ASSUME MapAssumption ==
    /\ Hash \in [Keys -> Nat]
    /\ NULL \notin Blocks
    /\ Blocks \cap Nat = {}

VARIABLES
    buckets, node, count,   \* p->buckets, the elements, p->count
    tables,                 \* how many bucket arrays are borrowed
    it,                     \* the client's iterator, or NULL
    dict, todo              \* the client's view

mapVars == <<buckets, node, count, tables, dict>>
vars == <<buckets, node, count, tables, it, dict, todo>>

InitBucketCount == 4

bucketCount == Cardinality(DOMAIN buckets)

(* The bucket of a hash, by mask, in an array of n buckets.                *)
BucketIndex(k, n) == Hash[k] % n

NoArray == [i \in {} |-> NULL]

(* The chain of the elements from pointer p.                               *)
Chain(nd, p) ==
    LET far     == Cardinality(DOMAIN nd)
        walk[i \in 0..far] ==
            IF i = 0 THEN p
            ELSE LET e == walk[i - 1] IN IF e = NULL THEN NULL ELSE nd[e].next
    IN  [i \in 1..Cardinality({j \in 0..far : walk[j] # NULL}) |-> walk[i - 1]]

(* Where in a chain rmap_get stops for key k.                              *)
Hits(chain, k) == {j \in DOMAIN chain : node[chain[j]].key = k}

(* The element with key k as rmap_get finds it.                            *)
get(k) ==
    LET chain == Chain(node, buckets[BucketIndex(k, bucketCount)])
    IN  IF bucketCount = 0 \/ Hits(chain, k) = {} THEN NULL
        ELSE chain[Min(Hits(chain, k))]

(* prevNext_pp when the walk through the chain of e has come to e.         *)
PrevNext(e) ==
    LET i     == BucketIndex(node[e].key, bucketCount)
        chain == Chain(node, buckets[i])
        at    == CHOOSE m \in DOMAIN chain : chain[m] = e
    IN  IF at = 1 THEN i ELSE chain[at - 1]

(* *pp = e, in the bucket array bs and the elements nd.                    *)
StoreInBuckets(bs, pp, e) == IF pp \in DOMAIN bs THEN [bs EXCEPT ![pp] = e] ELSE bs
StoreInNodes(nd, pp, e) ==
    IF pp \in DOMAIN nd THEN [nd EXCEPT ![pp].next = e] ELSE nd

Without(f, x) == [y \in DOMAIN f \ {x} |-> f[y]]
With(f, x, v) == [y \in DOMAIN f \cup {x} |-> IF y = x THEN v ELSE f[y]]

-----------------------------------------------------------------------------
Init ==
    /\ buckets = NoArray
    /\ node = [e \in {} |-> [next |-> NULL, key |-> NULL]]
    /\ count = 0 /\ tables = 0
    /\ it = NULL
    /\ dict = [k \in {} |-> NULL] /\ todo = {}

(* Mutant of Reinserted: the mask of the old array.                        *)
ReinsertedByOldMask(acc, e, n) ==
    LET i == BucketIndex(acc.node[e].key, bucketCount) IN
    [node    |-> [acc.node EXCEPT ![e].next = acc.buckets[i]],
     buckets |-> [acc.buckets EXCEPT ![i] = e]]

(* rehash puts each element in front of its new chain.                     *)
Reinserted(acc, e, n) ==
    LET i == BucketIndex(acc.node[e].key, n) IN
    [node    |-> [acc.node EXCEPT ![e].next = acc.buckets[i]],
     buckets |-> [acc.buckets EXCEPT ![i] = e]]

(* One turn of the outer loop of rehash: the elements of a chain.          *)
Moved(acc, chain, n) ==
    LET moved[j \in 0..Len(chain)] ==
            IF j = 0 THEN acc ELSE Reinserted(moved[j - 1], chain[j], n)
    IN  moved[Len(chain)]

Rehashed(n) ==
    LET moved[i \in 0..bucketCount] ==
            IF i = 0 THEN [node |-> node, buckets |-> [b \in 0..(n - 1) |-> NULL]]
            ELSE Moved(moved[i - 1], Chain(node, buckets[i - 1]), n)
    IN  moved[bucketCount]

(* Mutant of NeedsRehash: the array may fill up one element further.       *)
NeedsRehashLate ==
    bucketCount = 0 \/ count > bucketCount \div 2 + bucketCount \div 4

(* Also for a map without an array.                                        *)
NeedsRehash == count >= bucketCount \div 2 + bucketCount \div 4
NewBucketCount == IF bucketCount = 0 THEN InitBucketCount ELSE bucketCount * 2

(* The map as add finds it once it has room for one more element.          *)
Roomy ==
    IF NeedsRehash THEN Rehashed(NewBucketCount)
    ELSE [node |-> node, buckets |-> buckets]

(* Mutant of TablesAfter: rehash does not free the old array.              *)
TablesAfterLeak == IF NeedsRehash THEN tables + 1 ELSE tables

(* The old array is freed after the elements have moved.                   *)
TablesAfter == IF NeedsRehash /\ bucketCount = 0 THEN tables + 1 ELSE tables

(* Modifying the map outside the iterator invalidates it: the client does  *)
(* not use it again.                                                       *)
Invalidated == it' = NULL /\ todo' = {}

(* add of a key that is not in the map.                                    *)
addElem(k) ==
    LET n == Cardinality(DOMAIN Roomy.buckets)
        i == BucketIndex(k, n)
    IN
    \E e \in Blocks \ DOMAIN node :
        /\ node' = With(Roomy.node, e, [next |-> Roomy.buckets[i], key |-> k])
        /\ buckets' = [Roomy.buckets EXCEPT ![i] = e]
        /\ count' = count + 1
        /\ tables' = TablesAfter
        /\ dict' = With(dict, k, e)

(* The array grows, and then elemsRalc refuses the element.                *)
addElemRefused ==
    /\ NeedsRehash
    /\ node' = Roomy.node
    /\ buckets' = Roomy.buckets
    /\ tables' = TablesAfter
    /\ UNCHANGED <<count, dict>>

add(k) == (addElem(k) \/ addElemRefused) /\ Invalidated

(* Mutant of replaceMoved: the chain still leads to the old block.         *)
replaceMovedUnlinked(k) ==
    LET e == get(k) IN
    /\ e # NULL
    /\ \E x \in Blocks \ DOMAIN node :
          /\ node' = With(Without(node, e), x, node[e])
          /\ dict' = [dict EXCEPT ![k] = x]
    /\ Invalidated
    /\ UNCHANGED <<buckets, count, tables>>

(* rmap_set of a key in the map whose element moves: realloc moves it, or  *)
(* refuses and alloc, a copy of the header and free take its place.        *)
replaceMoved(k) ==
    LET e == get(k) IN
    /\ e # NULL
    /\ \E x \in Blocks \ DOMAIN node :
          LET nd == With(Without(node, e), x, node[e]) IN
          /\ node' = StoreInNodes(nd, PrevNext(e), x)
          /\ buckets' = StoreInBuckets(buckets, PrevNext(e), x)
          /\ dict' = [dict EXCEPT ![k] = x]
    /\ Invalidated
    /\ UNCHANGED <<count, tables>>

(* An element that is resized in place, a key that rmap_getOrAdd finds or  *)
(* rmap_remove does not, a parent that refuses at once: nothing changes.   *)
Unchanged == Invalidated /\ UNCHANGED mapVars

set(k) == replaceMoved(k) \/ (get(k) = NULL /\ add(k))

getOrAdd(k) == get(k) = NULL /\ add(k)

remove(k) ==
    LET e == get(k) IN
    /\ e # NULL
    /\ node' = Without(StoreInNodes(node, PrevNext(e), node[e].next), e)
    /\ buckets' = StoreInBuckets(buckets, PrevNext(e), node[e].next)
    /\ count' = count - 1
    /\ dict' = Without(dict, k)
    /\ Invalidated
    /\ UNCHANGED tables

Elements(p) == ToSet(Chain(node, p))
Chained == UNION {Elements(buckets[i]) : i \in DOMAIN buckets}

clear ==
    /\ bucketCount > 0
    /\ node' = [e \in DOMAIN node \ Chained |-> node[e]]
    /\ buckets' = NoArray
    /\ tables' = tables - 1
    /\ count' = 0
    /\ dict' = [k \in {} |-> NULL]
    /\ Invalidated

-----------------------------------------------------------------------------
(* The iterator.  bucketIndex is the next bucket to look at; prevNext is   *)
(* the pointer that holds next, lastPrevNext the one that holds last.      *)

getAll ==
    /\ it' = [bucketIndex |-> 0, next |-> NULL, prevNext |-> NULL,
              last |-> NULL, lastPrevNext |-> NULL]
    /\ todo' = DOMAIN dict
    /\ UNCHANGED mapVars

(* Where the loop of rmap_iterAll_next stops: at an element, or behind the *)
(* last bucket.                                                            *)
Sought ==
    LET full == {i \in DOMAIN buckets : i >= it.bucketIndex /\ buckets[i] # NULL}
        i    == IF full = {} THEN bucketCount - 1
                ELSE CHOOSE m \in full : \A n \in full : m <= n
    IN
    IF it.next # NULL \/ it.bucketIndex >= bucketCount THEN it
    ELSE [it EXCEPT !.bucketIndex = i + 1, !.next = buckets[i], !.prevNext = i]

iterAll_next ==
    /\ it # NULL /\ Sought.next # NULL
    /\ it' = [Sought EXCEPT !.next = node[Sought.next].next,
                            !.prevNext = Sought.next,
                            !.last = Sought.next,
                            !.lastPrevNext = Sought.prevNext]
    /\ todo' = todo \ {node[Sought.next].key}
    /\ UNCHANGED mapVars

iterAll_end ==
    /\ it # NULL /\ Sought.next = NULL
    /\ it' = [Sought EXCEPT !.last = NULL, !.lastPrevNext = NULL]
    /\ UNCHANGED <<mapVars, todo>>

(* Mutant of iterAll_removeElem: prevNext stays in the freed element.      *)
iterAll_removeElemStale ==
    /\ it # NULL /\ it.last # NULL
    /\ LET e == it.last IN
          /\ node' = Without(StoreInNodes(node, it.lastPrevNext, node[e].next), e)
          /\ buckets' = StoreInBuckets(buckets, it.lastPrevNext, node[e].next)
          /\ dict' = Without(dict, node[e].key)
    /\ count' = count - 1
    /\ it' = [it EXCEPT !.last = NULL, !.lastPrevNext = NULL]
    /\ UNCHANGED <<tables, todo>>

iterAll_removeElem ==
    /\ it # NULL /\ it.last # NULL
    /\ LET e == it.last IN
          /\ node' = Without(StoreInNodes(node, it.lastPrevNext, node[e].next), e)
          /\ buckets' = StoreInBuckets(buckets, it.lastPrevNext, node[e].next)
          /\ dict' = Without(dict, node[e].key)
    /\ count' = count - 1
    /\ it' = [it EXCEPT !.prevNext = it.lastPrevNext, !.last = NULL, !.lastPrevNext = NULL]
    /\ UNCHANGED <<tables, todo>>

-----------------------------------------------------------------------------
Next ==
    \/ \E k \in Keys : set(k) \/ getOrAdd(k) \/ remove(k)
    \/ Unchanged
    \/ clear
    \/ getAll
    \/ iterAll_next
    \/ iterAll_end
    \/ iterAll_removeElem

Spec == Init /\ [][Next]_vars

-----------------------------------------------------------------------------
(* Type invariant; no pointer of the map leads to a freed element.         *)
TypeOK ==
    /\ DOMAIN node \subseteq Blocks
    /\ \A e \in DOMAIN node :
          node[e].next \in DOMAIN node \cup {NULL} /\ node[e].key \in Keys
    /\ bucketCount \in Nat /\ DOMAIN buckets = 0..(bucketCount - 1)
    /\ \A i \in DOMAIN buckets : buckets[i] \in DOMAIN node \cup {NULL}
    /\ count \in Nat /\ tables \in Nat
    /\ DOMAIN dict \subseteq Keys /\ todo \subseteq Keys

(* Whatever was set, removed and rehashed, with whichever allocations      *)
(* refused in between, rmap_get finds for every key the element the map    *)
(* last gave the client for it, and no key is found that is not there.     *)
LookupsAgree ==
    \A k \in Keys : get(k) = IF k \in DOMAIN dict THEN dict[k] ELSE NULL

(* Every element is in the chain of its own bucket, once, and the map      *)
(* counts them; chains stay short, as the array is never over three        *)
(* quarters full.                                                          *)
ChainsOK ==
    /\ \A i \in DOMAIN buckets :
          /\ IsInjective(Chain(node, buckets[i]))
          /\ \A e \in Elements(buckets[i]) :
                BucketIndex(node[e].key, bucketCount) = i
    /\ count = Cardinality(Chained)
    /\ count <= bucketCount \div 2 + bucketCount \div 4

(* What is borrowed is what the map holds: the elements of the client's    *)
(* keys and one bucket array, none when it has no buckets.                 *)
BlocksLent ==
    /\ DOMAIN node = {dict[k] : k \in DOMAIN dict}
    /\ Cardinality(DOMAIN node) = Cardinality(DOMAIN dict)
    /\ tables = (IF bucketCount = 0 THEN 0 ELSE 1)

(* What a valid iterator has still to return.                              *)
Ahead ==
    Elements(it.next)
        \cup UNION {Elements(buckets[i]) : i \in {j \in DOMAIN buckets : j >= it.bucketIndex}}

(* The pointer pp holds e.                                                 *)
Holds(pp, e) ==
    \/ pp \in DOMAIN buckets /\ buckets[pp] = e
    \/ pp \in DOMAIN node /\ node[pp].next = e

(* An iterator returns every key of the map once, also when the elements   *)
(* it has returned are removed on the way, and its pointers never lead     *)
(* into an element that was freed.                                         *)
IterationComplete ==
    it # NULL =>
        /\ {node[e].key : e \in Ahead} = todo
        /\ it.last # NULL => Holds(it.lastPrevNext, it.last)
        /\ it.prevNext # NULL => Holds(it.prevNext, it.next)

=============================================================================
