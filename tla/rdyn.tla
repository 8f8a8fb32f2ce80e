-------------------------------- MODULE rdyn --------------------------------
(***************************************************************************)
(* The dynamic array over a parent allocator, src/rat/src/rat_rdyn.c with  *)
(* the memmoves of src/rat/src/rat_rarr.c.                                 *)
(*                                                                         *)
(* arr is the memory of the buffer, one entry per element it has room for, *)
(* so p->cap is Len(arr).  An entry nobody wrote is Junk; what a remove    *)
(* leaves behind the last element stays there, as it does in memory.       *)
(*                                                                         *)
(* The parent is any ralc_iface: realloc may resize or move the buffer, or *)
(* refuse it as the allocators that are alloc-only through the generic     *)
(* interface do (arena, pool); alloc may refuse as well; both may give     *)
(* room for more elements than asked for.                                  *)
(*                                                                         *)
(* items is the client's view: the values it wrote where, and Lost for an  *)
(* element that a setCap below count gave the code leave to drop.          *)
(***************************************************************************)
EXTENDS Integers, Sequences

CONSTANTS
    Blocks,     \* blocks of memory the parent may give
    NULL,       \* the NULL pointer
    Values,     \* element values
    Junk, Lost, \* memory nobody wrote; an element given up
    Extra,      \* how many elements more than asked for a parent may give
    MaxCount    \* bound: the client keeps no more elements than that

ASSUME DynAssumption ==
    /\ NULL \notin Blocks
    /\ {Junk, Lost} \cap Values = {} /\ Junk # Lost
    /\ Extra \subseteq Nat
    /\ MaxCount \in Nat \ {0}

VARIABLES
    buf, arr, count, allowShrink,   \* p->buf, its memory, p->count, ...
    lent,                           \* blocks borrowed from the parent
    items                           \* the client's view

vars == <<buf, arr, count, allowShrink, lent, items>>

cap == Len(arr)

Least(m, n) == IF m < n THEN m ELSE n

(* The first n entries of a in a buffer with room for size elements.       *)
Copied(a, n, size) == [i \in 1..size |-> IF i <= n THEN a[i] ELSE Junk]

-----------------------------------------------------------------------------
(* What reallocBuf may come back with, the memory of the buffer being a:   *)
(* realloc resizes it in place or moves it, and keeps what the old and the *)
(* new one have room for; or it refuses, and a new block gets the first    *)
(* copyCount elements.                                                     *)
Resized(a, size) ==
    {[at |-> p, mem |-> Copied(a, Least(cap, size), size)] :
        p \in ((Blocks \ lent) \cup {buf}) \ {NULL}}

Moved(a, size, copyCount) ==
    {[at |-> p, mem |-> Copied(a, copyCount, size)] : p \in Blocks \ lent}

reallocBuf(a, newCap, copyCount) ==
    UNION {Resized(a, newCap + more) \cup Moved(a, newCap + more, copyCount) :
              more \in Extra}

(* Mutant of Adopt: the old buffer is not given back.                      *)
AdoptLeaks(new) ==
    /\ buf' = new.at
    /\ lent' = lent \cup {new.at}

(* The new buffer takes the place of the old one.                          *)
Adopt(new) ==
    /\ buf' = new.at
    /\ lent' = (lent \ {buf}) \cup {new.at}

(* The elements after the first i, of len, move up or down by n places.    *)
rarr_insert(a, len, i, n) ==
    [j \in DOMAIN a |-> IF i + n < j /\ j <= len THEN a[j - n] ELSE a[j]]

rarr_remove(a, len, i, n) ==
    [j \in DOMAIN a |-> IF i < j /\ j <= len - n THEN a[j + n] ELSE a[j]]

(* The client writes the elements vs it was given at index i.              *)
Written(a, i, vs) ==
    [j \in DOMAIN a |-> IF j \in (i + 1)..(i + Len(vs)) THEN vs[j - i] ELSE a[j]]

-----------------------------------------------------------------------------
Init ==
    /\ buf = NULL /\ arr = <<>> /\ count = 0
    /\ allowShrink = FALSE
    /\ lent = {}
    /\ items = <<>>

(* rdyn_insert once there is room for all elements, in the memory a.       *)
Opened(a, i, vs) ==
    /\ count' = count + Len(vs)
    /\ arr' = Written(rarr_insert(a, count + Len(vs), i, Len(vs)), i, vs)
    /\ items' = SubSeq(items, 1, i) \o vs \o SubSeq(items, i + 1, Len(items))

insertFits(i, vs) ==
    /\ count + Len(vs) <= cap
    /\ Opened(arr, i, vs)
    /\ UNCHANGED <<buf, allowShrink, lent>>

(* Mutant of GrowCaps: a capacity that ignores the elements to add.        *)
GrowCapsOfCount(newCount) == {count + count \div 2, newCount}

(* grow asks for half as much again, and for just what it needs when it    *)
(* does not get that.                                                      *)
GrowCaps(newCount) == {newCount + newCount \div 2, newCount}

insertGrows(i, vs) ==
    /\ count + Len(vs) > cap
    /\ \E newCap \in GrowCaps(count + Len(vs)) : \E new \in reallocBuf(arr, newCap, count) :
          Adopt(new) /\ Opened(new.mem, i, vs)
    /\ UNCHANGED allowShrink

(* The parent refuses: insert returns NULL, setCap returns false.          *)
Refused == UNCHANGED vars

clear ==
    /\ buf' = NULL /\ arr' = <<>> /\ count' = 0
    /\ lent' = lent \ {buf}
    /\ items' = <<>>
    /\ UNCHANGED allowShrink

(* rdyn_remove.  The elements move down first; shrink comes after.         *)
Closed(i, n) == rarr_remove(arr, count, i, n)

Dropped(i, n) ==
    /\ count' = count - n
    /\ items' = SubSeq(items, 1, i) \o SubSeq(items, i + n + 1, Len(items))
    /\ UNCHANGED allowShrink

ShrinksAway(n)  == allowShrink /\ count <= n
ShrinkWanted(n) == allowShrink /\ count > n /\ count - n <= cap \div 2

(* The buffer stays, because it must, because it is full enough, or        *)
(* because the parent refuses the smaller one.                             *)
removeKeeps(i, n) ==
    /\ ~ ShrinksAway(n)
    /\ arr' = Closed(i, n)
    /\ Dropped(i, n)
    /\ UNCHANGED <<buf, lent>>

(* Mutant of removeShrinks: the buffer shrinks before the elements move.   *)
removeShrinksFirst(i, n) ==
    LET newCount == count - n IN
    /\ ShrinkWanted(n)
    /\ \E new \in reallocBuf(arr, newCount + newCount \div 3, newCount) :
          Adopt(new) /\ arr' = rarr_remove(new.mem, Least(count, Len(new.mem)), i, n)
    /\ Dropped(i, n)

removeShrinks(i, n) ==
    LET newCount == count - n IN
    /\ ShrinkWanted(n)
    /\ \E new \in reallocBuf(Closed(i, n), newCount + newCount \div 3, newCount) :
          Adopt(new) /\ arr' = new.mem
    /\ Dropped(i, n)

removeAll(n) == ShrinksAway(n) /\ clear

(* rdyn_setCap.  0 is clear; below count it drops elements, though not     *)
(* those that a larger buffer than asked for has room for.                 *)
setCap(n) ==
    \E new \in reallocBuf(arr, n, Least(count, n)) :
        /\ Adopt(new)
        /\ arr' = new.mem
        /\ count' = Least(count, Len(new.mem))
        /\ items' = [i \in 1..count' |-> IF i <= n THEN items[i] ELSE Lost]
        /\ UNCHANGED allowShrink

(* The client sets p->allowShrink.                                         *)
allow ==
    /\ allowShrink' = ~ allowShrink
    /\ UNCHANGED <<buf, arr, count, lent, items>>

(* Bound: runs of at most two elements, at most MaxCount elements.         *)
Runs == {<<v>> : v \in Values} \cup (Values \X Values)

(* rdyn_resize is insert or remove of the difference at the end of the run.*)
Next ==
    \/ \E i \in 0..count, vs \in Runs :
          /\ count + Len(vs) <= MaxCount
          /\ insertFits(i, vs) \/ insertGrows(i, vs)
    \/ Refused
    \/ \E i \in 0..count : \E n \in 0..(count - i) :
          removeKeeps(i, n) \/ removeShrinks(i, n) \/ removeAll(n)
    \/ \E n \in 1..MaxCount : setCap(n)
    \/ clear
    \/ allow

Spec == Init /\ [][Next]_vars

-----------------------------------------------------------------------------
(* Type invariant; the elements are inside the buffer.                     *)
TypeOK ==
    /\ buf \in Blocks \cup {NULL}
    /\ arr \in Seq(Values \cup {Junk})
    /\ count \in 0..cap
    /\ allowShrink \in BOOLEAN
    /\ lent \subseteq Blocks
    /\ items \in Seq(Values \cup {Lost})

(* Whatever moved the buffer, grew it or shrank it, by which of the two    *)
(* ways through the parent, every element the client wrote is where its    *)
(* insertions and removals put it.                                         *)
ContentsKept ==
    /\ Len(items) = count
    /\ \A i \in 1..count : items[i] = Lost \/ arr[i] = items[i]

(* The array borrows one block of the parent while it has capacity, and    *)
(* none otherwise: allocate-copy-free gives the old buffer back.           *)
BufferLent == lent = (IF cap = 0 THEN {} ELSE {buf})

(* Every element below count was written by the client.                    *)
NoJunk == \A i \in 1..count : arr[i] # Junk

=============================================================================
