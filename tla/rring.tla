------------------------------- MODULE rring --------------------------------
(***************************************************************************)
(* The ring buffer over caller-provided storage, src/rat/src/rat_rring.c.  *)
(*                                                                         *)
(* buf is the storage, one value per slot.  A push returns a slot with     *)
(* whatever bytes are in it; the client stores its value there before it   *)
(* does anything else, so the two are one step.  Storage the client has    *)
(* not written yet holds Garbage.                                          *)
(*                                                                         *)
(* first + count < 2 * cap does not wrap for any storage that exists:      *)
(* buffers are smaller than half the address space.                        *)
(***************************************************************************)
EXTENDS Integers, Sequences

CONSTANTS
    Values,     \* what the client stores
    Cap,        \* p->cap
    Garbage     \* what unwritten storage holds

ASSUME CapAssumption == Cap \in Nat
ASSUME GarbageAssumption == Garbage \notin Values

VARIABLES first, count, buf

vars == <<first, count, buf>>

Slots == 0..(Cap - 1)

(* An index in 0..2*cap-1 comes back into the buffer.                      *)
Wrap(index) == IF Cap <= index THEN index - Cap ELSE index

at(index) == Wrap(first + index)

(* Mutant of last: counts from one past the back.                          *)
lastOffByOne(index) == Wrap(first + count - index)

last(index) == Wrap(first + count - 1 - index)

-----------------------------------------------------------------------------
Init ==
    /\ first = 0
    /\ count = 0
    /\ buf = [s \in Slots |-> Garbage]

(* NULL when the ring is full: the client has nowhere to store v.          *)
Full == count = Cap /\ UNCHANGED vars

push(v) ==
    /\ count # Cap
    /\ buf' = [buf EXCEPT ![Wrap(first + count)] = v]
    /\ count' = count + 1
    /\ UNCHANGED first

pushFront(v) ==
    /\ count # Cap
    /\ first' = IF first # 0 THEN first - 1 ELSE Cap - 1
    /\ buf' = [buf EXCEPT ![first'] = v]
    /\ count' = count + 1

pop(n) ==
    /\ n <= count
    /\ count' = count - n
    /\ UNCHANGED <<first, buf>>

(* Mutant of popFront: the front moves on, the elements stay counted.      *)
popFrontKeepsCount(n) ==
    /\ n <= count
    /\ first' = Wrap(first + n)
    /\ UNCHANGED <<count, buf>>

popFront(n) ==
    /\ n <= count
    /\ first' = Wrap(first + n)
    /\ count' = count - n
    /\ UNCHANGED buf

clear ==
    /\ first' = 0
    /\ count' = 0
    /\ UNCHANGED buf

Next ==
    \/ \E v \in Values : push(v) \/ pushFront(v)
    \/ Full
    \/ \E n \in 0..Cap : pop(n) \/ popFront(n)
    \/ clear

Spec == Init /\ [][Next]_vars

-----------------------------------------------------------------------------
(* Type invariant.  A ring with no capacity keeps first at 0.              *)
TypeOK ==
    /\ count \in 0..Cap
    /\ first \in Slots \cup {0}
    /\ buf \in [Slots -> Values \cup {Garbage}]

(* Every element has been written by the client.                           *)
Filled == \A i \in 0..(count - 1) : buf[at(i)] \in Values

(* The inductive invariant.                                                *)
RingInv == TypeOK /\ Filled

(* The elements from front to back.                                        *)
Elems == [i \in 1..count |-> buf[at(i - 1)]]

(* However often the ring has wrapped around, and from whichever end it    *)
(* was filled, it is the double-ended queue rring.h describes.             *)
Queue == INSTANCE Deque WITH elems <- Elems
QueueSpec == Queue!Spec

(* The view from the back is the view from the front reversed, and both    *)
(* stay inside the storage: no index leads to garbage.                     *)
EndsAgree ==
    \A i \in 0..(count - 1) :
        /\ last(i) = at(count - 1 - i)
        /\ last(i) \in Slots
        /\ buf[last(i)] # Garbage

=============================================================================
