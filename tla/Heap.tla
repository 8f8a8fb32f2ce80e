-------------------------------- MODULE Heap --------------------------------
(***************************************************************************)
(* What a ratlib allocator over one caller-provided buffer promises to its *)
(* client (src/rat/include/rat/ralc.h and ralcGen.h), with no word about   *)
(* how the buffer is organised.                                            *)
(*                                                                         *)
(* The client names its objects by the members of Ids.  obj[i] is what the *)
(* client was told about object i: the offset in the buffer of the pointer *)
(* it was given and the "actual size" that came with it.  Offset 0 always  *)
(* belongs to allocator metadata, so it can stand for the NULL pointer.    *)
(***************************************************************************)
EXTENDS Integers

CONSTANTS
    Ids,        \* names the client gives to its objects
    Cap,        \* length of the buffer
    Requests    \* sizes the client asks for

VARIABLE obj

Null == [at |-> 0, len |-> 0]

Span == [at : 1..Cap, len : 0..Cap]

Live(i) == obj[i] # Null

(***************************************************************************)
(* Two spans share no byte and, even when one of them is empty, they do    *)
(* not start at the same offset: live pointers are distinct.               *)
(***************************************************************************)
Apart(s, t) ==
    /\ s.at # t.at
    /\ \/ s.at + s.len <= t.at
       \/ t.at + t.len <= s.at

(***************************************************************************)
(* s is a place for object i: inside the buffer and apart from every       *)
(* other live object.                                                      *)
(***************************************************************************)
Placed(i, s) ==
    /\ s.at + s.len <= Cap
    /\ \A j \in Ids \ {i} : Live(j) => Apart(s, obj[j])

Init == obj = [i \in Ids |-> Null]

(***************************************************************************)
(* A step may give object i any place of at least n bytes; where, is the   *)
(* allocator's business.  The other objects stay as they are.              *)
(***************************************************************************)
Given(i, n) ==
    /\ obj'[i] \in Span
    /\ obj'[i].len >= n
    /\ Placed(i, obj'[i])
    /\ obj' = [obj EXCEPT ![i] = obj'[i]]

Alloc(i, n) == ~Live(i) /\ Given(i, n)

(***************************************************************************)
(* A successful realloc either resizes the object where it is or moves it. *)
(* A move is memcpy with restrict pointers: the new place must be apart    *)
(* from the old one and hold all of it.                                    *)
(***************************************************************************)
Realloc(i, n) ==
    /\ Live(i)
    /\ Given(i, n)
    /\ \/ obj'[i].at = obj[i].at
       \/ Apart(obj'[i], obj[i]) /\ obj'[i].len >= obj[i].len

Free(i) ==
    /\ Live(i)
    /\ obj' = [obj EXCEPT ![i] = Null]

Clear == obj' = [i \in Ids |-> Null]

Next ==
    \/ \E i \in Ids, n \in Requests : Alloc(i, n) \/ Realloc(i, n)
    \/ \E i \in Ids : Free(i)
    \/ Clear

Spec == Init /\ [][Next]_obj

=============================================================================
