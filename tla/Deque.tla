------------------------------- MODULE Deque --------------------------------
(***************************************************************************)
(* What rring.h promises: a double-ended queue of at most Cap elements.    *)
(***************************************************************************)
EXTENDS Integers, Sequences

CONSTANTS
    Values,     \* what the client stores
    Cap         \* capacity

VARIABLE elems

Init == elems = <<>>

Push(v)      == Len(elems) < Cap /\ elems' = Append(elems, v)
PushFront(v) == Len(elems) < Cap /\ elems' = <<v>> \o elems

Pop(n)      == n <= Len(elems) /\ elems' = SubSeq(elems, 1, Len(elems) - n)
PopFront(n) == n <= Len(elems) /\ elems' = SubSeq(elems, n + 1, Len(elems))

Clear == elems' = <<>>

Next ==
    \/ \E v \in Values : Push(v) \/ PushFront(v)
    \/ \E n \in 0..Cap : Pop(n) \/ PopFront(n)
    \/ Clear

Spec == Init /\ [][Next]_elems

=============================================================================
