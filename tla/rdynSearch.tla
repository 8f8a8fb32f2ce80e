----------------------------- MODULE rdynSearch -----------------------------
(***************************************************************************)
(* The binary searches of src/rat/src/rat_rarr.c over the elements of a    *)
(* dynamic array (rdyn_binSearch and rdyn_binSearch_desc of                *)
(* src/rat/include/rat/rdyn.h), one step per turn of their loops.          *)
(*                                                                         *)
(* The client searches when the array is sorted the way the search needs,  *)
(* and does nothing else until the search returns; what it was told is     *)
(* about the array as it was then, so any change forgets it.               *)
(***************************************************************************)
EXTENDS rdyn

CONSTANT Targets        \* what is searched for

ASSUME SearchAssumption == Values \subseteq Int /\ Targets \subseteq Int

VARIABLES
    pc,                 \* "idle", "loop" while searching, "done"
    desc,               \* rarr_binSearch_desc?
    target,
    left, right,        \* the locals of the search
    out_index, found    \* its results

searchVars == <<pc, desc, target, left, right, out_index, found>>
allVars == <<vars, searchVars>>

(* Only the sign of a comparison counts (src/rat/include/rat/rcmp.h).      *)
cmp(x, y) == IF x < y THEN -1 ELSE IF x > y THEN 1 ELSE 0

(* Ascending or descending, equal elements allowed.                        *)
Sorted(d) ==
    /\ \A i \in 1..count : arr[i] \in Values
    /\ \A i, j \in 1..count : i < j => IF d THEN arr[i] >= arr[j] ELSE arr[i] <= arr[j]

SearchInit ==
    /\ Init
    /\ pc = "idle" /\ desc = FALSE /\ target = 0
    /\ left = 0 /\ right = 0
    /\ out_index = 0 /\ found = FALSE

-----------------------------------------------------------------------------
Begin(d, t) ==
    /\ pc # "loop"
    /\ Sorted(d)
    /\ pc' = "loop"
    /\ desc' = d /\ target' = t
    /\ left' = 0 /\ right' = count
    /\ out_index' = 0 /\ found' = FALSE
    /\ UNCHANGED vars

mid == left + (right - left) \div 2

(* Mutant of GoesRight: the ascending search passes equal elements.        *)
GoesRightEqual == cmp(arr[mid + 1], target) < 0 \/ cmp(arr[mid + 1], target) = 0

GoesRight ==
    IF desc THEN cmp(arr[mid + 1], target) >= 0 ELSE cmp(arr[mid + 1], target) < 0

(* Mutant of Narrowed: the middle stays in the part searched.              *)
NarrowedToMid == IF GoesRight THEN <<mid, right>> ELSE <<left, mid>>

Narrowed == IF GoesRight THEN <<mid + 1, right>> ELSE <<left, mid>>

Loop ==
    /\ pc = "loop" /\ left < right
    /\ left' = Narrowed[1] /\ right' = Narrowed[2]
    /\ UNCHANGED <<vars, pc, desc, target, out_index, found>>

Matches(i) == cmp(arr[i + 1], target) = 0

(* The ascending search looks at the first element not less, if there is   *)
(* one; the descending one at the last that is not less.                   *)
Return ==
    /\ pc = "loop" /\ ~ (left < right)
    /\ found' = IF desc THEN left > 0 /\ Matches(left - 1) ELSE left < count /\ Matches(left)
    /\ out_index' = IF desc /\ found' THEN left - 1 ELSE left
    /\ pc' = "done"
    /\ UNCHANGED <<vars, desc, target, left, right>>

(* Any call of the array, between searches.                                *)
Call ==
    /\ pc # "loop"
    /\ Next
    /\ pc' = "idle" /\ desc' = FALSE /\ target' = 0
    /\ left' = 0 /\ right' = 0
    /\ out_index' = 0 /\ found' = FALSE

SearchNext ==
    \/ \E d \in BOOLEAN, t \in Targets : Begin(d, t)
    \/ Loop
    \/ Return
    \/ Call

(* A call that has begun goes on: the thread that made it runs.            *)
SearchSpec == SearchInit /\ [][SearchNext]_allVars /\ WF_allVars(Loop) /\ WF_allVars(Return)

-----------------------------------------------------------------------------
Ahead(x) == IF desc THEN cmp(x, target) > 0 ELSE cmp(x, target) < 0

(* What rarr.h:24-29 says of a search that has returned: it found the      *)
(* target if it is there; then out_index is its leftmost match, or the     *)
(* rightmost of a descending array; otherwise it is where the target can   *)
(* be inserted.                                                            *)
SearchFinds ==
    pc = "done" =>
        /\ found <=> \E i \in 1..count : arr[i] = target
        /\ found =>
              /\ out_index \in 0..(count - 1)
              /\ arr[out_index + 1] = target
              /\ \A i \in 1..count :
                    arr[i] = target => IF desc THEN i <= out_index + 1 ELSE i >= out_index + 1
        /\ ~ found =>
              /\ out_index \in 0..count
              /\ \A i \in 1..count : Ahead(arr[i]) <=> i <= out_index

(* Every search returns.                                                   *)
SearchEnds == pc = "loop" ~> pc = "done"

=============================================================================
