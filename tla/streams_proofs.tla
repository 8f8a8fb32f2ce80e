--------------------------- MODULE streams_proofs ---------------------------
(***************************************************************************)
(* The components that take in a stream of values: the ring buffer is a    *)
(* double-ended queue, for every capacity; a hash is the SipHash of the    *)
(* bytes it took in however they were cut, for every size of words and     *)
(* whatever the rounds are; and a CRC is the remainder of its stream, for  *)
(* every algorithm, size of byte and width of uintmax_t.                   *)
(***************************************************************************)
EXTENDS rring, digests, SequenceTheorems, Lemmas, TLAPS

Stored == Values \cup {Garbage}

(***************************************************************************)
(* Wrap is onto the slots, and no two of cap consecutive indices share one.*)
(***************************************************************************)
LEMMA WrapSlots ==
    ASSUME NEW f \in Slots, NEW i \in 0..(Cap - 1)
    PROVE  Wrap(f + i) \in Slots
  BY CapAssumption DEF Slots, Wrap

LEMMA WrapInjective ==
    ASSUME NEW f \in Slots, NEW i \in 0..(Cap - 1), NEW j \in 0..(Cap - 1), i # j
    PROVE  Wrap(f + i) # Wrap(f + j)
  BY CapAssumption DEF Slots, Wrap

(* The elements of a ring with storage b, first f and count c.             *)
ElemsOf(b, f, c) == [i \in 1..c |-> b[Wrap(f + (i - 1))]]

(* A ring that holds elements has a first slot.                            *)
LEMMA FirstSlot ==
    ASSUME TypeOK, Cap > 0
    PROVE  first \in Slots
  BY CapAssumption DEF TypeOK, Slots

LEMMA ElemsSeq ==
    ASSUME NEW b \in [Slots -> Stored], NEW c \in 0..Cap, NEW f,
           Cap > 0 => f \in Slots
    PROVE  /\ ElemsOf(b, f, c) \in Seq(Stored)
           /\ Len(ElemsOf(b, f, c)) = c
           /\ \A i \in 1..c : ElemsOf(b, f, c)[i] = b[Wrap(f + (i - 1))]
<1>1. c \in Nat
  BY CapAssumption
<1>2. ASSUME NEW i \in 1..c
      PROVE  b[Wrap(f + (i - 1))] \in Stored
  <2>1. i - 1 \in 0..(Cap - 1) /\ Cap > 0
    BY <1>1, CapAssumption
  <2> QED
    BY <2>1, WrapSlots
<1>3. ElemsOf(b, f, c) \in [1..c -> Stored]
  BY <1>2 DEF ElemsOf
<1> QED
  BY <1>1, <1>3 DEF ElemsOf

(***************************************************************************)
(* RingInv is inductive.                                                   *)
(***************************************************************************)
LEMMA PushKeeps ==
    ASSUME RingInv, NEW v \in Values, push(v)
    PROVE  RingInv'
<1>1. count \in 0..Cap /\ count # Cap /\ count' = count + 1 /\ first' = first
  BY DEF RingInv, TypeOK, push
<1>2. Cap > 0 /\ first \in Slots /\ count \in 0..(Cap - 1)
  BY <1>1, CapAssumption, FirstSlot DEF RingInv
<1>3. buf' = [buf EXCEPT ![Wrap(first + count)] = v] /\ buf \in [Slots -> Stored]
  BY DEF push, RingInv, TypeOK, Stored
<1>4. TypeOK'
  <2>1. count' \in 0..Cap /\ first' \in Slots
    BY <1>1, <1>2, CapAssumption
  <2>2. buf' \in [Slots -> Stored]
    BY <1>3 DEF Stored
  <2> QED
    BY <2>1, <2>2 DEF TypeOK, Stored
<1>5. ASSUME NEW i \in 0..(count' - 1)
      PROVE  buf'[Wrap(first + i)] \in Values
  <2>1. i \in 0..(Cap - 1) /\ Wrap(first + i) \in Slots
    BY <1>1, <1>2, CapAssumption, WrapSlots
  <2>2. CASE i = count
    BY <2>1, <2>2, <1>3
  <2>3. CASE i # count
    <3>1. Wrap(first + i) # Wrap(first + count)
      BY <2>1, <2>3, <1>2, WrapInjective
    <3>2. buf[Wrap(first + i)] \in Values
      BY <2>3, <1>1, <1>2 DEF RingInv, Filled, at
    <3> QED
      BY <3>1, <3>2, <2>1, <1>3
  <2> QED
    BY <2>2, <2>3
<1> QED
  BY <1>1, <1>4, <1>5 DEF RingInv, Filled, at

LEMMA PushFrontKeeps ==
    ASSUME RingInv, NEW v \in Values, pushFront(v)
    PROVE  /\ RingInv'
           /\ \A i \in 1..count : Wrap(first' + i) = Wrap(first + (i - 1))
           /\ Wrap(first' + 0) = first' /\ first' \in Slots
<1>1. count \in 0..Cap /\ count # Cap /\ count' = count + 1
  BY DEF RingInv, TypeOK, pushFront
<1>2. Cap > 0 /\ first \in Slots /\ count \in 0..(Cap - 1)
  BY <1>1, CapAssumption, FirstSlot DEF RingInv
<1>3. first' = (IF first # 0 THEN first - 1 ELSE Cap - 1)
  BY DEF pushFront
<1>4. buf' = [buf EXCEPT ![first'] = v] /\ buf \in [Slots -> Stored]
  BY DEF pushFront, RingInv, TypeOK, Stored
<1>5. first' \in Slots /\ Wrap(first' + 0) = first'
  BY <1>2, <1>3, CapAssumption DEF Slots, Wrap
<1>6. \A i \in 1..count : Wrap(first' + i) = Wrap(first + (i - 1))
  BY <1>2, <1>3, CapAssumption DEF Slots, Wrap
<1>7. TypeOK'
  BY <1>1, <1>4, <1>5, CapAssumption DEF TypeOK, Stored
<1>8. ASSUME NEW i \in 0..(count' - 1)
      PROVE  buf'[Wrap(first' + i)] \in Values
  <2>1. i \in 0..(Cap - 1) /\ i \in 0..count
    BY <1>1, <1>2, CapAssumption
  <2>2. CASE i = 0
    BY <2>2, <1>4, <1>5
  <2>3. CASE i # 0
    <3>1. Wrap(first' + i) # Wrap(first' + 0)
      <4>1. 0 \in 0..(Cap - 1)
        BY <1>2, CapAssumption
      <4> QED
        BY <4>1, <2>1, <2>3, <1>5, WrapInjective
    <3>2. i \in 1..count /\ i - 1 \in 0..(count - 1) /\ Wrap(first + (i - 1)) \in Slots
      <4>1. i \in 1..count /\ i - 1 \in 0..(count - 1) /\ i - 1 \in 0..(Cap - 1)
        BY <2>1, <2>3, <1>1, CapAssumption
      <4> QED
        BY <4>1, <1>2, WrapSlots
    <3>3. buf[Wrap(first + (i - 1))] \in Values
      BY <3>2 DEF RingInv, Filled, at
    <3> QED
      BY <3>1, <3>2, <3>3, <1>4, <1>5, <1>6
  <2> QED
    BY <2>2, <2>3
<1> QED
  BY <1>5, <1>6, <1>7, <1>8 DEF RingInv, Filled, at

LEMMA PopFrontKeeps ==
    ASSUME RingInv, NEW n \in 0..Cap, popFront(n)
    PROVE  /\ RingInv'
           /\ \A i \in 0..(count' - 1) : Wrap(first' + i) = Wrap(first + (i + n))
<1>1. /\ count \in 0..Cap /\ n <= count /\ count' = count - n /\ buf' = buf
      /\ first' = Wrap(first + n) /\ first \in Slots \cup {0}
  BY DEF RingInv, TypeOK, popFront
<1>2. first' \in Slots \cup {0}
  BY <1>1, CapAssumption DEF Slots, Wrap
<1>3. TypeOK'
  BY <1>1, <1>2, CapAssumption DEF RingInv, TypeOK
<1>4. \A i \in 0..(count' - 1) : Wrap(first' + i) = Wrap(first + (i + n))
  BY <1>1, CapAssumption DEF Slots, Wrap
<1>5. ASSUME NEW i \in 0..(count' - 1)
      PROVE  buf[Wrap(first + (i + n))] \in Values
  <2>1. i + n \in 0..(count - 1)
    BY <1>1, CapAssumption
  <2> QED
    BY <2>1 DEF RingInv, Filled, at
<1> QED
  BY <1>1, <1>3, <1>4, <1>5 DEF RingInv, Filled, at

LEMMA PopKeeps ==
    ASSUME RingInv, NEW n \in 0..Cap, pop(n)
    PROVE  RingInv'
<1>1. /\ count \in 0..Cap /\ n <= count /\ count' = count - n
      /\ buf' = buf /\ first' = first
  BY DEF RingInv, TypeOK, pop
<1>2. count' \in 0..Cap /\ \A i \in 0..(count' - 1) : i \in 0..(count - 1)
  BY <1>1, CapAssumption
<1> QED
  BY <1>1, <1>2 DEF RingInv, TypeOK, Filled, at

LEMMA ClearKeeps ==
    ASSUME RingInv, clear
    PROVE  RingInv'
<1>1. count' = 0 /\ first' = 0 /\ buf' = buf
  BY DEF clear
<1> QED
  BY <1>1, CapAssumption DEF RingInv, TypeOK, Filled

LEMMA InitInv ==
    ASSUME Init
    PROVE  RingInv
  BY CapAssumption DEF Init, RingInv, TypeOK, Filled

LEMMA StutterKeeps ==
    ASSUME RingInv, UNCHANGED vars
    PROVE  RingInv'
  BY DEF vars, RingInv, TypeOK, Filled, at

(***************************************************************************)
(* Every call keeps first and count in range and the elements written.     *)
(***************************************************************************)
THEOREM RingInvHolds == Spec => []RingInv
<1>1. Init => RingInv
  BY InitInv
<1>2. RingInv /\ [Next]_vars => RingInv'
  BY PushKeeps, PushFrontKeeps, PopKeeps, PopFrontKeeps, ClearKeeps, StutterKeeps
  DEF Next, Full
<1> QED
  BY <1>1, <1>2, PTL DEF Spec

(* first stays inside the storage and count within the capacity.           *)
THEOREM TypeOKHolds == Spec => []TypeOK
<1>1. RingInv => TypeOK
  BY DEF RingInv
<1> QED
  BY <1>1, RingInvHolds, PTL

(***************************************************************************)
(* rring_last counts the same elements as rring_at, from the other end.    *)
(***************************************************************************)
THEOREM EndsAgreeHolds == Spec => []EndsAgree
<1>1. ASSUME RingInv
      PROVE  EndsAgree
  <2>1. SUFFICES ASSUME NEW i \in 0..(count - 1)
                 PROVE  /\ last(i) = at(count - 1 - i)
                        /\ last(i) \in Slots
                        /\ buf[last(i)] # Garbage
    BY DEF EndsAgree
  <2>2. count \in 0..Cap /\ count > 0 /\ Cap > 0
    BY <1>1, CapAssumption DEF RingInv, TypeOK
  <2>3. first \in Slots
    BY <1>1, <2>2, FirstSlot DEF RingInv
  <2> DEFINE j == count - 1 - i
  <2>4. j \in 0..(Cap - 1) /\ j \in 0..(count - 1)
    BY <2>2, CapAssumption
  <2>5. first + count - 1 - i = first + j
    BY <2>2, <2>3, CapAssumption DEF Slots
  <2>6. last(i) = at(j)
    BY <2>5 DEF last, at
  <2>7. at(j) \in Slots /\ buf[at(j)] \in Values
    BY <1>1, <2>3, <2>4, WrapSlots DEF at, RingInv, Filled
  <2> QED
    BY <2>6, <2>7, GarbageAssumption
<1>2. RingInv => EndsAgree
  BY <1>1
<1> QED
  BY <1>2, RingInvHolds, PTL

-----------------------------------------------------------------------------
(* Elems in terms of ElemsOf.                                              *)
LEMMA ElemsIs ==
    /\ Elems = ElemsOf(buf, first, count)
    /\ Elems' = ElemsOf(buf', first', count')
  BY DEF Elems, ElemsOf, at

(* The elements of a ring that satisfies the invariant.                    *)
LEMMA ElemsFacts ==
    ASSUME RingInv
    PROVE  /\ Elems \in Seq(Stored) /\ Len(Elems) = count
           /\ \A i \in 1..count : Elems[i] = buf[Wrap(first + (i - 1))]
           /\ count \in 0..Cap /\ count \in Nat
<1>1. buf \in [Slots -> Stored] /\ count \in 0..Cap /\ (Cap > 0 => first \in Slots)
  BY FirstSlot DEF RingInv, TypeOK, Stored
<1> QED
  BY <1>1, CapAssumption, ElemsSeq, ElemsIs

LEMMA ElemsFactsNext ==
    ASSUME RingInv'
    PROVE  /\ Elems' \in Seq(Stored) /\ Len(Elems') = count'
           /\ \A i \in 1..count' : Elems'[i] = buf'[Wrap(first' + (i - 1))]
           /\ count' \in 0..Cap /\ count' \in Nat
<1>1. buf' \in [Slots -> Stored] /\ count' \in 0..Cap /\ (Cap > 0 => first' \in Slots)
  BY CapAssumption DEF RingInv, TypeOK, Stored, Slots
<1> QED
  BY <1>1, CapAssumption, ElemsSeq, ElemsIs

LEMMA PushQueues ==
    ASSUME RingInv, NEW v \in Values, push(v)
    PROVE  Queue!Push(v)
<1>1. /\ Elems \in Seq(Stored) /\ Len(Elems) = count /\ count \in 0..Cap /\ count \in Nat
      /\ \A i \in 1..count : Elems[i] = buf[Wrap(first + (i - 1))]
  BY ElemsFacts
<1>2. /\ Elems' \in Seq(Stored) /\ Len(Elems') = count'
      /\ \A i \in 1..count' : Elems'[i] = buf'[Wrap(first' + (i - 1))]
  BY PushKeeps, ElemsFactsNext
<1>3. /\ count # Cap /\ count' = count + 1 /\ first' = first
      /\ buf' = [buf EXCEPT ![Wrap(first + count)] = v] /\ buf \in [Slots -> Stored]
  BY DEF push, RingInv, TypeOK, Stored
<1>4. count \in 0..(Cap - 1) /\ first \in Slots
  BY <1>1, <1>3, CapAssumption, FirstSlot DEF RingInv
<1>5. /\ Append(Elems, v) \in Seq(Stored) /\ Len(Append(Elems, v)) = count + 1
      /\ \A i \in 1..count : Append(Elems, v)[i] = Elems[i]
      /\ Append(Elems, v)[count + 1] = v
  BY <1>1, AppendProperties DEF Stored
<1>6. ASSUME NEW i \in 1..(count + 1)
      PROVE  Elems'[i] = Append(Elems, v)[i]
  <2>1. i - 1 \in 0..(Cap - 1) /\ i - 1 \in 0..count
    BY <1>1, <1>4, CapAssumption
  <2>2. Elems'[i] = buf'[Wrap(first + (i - 1))] /\ Wrap(first + (i - 1)) \in Slots
    BY <2>1, <1>2, <1>3, <1>4, WrapSlots
  <2>3. CASE i = count + 1
    <3>1. i - 1 = count
      BY <2>3, <1>1
    <3> QED
      BY <3>1, <2>2, <2>3, <1>3, <1>5
  <2>4. CASE i # count + 1
    <3>1. i \in 1..count /\ i - 1 # count
      BY <2>4, <1>1
    <3>2. Wrap(first + (i - 1)) # Wrap(first + count)
      BY <3>1, <2>1, <1>4, WrapInjective
    <3> QED
      BY <3>1, <3>2, <2>2, <1>1, <1>3, <1>5
  <2> QED
    BY <2>3, <2>4
<1>7. Elems' = Append(Elems, v)
  BY <1>2, <1>3, <1>5, <1>6, SeqEqual
<1>8. Len(Elems) < Cap
  BY <1>1, <1>3, CapAssumption
<1> QED
  BY <1>7, <1>8 DEF Queue!Push

LEMMA PushFrontQueues ==
    ASSUME RingInv, NEW v \in Values, pushFront(v)
    PROVE  Queue!PushFront(v)
<1>1. /\ Elems \in Seq(Stored) /\ Len(Elems) = count /\ count \in 0..Cap /\ count \in Nat
      /\ \A i \in 1..count : Elems[i] = buf[Wrap(first + (i - 1))]
  BY ElemsFacts
<1>2. /\ Elems' \in Seq(Stored) /\ Len(Elems') = count'
      /\ \A i \in 1..count' : Elems'[i] = buf'[Wrap(first' + (i - 1))]
  BY PushFrontKeeps, ElemsFactsNext
<1>3. /\ count # Cap /\ count' = count + 1
      /\ buf' = [buf EXCEPT ![first'] = v] /\ buf \in [Slots -> Stored]
  BY DEF pushFront, RingInv, TypeOK, Stored
<1>4. /\ \A i \in 1..count : Wrap(first' + i) = Wrap(first + (i - 1))
      /\ Wrap(first' + 0) = first' /\ first' \in Slots
  BY PushFrontKeeps
<1>5. count \in 0..(Cap - 1) /\ first' \in Int
  BY <1>1, <1>3, <1>4, CapAssumption DEF Slots
<1> DEFINE t == <<v>> \o Elems
<1>6. <<v>> \in Seq(Stored) /\ Len(<<v>>) = 1 /\ <<v>>[1] = v
  BY DEF Stored
<1>7. /\ t \in Seq(Stored) /\ Len(t) = 1 + count
      /\ \A i \in 1..(1 + count) : t[i] = IF i <= 1 THEN <<v>>[i] ELSE Elems[i - 1]
  BY <1>1, <1>6, ConcatProperties
<1> HIDE DEF t
<1>8. ASSUME NEW i \in 1..(count + 1)
      PROVE  Elems'[i] = t[i]
  <2>1. i - 1 \in 0..(Cap - 1) /\ i - 1 \in 0..count
    BY <1>1, <1>5, CapAssumption
  <2>2. Elems'[i] = buf'[Wrap(first' + (i - 1))] /\ Wrap(first' + (i - 1)) \in Slots
    BY <2>1, <1>2, <1>3, <1>4, WrapSlots
  <2>3. CASE i = 1
    <3>1. i - 1 = 0
      BY <2>3
    <3>2. Elems'[i] = v
      BY <3>1, <2>2, <1>3, <1>4
    <3>3. t[i] = v
      BY <2>3, <1>1, <1>6, <1>7
    <3> QED
      BY <3>2, <3>3
  <2>4. CASE i # 1
    <3>1. i - 1 \in 1..count /\ i - 1 # 0 /\ 0 \in 0..(Cap - 1) /\ 1 + count = count + 1
      BY <2>4, <1>1, <1>5, CapAssumption
    <3>2. Wrap(first' + (i - 1)) # Wrap(first' + 0)
      BY <3>1, <2>1, <1>4, WrapInjective
    <3>3. Elems'[i] = buf[Wrap(first + ((i - 1) - 1))]
      BY <3>1, <3>2, <2>2, <1>3, <1>4
    <3>4. t[i] = Elems[i - 1]
      BY <3>1, <2>4, <1>1, <1>7
    <3> QED
      BY <3>1, <3>3, <3>4, <1>1
  <2> QED
    BY <2>3, <2>4
<1>9. Elems' = t
  BY <1>1, <1>2, <1>3, <1>7, <1>8, SeqEqual
<1>10. Len(Elems) < Cap
  BY <1>1, <1>3, CapAssumption
<1> QED
  BY <1>9, <1>10 DEF Queue!PushFront, t

LEMMA PopQueues ==
    ASSUME RingInv, NEW n \in 0..Cap, pop(n)
    PROVE  Queue!Pop(n)
<1>1. /\ Elems \in Seq(Stored) /\ Len(Elems) = count /\ count \in 0..Cap /\ count \in Nat
      /\ \A i \in 1..count : Elems[i] = buf[Wrap(first + (i - 1))]
  BY ElemsFacts
<1>2. /\ Elems' \in Seq(Stored) /\ Len(Elems') = count'
      /\ \A i \in 1..count' : Elems'[i] = buf'[Wrap(first' + (i - 1))]
  BY PopKeeps, ElemsFactsNext
<1>3. n <= count /\ count' = count - n /\ first' = first /\ buf' = buf
  BY DEF pop
<1>4. \A i \in 1..(count - n) : i \in 1..count /\ Elems[i] \in Stored
  BY <1>1, <1>3, CapAssumption, LenProperties
<1> DEFINE t == SubSeq(Elems, 1, count - n)
<1>5. /\ t \in Seq(Stored) /\ Len(t) = count - n
      /\ \A i \in 1..(count - n) : t[i] = Elems[i]
  BY <1>1, <1>3, <1>4, CapAssumption, SubSeqProperties
<1> HIDE DEF t
<1>6. Elems' = t
  BY <1>1, <1>2, <1>3, <1>4, <1>5, SeqEqual
<1> QED
  BY <1>1, <1>3, <1>6 DEF Queue!Pop, t

LEMMA PopFrontQueues ==
    ASSUME RingInv, NEW n \in 0..Cap, popFront(n)
    PROVE  Queue!PopFront(n)
<1>1. /\ Elems \in Seq(Stored) /\ Len(Elems) = count /\ count \in 0..Cap /\ count \in Nat
      /\ \A i \in 1..count : Elems[i] = buf[Wrap(first + (i - 1))]
  BY ElemsFacts
<1>2. /\ Elems' \in Seq(Stored) /\ Len(Elems') = count'
      /\ \A i \in 1..count' : Elems'[i] = buf'[Wrap(first' + (i - 1))]
  BY PopFrontKeeps, ElemsFactsNext
<1>3. /\ n <= count /\ count' = count - n /\ buf' = buf /\ n \in Nat
      /\ \A i \in 0..(count' - 1) : Wrap(first' + i) = Wrap(first + (i + n))
  BY CapAssumption, PopFrontKeeps DEF popFront
<1>4. \A i \in (n + 1)..count : i \in 1..count /\ Elems[i] \in Stored
  BY <1>1, <1>3, LenProperties
<1> DEFINE t == SubSeq(Elems, n + 1, count)
<1>5. /\ t \in Seq(Stored) /\ Len(t) = count - n
      /\ \A i \in 1..(count - n) : t[i] = Elems[n + i]
  BY <1>1, <1>3, <1>4, SubSeqProperties
<1> HIDE DEF t
<1>6. ASSUME NEW i \in 1..(count - n)
      PROVE  Elems'[i] = t[i]
  <2>1. i - 1 \in 0..(count' - 1) /\ n + i \in 1..count /\ (i - 1) + n = (n + i) - 1
    BY <1>1, <1>3
  <2>2. Elems'[i] = buf[Wrap(first' + (i - 1))]
    BY <1>2, <1>3
  <2>3. Wrap(first' + (i - 1)) = Wrap(first + ((n + i) - 1))
    BY <2>1, <1>3
  <2> QED
    BY <2>1, <2>2, <2>3, <1>1, <1>5
<1>7. Elems' = t
  BY <1>2, <1>3, <1>5, <1>6, SeqEqual
<1> QED
  BY <1>1, <1>3, <1>7 DEF Queue!PopFront, t

LEMMA EmptyQueue ==
    ASSUME RingInv, count = 0
    PROVE  Elems = <<>>
  BY ElemsFacts, EmptySeq

LEMMA ClearQueues ==
    ASSUME RingInv, clear
    PROVE  Queue!Clear
<1>1. Elems' \in Seq(Stored) /\ Len(Elems') = count'
  BY ClearKeeps, ElemsFactsNext
<1>2. Elems' = <<>>
  BY <1>1, EmptySeq DEF clear
<1> QED
  BY <1>2 DEF Queue!Clear

(***************************************************************************)
(* The ring buffer implements the double-ended queue.                      *)
(***************************************************************************)
THEOREM QueueHolds == Spec => QueueSpec
<1>1. Init => Queue!Init
  <2>1. Init => RingInv /\ count = 0
    BY InitInv DEF Init
  <2> QED
    BY <2>1, EmptyQueue DEF Queue!Init
<1>2. ASSUME RingInv, [Next]_vars
      PROVE  [Queue!Next]_Elems
  <2>1. CASE \E v \in Values : push(v) \/ pushFront(v)
    BY <2>1, <1>2, PushQueues, PushFrontQueues DEF Queue!Next
  <2>2. CASE \E n \in 0..Cap : pop(n) \/ popFront(n)
    BY <2>2, <1>2, PopQueues, PopFrontQueues DEF Queue!Next
  <2>3. CASE clear
    BY <2>3, <1>2, ClearQueues DEF Queue!Next
  <2>4. CASE UNCHANGED vars
    BY <2>4 DEF vars, Elems, at
  <2> QED
    BY <1>2, <2>1, <2>2, <2>3, <2>4 DEF Next, Full
<1> QED
  BY <1>1, <1>2, RingInvHolds, PTL DEF Spec, QueueSpec, Queue!Spec

-----------------------------------------------------------------------------
(***************************************************************************)
(* Folding a list into the state of a digest of kind k, from the left: of  *)
(* words into a hash, of bytes into a CRC.  IsRun: what FoldLeft recurs    *)
(* to, on the sets of indices up to n.                                     *)
(***************************************************************************)
IsList(s, n) == n \in Nat /\ s = [i \in 1..n |-> s[i]]

Taken(k, v, x) == IF k = "hash" THEN Compressed(v, x) ELSE rcrc_addByte(v, x)

IsRun(k, h, v, s, n) ==
    h = [t \in SUBSET (1..n) |->
            IF t = {} THEN v ELSE Taken(k, h[t \ {Max(t)}], s[Max(t)])]

Fold(v, s) == FoldLeft(Compressed, v, s)

LEMMA FoldIs ==
    ASSUME NEW v, NEW n, NEW s, IsList(s, n)
    PROVE  Fold(v, s) = (CHOOSE h : IsRun("hash", h, v, s, n))[1..n]
<1>1. DOMAIN s = 1..n
  BY DEF IsList
<1> DEFINE R(h) == h = [t \in SUBSET (1..n) |->
                          IF t = {} THEN v ELSE Compressed(h[t \ {Max(t)}], s[Max(t)])]
<1>2. \A h : R(h) <=> IsRun("hash", h, v, s, n)
  BY DEF IsRun, Taken
<1>3. Fold(v, s) = (CHOOSE h : R(h))[1..n]
  BY <1>1 DEF Fold, FoldLeft, MapThenFoldSet
<1> HIDE DEF R
<1>4. (CHOOSE h : R(h)) = CHOOSE h : IsRun("hash", h, v, s, n)
  BY <1>2, Zenon
<1> QED
  BY <1>3, <1>4

LEMMA RunExists ==
    ASSUME NEW kd, NEW v, NEW s, NEW n \in Nat
    PROVE  \E h : IsRun(kd, h, v, s, n)
<1> DEFINE T == {m \in Nat : ~ \E h : IsRun(kd, h, v, s, m)}
<1> SUFFICES ASSUME n \in T PROVE FALSE
  OBVIOUS
<1>1. PICK m \in T : \A k \in T : m <= k
  <2>1. T \in SUBSET Nat /\ T # {}
    OBVIOUS
  <2> HIDE DEF T
  <2> QED
    BY <2>1, LeastOf
<1>2. CASE m = 0
  <2> DEFINE h == [t \in SUBSET (1..0) |-> v]
  <2>1. \A t \in SUBSET (1..0) : t = {}
    OBVIOUS
  <2>2. IsRun(kd, h, v, s, 0)
    BY <2>1 DEF IsRun
  <2> QED
    BY <1>1, <1>2, <2>2
<1>3. CASE m # 0
  <2>1. m - 1 \in Nat /\ ~ (m <= m - 1) /\ m \in Nat
    BY <1>1, <1>3
  <2>2. PICK h : IsRun(kd, h, v, s, m - 1)
    BY <1>1, <2>1
  <2> DEFINE g == [t \in SUBSET (1..m) |->
                      IF t = {} THEN v ELSE Taken(kd, h[t \ {Max(t)}], s[Max(t)])]
  <2>3. ASSUME NEW t \in SUBSET (1..m), t # {}
        PROVE  t \ {Max(t)} \in SUBSET (1..(m - 1))
    <3>1. Max(t) \in t /\ \A i \in t : i <= Max(t)
      BY <2>1, <2>3, GreatestIs
    <3> DEFINE x == Max(t)
    <3>2. x \in 1..m /\ \A i \in t : i \in 1..m /\ i <= x
      BY <3>1
    <3> HIDE DEF x
    <3>3. ASSUME NEW i \in t, i # x PROVE i \in 1..(m - 1)
      BY <2>1, <3>2, <3>3
    <3> QED
      BY <3>3 DEF x
  <2>4. ASSUME NEW t \in SUBSET (1..(m - 1))
        PROVE  g[t] = h[t]
    <3>1. t \in SUBSET (1..m)
      BY <2>1
    <3> QED
      BY <3>1, <2>2 DEF IsRun
  <2>5. \A t \in SUBSET (1..m) :
            g[t] = IF t = {} THEN v ELSE Taken(kd, g[t \ {Max(t)}], s[Max(t)])
    BY <2>3, <2>4
  <2>6. g = [t \in SUBSET (1..m) |-> g[t]]
    OBVIOUS
  <2>7. IsRun(kd, g, v, s, m)
    <3> HIDE DEF g
    <3> QED
      BY <2>5, <2>6 DEF IsRun
  <2> QED
    BY <1>1, <2>7
<1> QED
  BY <1>2, <1>3

LEMMA RunStep ==
    ASSUME NEW kd, NEW v, NEW s, NEW n \in Nat, NEW h, IsRun(kd, h, v, s, n)
    PROVE  /\ h[1..0] = v
           /\ \A k \in 1..n : h[1..k] = Taken(kd, h[1..(k - 1)], s[k])
<1>1. h[1..0] = v
  <2>1. 1..0 = {} /\ {} \in SUBSET (1..n)
    OBVIOUS
  <2> QED
    BY <2>1 DEF IsRun
<1>2. ASSUME NEW k \in 1..n
      PROVE  h[1..k] = Taken(kd, h[1..(k - 1)], s[k])
  <2>1. k \in Nat /\ k \in 1..k /\ 1..k \in SUBSET (1..n) /\ 1..k # {}
    OBVIOUS
  <2>2. Max(1..k) \in 1..k /\ \A i \in 1..k : i <= Max(1..k)
    BY <2>1, GreatestIs
  <2>3. Max(1..k) = k
    BY <2>1, <2>2
  <2>4. (1..k) \ {k} = 1..(k - 1)
    BY <2>1
  <2>5. h[1..k] = Taken(kd, h[(1..k) \ {Max(1..k)}], s[Max(1..k)])
    BY <2>1 DEF IsRun
  <2> QED
    BY <2>3, <2>4, <2>5
<1> QED
  BY <1>1, <1>2

(* The k-th word takes h[1..(k - 1)] to h[1..k].                            *)
WordByWord(h, v, s, n) ==
    /\ h[1..0] = v
    /\ \A k \in 1..n : h[1..k] = Compressed(h[1..(k - 1)], s[k])

LEMMA WordStep ==
    ASSUME NEW v, NEW s, NEW n \in Nat, NEW h, IsRun("hash", h, v, s, n)
    PROVE  WordByWord(h, v, s, n)
<1> DEFINE kd == "hash"
<1>1. IsRun(kd, h, v, s, n)
  OBVIOUS
<1> HIDE DEF kd
<1>2. h[1..0] = v /\ \A k \in 1..n : h[1..k] = Taken(kd, h[1..(k - 1)], s[k])
  BY <1>1, RunStep
<1> QED
  BY <1>2 DEF Taken, WordByWord, kd

LEMMA FoldEmpty ==
    ASSUME NEW v, NEW s, IsList(s, 0)
    PROVE  Fold(v, s) = v
<1> DEFINE h == CHOOSE h : IsRun("hash", h, v, s, 0)
<1>1. IsRun("hash", h, v, s, 0)
  BY RunExists
<1>2. Fold(v, s) = h[1..0]
  BY FoldIs
<1> HIDE DEF h
<1>3. WordByWord(h, v, s, 0)
  BY <1>1, WordStep
<1> QED
  BY <1>2, <1>3 DEF WordByWord

(* The last word comes last.                                               *)
LEMMA FoldLast ==
    ASSUME NEW v, NEW n, NEW s, IsList(s, n + 1), NEW t, IsList(t, n), \A i \in 1..n : t[i] = s[i]
    PROVE  Fold(v, s) = Compressed(Fold(v, t), s[n + 1])
<1> DEFINE h == CHOOSE f : IsRun("hash", f, v, s, n + 1)
           g == CHOOSE f : IsRun("hash", f, v, t, n)
<1>1. n \in Nat /\ n + 1 \in Nat
  BY DEF IsList
<1>2. IsRun("hash", h, v, s, n + 1) /\ IsRun("hash", g, v, t, n)
  BY <1>1, RunExists
<1>3. Fold(v, s) = h[1..(n + 1)] /\ Fold(v, t) = g[1..n]
  BY FoldIs
<1> HIDE DEF h, g
<1>4. /\ h[1..0] = v /\ \A k \in 1..(n + 1) : h[1..k] = Compressed(h[1..(k - 1)], s[k])
      /\ g[1..0] = v /\ \A k \in 1..n : g[1..k] = Compressed(g[1..(k - 1)], t[k])
  <2>1. WordByWord(h, v, s, n + 1)
    BY <1>1, <1>2, WordStep
  <2>2. WordByWord(g, v, t, n)
    BY <1>1, <1>2, WordStep
  <2> QED
    BY <2>1, <2>2 DEF WordByWord
<1> DEFINE T == {k \in Nat : k <= n /\ h[1..k] # g[1..k]}
<1>5. T = {}
  <2> SUFFICES ASSUME T # {} PROVE FALSE
    OBVIOUS
  <2>1. PICK k \in T : \A j \in T : k <= j
    <3>1. T \in SUBSET Nat
      OBVIOUS
    <3> HIDE DEF T
    <3> QED
      BY <3>1, LeastOf
  <2>2. k # 0 /\ k \in Nat /\ k <= n
    BY <1>4, <2>1
  <2>3. k - 1 \in Nat /\ k - 1 <= n /\ ~ (k <= k - 1) /\ k \in 1..n /\ k \in 1..(n + 1)
    BY <1>1, <2>2
  <2>4. h[1..(k - 1)] = g[1..(k - 1)]
    BY <2>1, <2>3
  <2>5. h[1..k] = g[1..k]
    BY <1>4, <2>3, <2>4
  <2> QED
    BY <2>1, <2>5
<1>6. h[1..n] = g[1..n]
  BY <1>1, <1>5
<1>7. n + 1 \in 1..(n + 1) /\ (n + 1) - 1 = n
  BY <1>1
<1> QED
  BY <1>3, <1>4, <1>6, <1>7

(* Two lists in a row.                                                     *)
LEMMA FoldConcat ==
    ASSUME NEW v, NEW m \in Nat, NEW n \in Nat, NEW k, k = m + n,
           NEW a, NEW b, NEW c, IsList(a, m), IsList(b, n), IsList(c, k),
           \A i \in 1..m : c[i] = a[i], \A i \in 1..n : c[m + i] = b[i]
    PROVE  Fold(v, c) = Fold(Fold(v, a), b)
<1> DEFINE B(x) == [i \in 1..x |-> b[i]]
           D(x) == [i \in 1..(m + x) |-> c[i]]
           T == {x \in Nat : x <= n /\ Fold(v, D(x)) # Fold(Fold(v, a), B(x))}
<1>1. m \in Nat /\ n \in Nat
  BY DEF IsList
<1>2. ASSUME NEW x \in Nat
      PROVE  IsList(B(x), x) /\ IsList(D(x), m + x)
  BY <1>1 DEF IsList
<1>3. B(n) = b /\ D(n) = c
  BY DEF IsList
<1>4. T = {}
  <2> SUFFICES ASSUME T # {} PROVE FALSE
    OBVIOUS
  <2>1. PICK x \in T : \A j \in T : x <= j
    <3>1. T \in SUBSET Nat
      OBVIOUS
    <3> HIDE DEF T
    <3> QED
      BY <3>1, LeastOf
  <2>2. CASE x = 0
    <3>1. D(0) = a
      <4>1. 1..(m + 0) = 1..m /\ a = [i \in 1..m |-> a[i]]
        BY <1>1 DEF IsList
      <4> QED
        BY <4>1
    <3>2. Fold(Fold(v, a), B(0)) = Fold(v, a)
      BY <1>2, FoldEmpty
    <3> QED
      BY <2>1, <2>2, <3>1, <3>2
  <2>3. CASE x # 0
    <3> DEFINE j == x - 1
    <3>1. j \in Nat /\ j <= n /\ ~ (x <= j) /\ x = j + 1 /\ x \in 1..n /\ m + x = (m + j) + 1
      BY <1>1, <2>1, <2>3
    <3>2. Fold(v, D(j)) = Fold(Fold(v, a), B(j))
      BY <2>1, <3>1
    <3> HIDE DEF j
    <3>3. \A i \in 1..j : B(j)[i] = B(x)[i]
      BY <3>1
    <3>4. \A i \in 1..(m + j) : D(j)[i] = D(x)[i]
      BY <1>1, <3>1
    <3>5. B(x)[x] = b[x] /\ D(x)[m + x] = b[x]
      BY <1>1, <3>1
    <3>6. IsList(B(j), j) /\ IsList(B(x), j + 1) /\ IsList(D(j), m + j) /\ IsList(D(x), (m + j) + 1)
      BY <1>2, <3>1
    <3> HIDE DEF B, D
    <3>7. Fold(v, D(x)) = Compressed(Fold(v, D(j)), D(x)[(m + j) + 1])
      BY <3>4, <3>6, FoldLast
    <3>8. Fold(Fold(v, a), B(x)) = Compressed(Fold(Fold(v, a), B(j)), B(x)[j + 1])
      BY <3>3, <3>6, FoldLast
    <3>9. Fold(v, D(x)) = Fold(Fold(v, a), B(x))
      BY <3>1, <3>2, <3>5, <3>7, <3>8
    <3> QED
      BY <2>1, <3>9
  <2> QED
    BY <2>2, <2>3
<1>5. Fold(v, D(n)) = Fold(Fold(v, a), B(n))
  BY <1>1, <1>4
<1> QED
  BY <1>3, <1>5

-----------------------------------------------------------------------------
(***************************************************************************)
(* Positions in a stream: byte i of word w is byte (w - 1) * WordSize + i  *)
(* + 1 of the stream.                                                      *)
(***************************************************************************)
LEMMA WholeAndRest ==
    ASSUME NEW n \in Nat
    PROVE  \E q \in Nat, r \in Positions : n = q * WordSize + r
<1>1. WordSize \in Nat \ {0}
  BY HashAssumption
<1>2. n \div WordSize \in Nat /\ n % WordSize \in 0..(WordSize - 1)
  BY <1>1
<1>3. n = (n \div WordSize) * WordSize + (n % WordSize)
  BY <1>1, DivMod
<1> QED
  BY <1>2, <1>3 DEF Positions

LEMMA WholeIs ==
    ASSUME NEW q \in Nat, NEW r \in Positions
    PROVE  (q * WordSize + r) \div WordSize = q /\ (q * WordSize + r) % WordSize = r
  BY HashAssumption, DivIs DEF Positions

LEMMA InWord ==
    ASSUME NEW q \in Nat, NEW w \in 1..q, NEW i \in Positions
    PROVE  /\ (w - 1) * WordSize \in Nat /\ q * WordSize \in Nat
           /\ (w - 1) * WordSize + i + 1 \in 1..(q * WordSize)
<1>1. WordSize \in Nat /\ WordSize > 0 /\ i \in 0..(WordSize - 1)
  BY HashAssumption DEF Positions
<1>2. \A a, b \in Nat : a * WordSize \in Nat /\ (a + b) * WordSize = a * WordSize + b * WordSize
  BY <1>1
<1>3. w - 1 \in Nat /\ q - w \in Nat /\ (w - 1) + 1 = w /\ w + (q - w) = q
  OBVIOUS
<1>4. w * WordSize = (w - 1) * WordSize + WordSize
  BY <1>1, <1>2, <1>3
<1>5. q * WordSize = w * WordSize + (q - w) * WordSize
  BY <1>2, <1>3
<1> QED
  BY <1>1, <1>2, <1>3, <1>4, <1>5

LEMMA WordsApart ==
    ASSUME NEW m \in Nat, NEW w \in Nat \ {0}
    PROVE  (m + w - 1) * WordSize = m * WordSize + (w - 1) * WordSize
<1>1. WordSize \in Nat
  BY HashAssumption
<1>2. \A a, b \in Nat : (a + b) * WordSize = a * WordSize + b * WordSize
  BY <1>1
<1>3. w - 1 \in Nat /\ m + w - 1 = m + (w - 1)
  OBVIOUS
<1> QED
  BY <1>2, <1>3

(* The first q words of s, the word and the r bytes after them.            *)
WordsOf(s, q) == [w \in 1..q |-> [i \in Positions |-> s[(w - 1) * WordSize + i + 1]]]
WordAfter(s, q) == [i \in Positions |-> s[q * WordSize + i + 1]]
RestOf(s, q, r) == [i \in Positions |-> IF i < r THEN s[q * WordSize + i + 1] ELSE {}]

LEMMA WordsOfList ==
    ASSUME NEW s, NEW q \in Nat
    PROVE  IsList(WordsOf(s, q), q)
  BY DEF IsList, WordsOf

(* s is a stream of q words and r bytes.                                   *)
Measures(s, q, r) ==
    /\ s \in Seq(Byte) /\ q \in Nat /\ r \in Positions
    /\ Len(s) = q * WordSize + r

(* Only the bytes of the words matter.                                     *)
LEMMA WordsOfSame ==
    ASSUME NEW q \in Nat, NEW s, NEW t, \A j \in 1..(q * WordSize) : s[j] = t[j]
    PROVE  WordsOf(s, q) = WordsOf(t, q)
<1>1. \A w \in 1..q : \A i \in Positions :
        s[(w - 1) * WordSize + i + 1] = t[(w - 1) * WordSize + i + 1]
  BY InWord
<1> QED
  BY <1>1 DEF WordsOf

(* What AddWords makes of a buffer of q words and r bytes.                 *)
LEMMA AddWordsIs ==
    ASSUME NEW b, NEW q, NEW r, Measures(b, q, r), NEW v, NEW n
    PROVE  AddWords(v, n, b) =
              [val |-> Fold(v, WordsOf(b, q)), rem |-> RestOf(b, q, r), totalSize |-> n]
<1> USE DEF Measures
<1>0. WordSize \in Nat \ {0}
  BY HashAssumption
<1>1. Len(b) \div WordSize = q /\ Len(b) % WordSize = r
  BY WholeIs
<1>2. Words(b) = WordsOf(b, q)
  BY <1>1 DEF Words, WordsOf
<1> DEFINE p == q * WordSize
<1>3. p \in Nat /\ r \in 0..(WordSize - 1) /\ Len(b) = p + r
  BY <1>0 DEF Positions
<1> HIDE DEF p
<1> DEFINE rest == SubSeq(b, p + 1, p + r)
<1>4. Len(rest) = r /\ \A i \in 1..r : rest[i] = b[p + i]
  BY <1>3
<1>5. SubSeq(b, Len(b) - (Len(b) % WordSize) + 1, Len(b)) = rest
  <2>1. Len(b) - (Len(b) % WordSize) + 1 = p + 1
    BY <1>1, <1>3
  <2> QED
    BY <1>3, <2>1
<1> HIDE DEF rest
<1>6. ASSUME NEW i \in Positions
      PROVE  (NoBytes[i] \cup (IF i - 0 \in 0..(Len(rest) - 1) THEN rest[i - 0 + 1] ELSE {}))
                = IF i < r THEN b[p + i + 1] ELSE {}
  <2>1. NoBytes[i] = {} /\ i \in Nat /\ i - 0 = i
    BY <1>0 DEF NoBytes, Positions
  <2>2. CASE i < r
    <3>1. i \in 0..(Len(rest) - 1) /\ i + 1 \in 1..r
      BY <1>3, <1>4, <2>1, <2>2
    <3>2. rest[i + 1] = b[p + i + 1]
      BY <1>3, <1>4, <2>1, <3>1
    <3> QED
      BY <2>1, <2>2, <3>1, <3>2
  <2>3. CASE ~ (i < r)
    <3>1. i \notin 0..(Len(rest) - 1)
      BY <1>3, <1>4, <2>1, <2>3
    <3> QED
      BY <2>1, <2>3, <3>1
  <2> QED
    BY <2>2, <2>3
<1>7. Loaded(NoBytes, 0, rest) = RestOf(b, q, r)
  BY <1>6 DEF Loaded, RestOf, p
<1> QED
  BY <1>2, <1>5, <1>7 DEF AddWords, Fold

-----------------------------------------------------------------------------
(***************************************************************************)
(* The state p of a hash that began at v and took in the stream s, of q    *)
(* words and r bytes, in whatever buffers.                                 *)
(***************************************************************************)
HashOf(v, s, q, r) ==
    [val |-> Fold(v, WordsOf(s, q)), rem |-> RestOf(s, q, r), totalSize |-> Len(s)]

Took(p, v, s, q, r) == Measures(s, q, r) /\ p = HashOf(v, s, q, r)

LEMMA Appended ==
    ASSUME NEW s \in Seq(Byte), NEW b \in Seq(Byte)
    PROVE  /\ s \o b \in Seq(Byte) /\ Len(s) \in Nat /\ Len(b) \in Nat
           /\ Len(s \o b) = Len(s) + Len(b)
           /\ \A j \in 1..Len(s) : (s \o b)[j] = s[j]
           /\ \A j \in 1..Len(b) : (s \o b)[Len(s) + j] = b[j]
  OBVIOUS

(* The words of b after a stream t of m words.                             *)
LEMMA WholeWords ==
    ASSUME NEW t, NEW m, Measures(t, m, 0), NEW b, NEW q, NEW r, Measures(b, q, r), NEW v
    PROVE  /\ Measures(t \o b, m + q, r)
           /\ Fold(v, WordsOf(t \o b, m + q)) = Fold(Fold(v, WordsOf(t, m)), WordsOf(b, q))
           /\ RestOf(t \o b, m + q, r) = RestOf(b, q, r)
<1> DEFINE s == t \o b
<1>1. /\ s \in Seq(Byte) /\ Len(t) \in Nat /\ Len(b) \in Nat
      /\ Len(s) = Len(t) + Len(b)
      /\ \A j \in 1..Len(t) : s[j] = t[j]
      /\ \A j \in 1..Len(b) : s[Len(t) + j] = b[j]
  BY Appended DEF Measures
<1>2. /\ m \in Nat /\ q \in Nat /\ r \in Positions /\ Len(t) = m * WordSize
      /\ WordSize \in Nat /\ r \in Nat /\ q * WordSize \in Nat /\ m * WordSize \in Nat
      /\ Len(b) = q * WordSize + r
  BY HashAssumption DEF Measures, Positions
<1>3. Measures(s, m + q, r)
  <2>1. (m + q) * WordSize = m * WordSize + q * WordSize
    BY <1>2
  <2>2. Len(s) = (m + q) * WordSize + r /\ m + q \in Nat
    BY <1>1, <1>2, <2>1
  <2> QED
    BY <1>1, <1>2, <2>2 DEF Measures
<1> HIDE DEF s
<1>4. Fold(v, WordsOf(s, m + q)) = Fold(Fold(v, WordsOf(t, m)), WordsOf(b, q))
  <2> DEFINE A == WordsOf(t, m)
             B == WordsOf(b, q)
             K == m + q
             C == WordsOf(s, K)
  <2>1. IsList(A, m) /\ IsList(B, q) /\ IsList(C, K) /\ K = m + q /\ m \in Nat /\ q \in Nat
    BY <1>2, WordsOfList
  <2>2. ASSUME NEW w \in 1..m
        PROVE  C[w] = A[w]
    <3>1. w \in 1..(m + q)
      BY <1>2
    <3>2. \A i \in Positions : s[(w - 1) * WordSize + i + 1] = t[(w - 1) * WordSize + i + 1]
      BY <1>1, <1>2, InWord
    <3> QED
      BY <3>1, <3>2 DEF WordsOf
  <2>3. ASSUME NEW w \in 1..q
        PROVE  C[m + w] = B[w]
    <3> DEFINE x == m + w
    <3>1. x \in 1..(m + q)
      BY <1>2
    <3>2. ASSUME NEW i \in Positions
          PROVE  s[(x - 1) * WordSize + i + 1] = b[(w - 1) * WordSize + i + 1]
      <4> DEFINE j == (w - 1) * WordSize + i + 1
      <4>1. j \in 1..(q * WordSize) /\ (w - 1) * WordSize \in Nat
        BY <1>2, InWord
      <4>2. i \in Nat
        BY <1>2 DEF Positions
      <4>3. (x - 1) * WordSize + i + 1 = Len(t) + j
        <5>1. w \in Nat \ {0}
          BY <1>2
        <5>2. (m + w - 1) * WordSize = m * WordSize + (w - 1) * WordSize
          BY <1>2, <5>1, WordsApart
        <5> QED
          BY <1>2, <4>1, <4>2, <5>2
      <4> HIDE DEF j
      <4>4. j \in 1..Len(b)
        BY <1>2, <4>1
      <4>5. s[Len(t) + j] = b[j]
        BY <1>1, <4>4
      <4> QED
        BY <4>3, <4>5 DEF j
    <3> HIDE DEF x
    <3>3. C[x] = B[w]
      BY <3>1, <3>2 DEF WordsOf
    <3> QED
      BY <3>3 DEF x
  <2> HIDE DEF A, B, C, K
  <2>4. Fold(v, C) = Fold(Fold(v, A), B)
    BY <2>1, <2>2, <2>3, FoldConcat
  <2> QED
    BY <2>4 DEF A, B, C, K
<1>5. RestOf(s, m + q, r) = RestOf(b, q, r)
  <2>1. ASSUME NEW i \in Positions, i < r
        PROVE  s[(m + q) * WordSize + i + 1] = b[q * WordSize + i + 1]
    <3> DEFINE j == q * WordSize + i + 1
    <3>1. i \in Nat
      BY <1>2 DEF Positions
    <3>2. j \in 1..Len(b)
      BY <1>2, <2>1, <3>1
    <3>3. (m + q) * WordSize + i + 1 = Len(t) + j
      <4>1. (m + q) * WordSize = m * WordSize + q * WordSize
        BY <1>2
      <4> QED
        BY <1>2, <3>1, <4>1
    <3> HIDE DEF j
    <3>4. s[Len(t) + j] = b[j]
      BY <1>1, <3>2
    <3> QED
      BY <3>3, <3>4 DEF j
  <2> QED
    BY <2>1 DEF RestOf
<1> QED
  BY <1>3, <1>4, <1>5 DEF s

(* One more whole word.                                                    *)
LEMMA LastWord ==
    ASSUME NEW s, NEW q, NEW r, Measures(s, q, r), NEW c \in Seq(Byte),
           Len(c) = (q + 1) * WordSize, \A j \in 1..Len(s) : c[j] = s[j], NEW v
    PROVE  Fold(v, WordsOf(c, q + 1))
              = Compressed(Fold(v, WordsOf(s, q)), WordAfter(c, q))
<1>1. q \in Nat /\ q * WordSize \in Nat /\ r \in Nat /\ Len(s) = q * WordSize + r
  BY HashAssumption DEF Measures, Positions
<1>2. \A j \in 1..(q * WordSize) : c[j] = s[j]
  BY <1>1
<1> DEFINE A == WordsOf(s, q)
           C == WordsOf(c, q + 1)
<1>3. IsList(A, q) /\ IsList(C, q + 1)
  BY <1>1, WordsOfList
<1>4. ASSUME NEW w \in 1..q
      PROVE  A[w] = C[w]
  <2>1. w \in 1..(q + 1)
    BY <1>1
  <2>2. \A i \in Positions : c[(w - 1) * WordSize + i + 1] = s[(w - 1) * WordSize + i + 1]
    BY <1>1, <1>2, InWord
  <2> QED
    BY <2>1, <2>2 DEF WordsOf
<1>5. C[q + 1] = WordAfter(c, q)
  <2>1. q + 1 \in 1..(q + 1) /\ (q + 1) - 1 = q
    BY <1>1
  <2> QED
    BY <2>1 DEF WordsOf, WordAfter
<1> HIDE DEF A, C
<1>6. Fold(v, C) = Compressed(Fold(v, A), C[q + 1])
  BY <1>3, <1>4, FoldLast
<1> QED
  BY <1>5, <1>6 DEF A, C

(* Bytes put on top of the incomplete word.                                *)
LEMMA LoadedIs ==
    ASSUME NEW s, NEW q, NEW r, Measures(s, q, r), NEW a \in Seq(Byte)
    PROVE  Loaded(RestOf(s, q, r), r, a) = RestOf(s \o a, q, r + Len(a))
<1> DEFINE t == s \o a
           p == q * WordSize
           n == Len(a)
<1>1. /\ t \in Seq(Byte) /\ Len(s) \in Nat /\ n \in Nat /\ p \in Nat /\ r \in Nat
      /\ Len(s) = p + r
      /\ \A j \in 1..Len(s) : t[j] = s[j]
      /\ \A j \in 1..n : t[Len(s) + j] = a[j]
  BY Appended, HashAssumption DEF Measures, Positions
<1>2. \A i \in Positions : i \in Nat
  BY HashAssumption DEF Positions
<1> HIDE DEF t, p, n
<1>3. ASSUME NEW i \in Positions
      PROVE  ((IF i < r THEN s[p + i + 1] ELSE {}) \cup (IF i - r \in 0..(n - 1) THEN a[i - r + 1] ELSE {}))
                = IF i < r + n THEN t[p + i + 1] ELSE {}
  <2>1. CASE i < r
    <3>1. i - r \notin 0..(n - 1) /\ i < r + n /\ p + i + 1 \in 1..Len(s)
      BY <1>1, <1>2, <2>1
    <3>2. t[p + i + 1] = s[p + i + 1]
      BY <1>1, <3>1
    <3> QED
      BY <2>1, <3>1, <3>2
  <2>2. CASE ~ (i < r) /\ i < r + n
    <3>1. i - r \in 0..(n - 1) /\ i - r + 1 \in 1..n /\ p + i + 1 = Len(s) + (i - r + 1)
      BY <1>1, <1>2, <2>2
    <3>2. t[p + i + 1] = a[i - r + 1]
      BY <1>1, <3>1
    <3> QED
      BY <2>2, <3>1, <3>2
  <2>3. CASE ~ (i < r) /\ ~ (i < r + n)
    <3>1. i - r \notin 0..(n - 1)
      BY <1>1, <1>2, <2>3
    <3> QED
      BY <2>3, <3>1
  <2> QED
    BY <2>1, <2>2, <2>3
<1> QED
  BY <1>3 DEF Loaded, RestOf, t, p, n

LEMMA TookFields ==
    ASSUME NEW p, NEW v, NEW s, NEW q, NEW r, Took(p, v, s, q, r)
    PROVE  /\ Measures(s, q, r) /\ s \in Seq(Byte) /\ q \in Nat /\ r \in 0..(WordSize - 1) /\ r \in Nat
           /\ WordSize \in Nat /\ WordSize > 1 /\ Len(s) \in Nat /\ q * WordSize \in Nat
           /\ Len(s) = q * WordSize + r
           /\ p.val = Fold(v, WordsOf(s, q)) /\ p.rem = RestOf(s, q, r) /\ p.totalSize = Len(s)
           /\ oldRemSize(p) = r /\ needSize(p) = WordSize - r
<1>1. q \in Nat /\ r \in Positions /\ p.totalSize = q * WordSize + r
  BY DEF Took, Measures, HashOf
<1>2. oldRemSize(p) = r
  BY <1>1, WholeIs DEF oldRemSize
<1> QED
  BY <1>2, HashAssumption DEF Took, Measures, HashOf, needSize, Positions

(* A buffer after a stream of whole words.                                 *)
LEMMA AddToWhole ==
    ASSUME NEW p, NEW v, NEW s, NEW m, Took(p, v, s, m, 0),
           NEW b, NEW q, NEW r, Measures(b, q, r)
    PROVE  Took(rhash_add(p, b), v, s \o b, m + q, r)
<1>1. oldRemSize(p) = 0 /\ p.val = Fold(v, WordsOf(s, m)) /\ p.totalSize = Len(s) /\ Measures(s, m, 0)
  BY TookFields
<1>2. rhash_add(p, b) = AddWords(p.val, p.totalSize + Len(b), b)
  BY <1>1 DEF rhash_add, StaysIncomplete
<1>3. Len(s \o b) = Len(s) + Len(b)
  BY <1>1, Appended DEF Measures
<1>4. AddWords(p.val, p.totalSize + Len(b), b)
          = [val |-> Fold(Fold(v, WordsOf(s, m)), WordsOf(b, q)), rem |-> RestOf(b, q, r),
             totalSize |-> Len(s \o b)]
  BY <1>1, <1>3, AddWordsIs
<1>5. /\ Measures(s \o b, m + q, r)
      /\ Fold(v, WordsOf(s \o b, m + q)) = Fold(Fold(v, WordsOf(s, m)), WordsOf(b, q))
      /\ RestOf(s \o b, m + q, r) = RestOf(b, q, r)
  BY <1>1, WholeWords
<1> QED
  BY <1>2, <1>4, <1>5 DEF Took, HashOf

(* A buffer that does not complete the word.                               *)
LEMMA AddToPart ==
    ASSUME NEW p, NEW v, NEW s, NEW q, NEW r, Took(p, v, s, q, r), r # 0,
           NEW b \in Seq(Byte), Len(b) < WordSize - r
    PROVE  Took(rhash_add(p, b), v, s \o b, q, r + Len(b))
<1>1. /\ Measures(s, q, r) /\ s \in Seq(Byte) /\ q \in Nat /\ r \in 0..(WordSize - 1) /\ r \in Nat
      /\ WordSize \in Nat /\ WordSize > 1 /\ Len(s) \in Nat /\ q * WordSize \in Nat
      /\ Len(s) = q * WordSize + r
      /\ p.val = Fold(v, WordsOf(s, q)) /\ p.rem = RestOf(s, q, r) /\ p.totalSize = Len(s)
      /\ oldRemSize(p) = r /\ needSize(p) = WordSize - r
  BY TookFields
<1>2. /\ s \o b \in Seq(Byte) /\ Len(b) \in Nat /\ Len(s \o b) = Len(s) + Len(b)
      /\ \A j \in 1..Len(s) : (s \o b)[j] = s[j]
  BY <1>1, Appended
<1>3. StaysIncomplete(p, b)
  BY <1>1, <1>2 DEF StaysIncomplete
<1>4. rhash_add(p, b) = [p EXCEPT !.rem = Loaded(@, oldRemSize(p), b), !.totalSize = p.totalSize + Len(b)]
  <2>1. ~ (oldRemSize(p) = 0)
    BY <1>1
  <2> QED
    BY <1>3, <2>1 DEF rhash_add
<1>5. Loaded(p.rem, oldRemSize(p), b) = RestOf(s \o b, q, r + Len(b))
  BY <1>1, LoadedIs
<1>6. WordsOf(s \o b, q) = WordsOf(s, q)
  <2>1. \A j \in 1..(q * WordSize) : (s \o b)[j] = s[j]
    BY <1>1, <1>2
  <2> QED
    BY <1>1, <2>1, WordsOfSame
<1>7. p = [val |-> p.val, rem |-> p.rem, totalSize |-> p.totalSize]
  BY DEF Took, HashOf
<1>8. rhash_add(p, b) = HashOf(v, s \o b, q, r + Len(b))
  BY <1>1, <1>2, <1>4, <1>5, <1>6, <1>7 DEF HashOf
<1>9. Measures(s \o b, q, r + Len(b))
  <2>1. r + Len(b) \in Positions /\ Len(s \o b) = q * WordSize + (r + Len(b))
    BY <1>1, <1>2 DEF Positions
  <2> QED
    BY <1>1, <1>2, <2>1 DEF Measures
<1> QED
  BY <1>8, <1>9 DEF Took

(* A buffer that completes the word.                                       *)
LEMMA AddCompletes ==
    ASSUME NEW p, NEW v, NEW s, NEW m, NEW k, Took(p, v, s, m, k), k # 0,
           NEW b \in Seq(Byte), Len(b) >= WordSize - k,
           NEW q, NEW r, Measures(SubSeq(b, WordSize - k + 1, Len(b)), q, r)
    PROVE  Took(rhash_add(p, b), v, s \o b, (m + 1) + q, r)
<1> DEFINE need == WordSize - k
           a == SubSeq(b, 1, need)
           c == SubSeq(b, need + 1, Len(b))
           t == s \o a
<1>1. /\ Measures(s, m, k) /\ s \in Seq(Byte) /\ m \in Nat /\ k \in 0..(WordSize - 1) /\ k \in Nat
      /\ WordSize \in Nat /\ WordSize > 1 /\ Len(s) \in Nat /\ m * WordSize \in Nat
      /\ Len(s) = m * WordSize + k
      /\ p.val = Fold(v, WordsOf(s, m)) /\ p.rem = RestOf(s, m, k) /\ p.totalSize = Len(s)
      /\ oldRemSize(p) = k /\ needSize(p) = need
  BY TookFields
<1>2. need \in Nat /\ need \in 1..Len(b) /\ Len(b) \in Nat /\ need + k = WordSize
  BY <1>1
<1> HIDE DEF need
<1>3. /\ a \in Seq(Byte) /\ Len(a) = need /\ c \in Seq(Byte) /\ a \o c = b
  BY <1>2
<1> HIDE DEF a, c
<1>4. t \o c = s \o b /\ Len(s \o b) = Len(s) + Len(b)
  <2>1. (s \o a) \o c = s \o (a \o c)
    <3>1. s \in Seq(Byte) /\ a \in Seq(Byte) /\ c \in Seq(Byte)
      BY <1>1, <1>3
    <3> QED
      BY ONLY <3>1, ConcatAssociative
  <2>2. Len(s \o b) = Len(s) + Len(b)
    BY <1>1, Appended
  <2> QED
    BY <1>3, <2>1, <2>2
<1>5. rhash_add(p, b) = AddWords(Compressed(p.val, Loaded(p.rem, k, a)), p.totalSize + Len(b), c)
  <2>1. ~ StaysIncomplete(p, b) /\ ~ (oldRemSize(p) = 0)
    BY <1>1, <1>2 DEF StaysIncomplete
  <2> QED
    BY <1>1, <2>1 DEF rhash_add, a, c
<1>6. /\ t \in Seq(Byte) /\ Len(t) = Len(s) + need
      /\ \A j \in 1..Len(s) : t[j] = s[j]
  <2>1. /\ s \o a \in Seq(Byte) /\ Len(s \o a) = Len(s) + Len(a)
        /\ \A j \in 1..Len(s) : (s \o a)[j] = s[j]
    BY <1>1, <1>3, Appended
  <2> QED
    BY <1>3, <2>1
<1>7. (m + 1) * WordSize = m * WordSize + WordSize /\ m + 1 \in Nat
  BY <1>1
<1>8. Len(t) = (m + 1) * WordSize
  BY <1>1, <1>2, <1>6, <1>7
<1>9. Measures(t, m + 1, 0)
  <2>1. 0 \in Positions /\ Len(t) = (m + 1) * WordSize + 0
    BY <1>1, <1>7, <1>8 DEF Positions
  <2> QED
    BY <1>6, <1>7, <2>1 DEF Measures
<1>10. Loaded(p.rem, k, a) = WordAfter(t, m)
  <2>1. Loaded(p.rem, k, a) = RestOf(t, m, k + need)
    BY <1>1, <1>3, LoadedIs
  <2>2. \A i \in Positions : i < k + need
    BY <1>1, <1>2 DEF Positions
  <2> QED
    BY <2>1, <2>2 DEF RestOf, WordAfter
<1> HIDE DEF t
<1>11. Compressed(p.val, Loaded(p.rem, k, a)) = Fold(v, WordsOf(t, m + 1))
  BY <1>1, <1>6, <1>8, <1>10, LastWord
<1>12. Measures(c, q, r)
  BY DEF c, need
<1>13. rhash_add(p, b) = [val |-> Fold(Fold(v, WordsOf(t, m + 1)), WordsOf(c, q)),
                          rem |-> RestOf(c, q, r), totalSize |-> Len(s \o b)]
  BY <1>1, <1>4, <1>5, <1>11, <1>12, AddWordsIs
<1>14. /\ Measures(s \o b, (m + 1) + q, r)
       /\ Fold(v, WordsOf(s \o b, (m + 1) + q)) = Fold(Fold(v, WordsOf(t, m + 1)), WordsOf(c, q))
       /\ RestOf(s \o b, (m + 1) + q, r) = RestOf(c, q, r)
  <2> DEFINE n == m + 1
             u == t \o c
  <2>1. Measures(t, n, 0)
    BY <1>9
  <2> HIDE DEF n
  <2>2. /\ Measures(u, n + q, r)
        /\ Fold(v, WordsOf(u, n + q)) = Fold(Fold(v, WordsOf(t, n)), WordsOf(c, q))
        /\ RestOf(u, n + q, r) = RestOf(c, q, r)
    BY <1>12, <2>1, WholeWords
  <2>3. u = s \o b
    BY <1>4
  <2> HIDE DEF u
  <2> QED
    BY <2>2, <2>3 DEF n
<1> QED
  BY <1>13, <1>14 DEF Took, HashOf

LEMMA AddTook ==
    ASSUME NEW p, NEW v, NEW s, NEW q, NEW r, Took(p, v, s, q, r), NEW b \in Seq(Byte)
    PROVE  \E m, k : Took(rhash_add(p, b), v, s \o b, m, k)
<1>1. /\ q \in Nat /\ r \in 0..(WordSize - 1) /\ WordSize \in Nat /\ WordSize > 1
  BY TookFields
<1>2. \A c \in Seq(Byte) : \E m, k : Measures(c, m, k)
  <2>1. ASSUME NEW c \in Seq(Byte) PROVE \E m, k : Measures(c, m, k)
    <3>1. Len(c) \in Nat
      OBVIOUS
    <3>2. PICK m \in Nat, k \in Positions : Len(c) = m * WordSize + k
      BY <3>1, WholeAndRest
    <3>3. Measures(c, m, k)
      BY <3>2 DEF Measures
    <3> QED
      BY <3>3
  <2> QED
    BY <2>1
<1>3. CASE r = 0
  <2>1. PICK m, k : Measures(b, m, k)
    BY <1>2
  <2>2. Took(rhash_add(p, b), v, s \o b, q + m, k)
    BY <1>3, <2>1, AddToWhole
  <2> QED
    BY <2>2
<1>4. CASE r # 0 /\ Len(b) < WordSize - r
  BY <1>4, AddToPart
<1>5. CASE r # 0 /\ Len(b) >= WordSize - r
  <2> DEFINE c == SubSeq(b, WordSize - r + 1, Len(b))
  <2>1. c \in Seq(Byte)
    BY <1>1
  <2>2. PICK m, k : Measures(c, m, k)
    BY <1>2, <2>1
  <2>3. Took(rhash_add(p, b), v, s \o b, (q + 1) + m, k)
    BY <1>5, <2>2, AddCompletes
  <2> QED
    BY <2>3
<1>6. Len(b) \in Nat
  OBVIOUS
<1> QED
  BY <1>1, <1>3, <1>4, <1>5, <1>6

LEMMA InitTook ==
    ASSUME NEW k
    PROVE  Took(rhash_init(k), Keyed(k), <<>>, 0, 0)
<1>1. WordSize \in Nat /\ 0 \in Positions
  BY HashAssumption DEF Positions
<1>2. Measures(<<>>, 0, 0)
  BY <1>1 DEF Measures
<1>3. Fold(Keyed(k), WordsOf(<<>>, 0)) = Keyed(k)
  BY WordsOfList, FoldEmpty
<1>4. RestOf(<<>>, 0, 0) = NoBytes
  BY HashAssumption DEF RestOf, NoBytes, Positions
<1>5. rhash_init(k) = HashOf(Keyed(k), <<>>, 0, 0)
  BY <1>3, <1>4 DEF rhash_init, HashOf
<1> QED
  BY <1>2, <1>5 DEF Took

(* The result is that of the padded stream.                                *)
LEMMA ResultOfStream ==
    ASSUME NEW p, NEW v, NEW s, NEW q, NEW r, Took(p, v, s, q, r)
    PROVE  rhash_result(p) = Finished(Fold(v, PaddedWords(s)))
<1> DEFINE n == Len(s)
           low == LowByte(n)
           zeros == WordSize - 1 - r
           z == [i \in 1..zeros |-> {}]
           t == s \o z
           c == t \o <<low>>
           start == q * WordSize
<1>1. /\ Measures(s, q, r) /\ s \in Seq(Byte) /\ q \in Nat /\ r \in 0..(WordSize - 1) /\ r \in Nat
      /\ WordSize \in Nat /\ WordSize > 1 /\ n \in Nat /\ start \in Nat
      /\ n = start + r
      /\ p.val = Fold(v, WordsOf(s, q)) /\ p.rem = RestOf(s, q, r) /\ p.totalSize = n
  BY TookFields
<1>2. zeros \in Nat /\ n + zeros = start + WordSize - 1
  <2> HIDE DEF start, n
  <2> QED
    BY <1>1
<1>3. n % WordSize = r
  BY <1>1, WholeIs DEF Positions
<1>4. low \in Byte /\ {} \in Byte
  BY DEF LowByte, Byte
<1> HIDE DEF low, zeros, start, n
<1>5. /\ z \in Seq(Byte) /\ Len(z) = zeros /\ \A i \in 1..zeros : z[i] = {}
  BY <1>2, <1>4
<1> HIDE DEF z
<1>6. /\ t \in Seq(Byte) /\ Len(t) = n + zeros
      /\ \A j \in 1..n : t[j] = s[j]
      /\ \A j \in 1..zeros : t[n + j] = {}
  <2>1. /\ s \o z \in Seq(Byte) /\ Len(s \o z) = Len(s) + Len(z)
        /\ \A j \in 1..Len(s) : (s \o z)[j] = s[j]
        /\ \A j \in 1..Len(z) : (s \o z)[Len(s) + j] = z[j]
    BY <1>1, <1>5, Appended
  <2> QED
    BY <1>5, <2>1 DEF n
<1> HIDE DEF t
<1>7. <<low>> \in Seq(Byte) /\ Len(<<low>>) = 1 /\ <<low>>[1] = low
  BY <1>4
<1>8. /\ c \in Seq(Byte) /\ Len(c) = Len(t) + 1
      /\ \A j \in 1..Len(t) : c[j] = t[j]
      /\ c[Len(t) + 1] = low
  BY <1>6, <1>7, Appended
<1> HIDE DEF c
<1>9. /\ Len(c) = start + WordSize
      /\ \A j \in 1..n : c[j] = s[j]
      /\ \A j \in (n + 1)..(start + WordSize - 1) : c[j] = {}
      /\ c[start + WordSize] = low
  <2>1. Len(t) = start + WordSize - 1 /\ Len(t) + 1 = start + WordSize
    BY <1>1, <1>2, <1>6
  <2>2. ASSUME NEW j \in (n + 1)..(start + WordSize - 1) PROVE c[j] = {}
    <3>1. n \in Nat /\ zeros \in Nat /\ n + zeros = Len(t) /\ j \in (n + 1)..Len(t)
      BY <1>1, <1>2, <2>1
    <3>2. j - n \in 1..zeros /\ n + (j - n) = j /\ j \in 1..Len(t)
      BY <3>1
    <3>3. t[n + (j - n)] = {}
      BY <1>6, <3>2
    <3> QED
      BY <1>8, <3>2, <3>3
  <2>3. ASSUME NEW j \in 1..n PROVE c[j] = s[j]
    <3>1. j \in 1..Len(t)
      BY <1>1, <1>2, <2>1
    <3> QED
      BY <1>6, <1>8, <3>1
  <2> QED
    BY <1>8, <2>1, <2>2, <2>3
<1>10. Len(c) = (q + 1) * WordSize
  <2>1. (q + 1) * WordSize = q * WordSize + WordSize
    BY <1>1
  <2> QED
    BY <1>9, <2>1 DEF start
<1>11. Words(c) = WordsOf(c, q + 1)
  <2>1. q + 1 \in Nat /\ 0 \in Positions
    BY <1>1 DEF Positions
  <2>2. ((q + 1) * WordSize + 0) \div WordSize = q + 1
    BY <2>1, WholeIs
  <2>3. (q + 1) * WordSize + 0 = (q + 1) * WordSize
    BY <1>1
  <2> QED
    BY <1>10, <2>2, <2>3 DEF Words, WordsOf
<1>12. PaddedWords(s) = WordsOf(c, q + 1)
  <2>1. WordSize - 1 - (Len(s) % WordSize) = zeros
    BY <1>3 DEF zeros, n
  <2>2. PaddedWords(s) = Words(s \o [i \in 1..(WordSize - 1 - (Len(s) % WordSize)) |-> {}] \o <<low>>)
    BY DEF PaddedWords, low, n
  <2>3. PaddedWords(s) = Words(c)
    BY <2>1, <2>2 DEF c, t, z
  <2> QED
    BY <1>11, <2>3
<1>13. Fold(v, WordsOf(c, q + 1)) = Compressed(p.val, WordAfter(c, q))
  <2>1. \A j \in 1..Len(s) : c[j] = s[j]
    BY <1>9 DEF n
  <2>2. Fold(v, WordsOf(c, q + 1)) = Compressed(Fold(v, WordsOf(s, q)), WordAfter(c, q))
    BY <1>1, <1>8, <1>10, <2>1, LastWord
  <2> QED
    BY <1>1, <2>2
<1>14. [p.rem EXCEPT ![WordSize - 1] = @ \cup low] = WordAfter(c, q)
  <2>1. ASSUME NEW i \in Positions, i # WordSize - 1
        PROVE  (IF i < r THEN s[start + i + 1] ELSE {}) = c[start + i + 1]
    <3>1. i \in Nat /\ i < WordSize - 1
      BY <1>1, <2>1 DEF Positions
    <3>2. CASE i < r
      <4>1. start + i + 1 \in 1..n
        BY <1>1, <3>1, <3>2
      <4> QED
        BY <1>9, <3>2, <4>1
    <3>3. CASE ~ (i < r)
      <4>1. start + i + 1 \in (n + 1)..(start + WordSize - 1)
        BY <1>1, <3>1, <3>3
      <4> QED
        BY <1>9, <3>3, <4>1
    <3> QED
      BY <3>2, <3>3
  <2>2. WordSize - 1 \in Positions /\ ~ (WordSize - 1 < r) /\ start + (WordSize - 1) + 1 = start + WordSize
    BY <1>1 DEF Positions
  <2>3. RestOf(s, q, r) = [i \in Positions |-> IF i < r THEN s[start + i + 1] ELSE {}]
    BY DEF RestOf, start
  <2>4. WordAfter(c, q) = [i \in Positions |-> c[start + i + 1]]
    BY DEF WordAfter, start
  <2>5. ASSUME NEW i \in Positions
        PROVE  [p.rem EXCEPT ![WordSize - 1] = @ \cup low][i] = c[start + i + 1]
    <3>1. CASE i = WordSize - 1
      BY <1>1, <1>9, <2>2, <2>3, <3>1
    <3>2. CASE i # WordSize - 1
      BY <1>1, <2>1, <2>3, <3>2
    <3> QED
      BY <3>1, <3>2
  <2>6. [p.rem EXCEPT ![WordSize - 1] = @ \cup low] = [i \in Positions |-> [p.rem EXCEPT ![WordSize - 1] = @ \cup low][i]]
    BY <1>1, <2>3
  <2> QED
    BY <2>4, <2>5, <2>6
<1>15. rhash_result(p) = Finished(Compressed(p.val, [p.rem EXCEPT ![WordSize - 1] = @ \cup low]))
  BY <1>1 DEF rhash_result, low
<1> QED
  BY <1>12, <1>13, <1>14, <1>15

(***************************************************************************)
(* The state of a hash is that of the stream, whatever the buffers: the    *)
(* whole words have been compressed, in order, the bytes left over are in  *)
(* rem, with zeros behind them, and totalSize is the length.               *)
(***************************************************************************)
HashInv == kind = "hash" => \E q, r : Took(digest, Keyed(key), stream, q, r)

(* rhash_add leaves that state behind, wherever the client cuts.           *)
THEOREM HashInvHolds == DigestSpec => []HashInv
<1>1. DigestInit => HashInv
  <2> SUFFICES ASSUME DigestInit, kind = "hash" PROVE \E q, r : Took(digest, Keyed(key), stream, q, r)
    BY DEF HashInv
  <2>1. digest = rhash_init(key) /\ stream = <<>>
    BY DEF DigestInit
  <2>2. Took(digest, Keyed(key), stream, 0, 0)
    BY <2>1, InitTook
  <2> QED
    BY <2>2
<1>2. ASSUME HashInv, [DigestNext]_digestVars PROVE HashInv'
  <2>1. CASE AddToHash
    <3>1. PICK q, r : Took(digest, Keyed(key), stream, q, r)
      BY <1>2, <2>1 DEF AddToHash, HashInv
    <3>2. PICK b \in Buffers(HashBytes, MaxHashed) : digest' = rhash_add(digest, b) /\ Streamed(b)
      BY <2>1 DEF AddToHash
    <3>3. b \in Seq(Byte)
      <4>1. Len(stream) \in Nat /\ MaxHashed \in Nat /\ HashBytes \subseteq Byte
        BY <3>1, TookFields, DigestAssumption
      <4>2. PICK n \in 0..(MaxHashed - Len(stream)) : b \in [1..n -> HashBytes]
        BY <3>2 DEF Buffers
      <4>3. n \in Nat
        BY <4>1
      <4>4. b \in [1..n -> Byte]
        BY <4>1, <4>2
      <4> QED
        BY <4>3, <4>4
    <3>4. \E m, k : Took(rhash_add(digest, b), Keyed(key), stream \o b, m, k)
      BY <3>1, <3>3, AddTook
    <3>5. digest' = rhash_add(digest, b) /\ stream' = stream \o b /\ key' = key
      BY <3>2 DEF Streamed
    <3> QED
      BY <3>4, <3>5 DEF HashInv
  <2>2. CASE AddToCrc
    BY <2>2 DEF AddToCrc, Streamed, HashInv
  <2>3. CASE UNCHANGED digestVars
    BY <1>2, <2>3 DEF digestVars, HashInv
  <2> QED
    BY <1>2, <2>1, <2>2, <2>3 DEF DigestNext
<1> QED
  BY <1>1, <1>2, PTL DEF DigestSpec

(***************************************************************************)
(* However the client cuts its stream into buffers, and whenever it asks,  *)
(* rhash_result is the SipHash of the padded stream, and what rhash_calc   *)
(* makes of it in one call.                                                *)
(***************************************************************************)
THEOREM HashOfStreamHolds == DigestSpec => []HashOfStream
<1>1. ASSUME HashInv PROVE HashOfStream
  <2> SUFFICES ASSUME kind = "hash"
               PROVE  /\ rhash_result(digest) = Finished(Fold(Keyed(key), PaddedWords(stream)))
                      /\ rhash_result(digest) = rhash_calc(key, stream)
    BY DEF HashOfStream, Fold
  <2>1. PICK q, r : Took(digest, Keyed(key), stream, q, r)
    BY <1>1 DEF HashInv
  <2>2. rhash_result(digest) = Finished(Fold(Keyed(key), PaddedWords(stream)))
    BY <2>1, ResultOfStream
  <2>3. stream \in Seq(Byte) /\ <<>> \o stream = stream
    <3>1. stream \in Seq(Byte)
      BY <2>1, TookFields
    <3> QED
      BY <3>1
  <2>4. PICK m, k : Took(rhash_add(rhash_init(key), stream), Keyed(key), stream, m, k)
    <3>1. \E m, k : Took(rhash_add(rhash_init(key), stream), Keyed(key), <<>> \o stream, m, k)
      BY <2>3, InitTook, AddTook
    <3> QED
      BY <2>3, <3>1
  <2>5. rhash_calc(key, stream) = Finished(Fold(Keyed(key), PaddedWords(stream)))
    BY <2>4, ResultOfStream DEF rhash_calc
  <2> QED
    BY <2>2, <2>5
<1> QED
  BY <1>1, HashInvHolds, PTL

-----------------------------------------------------------------------------
(***************************************************************************)
(* Polynomials over GF(2).  Odd: x^e is a term of the product of q and p.  *)
(***************************************************************************)
Odd(q, p, e) == Cardinality({i \in q : e - i \in p}) % 2 = 1

Shifted(q) == {i + 1 : i \in q}

LEMMA OddShifted ==
    ASSUME NEW q \in SUBSET Nat, IsFiniteSet(q), NEW p \in SUBSET Nat, NEW e \in Nat
    PROVE  Odd(Shifted(q), p, e) <=> e > 0 /\ Odd(q, p, e - 1)
<1> DEFINE S == {i \in q : (e - 1) - i \in p}
           T == {j \in Shifted(q) : e - j \in p}
<1>1. CASE e = 0
  <2>1. T = {}
    BY <1>1 DEF Shifted
  <2> QED
    BY <1>1, <2>1, FS_EmptySet DEF Odd
<1>2. CASE e # 0
  <2> DEFINE f == [i \in S |-> i + 1]
  <2>1. IsFiniteSet(S)
    BY FS_Subset
  <2>2. T = {i + 1 : i \in S}
    <3>1. ASSUME NEW i \in q PROVE e - (i + 1) = (e - 1) - i
      OBVIOUS
    <3>2. ASSUME NEW j \in T PROVE \E i \in S : j = i + 1
      <4>1. PICK i \in q : j = i + 1
        BY DEF Shifted
      <4>2. i \in S
        BY <3>1, <4>1
      <4> QED
        BY <4>1, <4>2
    <3>3. ASSUME NEW i \in S PROVE i + 1 \in T
      BY <3>1 DEF Shifted
    <3> HIDE DEF S, T
    <3> QED
      BY <3>2, <3>3
  <2>3. f \in Bijection(S, T)
    <3>1. f \in [S -> T]
      BY <2>2
    <3>2. \A x, y \in S : f[x] = f[y] => x = y
      OBVIOUS
    <3>3. \A y \in T : \E x \in S : f[x] = y
      BY <2>2
    <3> HIDE DEF f, S, T
    <3> QED
      BY <3>1, <3>2, <3>3 DEF Bijection, Injection, Surjection, IsInjective
  <2>4. Cardinality(T) = Cardinality(S)
    <3>1. ExistsBijection(S, T)
      BY <2>3 DEF ExistsBijection
    <3> HIDE DEF f, S, T
    <3> QED
      BY <2>1, <3>1, FS_Bijection
  <2> QED
    BY <1>2, <2>4 DEF Odd
<1> QED
  BY <1>1, <1>2

LEMMA OddPlusOne ==
    ASSUME NEW q \in SUBSET Nat, IsFiniteSet(q), 0 \notin q, NEW p \in SUBSET Nat, NEW e \in Nat
    PROVE  Odd(q \cup {0}, p, e) <=> ~ (Odd(q, p, e) <=> e \in p)
<1> DEFINE S == {i \in q : e - i \in p}
           T == {i \in q \cup {0} : e - i \in p}
           n == Cardinality(S)
<1>1. IsFiniteSet(S) /\ n \in Nat /\ 0 \notin S
  BY FS_Subset, FS_CardinalityType
<1>2. CASE e \in p
  <2>1. T = S \cup {0}
    BY <1>2
  <2>2. Cardinality(T) = n + 1
    BY <1>1, <2>1, FS_AddElement
  <2> HIDE DEF S, T, n
  <2>3. (n + 1) % 2 = 1 <=> ~ (n % 2 = 1)
    BY <1>1
  <2>4. (Odd(q \cup {0}, p, e) <=> Cardinality(T) % 2 = 1) /\ (Odd(q, p, e) <=> n % 2 = 1)
    BY DEF Odd, T, S, n
  <2>5. Odd(q \cup {0}, p, e) <=> ~ Odd(q, p, e)
    BY <2>2, <2>3, <2>4
  <2> QED
    BY <1>2, <2>5 DEF Odd
<1>3. CASE e \notin p
  <2>1. T = S
    BY <1>3
  <2>2. Odd(q \cup {0}, p, e) <=> Odd(q, p, e)
    BY <2>1 DEF Odd
  <2> QED
    BY <1>3, <2>2
<1> QED
  BY <1>2, <1>3

(***************************************************************************)
(* Division bit by bit.  bits: the positions, counted from 1, of the ones  *)
(* among the first n bits; q: the quotient so far.  The low bits of value  *)
(* are the rest.                                                           *)
(***************************************************************************)
Divisor(a) == a.poly \cup {a.bitWidth}

Divided(a, value, n, bits, q) ==
    /\ q \in SUBSET Nat /\ IsFiniteSet(q) /\ \A i \in q : i + a.bitWidth < n
    /\ \A i \in value : i \in Nat /\ (i < a.bitWidth => i < n)
    /\ \A e \in Nat :
          (e < n /\ n - e \in bits) <=> ~ (e < a.bitWidth /\ e \in value <=> Odd(q, Divisor(a), e))

LEMMA AlgorithmIs ==
    ASSUME NEW a \in Algorithm
    PROVE  /\ a.bitWidth \in Nat \ {0} /\ a.bitWidth <= UINTMAX_BITS /\ UINTMAX_BITS \in Nat
           /\ a.poly \subseteq 0..(a.bitWidth - 1) /\ a.init \subseteq 0..(a.bitWidth - 1)
           /\ a.xorOut \subseteq 0..(a.bitWidth - 1)
  BY BitAssumption DEF Algorithm, mask

LEMMA BitInIs ==
    ASSUME NEW a \in Algorithm, NEW value \in SUBSET Nat, NEW bit \in BOOLEAN
    PROVE  /\ BitIn(a, value, bit) \in SUBSET Nat
           /\ \A i \in Nat : i < a.bitWidth =>
                (i \in BitIn(a, value, bit) <=>
                    ~ ((IF i = 0 THEN bit ELSE i - 1 \in value)
                          <=> a.bitWidth - 1 \in value /\ i \in a.poly))
<1>1. /\ a.bitWidth \in Nat \ {0} /\ a.bitWidth <= UINTMAX_BITS /\ UINTMAX_BITS \in Nat
      /\ a.poly \subseteq 0..(a.bitWidth - 1)
  BY AlgorithmIs
<1> DEFINE sh == Shl(value, 1) \cup RBIT_FLAG(0, bit)
           div == IF a.bitWidth - 1 \in value THEN a.poly ELSE {}
<1>2. BitIn(a, value, bit) = (sh \ div) \cup (div \ sh)
  BY DEF BitIn, Xor
<1>3. sh \in SUBSET Nat /\ div \in SUBSET Nat
  BY <1>1 DEF Shl, RBIT_FLAG, RBIT_MASK_FULL
<1>4. ASSUME NEW i \in Nat, i < a.bitWidth
      PROVE  i \in sh <=> IF i = 0 THEN bit ELSE i - 1 \in value
  <2>1. i \in RBIT_MASK_FULL
    BY <1>1, <1>4 DEF RBIT_MASK_FULL
  <2>2. i \in {j + 1 : j \in value} <=> i - 1 \in value
    BY <1>4
  <2>3. i \in RBIT_FLAG(0, bit) <=> i = 0 /\ bit
    BY DEF RBIT_FLAG
  <2>4. i = 0 => i - 1 \notin value
    OBVIOUS
  <2> QED
    BY <2>1, <2>2, <2>3, <2>4 DEF Shl
<1>5. ASSUME NEW i \in Nat
      PROVE  i \in div <=> (a.bitWidth - 1 \in value /\ i \in a.poly)
  OBVIOUS
<1> HIDE DEF sh, div
<1>6. BitIn(a, value, bit) \in SUBSET Nat
  BY <1>2, <1>3
<1>7. ASSUME NEW i \in Nat, i < a.bitWidth
      PROVE  i \in BitIn(a, value, bit) <=>
                ~ ((IF i = 0 THEN bit ELSE i - 1 \in value)
                      <=> a.bitWidth - 1 \in value /\ i \in a.poly)
  <2>1. i \in BitIn(a, value, bit) <=> ~ (i \in sh <=> i \in div)
    BY <1>2
  <2> QED
    BY <1>4, <1>5, <1>7, <2>1
<1> QED
  BY <1>6, <1>7

(* One bit more.                                                           *)
LEMMA DivideBit ==
    ASSUME NEW a \in Algorithm, NEW value, NEW n \in Nat, NEW bits, NEW q,
           Divided(a, value, n, bits, q), NEW bit \in BOOLEAN, bit <=> n + 1 \in bits
    PROVE  \E r : Divided(a, BitIn(a, value, bit), n + 1, bits, r)
<1> DEFINE w == a.bitWidth
           top == w - 1 \in value
           p == Divisor(a)
           next == BitIn(a, value, bit)
           r == IF top THEN Shifted(q) \cup {0} ELSE Shifted(q)
<1>1. w \in Nat \ {0} /\ a.poly \subseteq 0..(w - 1) /\ p \in SUBSET Nat
  BY AlgorithmIs DEF Divisor
<1>2. /\ q \in SUBSET Nat /\ IsFiniteSet(q) /\ (\A i \in q : i + w < n)
      /\ \A i \in value : i \in Nat /\ (i < w => i < n)
      /\ \A e \in Nat : (e < n /\ n - e \in bits) <=> ~ (e < w /\ e \in value <=> Odd(q, p, e))
  BY DEF Divided
<1>3. /\ next \in SUBSET Nat
      /\ \A i \in Nat : i < w =>
            (i \in next <=> ~ ((IF i = 0 THEN bit ELSE i - 1 \in value) <=> top /\ i \in a.poly))
  <2>1. value \in SUBSET Nat
    BY <1>2
  <2> QED
    BY <2>1, BitInIs
<1>4. top => w <= n
  BY <1>1, <1>2
<1>5. Shifted(q) \in SUBSET Nat /\ IsFiniteSet(Shifted(q)) /\ 0 \notin Shifted(q)
  <2>1. Shifted(q) \in SUBSET Nat /\ 0 \notin Shifted(q)
    BY <1>2 DEF Shifted
  <2>2. Shifted(q) \in SUBSET (0..n)
    BY <1>1, <1>2 DEF Shifted
  <2>3. IsFiniteSet(0..n)
    BY FS_Interval
  <2> QED
    BY <2>1, <2>2, <2>3, FS_Subset
<1>6. r \in SUBSET Nat /\ IsFiniteSet(r)
  BY <1>5, FS_AddElement
<1>7. ASSUME NEW i \in r PROVE i + w < n + 1
  <2>1. CASE i \in Shifted(q)
    BY <1>1, <1>2, <2>1 DEF Shifted
  <2>2. CASE i = 0 /\ top
    BY <1>1, <1>4, <2>2
  <2> QED
    BY <2>1, <2>2
<1> HIDE DEF p
<1>8. ASSUME NEW e \in Nat
      PROVE  Odd(r, p, e) <=> ~ ((e > 0 /\ Odd(q, p, e - 1)) <=> (top /\ e \in p))
  <2>1. Odd(Shifted(q), p, e) <=> e > 0 /\ Odd(q, p, e - 1)
    BY <1>1, <1>2, OddShifted
  <2>2. CASE top
    <3>1. Odd(Shifted(q) \cup {0}, p, e) <=> ~ (Odd(Shifted(q), p, e) <=> e \in p)
      BY <1>1, <1>5, OddPlusOne
    <3> QED
      BY <2>1, <2>2, <3>1
  <2>3. CASE ~ top
    BY <2>1, <2>3
  <2> QED
    BY <2>2, <2>3
<1>9. \A e \in Nat : e \in p <=> e \in a.poly \/ e = w
  BY DEF p, Divisor
<1> HIDE DEF next, r
<1>10. ASSUME NEW i \in next
       PROVE  i \in Nat /\ (i < w => i < n + 1)
  <2>1. i \in Nat
    BY <1>3
  <2>2. ASSUME i < w PROVE i < n + 1
    <3>1. i = 0 \/ i - 1 \in value \/ top
      BY <1>3, <2>1, <2>2
    <3>2. i - 1 \in value => i - 1 < n
      BY <1>1, <1>2, <2>1, <2>2
    <3> QED
      BY <1>1, <1>4, <2>1, <2>2, <3>1, <3>2
  <2> QED
    BY <2>1, <2>2
<1>11. ASSUME NEW e \in Nat
       PROVE  (e < n + 1 /\ (n + 1) - e \in bits) <=> ~ (e < w /\ e \in next <=> Odd(r, p, e))
  <2>1. CASE e = 0
    <3>1. 0 < n + 1 /\ (n + 1) - 0 = n + 1 /\ 0 < w /\ ~ (0 > 0)
      BY <1>1
    <3>2. 0 \in p <=> 0 \in a.poly
      BY <1>1, <1>9
    <3>3. 0 \in next <=> ~ (bit <=> top /\ 0 \in a.poly)
      BY <1>3, <3>1
    <3>4. Odd(r, p, 0) <=> top /\ 0 \in p
      BY <1>8, <3>1
    <3> QED
      BY <2>1, <3>1, <3>2, <3>3, <3>4
  <2>2. CASE e # 0
    <3> DEFINE d == e - 1
    <3>1. d \in Nat /\ e > 0 /\ (e < n + 1 <=> d < n) /\ (n + 1) - e = n - d
      BY <2>2
    <3>2. (d < n /\ n - d \in bits) <=> ~ (d < w /\ d \in value <=> Odd(q, p, d))
      BY <1>2, <3>1
    <3>3. Odd(r, p, e) <=> ~ (Odd(q, p, d) <=> (top /\ e \in p))
      BY <1>8, <3>1
    <3>4. CASE e < w
      <4>1. d < w /\ e # w
        BY <1>1, <3>4
      <4>2. e \in next <=> ~ (d \in value <=> top /\ e \in a.poly)
        BY <1>3, <2>2, <3>4
      <4>3. e \in p <=> e \in a.poly
        BY <1>9, <4>1
      <4> HIDE DEF d
      <4> QED
        BY <3>1, <3>2, <3>3, <3>4, <4>1, <4>2, <4>3
    <3>5. CASE e = w
      <4>1. d < w /\ ~ (e < w) /\ (d \in value <=> top) /\ e \in p
        BY <1>1, <1>9, <3>5
      <4> HIDE DEF d
      <4> QED
        BY <3>1, <3>2, <3>3, <4>1
    <3>6. CASE ~ (e < w) /\ e # w
      <4>1. ~ (d < w) /\ e \notin a.poly
        BY <1>1, <3>6
      <4>2. e \notin p
        BY <1>9, <3>6, <4>1
      <4> HIDE DEF d
      <4> QED
        BY <3>1, <3>2, <3>3, <3>6, <4>1, <4>2
    <3> QED
      BY <3>4, <3>5, <3>6
  <2> QED
    BY <2>1, <2>2
<1>12. Divided(a, next, n + 1, bits, r)
  BY <1>6, <1>7, <1>10, <1>11 DEF Divided, p
<1> QED
  BY <1>12 DEF next

(* n bits, those at the positions ones, the highest first, one by one.     *)
IsShifted(f, a, value, n, ones, m) ==
    f = [i \in 0..m |-> IF i = 0 THEN value ELSE BitIn(a, f[i - 1], n - i \in ones)]

LEMMA ShiftedExists ==
    ASSUME NEW a, NEW value, NEW n, NEW ones, NEW m \in Nat
    PROVE  \E f : IsShifted(f, a, value, n, ones, m)
<1> DEFINE T == {k \in Nat : ~ \E f : IsShifted(f, a, value, n, ones, k)}
<1> SUFFICES ASSUME m \in T PROVE FALSE
  OBVIOUS
<1>1. PICK k \in T : \A j \in T : k <= j
  <2>1. T \in SUBSET Nat /\ T # {}
    OBVIOUS
  <2> HIDE DEF T
  <2> QED
    BY <2>1, LeastOf
<1>2. CASE k = 0
  <2> DEFINE f == [i \in 0..0 |-> value]
  <2>1. \A i \in 0..0 : i = 0
    OBVIOUS
  <2>2. IsShifted(f, a, value, n, ones, 0)
    BY <2>1 DEF IsShifted
  <2> QED
    BY <1>1, <1>2, <2>2
<1>3. CASE k # 0
  <2>1. k - 1 \in Nat /\ ~ (k <= k - 1) /\ k \in Nat
    BY <1>1, <1>3
  <2>2. PICK g : IsShifted(g, a, value, n, ones, k - 1)
    BY <1>1, <2>1
  <2> DEFINE f == [i \in 0..k |-> IF i = 0 THEN value ELSE BitIn(a, g[i - 1], n - i \in ones)]
  <2>3. \A i \in 0..(k - 1) : f[i] = g[i]
    BY <2>1, <2>2 DEF IsShifted
  <2>4. \A i \in 0..k : i # 0 => i - 1 \in 0..(k - 1)
    BY <2>1
  <2>5. \A i \in 0..k : f[i] = IF i = 0 THEN value ELSE BitIn(a, f[i - 1], n - i \in ones)
    BY <2>3, <2>4
  <2>6. f = [i \in 0..k |-> f[i]]
    OBVIOUS
  <2>7. IsShifted(f, a, value, n, ones, k)
    <3> HIDE DEF f
    <3> QED
      BY <2>5, <2>6 DEF IsShifted
  <2> QED
    BY <1>1, <2>7
<1> QED
  BY <1>2, <1>3

LEMMA DivideBits ==
    ASSUME NEW a \in Algorithm, NEW value, NEW k \in Nat, NEW bits,
           \E q : Divided(a, value, k, bits, q),
           NEW n \in Nat, NEW ones, \A i \in 1..n : k + i \in bits <=> n - i \in ones,
           NEW f, IsShifted(f, a, value, n, ones, n)
    PROVE  \E q : Divided(a, f[n], k + n, bits, q)
<1> DEFINE T == {m \in Nat : m <= n /\ ~ \E q : Divided(a, f[m], k + m, bits, q)}
<1>1. \A i \in 0..n : f[i] = IF i = 0 THEN value ELSE BitIn(a, f[i - 1], n - i \in ones)
  BY DEF IsShifted
<1>2. T = {}
  <2> SUFFICES ASSUME T # {} PROVE FALSE
    OBVIOUS
  <2>1. PICK m \in T : \A j \in T : m <= j
    <3>1. T \in SUBSET Nat
      OBVIOUS
    <3> HIDE DEF T
    <3> QED
      BY <3>1, LeastOf
  <2>2. CASE m = 0
    <3>1. 0 \in 0..n /\ k + 0 = k
      OBVIOUS
    <3>2. f[0] = value
      BY <1>1, <3>1
    <3> QED
      BY <2>1, <2>2, <3>1, <3>2
  <2>3. CASE m # 0
    <3> DEFINE j == m - 1
               bit == n - m \in ones
    <3>1. /\ j \in Nat /\ j <= n /\ ~ (m <= j) /\ m \in 0..n /\ m \in 1..n
          /\ k + j \in Nat /\ (k + j) + 1 = k + m
      BY <2>1, <2>3
    <3>2. PICK q : Divided(a, f[j], k + j, bits, q)
      BY <2>1, <3>1
    <3>3. f[m] = BitIn(a, f[j], bit)
      BY <1>1, <2>3, <3>1
    <3>4. bit \in BOOLEAN /\ (bit <=> (k + j) + 1 \in bits)
      BY <3>1
    <3> HIDE DEF j, bit
    <3>5. \E r : Divided(a, BitIn(a, f[j], bit), (k + j) + 1, bits, r)
      BY <3>1, <3>2, <3>4, DivideBit
    <3> QED
      BY <2>1, <3>1, <3>3, <3>5
  <2> QED
    BY <2>2, <2>3
<1> QED
  BY <1>2

(***************************************************************************)
(* The bits of the stream s, those of init XORed into the first bitWidth.  *)
(***************************************************************************)
In(a, b) == IF a.refIn THEN reflect(b, CHAR_BIT) ELSE b

IsBits(bits, a, s) ==
    \A n \in 1..Len(s), i \in 1..CHAR_BIT :
        (n - 1) * CHAR_BIT + i \in bits
            <=> ~ (CHAR_BIT - i \in In(a, s[n]) <=> a.bitWidth - ((n - 1) * CHAR_BIT + i) \in a.init)

(* The state p of an rcrc that took in s.                                  *)
Checked(p, a, s) ==
    /\ s \in Seq(Byte) /\ a \in Algorithm /\ p.algo = a
    /\ p = [algo |-> p.algo, value |-> p.value, initOffset |-> p.initOffset]
    /\ p.initOffset \in Nat
    /\ IF TakesInit(p) THEN p.initOffset = Len(s) * CHAR_BIT ELSE Len(s) * CHAR_BIT >= a.bitWidth
    /\ \A bits : IsBits(bits, a, s) => \E q : Divided(a, p.value, Len(s) * CHAR_BIT, bits, q)

LEMMA CheckedInit ==
    ASSUME NEW a \in Algorithm
    PROVE  Checked(rcrc_init(a), a, <<>>)
<1> DEFINE p == rcrc_init(a)
<1>1. /\ p.algo = a /\ p.value = {} /\ p.initOffset = 0 /\ <<>> \in Seq(Byte) /\ Len(<<>>) = 0
      /\ p = [algo |-> p.algo, value |-> p.value, initOffset |-> p.initOffset]
  BY DEF rcrc_init
<1>2. a.bitWidth \in Nat \ {0} /\ 0 * CHAR_BIT = 0
  BY AlgorithmIs, BitAssumption
<1>3. TakesInit(p)
  BY <1>1, <1>2 DEF TakesInit
<1>4. ASSUME NEW bits PROVE Divided(a, {}, 0, bits, {})
  <2>1. \A e : {i \in {} : e - i \in Divisor(a)} = {}
    OBVIOUS
  <2>2. \A e : ~ Odd({}, Divisor(a), e)
    BY <2>1, FS_EmptySet DEF Odd
  <2> QED
    BY <1>2, <2>2, FS_EmptySet DEF Divided
<1> HIDE DEF p
<1> QED
  BY <1>1, <1>2, <1>3, <1>4 DEF Checked, p

(* One byte more, the last of t.                                           *)
LEMMA CheckedByte ==
    ASSUME NEW p, NEW a, NEW s, Checked(p, a, s), NEW b,
           NEW t \in Seq(Byte), Len(t) = Len(s) + 1, t[Len(t)] = b, \A j \in 1..Len(s) : t[j] = s[j]
    PROVE  Checked(rcrc_addByte(p, b), a, t)
<1> DEFINE k == Len(s) * CHAR_BIT
           w == a.bitWidth
           offset == IF TakesInit(p) THEN p.initOffset + CHAR_BIT ELSE p.initOffset
           byte == IF TakesInit(p) THEN Xor(In(a, b), InitBits(a, offset)) ELSE In(a, b)
           S(f) == f = [i \in 0..CHAR_BIT |->
                          IF i = 0 THEN p.value ELSE BitIn(a, f[i - 1], CHAR_BIT - i \in byte)]
           shifted == CHOOSE f : S(f)
           next == rcrc_addByte(p, b)
<1>1. /\ s \in Seq(Byte) /\ Len(s) \in Nat /\ a \in Algorithm /\ p.algo = a /\ p.initOffset \in Nat
      /\ p = [algo |-> p.algo, value |-> p.value, initOffset |-> p.initOffset]
      /\ TakesInit(p) <=> p.initOffset < w
      /\ IF TakesInit(p) THEN p.initOffset = k ELSE k >= w
      /\ \A bits : IsBits(bits, a, s) => \E q : Divided(a, p.value, k, bits, q)
  BY DEF Checked, TakesInit
<1>2. /\ w \in Nat \ {0} /\ w <= UINTMAX_BITS /\ UINTMAX_BITS \in Nat
      /\ a.init \subseteq 0..(w - 1)
      /\ CHAR_BIT \in Nat \ {0} /\ CHAR_BIT <= UINTMAX_BITS
  BY <1>1, AlgorithmIs, BitAssumption
<1>3. k \in Nat /\ Len(t) * CHAR_BIT = k + CHAR_BIT
  <2>1. \A x \in Nat : x * CHAR_BIT \in Nat /\ (x + 1) * CHAR_BIT = x * CHAR_BIT + CHAR_BIT
    BY <1>2
  <2> QED
    BY <1>1, <2>1
<1>4. next = [p EXCEPT !.value = shifted[CHAR_BIT], !.initOffset = offset]
  BY <1>1 DEF rcrc_addByte, In
<1> HIDE DEF k, next
<1>5. S(shifted)
  <2>1. \E f : IsShifted(f, a, p.value, CHAR_BIT, byte, CHAR_BIT)
    BY <1>2, ShiftedExists
  <2>2. \A f : IsShifted(f, a, p.value, CHAR_BIT, byte, CHAR_BIT) <=> S(f)
    BY DEF IsShifted
  <2> HIDE DEF S
  <2> QED
    BY <2>1, <2>2
<1>6. IsShifted(shifted, a, p.value, CHAR_BIT, byte, CHAR_BIT)
  BY <1>5 DEF IsShifted
<1> HIDE DEF S, shifted
<1>7. /\ next.algo = a /\ next.value = shifted[CHAR_BIT] /\ next.initOffset = offset
      /\ next = [algo |-> next.algo, value |-> next.value, initOffset |-> next.initOffset]
  BY <1>1, <1>4
<1>8. ASSUME NEW i \in 1..CHAR_BIT
      PROVE  CHAR_BIT - i \in byte <=> ~ (CHAR_BIT - i \in In(a, b) <=> w - (k + i) \in a.init)
  <2> DEFINE d == CHAR_BIT - i
  <2>1. d \in 0..(CHAR_BIT - 1) /\ d \in RBIT_MASK_FULL /\ d \in Nat
    BY <1>2 DEF RBIT_MASK_FULL
  <2>2. CASE TakesInit(p)
    <3>1. offset = k + CHAR_BIT
      BY <1>1, <2>2
    <3>2. d \in InitBits(a, offset) <=> w - (k + i) \in a.init
      <4>1. CASE w <= offset
        <5>1. ASSUME NEW x \in a.init PROVE d = x + (offset - w) <=> x = w - (k + i)
          <6>1. x \in Nat /\ w \in Nat /\ CHAR_BIT \in Nat
            BY <1>2
          <6> HIDE DEF w, offset
          <6> QED
            BY <1>3, <3>1, <6>1
        <5>2. d \in {x + (offset - w) : x \in a.init} <=> w - (k + i) \in a.init
          BY <5>1
        <5> QED
          BY <2>1, <4>1, <5>2 DEF InitBits, Shl
      <4>2. CASE ~ (w <= offset)
        <5>1. ASSUME NEW x \in a.init PROVE d = x - (w - offset) <=> x = w - (k + i)
          <6>1. x \in Nat /\ w \in Nat /\ CHAR_BIT \in Nat
            BY <1>2
          <6> HIDE DEF w, offset
          <6> QED
            BY <1>3, <3>1, <6>1
        <5>2. d \in {x - (w - offset) : x \in a.init} <=> w - (k + i) \in a.init
          BY <5>1
        <5> QED
          BY <2>1, <4>2, <5>2 DEF InitBits, Shr
      <4> QED
        BY <4>1, <4>2
    <3> QED
      BY <2>2, <3>2 DEF Xor
  <2>3. CASE ~ TakesInit(p)
    <3>1. w - (k + i) \notin 0..(w - 1)
      BY <1>1, <1>2, <1>3, <2>3
    <3>2. w - (k + i) \notin a.init
      BY <1>2, <3>1
    <3> QED
      BY <2>3, <3>2
  <2> QED
    BY <2>2, <2>3
<1>9. ASSUME NEW bits, IsBits(bits, a, t)
      PROVE  \E q : Divided(a, next.value, Len(t) * CHAR_BIT, bits, q)
  <2>1. IsBits(bits, a, s)
    <3>1. \A n \in 1..Len(s) : n \in 1..Len(t) /\ t[n] = s[n]
      BY <1>1
    <3> QED
      BY <1>9, <3>1 DEF IsBits
  <2>2. \E q : Divided(a, p.value, k, bits, q)
    BY <1>1, <2>1
  <2>3. ASSUME NEW i \in 1..CHAR_BIT
        PROVE  k + i \in bits <=> CHAR_BIT - i \in byte
    <3>1. Len(t) \in 1..Len(t) /\ (Len(t) - 1) * CHAR_BIT = k
      BY <1>1 DEF k
    <3>2. k + i \in bits <=> ~ (CHAR_BIT - i \in In(a, b) <=> w - (k + i) \in a.init)
      BY <1>9, <3>1 DEF IsBits
    <3> QED
      BY <1>8, <3>2
  <2> HIDE DEF byte
  <2>4. \E q : Divided(a, shifted[CHAR_BIT], k + CHAR_BIT, bits, q)
    BY <1>1, <1>2, <1>3, <1>6, <2>2, <2>3, DivideBits
  <2> QED
    BY <1>3, <1>7, <2>4
<1>10. next.initOffset \in Nat /\ IF TakesInit(next) THEN next.initOffset = Len(t) * CHAR_BIT ELSE Len(t) * CHAR_BIT >= w
  <2>1. TakesInit(next) <=> next.initOffset < w
    BY <1>7 DEF TakesInit
  <2> DEFINE kk == Len(t) * CHAR_BIT
             o == next.initOffset
  <2>2. o = offset /\ kk = k + CHAR_BIT
    BY <1>3, <1>7
  <2> HIDE DEF kk, o
  <2>3. o \in Nat /\ (o < w => o = kk) /\ (~ (o < w) => kk >= w)
    BY <1>1, <1>2, <1>3, <2>2
  <2> QED
    BY <2>1, <2>3 DEF kk, o
<1> HIDE DEF offset, byte
<1> QED
  BY <1>1, <1>7, <1>9, <1>10 DEF Checked, next

LEMMA AddIsRun ==
    ASSUME NEW v, NEW n, NEW s, IsList(s, n)
    PROVE  rcrc_add(v, s) = (CHOOSE h : IsRun("crc", h, v, s, n))[1..n]
<1>1. DOMAIN s = 1..n
  BY DEF IsList
<1> DEFINE R(h) == h = [t \in SUBSET (1..n) |->
                          IF t = {} THEN v ELSE rcrc_addByte(h[t \ {Max(t)}], s[Max(t)])]
<1>2. \A h : R(h) <=> IsRun("crc", h, v, s, n)
  BY DEF IsRun, Taken
<1>3. rcrc_add(v, s) = (CHOOSE h : R(h))[1..n]
  BY <1>1 DEF rcrc_add, FoldLeft, MapThenFoldSet
<1> HIDE DEF R
<1>4. (CHOOSE h : R(h)) = CHOOSE h : IsRun("crc", h, v, s, n)
  BY <1>2, Zenon
<1> QED
  BY <1>3, <1>4

LEMMA ByteStep ==
    ASSUME NEW v, NEW s, NEW n \in Nat, NEW h, IsRun("crc", h, v, s, n)
    PROVE  /\ h[1..0] = v
           /\ \A k \in 1..n : h[1..k] = rcrc_addByte(h[1..(k - 1)], s[k])
<1> DEFINE kd == "crc"
<1>1. IsRun(kd, h, v, s, n)
  OBVIOUS
<1> HIDE DEF kd
<1>2. h[1..0] = v /\ \A k \in 1..n : h[1..k] = Taken(kd, h[1..(k - 1)], s[k])
  <2>1. n \in Nat
    OBVIOUS
  <2> QED
    BY ONLY <1>1, <2>1, RunStep
<1> QED
  BY <1>2 DEF Taken, kd

(* A buffer more.                                                          *)
LEMMA CheckedAdd ==
    ASSUME NEW p, NEW a, NEW s, Checked(p, a, s), NEW b \in Seq(Byte)
    PROVE  Checked(rcrc_add(p, b), a, s \o b)
<1> DEFINE n == Len(b)
           l == Len(s)
           h == CHOOSE h : IsRun("crc", h, p, b, n)
           D(k) == [i \in 1..(l + k) |-> (s \o b)[i]]
           T == {k \in Nat : k <= n /\ ~ Checked(h[1..k], a, D(k))}
<1>1. /\ s \in Seq(Byte) /\ l \in Nat /\ n \in Nat /\ IsList(b, n)
      /\ s \o b \in Seq(Byte) /\ Len(s \o b) = l + n
      /\ \A j \in 1..l : (s \o b)[j] = s[j]
      /\ \A j \in 1..n : (s \o b)[l + j] = b[j]
  <2>1. s \in Seq(Byte)
    BY DEF Checked
  <2>2. IsList(b, Len(b))
    BY DEF IsList
  <2> QED
    BY <2>1, <2>2, Appended
<1> HIDE DEF n, l
<1>2. IsRun("crc", h, p, b, n)
  BY <1>1, RunExists
<1>3. rcrc_add(p, b) = h[1..n]
  BY <1>1, AddIsRun
<1> HIDE DEF h
<1>4. h[1..0] = p /\ \A k \in 1..n : h[1..k] = rcrc_addByte(h[1..(k - 1)], b[k])
  BY <1>1, <1>2, ByteStep
<1>5. ASSUME NEW k \in Nat, k <= n
      PROVE  D(k) \in Seq(Byte) /\ Len(D(k)) = l + k /\ \A i \in 1..(l + k) : D(k)[i] = (s \o b)[i]
  <2> DEFINE c == s \o b
  <2>1. \A i \in 1..(l + k) : c[i] \in Byte
    <3>1. c \in Seq(Byte) /\ Len(c) = l + n
      BY <1>1
    <3> HIDE DEF c
    <3> QED
      BY <1>1, <1>5, <3>1
  <2>2. D(k) \in [1..(l + k) -> Byte] /\ l + k \in Nat
    <3>1. D(k) = [i \in 1..(l + k) |-> c[i]]
      OBVIOUS
    <3> HIDE DEF c, D
    <3>2. [i \in 1..(l + k) |-> c[i]] \in [1..(l + k) -> Byte]
      BY <2>1
    <3> QED
      BY <1>1, <3>1, <3>2
  <2> DEFINE m == l + k
  <2>3. \A i \in 1..m : D(k)[i] = (s \o b)[i]
    OBVIOUS
  <2> HIDE DEF D, m
  <2>4. D(k) \in Seq(Byte) /\ Len(D(k)) = m
    BY <2>2 DEF m
  <2> QED
    BY <2>3, <2>4 DEF m
<1>6. D(0) = s /\ D(n) = s \o b
  <2>1. \A i \in 1..l : (s \o b)[i] = s[i]
    BY <1>1
  <2>2. s = [i \in 1..l |-> s[i]] /\ l + 0 = l
    BY <1>1 DEF l
  <2>3. D(n) = s \o b
    <3> DEFINE c == s \o b
    <3>1. c \in Seq(Byte) /\ Len(c) = l + n
      BY <1>1
    <3> HIDE DEF c
    <3>2. c = [i \in 1..(l + n) |-> c[i]]
      BY <3>1
    <3> QED
      BY <3>2 DEF c
  <2> QED
    BY <2>1, <2>2, <2>3
<1>7. T = {}
  <2> SUFFICES ASSUME T # {} PROVE FALSE
    OBVIOUS
  <2>1. PICK k \in T : \A j \in T : k <= j
    <3>1. T \in SUBSET Nat
      OBVIOUS
    <3> HIDE DEF T
    <3> QED
      BY <3>1, LeastOf
  <2>2. CASE k = 0
    BY <1>4, <1>6, <2>1, <2>2
  <2>3. CASE k # 0
    <3> DEFINE j == k - 1
    <3>1. /\ j \in Nat /\ j <= n /\ ~ (k <= j) /\ k = j + 1 /\ k \in 1..n /\ k \in Nat /\ k <= n
          /\ l + k = (l + j) + 1
      BY <1>1, <2>1, <2>3
    <3>2. Checked(h[1..j], a, D(j))
      BY <2>1, <3>1
    <3>3. h[1..k] = rcrc_addByte(h[1..j], b[k])
      BY <1>4, <3>1
    <3> HIDE DEF j
    <3>4. /\ D(k) \in Seq(Byte) /\ Len(D(k)) = Len(D(j)) + 1
          /\ \A i \in 1..Len(D(j)) : D(k)[i] = D(j)[i]
      <4>1. \A i \in 1..(l + j) : i \in 1..(l + k)
        BY <1>1, <3>1
      <4>2. Len(D(j)) = l + j /\ Len(D(k)) = l + k
        BY <1>5, <3>1
      <4> QED
        BY <1>5, <3>1, <4>1, <4>2
    <3>5. D(k)[Len(D(k))] = b[k]
      <4>1. l + k \in 1..(l + k)
        BY <1>1, <3>1
      <4> QED
        BY <1>1, <1>5, <3>1, <4>1
    <3> HIDE DEF D
    <3>6. Checked(rcrc_addByte(h[1..j], b[k]), a, D(k))
      BY <3>2, <3>4, <3>5, CheckedByte
    <3> QED
      BY <2>1, <3>3, <3>6
  <2> QED
    BY <2>2, <2>3
<1> HIDE DEF D
<1>8. Checked(h[1..n], a, D(n))
  BY <1>1, <1>7
<1> QED
  BY <1>3, <1>6, <1>8

(***************************************************************************)
(* The low bits of the register are the remainder of what was taken in so  *)
(* far: the bits of the stream, each byte reflected or not, and of init    *)
(* as many as the bytes were long; initOffset says how many those are.     *)
(***************************************************************************)
CrcInv == kind = "crc" => Checked(digest, key, stream)

(* rcrc_add leaves that state behind, wherever the client cuts.            *)
THEOREM CrcInvHolds == DigestSpec => []CrcInv
<1>1. DigestInit => CrcInv
  <2> SUFFICES ASSUME DigestInit, kind = "crc" PROVE Checked(digest, key, stream)
    BY DEF CrcInv
  <2>1. digest = rcrc_init(key) /\ stream = <<>> /\ key \in Algorithm
    BY DigestAssumption DEF DigestInit
  <2> QED
    BY <2>1, CheckedInit
<1>2. ASSUME CrcInv, [DigestNext]_digestVars PROVE CrcInv'
  <2>1. CASE AddToCrc
    <3>1. Checked(digest, key, stream)
      BY <1>2, <2>1 DEF AddToCrc, CrcInv
    <3>2. PICK b \in Buffers(Byte, MaxChecked) : digest' = rcrc_add(digest, b) /\ Streamed(b)
      BY <2>1 DEF AddToCrc
    <3>3. b \in Seq(Byte)
      <4>1. Len(stream) \in Nat /\ MaxChecked \in Nat
        BY <3>1, DigestAssumption DEF Checked
      <4>2. PICK n \in 0..(MaxChecked - Len(stream)) : b \in [1..n -> Byte]
        BY <3>2 DEF Buffers
      <4>3. n \in Nat
        BY <4>1
      <4> QED
        BY <4>2, <4>3
    <3>4. Checked(rcrc_add(digest, b), key, stream \o b)
      BY <3>1, <3>3, CheckedAdd
    <3>5. digest' = rcrc_add(digest, b) /\ stream' = stream \o b /\ key' = key
      BY <3>2 DEF Streamed
    <3> QED
      BY <3>4, <3>5 DEF CrcInv
  <2>2. CASE AddToHash
    BY <2>2 DEF AddToHash, Streamed, CrcInv
  <2>3. CASE UNCHANGED digestVars
    BY <1>2, <2>3 DEF digestVars, CrcInv
  <2> QED
    BY <1>2, <2>1, <2>2, <2>3 DEF DigestNext
<1> QED
  BY <1>1, <1>2, PTL DEF DigestSpec

(* What IsCrc divides, and its bits from the top.                          *)
Dividend ==
    Xor({e + key.bitWidth : e \in StreamPolynomial}, {e + StreamBits : e \in key.init})

DividendBits == {j \in 1..StreamBits : (StreamBits + key.bitWidth) - j \in Dividend}

LEMMA DividendIs ==
    ASSUME key \in Algorithm, stream \in Seq(Byte)
    PROVE  /\ StreamBits \in Nat /\ StreamBits = Len(stream) * CHAR_BIT
           /\ \A e \in Dividend :
                 /\ e \in Nat /\ e < StreamBits + key.bitWidth
                 /\ StreamBits >= key.bitWidth => e >= key.bitWidth
           /\ IsBits(DividendBits, key, stream)
<1> DEFINE a == key
           w == a.bitWidth
           L == Len(stream)
           N == StreamBits
           D == Dividend
           bits == DividendBits
<1>1. /\ w \in Nat \ {0} /\ a.init \subseteq 0..(w - 1) /\ CHAR_BIT \in Nat \ {0} /\ L \in Nat
  BY AlgorithmIs, BitAssumption
<1>2. N \in Nat /\ N = L * CHAR_BIT
  BY <1>1 DEF StreamBits
<1>3. StreamPolynomial = {e \in 0..(N - 1) : e % CHAR_BIT \in In(a, stream[L - (e \div CHAR_BIT)])}
  BY DEF StreamPolynomial, In
<1> HIDE DEF w, L, N, D, bits
<1>4. \A e : e \in D <=> ~ (e \in {x + w : x \in StreamPolynomial} <=> e \in {x + N : x \in a.init})
  BY DEF Xor, w, N, D, Dividend
<1>5. ASSUME NEW e \in D
      PROVE  e \in Nat /\ e < N + w /\ (N >= w => e >= w)
  <2>1. CASE e \in {x + w : x \in StreamPolynomial}
    <3>1. PICK x \in 0..(N - 1) : e = x + w
      BY <1>3, <2>1
    <3> QED
      BY <1>1, <1>2, <3>1
  <2>2. CASE e \in {x + N : x \in a.init}
    <3>1. PICK x \in 0..(w - 1) : e = x + N
      BY <1>1, <2>2
    <3> QED
      BY <1>1, <1>2, <3>1
  <2> QED
    BY <1>4, <2>1, <2>2
<1>6. ASSUME NEW n \in 1..L, NEW i \in 1..CHAR_BIT
      PROVE  (n - 1) * CHAR_BIT + i \in bits
                <=> ~ (CHAR_BIT - i \in In(a, stream[n]) <=> w - ((n - 1) * CHAR_BIT + i) \in a.init)
  <2> DEFINE b == (n - 1) * CHAR_BIT
             m == L - n
             c == m * CHAR_BIT
             r == CHAR_BIT - i
             j == b + i
             e == N - j
  <2>1. /\ m \in Nat /\ r \in 0..(CHAR_BIT - 1) /\ n - 1 \in Nat /\ (n - 1) + 1 = n /\ n + m = L
        /\ L - m = n /\ n \in Nat
    BY <1>1
  <2>2. b \in Nat /\ c \in Nat /\ N = b + CHAR_BIT + c
    <3>1. \A x, y \in Nat : x * CHAR_BIT \in Nat /\ (x + y) * CHAR_BIT = x * CHAR_BIT + y * CHAR_BIT
      BY <1>1
    <3>2. n * CHAR_BIT = (n - 1) * CHAR_BIT + 1 * CHAR_BIT
      BY <2>1, <3>1
    <3>3. L * CHAR_BIT = n * CHAR_BIT + m * CHAR_BIT
      BY <2>1, <3>1
    <3>4. 1 * CHAR_BIT = CHAR_BIT
      BY <1>1
    <3>5. N = L * CHAR_BIT
      BY <1>2
    <3> HIDE DEF m
    <3> QED
      BY <1>1, <2>1, <3>1, <3>2, <3>3, <3>4, <3>5
  <2>3. (c + r) \div CHAR_BIT = m /\ (c + r) % CHAR_BIT = r
    <3> HIDE DEF m, r
    <3> QED
      BY <1>1, <2>1, DivIs
  <2> HIDE DEF b, c
  <2>4. e = c + r /\ e \in 0..(N - 1) /\ j \in 1..N /\ j \in Nat /\ e \in Nat
    BY <1>1, <2>1, <2>2
  <2>5. e \in StreamPolynomial <=> r \in In(a, stream[n])
    <3>1. e % CHAR_BIT = r /\ L - (e \div CHAR_BIT) = n
      <4> HIDE DEF e, m, r
      <4> QED
        BY <2>1, <2>3, <2>4
    <3> HIDE DEF e, r
    <3> QED
      BY <1>3, <2>4, <3>1
  <2> DEFINE d == (N + w) - j
  <2>6. d \in {x + w : x \in StreamPolynomial} <=> e \in StreamPolynomial
    <3>1. \A x \in StreamPolynomial : x \in 0..(N - 1)
      BY <1>3
    <3>2. ASSUME NEW x \in 0..(N - 1) PROVE d = x + w <=> x = e
      <4> HIDE DEF j
      <4> QED
        BY <1>1, <1>2, <2>4
    <3> HIDE DEF d, e
    <3> QED
      BY <3>1, <3>2
  <2>7. d \in {x + N : x \in a.init} <=> w - j \in a.init
    <3>1. \A x \in a.init : x \in 0..(w - 1)
      BY <1>1
    <3>2. ASSUME NEW x \in 0..(w - 1) PROVE d = x + N <=> x = w - j
      <4> HIDE DEF j
      <4> QED
        BY <1>1, <1>2, <2>4
    <3> HIDE DEF d, j
    <3> QED
      BY <3>1, <3>2
  <2>8. j \in bits <=> d \in D
    <3> HIDE DEF j
    <3> QED
      BY <2>4 DEF w, N, D, bits, DividendBits
  <2>9. d \in D <=> ~ (r \in In(a, stream[n]) <=> w - j \in a.init)
    BY <1>4, <2>5, <2>6, <2>7
  <2>10. j \in bits <=> ~ (r \in In(a, stream[n]) <=> w - j \in a.init)
    BY <2>8, <2>9
  <2> QED
    BY <2>10 DEF b
<1>7. IsBits(bits, a, stream)
  BY <1>6 DEF IsBits, L, w
<1> QED
  BY <1>2, <1>5, <1>7 DEF w, L, N, D, bits

(* bitWidth zero bits more leave the remainder.                            *)
LEMMA ResultIsCrc ==
    ASSUME Checked(digest, key, stream), StreamBits >= key.bitWidth
    PROVE  IsCrc(rcrc_result(digest))
<1> DEFINE a == key
           w == a.bitWidth
           N == StreamBits
           D == Dividend
           bits == DividendBits
           S(f) == f = [i \in 0..w |-> IF i = 0 THEN digest.value ELSE BitIn(a, f[i - 1], FALSE)]
           shifted == CHOOSE f : S(f)
           value == shifted[w]
           masked == value \cap mask(w)
<1>1. /\ a \in Algorithm /\ stream \in Seq(Byte) /\ digest.algo = a
      /\ w \in Nat \ {0} /\ w <= UINTMAX_BITS /\ UINTMAX_BITS \in Nat
      /\ Len(stream) \in Nat
  BY AlgorithmIs DEF Checked
<1>2. N = Len(stream) * CHAR_BIT
  BY <1>1, DividendIs
<1>3. /\ N \in Nat /\ N >= w
      /\ \A e \in D : e \in Nat /\ e < N + w /\ e >= w
      /\ IsBits(bits, a, stream)
  BY <1>1, DividendIs
<1>4. rcrc_result(digest) = Xor(IF a.refOut THEN reflect(masked, w) ELSE masked, a.xorOut)
  BY <1>1 DEF rcrc_result
<1>5. IsShifted(shifted, a, digest.value, w, {}, w)
  <2>1. \E f : IsShifted(f, a, digest.value, w, {}, w)
    BY <1>1, ShiftedExists
  <2>2. ASSUME NEW f PROVE IsShifted(f, a, digest.value, w, {}, w) <=> S(f)
    <3>1. \A i, x : BitIn(a, x, w - i \in {}) = BitIn(a, x, FALSE)
      <4>1. \A i : RBIT_FLAG(0, w - i \in {}) = RBIT_FLAG(0, FALSE)
        BY DEF RBIT_FLAG
      <4> QED
        BY <4>1 DEF BitIn
    <3> QED
      BY <3>1 DEF IsShifted
  <2> HIDE DEF S
  <2> QED
    BY <2>1, <2>2
<1> HIDE DEF S, shifted
<1>6. PICK q : Divided(a, value, N + w, bits, q)
  <2>1. \E q : Divided(a, digest.value, N, bits, q)
    BY <1>2, <1>3 DEF Checked
  <2>2. \A i \in 1..w : N + i \in bits <=> w - i \in {}
    <3>1. \A i \in 1..w : N + i \notin 1..N
      <4> HIDE DEF N, w
      <4> QED
        BY <1>1, <1>3
    <3> QED
      BY <3>1 DEF DividendBits
  <2> HIDE DEF N, bits, w, a
  <2>3. \E q : Divided(a, shifted[w], N + w, bits, q)
    BY <1>1, <1>3, <1>5, <2>1, <2>2, DivideBits
  <2> QED
    BY <2>3
<1>7. /\ q \in SUBSET Nat /\ \A i \in q : i + w < N + w
      /\ \A e \in Nat : (e < N + w /\ (N + w) - e \in bits)
                            <=> ~ (e < w /\ e \in value <=> Odd(q, Divisor(a), e))
  BY <1>6 DEF Divided
<1>8. q \in SUBSET (0..(StreamBits - 1))
  <2> HIDE DEF N, w
  <2>1. \A i \in q : i \in Nat /\ i < N
    BY <1>1, <1>3, <1>7
  <2>2. q \in SUBSET (0..(N - 1))
    BY <1>3, <2>1
  <2> QED
    BY <2>2 DEF N
<1> DEFINE product == Product(q, a.poly \cup {w}, 0..(StreamBits + w - 1))
<1>9. Xor(D, product) = masked
  <2>1. \A e : e \in product <=> e \in 0..(N + w - 1) /\ Odd(q, Divisor(a), e)
    BY DEF Product, Odd, Divisor
  <2>2. \A e : e \in masked <=> e \in value /\ e \in 0..(w - 1)
    BY <1>1 DEF mask, RBIT_MASK_FULL
  <2>3. \A e \in D : (N + w) - e \in bits
    <3>1. ASSUME NEW e \in D PROVE (N + w) - e \in 1..N /\ (N + w) - ((N + w) - e) = e
      <4> HIDE DEF N, w, D
      <4> QED
        BY <1>1, <1>3
    <3> HIDE DEF D, N, w
    <3> QED
      BY <3>1 DEF bits, DividendBits, D, N, w
  <2>4. \A e \in Nat : (N + w) - e \in bits => e \in D
    <3>1. \A e \in Nat : (N + w) - ((N + w) - e) = e
      <4> HIDE DEF N, w
      <4> QED
        BY <1>1, <1>3
    <3> HIDE DEF D, N, w
    <3> QED
      BY <3>1 DEF bits, DividendBits, D, N, w
  <2>5. \A e : e \in Xor(D, product) <=> ~ (e \in D <=> e \in product)
    BY DEF Xor
  <2> HIDE DEF D, product, masked, bits, N, w, value
  <2>6. ASSUME NEW e \in Nat, e < N + w
        PROVE  ~ (e \in D <=> e \in product) <=> e \in masked
    <3>1. e \in 0..(N + w - 1) /\ (e \in 0..(w - 1) <=> e < w)
      BY <1>1, <1>3, <2>6
    <3>2. e \in D <=> ~ (e < w /\ e \in value <=> Odd(q, Divisor(a), e))
      BY <1>7, <2>3, <2>4, <2>6
    <3> QED
      BY <2>1, <2>2, <3>1, <3>2
  <2>7. ASSUME NEW e, ~ (e \in Nat /\ e < N + w)
        PROVE  e \notin D /\ e \notin product /\ e \notin masked
    <3>1. e \notin 0..(N + w - 1) /\ e \notin 0..(w - 1)
      BY <1>1, <1>3, <2>7
    <3>2. e \notin D
      BY <1>3, <2>7
    <3> QED
      BY <2>1, <2>2, <3>1, <3>2
  <2>8. \A e : e \in Xor(D, product) <=> e \in masked
    BY <2>5, <2>6, <2>7
  <2> QED
    BY <2>8
<1>10. masked \subseteq 0..(w - 1)
  BY DEF mask
<1> HIDE DEF masked
<1> QED
  BY <1>4, <1>8, <1>9, <1>10 DEF IsCrc, Dividend

(***************************************************************************)
(* However the client cuts its stream into buffers, and whenever it asks   *)
(* after bitWidth bits at least, rcrc_result is the remainder that the     *)
(* catalogue defines, for every algorithm that rcrc_init accepts.          *)
(***************************************************************************)
THEOREM CrcOfStreamHolds == DigestSpec => []CrcOfStream
<1>1. CrcInv => CrcOfStream
  BY ResultIsCrc DEF CrcInv, CrcOfStream
<1> QED
  BY <1>1, CrcInvHolds, PTL

=============================================================================
