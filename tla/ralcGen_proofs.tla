--------------------------- MODULE ralcGen_proofs ---------------------------
EXTENDS ralcGenUsage, Lemmas, TLAPS

(***************************************************************************)
(* RAT_ALIGN rounds up.                                                    *)
(***************************************************************************)
LEMMA AlignUp ==
    ASSUME NEW n \in Nat
    PROVE  Align(n) \in Nat /\ Align(n) >= n
  BY AlignmentAssumption DEF Align

LEMMA HeaderPos == Header \in Nat /\ Header > 0
  BY HeaderAssumption

(* A map of headers.                                                       *)
HeaderMap(m) == DOMAIN m \subseteq Nat /\ m \in [DOMAIN m -> Fields]

(* m1 is m with the header h written at b, where q follows b.              *)
Written(m1, m, e, b, h, q) ==
    /\ HeaderMap(m1)
    /\ DOMAIN m1 = {y \in DOMAIN m : y < b \/ q <= y} \cup {b}
    /\ m1[b] = h
    /\ \A x \in DOMAIN m1 : x # b =>
         /\ m1[x].unused = m[x].unused
         /\ m1[x].size = m[x].size
         /\ x = q /\ q < e => m1[x].prev = h.size
         /\ ~(x = q /\ q < e) => m1[x].prev = m[x].prev

(***************************************************************************)
(* The headers after Put: which there are and what is in them.             *)
(***************************************************************************)
LEMMA PutWrites ==
    ASSUME NEW m, HeaderMap(m),
           NEW e \in Nat, NEW b \in Nat, NEW h \in Fields,
           NEW q, q = b + Header + h.size
    PROVE  Written(Put(m, e, b, h), m, e, b, h, q)
<1> DEFINE m1 == Put(m, e, b, h)
<1>1. DOMAIN m1 = {y \in DOMAIN m : y < b \/ q <= y} \cup {b}
  BY DEF Put
<1>2. DOMAIN m1 \subseteq Nat
  BY <1>1 DEF HeaderMap
<1>3. m1[b] = h
  BY DEF Put
<1>4. ASSUME NEW x \in DOMAIN m1, x # b, x = q, q < e
      PROVE  m1[x] = [prev |-> h.size, unused |-> m[x].unused, size |-> m[x].size]
  BY <1>1, <1>4 DEF Put
<1>5. ASSUME NEW x \in DOMAIN m1, x # b, ~(x = q /\ q < e)
      PROVE  m1[x] = m[x]
  BY <1>1, <1>5 DEF Put
<1>6. ASSUME NEW x \in DOMAIN m1
      PROVE  m1[x] \in Fields
  <2>1. CASE x = b
    BY <2>1, <1>3
  <2>2. CASE x # b /\ x = q /\ q < e
    <3>1. m[x] \in Fields
      BY <2>2, <1>1 DEF HeaderMap
    <3> QED
      BY <3>1, <2>2, <1>4 DEF Fields
  <2>3. CASE x # b /\ ~(x = q /\ q < e)
    BY <2>3, <1>1, <1>5 DEF HeaderMap
  <2> QED
    BY <2>1, <2>2, <2>3
<1>7. m1 \in [DOMAIN m1 -> Fields]
  <2>1. m1 = [x \in DOMAIN m1 |-> m1[x]]
    BY DEF Put
  <2> QED
    BY <2>1, <1>6
<1>8. ASSUME NEW x \in DOMAIN m1, x # b
      PROVE  /\ m1[x].unused = m[x].unused
             /\ m1[x].size = m[x].size
             /\ x = q /\ q < e => m1[x].prev = h.size
             /\ ~(x = q /\ q < e) => m1[x].prev = m[x].prev
  <2>1. CASE x = q /\ q < e
    BY <2>1, <1>8, <1>4
  <2>2. CASE ~(x = q /\ q < e)
    BY <2>2, <1>8, <1>5
  <2> QED
    BY <2>1, <2>2
<1> QED
  BY <1>1, <1>2, <1>3, <1>7, <1>8 DEF HeaderMap, Written

(* m1 is m where b and the avail bytes up to q became a used block of used *)
(* bytes and, if a header fits there, an unused one at r.  Every header    *)
(* outside (b, q) keeps its fields, except the back link of q.             *)
SplitInto(m1, m, b, avail, used, r, q) ==
    /\ HeaderMap(m1)
    /\ r + Header <= q =>
          /\ DOMAIN m1 = {y \in DOMAIN m : y <= b \/ q <= y} \cup {r}
          /\ m1[b].size = used
          /\ m1[r].unused /\ m1[r].size = q - r - Header /\ m1[r].prev = used
          /\ m1[q].prev = q - r - Header
    /\ ~(r + Header <= q) =>
          /\ DOMAIN m1 = {y \in DOMAIN m : y <= b \/ q <= y}
          /\ m1[b].size = avail
          /\ m1[q].prev = avail
    /\ m1[b].prev = m[b].prev /\ m1[b].unused = FALSE
    /\ m1[b].size = SplitSize(avail, used)
    /\ \A x \in DOMAIN m : x < b \/ q <= x =>
          /\ m1[x].size = m[x].size /\ m1[x].unused = m[x].unused
          /\ x # q => m1[x].prev = m[x].prev

(***************************************************************************)
(* What block_split does when the bytes it is given end at a block.        *)
(***************************************************************************)
LEMMA SplitWrites ==
    ASSUME NEW m, NEW e, WellFormed(m, e),
           NEW b \in DOMAIN m, NEW avail \in Nat, NEW used \in Nat, used <= avail,
           NEW q \in DOMAIN m, q = b + Header + avail,
           NEW r, r = b + Header + used
    PROVE  SplitInto(Split(m, e, b, avail, used), m, b, avail, used, r, q)
<1> DEFINE m1 == Split(m, e, b, avail, used)
           mr == SplitRest(m, e, b, avail, used)
           hb == [prev |-> m[b].prev, unused |-> FALSE, size |-> SplitSize(avail, used)]
           hr == [prev |-> 0, unused |-> TRUE, size |-> avail - used - Header]
<1>1. /\ b \in Nat /\ q \in Nat /\ e \in Nat /\ r \in Nat
      /\ DOMAIN m \subseteq Nat /\ HeaderMap(m)
      /\ b < q /\ b < r /\ q < e
  BY HeaderPos DEF WellFormed, HeadersIn, HeaderMap, Tiled, NextOf, Fields
<1>2. hb \in Fields /\ hb.size = SplitSize(avail, used) /\ hb.prev = m[b].prev /\ hb.unused = FALSE
  BY <1>1, HeaderPos DEF HeaderMap, Fields, SplitSize
<1>3. m1 = Put(mr, e, b, hb)
  BY DEF Split
<1> SUFFICES SplitInto(m1, m, b, avail, used, r, q)
  OBVIOUS
<1> HIDE DEF m1
<1>4. CASE r + Header <= q
  <2>1. avail - used >= Header /\ avail - used - Header \in Nat /\ r < q /\ r < e
    BY <1>1, <1>4, HeaderPos
  <2>2. hr \in Fields /\ hr.size = q - r - Header /\ hr.unused = TRUE
    BY <1>1, <2>1, HeaderPos DEF Fields
  <2>3. mr = Put(m, e, r, hr)
    BY <2>1 DEF SplitRest
  <2>4. q = r + Header + hr.size
    BY <1>1, <2>1, HeaderPos
  <2>5. hb.size = used /\ r = b + Header + hb.size
    BY <1>2, <2>1 DEF SplitSize
  <2> HIDE DEF hr, mr, hb
  <2>6. Written(mr, m, e, r, hr, q)
    BY <1>1, <2>2, <2>3, <2>4, PutWrites
  <2>7. HeaderMap(mr)
    BY <2>6 DEF Written
  <2>8. Written(m1, mr, e, b, hb, r)
    BY <1>1, <1>2, <1>3, <2>5, <2>7, PutWrites
  <2>9. DOMAIN mr = {y \in DOMAIN m : y < r \/ q <= y} \cup {r}
    BY <2>6 DEF Written
  <2>10. DOMAIN m1 = {y \in DOMAIN mr : y < b \/ r <= y} \cup {b}
    BY <2>8 DEF Written
  <2>11. DOMAIN m1 = {y \in DOMAIN m : y <= b \/ q <= y} \cup {r}
    <3>1. \A x : x \in DOMAIN m1 <=> x \in {y \in DOMAIN m : y <= b \/ q <= y} \cup {r}
      BY <1>1, <2>1, <2>9, <2>10
    <3> QED
      BY <3>1
  <2>12. ASSUME NEW x \in DOMAIN m, x < b \/ q <= x
         PROVE  /\ m1[x].size = m[x].size /\ m1[x].unused = m[x].unused
                /\ x # q => m1[x].prev = m[x].prev
    <3>1. x \in DOMAIN m1 /\ x \in DOMAIN mr /\ x # b /\ x # r
      BY <1>1, <2>1, <2>9, <2>11, <2>12
    <3> QED
      BY <3>1, <2>6, <2>8 DEF Written
  <2>13. m1[q].prev = q - r - Header
    <3>1. q \in DOMAIN m1 /\ q \in DOMAIN mr /\ q # b /\ q # r
      BY <1>1, <2>1, <2>9, <2>11
    <3> QED
      BY <3>1, <1>1, <2>2, <2>6, <2>8 DEF Written
  <2>14. m1[r].unused /\ m1[r].size = q - r - Header /\ m1[r].prev = used
    <3>1. r \in DOMAIN m1 /\ r # b
      BY <1>1, <2>11
    <3> QED
      BY <3>1, <2>1, <2>2, <2>5, <2>6, <2>8 DEF Written
  <2> QED
    BY <1>2, <1>4, <2>5, <2>8, <2>11, <2>12, <2>13, <2>14 DEF Written, SplitInto
<1>5. CASE ~(r + Header <= q)
  <2>1. ~(avail - used >= Header)
    BY <1>1, <1>5, HeaderPos
  <2>2. mr = m /\ SplitSize(avail, used) = avail
    BY <2>1 DEF SplitRest, SplitSize
  <2>3. q = b + Header + hb.size
    BY <1>2, <2>2
  <2> HIDE DEF mr, hb
  <2>4. Written(m1, m, e, b, hb, q)
    BY <1>1, <1>2, <1>3, <2>2, <2>3, PutWrites
  <2>5. DOMAIN m1 = {y \in DOMAIN m : y < b \/ q <= y} \cup {b}
    BY <2>4 DEF Written
  <2>6. DOMAIN m1 = {y \in DOMAIN m : y <= b \/ q <= y}
    <3>1. \A x : x \in DOMAIN m1 <=> x \in {y \in DOMAIN m : y <= b \/ q <= y}
      BY <1>1, <2>5
    <3> QED
      BY <3>1
  <2>7. ASSUME NEW x \in DOMAIN m, x < b \/ q <= x
        PROVE  /\ m1[x].size = m[x].size /\ m1[x].unused = m[x].unused
               /\ x # q => m1[x].prev = m[x].prev
    <3>1. x \in DOMAIN m1 /\ x # b
      BY <1>1, <2>6, <2>7
    <3> QED
      BY <3>1, <2>4 DEF Written
  <2>8. m1[q].prev = avail
    <3>1. q \in DOMAIN m1 /\ q # b
      BY <1>1, <2>6
    <3> QED
      BY <3>1, <1>1, <1>2, <2>2, <2>4 DEF Written
  <2> QED
    BY <1>2, <1>5, <2>2, <2>4, <2>6, <2>7, <2>8 DEF Written, SplitInto
<1> QED
  BY <1>4, <1>5

(***************************************************************************)
(* The geometry of a well-formed buffer: positions around a block q.       *)
(***************************************************************************)
LEMMA Around ==
    ASSUME NEW m, NEW e, WellFormed(m, e), NEW q \in DOMAIN m
    PROVE  /\ HeaderMap(m) /\ e \in Nat /\ q \in Nat
           /\ NextOf(m, q) \in Nat /\ q + Header <= NextOf(m, q) /\ NextOf(m, q) <= e
           /\ \A x \in DOMAIN m : x < q => NextOf(m, x) <= q
           /\ \A x \in DOMAIN m : x > q /\ x > 0 => PrevOf(m, x) >= q
<1>1. /\ HeaderMap(m) /\ e \in Nat /\ DOMAIN m \subseteq Nat
      /\ \A x \in DOMAIN m : m[x].size \in Nat /\ m[x].prev \in Nat
  BY DEF WellFormed, HeadersIn, HeaderMap, Fields
<1>2. /\ \A x, y \in DOMAIN m : x < y => NextOf(m, x) <= y
      /\ NextOf(m, q) <= e
  BY DEF WellFormed, Tiled
<1>3. ASSUME NEW x \in DOMAIN m, x > q, x > 0
      PROVE  PrevOf(m, x) >= q
  <2>1. PrevOf(m, x) \in DOMAIN m /\ NextOf(m, PrevOf(m, x)) = x
    BY <1>3 DEF WellFormed, BackLinked
  <2> QED
    BY <2>1, <1>1, <1>2, <1>3
<1> QED
  BY <1>1, <1>2, <1>3, HeaderPos DEF NextOf

(***************************************************************************)
(* A split of the bytes up to a used block leaves a well-formed buffer.    *)
(***************************************************************************)
LEMMA SplitKeeps ==
    ASSUME NEW m, NEW e, WellFormed(m, e),
           NEW b \in DOMAIN m, NEW avail \in Nat, NEW used \in Nat, used <= avail,
           NEW q \in DOMAIN m, q = b + Header + avail, ~ m[q].unused
    PROVE  WellFormed(Split(m, e, b, avail, used), e)
<1> DEFINE m1 == Split(m, e, b, avail, used)
           r  == b + Header + used
<1>1. /\ b \in Nat /\ q \in Nat /\ e \in Nat /\ r \in Nat
      /\ DOMAIN m \subseteq Nat /\ HeaderMap(m)
      /\ b < q /\ b < r /\ r <= q /\ q < e
  BY HeaderPos, Around DEF HeaderMap
<1>0. SplitInto(m1, m, b, avail, used, r, q)
  BY SplitWrites
<1> SUFFICES WellFormed(m1, e)
  OBVIOUS
<1> HIDE DEF m1
<1>2. /\ HeaderMap(m1)
      /\ m1[b].prev = m[b].prev /\ m1[b].unused = FALSE
      /\ \A x \in DOMAIN m : x < b \/ q <= x =>
            /\ m1[x].size = m[x].size /\ m1[x].unused = m[x].unused
            /\ x # q => m1[x].prev = m[x].prev
  BY <1>0 DEF SplitInto
<1>3. r + Header <= q =>
         /\ DOMAIN m1 = {y \in DOMAIN m : y <= b \/ q <= y} \cup {r}
         /\ m1[b].size = used
         /\ m1[r].unused /\ m1[r].size = q - r - Header /\ m1[r].prev = used
         /\ m1[q].prev = q - r - Header
  BY <1>0 DEF SplitInto
<1>4. ~(r + Header <= q) =>
         /\ DOMAIN m1 = {y \in DOMAIN m : y <= b \/ q <= y}
         /\ m1[b].size = avail
         /\ m1[q].prev = avail
  BY <1>0 DEF SplitInto
<1>5. \A x \in DOMAIN m1 : x \in Nat /\ (x < b \/ x = b \/ (r + Header <= q /\ x = r) \/ q <= x)
  BY <1>1, <1>2, <1>3, <1>4 DEF HeaderMap
<1>6. \A x \in DOMAIN m1 : x < b \/ q <= x => x \in DOMAIN m
  BY <1>1, <1>3, <1>4
<1>7. \A x \in DOMAIN m : x <= b \/ q <= x => x \in DOMAIN m1
  BY <1>1, <1>3, <1>4
<1>8. \A x \in DOMAIN m : x < b \/ q <= x => NextOf(m1, x) = NextOf(m, x)
  BY <1>2 DEF NextOf
<1>9. NextOf(m1, b) = IF r + Header <= q THEN r ELSE q
  BY <1>1, <1>3, <1>4 DEF NextOf
<1>10. r + Header <= q => r \in DOMAIN m1 /\ NextOf(m1, r) = q
  BY <1>1, <1>3, HeaderPos DEF NextOf
<1>11. HeadersIn(m1, e)
  BY <1>1, <1>2 DEF HeadersIn, HeaderMap
<1>12. Tiled(m1, e)
  <2>1. e > 0 => 0 \in DOMAIN m1
    BY <1>1, <1>7 DEF WellFormed, Tiled
  <2>2. ASSUME NEW x \in DOMAIN m1
        PROVE  /\ NextOf(m1, x) = e \/ NextOf(m1, x) \in DOMAIN m1
               /\ NextOf(m1, x) <= e
    <3>1. CASE x < b
      <4>1. x \in DOMAIN m /\ NextOf(m1, x) = NextOf(m, x) /\ NextOf(m, x) <= b
        BY <3>1, <1>6, <1>8, Around
      <4>2. NextOf(m, x) \in DOMAIN m
        BY <4>1, <1>1 DEF WellFormed, Tiled
      <4> QED
        BY <4>1, <4>2, <1>1, <1>7
    <3>2. CASE q <= x
      <4>1. x \in DOMAIN m /\ NextOf(m1, x) = NextOf(m, x)
        BY <3>2, <1>6, <1>8
      <4>2. NextOf(m, x) = e \/ NextOf(m, x) \in DOMAIN m
        BY <4>1 DEF WellFormed, Tiled
      <4>3. NextOf(m, x) <= e /\ q <= NextOf(m, x)
        BY <4>1, <3>2, <1>1, HeaderPos, Around
      <4> QED
        BY <4>1, <4>2, <4>3, <1>7
    <3> QED
      BY <3>1, <3>2, <1>1, <1>5, <1>7, <1>9, <1>10
  <2>3. ASSUME NEW x \in DOMAIN m1, NEW y \in DOMAIN m1, x < y
        PROVE  NextOf(m1, x) <= y
    <3>1. CASE x < b
      <4>1. x \in DOMAIN m /\ NextOf(m1, x) = NextOf(m, x) /\ NextOf(m, x) \in Nat
        BY <3>1, <1>6, <1>8, Around
      <4>2. CASE y < b
        BY <4>1, <4>2, <2>3, <1>6 DEF WellFormed, Tiled
      <4>3. CASE ~(y < b)
        <5>1. NextOf(m, x) <= b /\ b <= y
          BY <4>1, <4>3, <3>1, <1>1, <1>5, Around
        <5> QED
          BY <5>1, <4>1, <1>1, <1>5
      <4> QED
        BY <4>2, <4>3
    <3>2. CASE x = b
      BY <3>2, <2>3, <1>1, <1>5, <1>9
    <3>3. CASE r + Header <= q /\ x = r
      BY <3>3, <2>3, <1>1, <1>5, <1>10
    <3>4. CASE q <= x
      <4>1. y \in Nat /\ x \in Nat
        BY <1>11 DEF HeadersIn
      <4>2. x \in DOMAIN m /\ y \in DOMAIN m /\ NextOf(m1, x) = NextOf(m, x)
        BY <4>1, <3>4, <2>3, <1>1, <1>6, <1>8
      <4> QED
        BY <4>2, <2>3 DEF WellFormed, Tiled
    <3> QED
      BY <3>1, <3>2, <3>3, <3>4, <1>5
  <2>4. \E x \in DOMAIN m1 : NextOf(m1, x) = e
    <3>1. PICK x \in DOMAIN m : NextOf(m, x) = e
      BY <1>1 DEF WellFormed, Tiled
    <3>2. q <= x
      BY <3>1, <1>1, Around
    <3> QED
      BY <3>1, <3>2, <1>7, <1>8
  <2> QED
    BY <2>1, <2>2, <2>3, <2>4 DEF Tiled
<1>13. BackLinked(m1)
  <2> SUFFICES ASSUME NEW x \in DOMAIN m1, x > 0
               PROVE  PrevOf(m1, x) \in DOMAIN m1 /\ NextOf(m1, PrevOf(m1, x)) = x
    BY DEF BackLinked
  <2>1. CASE x <= b
    <3>1. x \in DOMAIN m /\ PrevOf(m1, x) = PrevOf(m, x)
      BY <2>1, <1>1, <1>2, <1>6, <1>11 DEF PrevOf, HeadersIn
    <3>2. PrevOf(m, x) \in DOMAIN m /\ NextOf(m, PrevOf(m, x)) = x
      BY <3>1 DEF WellFormed, BackLinked
    <3>3. PrevOf(m, x) < x
      BY <3>1, <3>2, <1>1, HeaderPos, Around
    <3> QED
      BY <3>1, <3>2, <3>3, <2>1, <1>1, <1>7, <1>8
  <2>2. CASE r + Header <= q /\ x = r
    <3>1. PrevOf(m1, x) = b
      BY <2>2, <1>1, <1>3, HeaderPos DEF PrevOf
    <3> QED
      BY <3>1, <2>2, <1>1, <1>7, <1>9
  <2>3. CASE x = q
    BY <2>3, <1>1, <1>3, <1>4, <1>7, <1>9, <1>10, HeaderPos DEF PrevOf
  <2>4. CASE q < x
    <3>1. x \in DOMAIN m /\ PrevOf(m1, x) = PrevOf(m, x)
      BY <2>4, <1>1, <1>2, <1>6, <1>11 DEF PrevOf, HeadersIn
    <3>2. PrevOf(m, x) \in DOMAIN m /\ NextOf(m, PrevOf(m, x)) = x
      BY <3>1 DEF WellFormed, BackLinked
    <3>3. PrevOf(m, x) >= q
      BY <3>1, <2>4, Around
    <3> QED
      BY <3>1, <3>2, <3>3, <1>7, <1>8
  <2> QED
    BY <2>1, <2>2, <2>3, <2>4, <1>1, <1>5, <1>11 DEF HeadersIn
<1>14. Coalesced(m1, e)
  <2> SUFFICES ASSUME NEW x \in DOMAIN m1, m1[x].unused
               PROVE  NextOf(m1, x) < e /\ ~m1[NextOf(m1, x)].unused
    BY DEF Coalesced
  <2>1. CASE x < b
    <3>1. x \in DOMAIN m /\ m[x].unused /\ NextOf(m1, x) = NextOf(m, x) /\ NextOf(m, x) <= b
      BY <2>1, <1>2, <1>6, <1>8, Around
    <3>2. NextOf(m, x) < e /\ ~m[NextOf(m, x)].unused
      BY <3>1 DEF WellFormed, Coalesced
    <3>3. NextOf(m, x) \in DOMAIN m
      BY <3>1, <3>2, <1>1 DEF WellFormed, Tiled
    <3>4. NextOf(m, x) \in Nat
      BY <3>3, <1>1
    <3> QED
      BY <3>1, <3>2, <3>3, <3>4, <1>1, <1>2
  <2>2. CASE r + Header <= q /\ x = r
    BY <2>2, <1>1, <1>2, <1>10
  <2>3. CASE q <= x
    <3>1. x \in DOMAIN m /\ m[x].unused /\ NextOf(m1, x) = NextOf(m, x)
      BY <2>3, <1>2, <1>6, <1>8
    <3>2. NextOf(m, x) < e /\ ~m[NextOf(m, x)].unused
      BY <3>1 DEF WellFormed, Coalesced
    <3>3. NextOf(m, x) \in DOMAIN m /\ q <= NextOf(m, x)
      BY <3>1, <3>2, <2>3, <1>1, HeaderPos, Around DEF WellFormed, Tiled
    <3> QED
      BY <3>1, <3>2, <3>3, <1>2
  <2> QED
    BY <2>1, <2>2, <2>3, <1>2, <1>5
<1> QED
  BY <1>11, <1>12, <1>13, <1>14 DEF WellFormed

(***************************************************************************)
(* Where a merge of the used block b starts: at b or at the unused block   *)
(* before it, and never after another unused block.                        *)
(***************************************************************************)
LEMMA MergeStarts ==
    ASSUME NEW m, NEW e, WellFormed(m, e), NEW b \in DOMAIN m, ~ m[b].unused,
           NEW s, s = MergeStart(m, b)
    PROVE  /\ s \in DOMAIN m /\ s <= b
           /\ s # b => m[s].unused /\ NextOf(m, s) = b
           /\ \A c \in DOMAIN m : NextOf(m, c) = s => ~ m[c].unused
<1>1. /\ b \in Nat /\ DOMAIN m \subseteq Nat
      /\ \A x \in DOMAIN m : m[x].size \in Nat /\ m[x].prev \in Nat
      /\ \A x, y \in DOMAIN m : x < y => NextOf(m, x) <= y
  BY DEF WellFormed, HeadersIn, Fields, Tiled
<1>2. CASE b > 0 /\ m[PrevOf(m, b)].unused
  <2>1. PrevOf(m, b) \in DOMAIN m /\ NextOf(m, PrevOf(m, b)) = b
    BY <1>2 DEF WellFormed, BackLinked
  <2>2. s = PrevOf(m, b)
    <3>1. s = b - (m[PrevOf(m, b)].size + Header)
      BY <1>2 DEF MergeStart
    <3> QED
      BY <3>1, <2>1, <1>1, HeaderPos DEF NextOf
  <2>3. s < b
    BY <2>1, <2>2, <1>1, HeaderPos DEF NextOf
  <2>4. ASSUME NEW c \in DOMAIN m, NextOf(m, c) = s, m[c].unused
        PROVE  FALSE
    BY <2>2, <2>4, <1>2 DEF WellFormed, Coalesced
  <2> QED
    BY <1>1, <1>2, <2>1, <2>2, <2>3, <2>4
<1>3. CASE ~(b > 0 /\ m[PrevOf(m, b)].unused)
  <2>1. s = b
    BY <1>3 DEF MergeStart
  <2>2. ASSUME NEW c \in DOMAIN m, NextOf(m, c) = b
        PROVE  ~ m[c].unused
    <3>1. c \in Nat /\ NextOf(m, c) > c /\ b > 0
      BY <2>2, <1>1, HeaderPos DEF NextOf
    <3> DEFINE p == PrevOf(m, b)
    <3>2. p \in DOMAIN m /\ NextOf(m, p) = b /\ ~ m[p].unused
      BY <3>1, <1>3 DEF WellFormed, BackLinked
    <3>3. p \in Nat /\ p < b
      BY <3>2, <1>1, HeaderPos DEF NextOf
    <3> HIDE DEF p
    <3>4. c = p
      BY <2>2, <3>1, <3>2, <3>3, <1>1
    <3> QED
      BY <3>2, <3>4
  <2> QED
    BY <2>1, <2>2, <1>1
<1> QED
  BY <1>2, <1>3

(***************************************************************************)
(* Where a merge ends when it does not reach the end of the used buffer:   *)
(* at a used block.                                                        *)
(***************************************************************************)
LEMMA MergeEnds ==
    ASSUME NEW m, NEW e, WellFormed(m, e), NEW b \in DOMAIN m, NextOf(m, b) < e,
           NEW n, n = MergeNext(m, b)
    PROVE  /\ n \in DOMAIN m /\ ~ m[n].unused /\ NextOf(m, b) <= n
           /\ \A x \in DOMAIN m : b < x /\ x < n => m[x].unused
<1> DEFINE q == NextOf(m, b)
<1>1. q \in DOMAIN m /\ q \in Nat /\ e \in Nat /\ b < q
  BY HeaderPos, Around DEF WellFormed, Tiled
<1>2. \A x \in DOMAIN m : x \in Nat /\ (x < q => x <= b)
  <2>1. ASSUME NEW x \in DOMAIN m, b < x PROVE q <= x
    BY <2>1 DEF WellFormed, Tiled
  <2> QED
    BY <1>1, <2>1, Around DEF WellFormed, HeadersIn
<1> HIDE DEF q
<1>3. CASE m[q].unused
  <2>1. n = NextOf(m, q)
    BY <1>3 DEF MergeNext, q
  <2>2. n < e /\ ~ m[n].unused
    BY <1>1, <1>3, <2>1 DEF WellFormed, Coalesced
  <2>3. n \in DOMAIN m
    BY <1>1, <2>1, <2>2, Around DEF WellFormed, Tiled
  <2>4. q <= n
    BY <1>1, <2>1, HeaderPos, Around
  <2>5. ASSUME NEW x \in DOMAIN m, b < x, x < n
        PROVE  x = q
    BY <1>1, <1>2, <2>1, <2>3, <2>5 DEF WellFormed, Tiled
  <2> QED
    BY <1>3, <2>2, <2>3, <2>4, <2>5 DEF q
<1>4. CASE ~ m[q].unused
  <2>1. n = q
    BY <1>4 DEF MergeNext, q
  <2> QED
    BY <1>1, <1>2, <1>4, <2>1 DEF q
<1> QED
  BY <1>3, <1>4

(***************************************************************************)
(* A merge that reaches the end of the used buffer cuts the buffer.        *)
(***************************************************************************)
LEMMA CutKeeps ==
    ASSUME NEW m, NEW e, WellFormed(m, e), NEW s \in DOMAIN m,
           \A c \in DOMAIN m : NextOf(m, c) = s => ~ m[c].unused
    PROVE  WellFormed([x \in {y \in DOMAIN m : y < s} |-> m[x]], s)
<1> DEFINE m1 == [x \in {y \in DOMAIN m : y < s} |-> m[x]]
<1> SUFFICES WellFormed(m1, s)
  OBVIOUS
<1>1. /\ s \in Nat /\ s < e /\ e \in Nat /\ DOMAIN m \subseteq Nat
      /\ \A x \in DOMAIN m : m[x] \in Fields
      /\ \A x \in DOMAIN m : x < s => NextOf(m, x) <= s /\ NextOf(m, x) \in Nat
  BY HeaderPos, Around DEF HeaderMap
<1>2. /\ DOMAIN m1 = {y \in DOMAIN m : y < s}
      /\ \A x \in DOMAIN m1 : m1[x] = m[x]
  OBVIOUS
<1>3. HeadersIn(m1, s)
  BY <1>1 DEF HeadersIn
<1> HIDE DEF m1
<1>4. \A x \in DOMAIN m1 : NextOf(m1, x) = NextOf(m, x) /\ PrevOf(m1, x) = PrevOf(m, x)
  BY <1>2 DEF NextOf, PrevOf
<1>5. ASSUME NEW x \in DOMAIN m1
      PROVE  /\ NextOf(m1, x) = s \/ NextOf(m1, x) \in DOMAIN m1
             /\ NextOf(m1, x) <= s
  <2>1. NextOf(m, x) <= s /\ NextOf(m, x) \in Nat
    BY <1>1, <1>2
  <2>2. NextOf(m, x) \in DOMAIN m
    BY <2>1, <1>1, <1>2 DEF WellFormed, Tiled
  <2> QED
    BY <2>1, <2>2, <1>1, <1>2, <1>4
<1>6. ASSUME NEW x \in DOMAIN m1, x > 0
      PROVE  PrevOf(m1, x) \in DOMAIN m1 /\ NextOf(m1, PrevOf(m1, x)) = x
  <2>1. x \in DOMAIN m /\ x < s /\ x \in Nat
    BY <1>1, <1>2
  <2>2. PrevOf(m, x) \in DOMAIN m /\ NextOf(m, PrevOf(m, x)) = x
    BY <1>6, <2>1 DEF WellFormed, BackLinked
  <2>3. PrevOf(m, x) < x /\ PrevOf(m, x) \in Nat
    BY <2>1, <2>2, <1>1, HeaderPos, Around
  <2>4. PrevOf(m, x) \in DOMAIN m1
    BY <2>1, <2>2, <2>3, <1>1, <1>2
  <2> QED
    BY <2>2, <2>4, <1>4
<1>7. s > 0 => 0 \in DOMAIN m1 /\ \E x \in DOMAIN m1 : NextOf(m1, x) = s
  <2> SUFFICES ASSUME s > 0
               PROVE  0 \in DOMAIN m1 /\ \E x \in DOMAIN m1 : NextOf(m1, x) = s
    OBVIOUS
  <2>1. 0 \in DOMAIN m1
    BY <1>1, <1>2 DEF WellFormed, Tiled
  <2>2. PrevOf(m, s) \in DOMAIN m /\ NextOf(m, PrevOf(m, s)) = s
    BY DEF WellFormed, BackLinked
  <2>3. PrevOf(m, s) < s
    BY <2>2, <1>1, HeaderPos, Around
  <2>4. PrevOf(m, s) \in DOMAIN m1
    BY <2>2, <2>3, <1>2
  <2> QED
    BY <2>1, <2>2, <2>4, <1>4
<1>8. Coalesced(m1, s)
  <2> SUFFICES ASSUME NEW x \in DOMAIN m1, m1[x].unused
               PROVE  NextOf(m1, x) < s /\ ~ m1[NextOf(m1, x)].unused
    BY DEF Coalesced
  <2>1. x \in DOMAIN m /\ m[x].unused
    BY <1>2
  <2>2. NextOf(m, x) # s /\ ~ m[NextOf(m, x)].unused
    BY <2>1 DEF WellFormed, Coalesced
  <2> QED
    BY <2>1, <2>2, <1>1, <1>2, <1>4, <1>5
<1>9. \A x, y \in DOMAIN m1 : x < y => NextOf(m1, x) <= y
  BY <1>2, <1>4 DEF WellFormed, Tiled
<1> QED
  BY <1>3, <1>5, <1>6, <1>7, <1>8, <1>9 DEF WellFormed, Tiled, BackLinked

(***************************************************************************)
(* A merge inside the buffer: one unused block from s to the used block n. *)
(***************************************************************************)
LEMMA JoinKeeps ==
    ASSUME NEW m, NEW e, WellFormed(m, e),
           NEW s \in DOMAIN m, NEW n \in DOMAIN m, s < n, ~ m[n].unused,
           s + Header <= n,
           \A c \in DOMAIN m : NextOf(m, c) = s => ~ m[c].unused,
           NEW m1,
           Written(m1, m, e, s, [prev |-> m[s].prev, unused |-> TRUE,
                                 size |-> n - s - Header], n)
    PROVE  WellFormed(m1, e)
<1>1. /\ s \in Nat /\ n \in Nat /\ e \in Nat /\ n < e
      /\ DOMAIN m \subseteq Nat /\ HeaderMap(m) /\ HeaderMap(m1)
  BY HeaderPos, Around DEF HeaderMap, Written
<1>2. /\ DOMAIN m1 = {y \in DOMAIN m : y < s \/ n <= y} \cup {s}
      /\ m1[s].prev = m[s].prev /\ m1[s].unused /\ m1[s].size = n - s - Header
  BY DEF Written
<1>3. \A x \in DOMAIN m1 : x # s =>
         /\ m1[x].unused = m[x].unused
         /\ m1[x].size = m[x].size
         /\ x = n => m1[x].prev = n - s - Header
         /\ x # n => m1[x].prev = m[x].prev
  BY <1>1 DEF Written
<1>4. /\ \A x \in DOMAIN m1 : x \in Nat /\ x \in DOMAIN m /\ (x < s \/ x = s \/ n <= x)
      /\ \A x \in DOMAIN m : x <= s \/ n <= x => x \in DOMAIN m1
  BY <1>1, <1>2
<1>5. \A x \in DOMAIN m1 : x # s => NextOf(m1, x) = NextOf(m, x)
  BY <1>3 DEF NextOf
<1>6. NextOf(m1, s) = n
  BY <1>1, <1>2, HeaderPos DEF NextOf
<1>7. \A x \in DOMAIN m1 : x # n => PrevOf(m1, x) = PrevOf(m, x)
  BY <1>2, <1>3 DEF PrevOf
<1>8. PrevOf(m1, n) = s
  BY <1>1, <1>3, <1>4, HeaderPos DEF PrevOf
<1>9. HeadersIn(m1, e)
  BY <1>1 DEF HeadersIn, HeaderMap
<1>10. ASSUME NEW x \in DOMAIN m1
       PROVE  /\ NextOf(m1, x) = e \/ NextOf(m1, x) \in DOMAIN m1
              /\ NextOf(m1, x) <= e
  <2>1. CASE x < s
    <3>1. NextOf(m, x) <= s /\ NextOf(m, x) \in Nat
      BY <2>1, <1>4, Around
    <3>2. NextOf(m, x) \in DOMAIN m
      BY <3>1, <1>1, <1>4 DEF WellFormed, Tiled
    <3> QED
      BY <3>1, <3>2, <2>1, <1>1, <1>4, <1>5
  <2>2. CASE x = s
    BY <2>2, <1>1, <1>4, <1>6
  <2>3. CASE n <= x
    <3>1. NextOf(m, x) <= e /\ n <= NextOf(m, x)
      BY <2>3, <1>1, <1>4, HeaderPos, Around
    <3>2. NextOf(m, x) = e \/ NextOf(m, x) \in DOMAIN m
      BY <1>4 DEF WellFormed, Tiled
    <3> QED
      BY <3>1, <3>2, <2>3, <1>1, <1>4, <1>5
  <2> QED
    BY <2>1, <2>2, <2>3, <1>4
<1>11. ASSUME NEW x \in DOMAIN m1, NEW y \in DOMAIN m1, x < y
       PROVE  NextOf(m1, x) <= y
  <2>1. CASE x = s
    BY <2>1, <1>1, <1>4, <1>6, <1>11
  <2>2. CASE x # s
    BY <2>2, <1>4, <1>5, <1>11 DEF WellFormed, Tiled
  <2> QED
    BY <2>1, <2>2
<1>12. Tiled(m1, e)
  <2>1. 0 \in DOMAIN m1
    BY <1>1, <1>4 DEF WellFormed, Tiled
  <2>2. \E x \in DOMAIN m1 : NextOf(m1, x) = e
    <3>1. PICK x \in DOMAIN m : NextOf(m, x) = e
      BY <1>1 DEF WellFormed, Tiled
    <3>2. n <= x
      BY <3>1, <1>1, Around
    <3> QED
      BY <3>1, <3>2, <1>1, <1>4, <1>5
  <2> QED
    BY <2>1, <2>2, <1>10, <1>11 DEF Tiled
<1>13. BackLinked(m1)
  <2> SUFFICES ASSUME NEW x \in DOMAIN m1, x > 0
               PROVE  PrevOf(m1, x) \in DOMAIN m1 /\ NextOf(m1, PrevOf(m1, x)) = x
    BY DEF BackLinked
  <2>1. CASE x = n
    BY <2>1, <1>1, <1>4, <1>6, <1>8
  <2>2. CASE x # n
    <3>1. PrevOf(m, x) \in DOMAIN m /\ NextOf(m, PrevOf(m, x)) = x /\ PrevOf(m1, x) = PrevOf(m, x)
      BY <2>2, <1>4, <1>7 DEF WellFormed, BackLinked
    <3>2. PrevOf(m, x) < x /\ PrevOf(m, x) \in Nat
      BY <3>1, <1>1, <1>4, HeaderPos, Around
    <3>3. n < x => PrevOf(m, x) >= n
      BY <1>4, Around
    <3>4. PrevOf(m, x) \in DOMAIN m1 /\ PrevOf(m, x) # s
      BY <3>1, <3>2, <3>3, <2>2, <1>1, <1>4
    <3> QED
      BY <3>1, <3>4, <1>5
  <2> QED
    BY <2>1, <2>2
<1>14. Coalesced(m1, e)
  <2> SUFFICES ASSUME NEW x \in DOMAIN m1, m1[x].unused
               PROVE  NextOf(m1, x) < e /\ ~ m1[NextOf(m1, x)].unused
    BY DEF Coalesced
  <2>1. CASE x = s
    BY <2>1, <1>1, <1>3, <1>4, <1>6
  <2>2. CASE x # s
    <3>1. x \in DOMAIN m /\ m[x].unused /\ NextOf(m1, x) = NextOf(m, x)
      BY <2>2, <1>3, <1>4, <1>5
    <3>2. NextOf(m, x) < e /\ ~ m[NextOf(m, x)].unused /\ NextOf(m, x) # s
      BY <3>1 DEF WellFormed, Coalesced
    <3>3. NextOf(m1, x) \in DOMAIN m1
      BY <3>1, <3>2, <1>1, <1>10
    <3> QED
      BY <3>1, <3>2, <3>3, <1>3
  <2> QED
    BY <2>1, <2>2
<1> QED
  BY <1>9, <1>12, <1>13, <1>14 DEF WellFormed

(***************************************************************************)
(* block_merge of a used block: the buffer stays well formed, the block is *)
(* no longer used and every other used block stays as it is.               *)
(***************************************************************************)
LEMMA MergeKeeps ==
    ASSUME NEW m, NEW e, WellFormed(m, e), NEW b \in DOMAIN m, ~ m[b].unused,
           NEW m1, m1 = MergeBlocks(m, e, b),
           NEW e1, e1 = MergeEnd(m, e, b)
    PROVE  /\ WellFormed(m1, e1)
           /\ e1 \in Nat /\ e1 <= e
           /\ \A x, len : x # b => (UsedAt(m1, x, len) <=> UsedAt(m, x, len))
           /\ \A len : ~ UsedAt(m1, b, len)
<1> DEFINE s == MergeStart(m, b)
           n == MergeNext(m, b)
           h == [prev |-> m[s].prev, unused |-> TRUE, size |-> n - s - Header]
<1>1. /\ s \in DOMAIN m /\ s <= b
      /\ s # b => m[s].unused /\ NextOf(m, s) = b
      /\ \A c \in DOMAIN m : NextOf(m, c) = s => ~ m[c].unused
  BY MergeStarts
<1>2. /\ HeaderMap(m) /\ DOMAIN m \subseteq Nat
      /\ s \in Nat /\ b \in Nat /\ e \in Nat
      /\ b + Header <= NextOf(m, b) /\ NextOf(m, b) <= e /\ NextOf(m, b) \in Nat
  BY <1>1, Around DEF HeaderMap
<1>3. ASSUME NEW x \in DOMAIN m
      PROVE  x < s \/ x = s \/ x = b \/ NextOf(m, b) <= x
  <2>1. s < x /\ s # b => b <= x
    BY <1>1 DEF WellFormed, Tiled
  <2>2. b < x => NextOf(m, b) <= x
    BY DEF WellFormed, Tiled
  <2> QED
    BY <2>1, <2>2, <1>2
<1>4. CASE NextOf(m, b) >= e
  <2>1. e1 = s
    BY <1>2, <1>4 DEF MergeEnd
  <2>2. m1 = [x \in {y \in DOMAIN m : y < s} |-> m[x]]
    BY <1>4 DEF MergeBlocks
  <2>3. WellFormed(m1, e1)
    BY <2>1, <2>2, <1>1, CutKeeps
  <2>4. DOMAIN m1 = {y \in DOMAIN m : y < s} /\ \A x \in DOMAIN m1 : m1[x] = m[x]
    BY <2>2
  <2>5. \A x \in DOMAIN m : x < s \/ x = s \/ x = b
    BY <1>2, <1>3, <1>4, HeaderPos, Around
  <2>6. \A x, len : x # b => (UsedAt(m1, x, len) <=> UsedAt(m, x, len))
    BY <2>4, <2>5, <1>1 DEF UsedAt
  <2>7. b \notin DOMAIN m1
    BY <2>4, <1>1, <1>2
  <2> QED
    BY <2>1, <2>3, <2>6, <2>7, <1>1, <1>2, HeaderPos DEF UsedAt
<1>5. CASE ~(NextOf(m, b) >= e)
  <2>1. NextOf(m, b) < e
    BY <1>2, <1>5
  <2>2. /\ n \in DOMAIN m /\ ~ m[n].unused /\ NextOf(m, b) <= n
        /\ \A x \in DOMAIN m : b < x /\ x < n => m[x].unused
    BY <2>1, MergeEnds
  <2>3. s + Header <= n /\ n \in Nat /\ s < n
    BY <2>2, <1>1, <1>2, HeaderPos
  <2>4. e1 = e
    BY <1>5 DEF MergeEnd
  <2>5. m1 = Put(m, e, s, h)
    BY <1>5 DEF MergeBlocks
  <2>6. h \in Fields /\ n = s + Header + h.size
    BY <2>3, <1>1, <1>2, HeaderPos DEF Fields, HeaderMap
  <2> HIDE DEF s, n
  <2>7. Written(m1, m, e, s, h, n)
    BY <2>5, <2>6, <1>2, PutWrites
  <2>8. WellFormed(m1, e1)
    BY <2>2, <2>3, <2>4, <2>7, <1>1, JoinKeeps
  <2>9. DOMAIN m1 = {y \in DOMAIN m : y < s \/ n <= y} \cup {s} /\ m1[s].unused
    BY <2>7 DEF Written
  <2>10. \A x \in DOMAIN m1 : x # s => m1[x].unused = m[x].unused /\ m1[x].size = m[x].size
    BY <2>7 DEF Written
  <2>11. ASSUME NEW x, NEW len, x # b, UsedAt(m, x, len)
         PROVE  UsedAt(m1, x, len)
    <3>1. x \in DOMAIN m /\ ~ m[x].unused /\ m[x].size = len /\ x # s
      BY <2>11, <1>1 DEF UsedAt
    <3>2. x < s \/ n <= x
      BY <3>1, <2>2, <2>3, <2>11, <1>2, <1>3, HeaderPos
    <3> QED
      BY <3>1, <3>2, <2>9, <2>10 DEF UsedAt
  <2>12. ASSUME NEW x, NEW len, x # b, UsedAt(m1, x, len)
         PROVE  UsedAt(m, x, len)
    BY <2>9, <2>10, <2>12 DEF UsedAt
  <2>13. ASSUME NEW len
         PROVE  ~ UsedAt(m1, b, len)
    BY <2>2, <2>9, <1>1, <1>2, HeaderPos DEF UsedAt
  <2> QED
    BY <2>4, <2>8, <2>11, <2>12, <2>13, <1>2
<1> QED
  BY <1>4, <1>5

(***************************************************************************)
(* Appending a used block of w bytes.                                      *)
(***************************************************************************)
LEMMA AppendKeeps ==
    ASSUME NEW m, NEW e, WellFormed(m, e), NEW w \in Nat, NEW p \in Nat,
           e > 0 => \E b \in DOMAIN m : NextOf(m, b) = e /\ p = m[b].size,
           NEW e1, e1 = e + Header + w,
           NEW m1, m1 = Put(m, e1, e, [prev |-> p, unused |-> FALSE, size |-> w])
    PROVE  /\ WellFormed(m1, e1)
           /\ \A x, len : x # e => (UsedAt(m1, x, len) <=> UsedAt(m, x, len))
           /\ UsedAt(m1, e, w)
           /\ e \notin DOMAIN m
<1> DEFINE h == [prev |-> p, unused |-> FALSE, size |-> w]
<1>1. /\ HeaderMap(m) /\ DOMAIN m \subseteq Nat /\ e \in Nat /\ e1 \in Nat /\ e < e1
      /\ \A x \in DOMAIN m : x < e /\ NextOf(m, x) <= e /\ NextOf(m, x) \in Nat
  <2>1. HeaderMap(m) /\ e \in Nat /\ e1 \in Nat /\ e < e1
    BY HeaderPos DEF WellFormed, HeadersIn, HeaderMap
  <2>2. \A x \in DOMAIN m : x < e /\ NextOf(m, x) <= e /\ NextOf(m, x) \in Nat
    BY <2>1, HeaderPos, Around
  <2> QED
    BY <2>1, <2>2 DEF HeaderMap
<1>2. h \in Fields /\ e1 = e + Header + h.size
  BY DEF Fields
<1>3. Written(m1, m, e1, e, h, e1)
  BY <1>1, <1>2, PutWrites
<1>4. DOMAIN m1 = {y \in DOMAIN m : y < e \/ e1 <= y} \cup {e}
  BY <1>3 DEF Written
<1>5. DOMAIN m1 = DOMAIN m \cup {e} /\ e \notin DOMAIN m
  BY <1>1, <1>4
<1>6. m1[e].prev = p /\ m1[e].unused = FALSE /\ m1[e].size = w
  BY <1>3 DEF Written
<1>7. ASSUME NEW x \in DOMAIN m
      PROVE  /\ x \in DOMAIN m1 /\ x # e
             /\ m1[x].unused = m[x].unused /\ m1[x].size = m[x].size /\ m1[x].prev = m[x].prev
             /\ NextOf(m1, x) = NextOf(m, x) /\ PrevOf(m1, x) = PrevOf(m, x)
  <2>1. x \in DOMAIN m1 /\ x # e /\ x # e1
    BY <1>1, <1>5
  <2>2. m1[x].unused = m[x].unused /\ m1[x].size = m[x].size /\ m1[x].prev = m[x].prev
    BY <2>1, <1>3 DEF Written
  <2> QED
    BY <2>1, <2>2 DEF NextOf, PrevOf
<1>8. NextOf(m1, e) = e1
  BY <1>6 DEF NextOf
<1>9. HeadersIn(m1, e1)
  BY <1>1, <1>3 DEF HeadersIn, HeaderMap, Written
<1>10. Tiled(m1, e1)
  <2>1. 0 \in DOMAIN m1
    BY <1>1, <1>5 DEF WellFormed, Tiled
  <2>2. \A x \in DOMAIN m1 : NextOf(m1, x) = e1 \/ NextOf(m1, x) \in DOMAIN m1
    BY <1>5, <1>7, <1>8 DEF WellFormed, Tiled
  <2>3. ASSUME NEW x \in DOMAIN m1
        PROVE  NextOf(m1, x) <= e1
    <3>1. x \in DOMAIN m => NextOf(m1, x) = NextOf(m, x) /\ NextOf(m, x) <= e /\ NextOf(m, x) \in Nat
      BY <1>1, <1>7
    <3> QED
      BY <3>1, <1>1, <1>5, <1>8
  <2>4. ASSUME NEW x \in DOMAIN m1, NEW y \in DOMAIN m1, x < y
        PROVE  NextOf(m1, x) <= y
    <3>1. x \in DOMAIN m
      BY <2>4, <1>1, <1>5
    <3>2. NextOf(m1, x) = NextOf(m, x) /\ NextOf(m, x) <= e
      BY <3>1, <1>1, <1>7
    <3>3. y \in DOMAIN m => NextOf(m, x) <= y
      BY <3>1, <2>4 DEF WellFormed, Tiled
    <3> QED
      BY <3>2, <3>3, <1>5
  <2> QED
    BY <2>1, <2>2, <2>3, <2>4, <1>5, <1>8 DEF Tiled
<1>11. BackLinked(m1)
  <2> SUFFICES ASSUME NEW x \in DOMAIN m1, x > 0
               PROVE  PrevOf(m1, x) \in DOMAIN m1 /\ NextOf(m1, PrevOf(m1, x)) = x
    BY DEF BackLinked
  <2>1. CASE x \in DOMAIN m
    <3>1. PrevOf(m, x) \in DOMAIN m /\ NextOf(m, PrevOf(m, x)) = x
      BY <2>1 DEF WellFormed, BackLinked
    <3>2. PrevOf(m1, x) = PrevOf(m, x)
      BY <2>1, <1>7
    <3> QED
      BY <3>1, <3>2, <1>7
  <2>2. CASE x = e
    <3>1. PICK b \in DOMAIN m : NextOf(m, b) = e /\ p = m[b].size
      BY <2>2
    <3>2. PrevOf(m1, e) = b
      BY <3>1, <1>1, <1>6, HeaderPos DEF PrevOf, NextOf
    <3> QED
      BY <3>1, <3>2, <2>2, <1>7
  <2> QED
    BY <2>1, <2>2, <1>5
<1>12. Coalesced(m1, e1)
  <2> SUFFICES ASSUME NEW x \in DOMAIN m1, m1[x].unused
               PROVE  NextOf(m1, x) < e1 /\ ~ m1[NextOf(m1, x)].unused
    BY DEF Coalesced
  <2>1. x \in DOMAIN m /\ m[x].unused
    BY <1>5, <1>6, <1>7
  <2>2. NextOf(m, x) < e /\ ~ m[NextOf(m, x)].unused
    BY <2>1 DEF WellFormed, Coalesced
  <2>3. NextOf(m, x) \in DOMAIN m
    BY <2>1, <2>2, <1>1 DEF WellFormed, Tiled
  <2>4. NextOf(m1, x) = NextOf(m, x) /\ NextOf(m, x) \in Nat
    BY <2>1, <1>1, <1>7
  <2>5. ~ m1[NextOf(m, x)].unused
    BY <2>2, <2>3, <1>7
  <2> QED
    BY <2>2, <2>4, <2>5, <1>1
<1>13. \A x, len : x # e => (UsedAt(m1, x, len) <=> UsedAt(m, x, len))
  BY <1>5, <1>7 DEF UsedAt
<1>14. UsedAt(m1, e, w)
  BY <1>5, <1>6 DEF UsedAt
<1> QED
  BY <1>5, <1>9, <1>10, <1>11, <1>12, <1>13, <1>14 DEF WellFormed

(***************************************************************************)
(* Resizing the used block at the end together with the used buffer.       *)
(***************************************************************************)
LEMMA ResizeKeeps ==
    ASSUME NEW m, NEW e, WellFormed(m, e), NEW w \in Nat,
           NEW b \in DOMAIN m, ~ m[b].unused, NextOf(m, b) = e,
           NEW e1, e1 = b + Header + w,
           NEW m1, m1 = Put(m, e1, b, [m[b] EXCEPT !.size = w])
    PROVE  /\ WellFormed(m1, e1)
           /\ \A x, len : x # b => (UsedAt(m1, x, len) <=> UsedAt(m, x, len))
           /\ UsedAt(m1, b, w)
<1> DEFINE h == [m[b] EXCEPT !.size = w]
<1>1. /\ HeaderMap(m) /\ DOMAIN m \subseteq Nat /\ e \in Nat /\ b \in Nat
      /\ e1 \in Nat /\ b < e1 /\ m[b] \in Fields
      /\ \A x \in DOMAIN m : x < b => NextOf(m, x) <= b /\ NextOf(m, x) \in Nat
  BY HeaderPos, Around DEF HeaderMap
<1>2. \A x \in DOMAIN m : x <= b
  <2>1. ASSUME NEW x \in DOMAIN m, b < x PROVE FALSE
    <3>1. e <= x
      BY <2>1 DEF WellFormed, Tiled
    <3>2. x + Header <= e /\ x \in Nat
      BY <1>1, HeaderPos, Around
    <3> QED
      BY <3>1, <3>2, <1>1, HeaderPos
  <2> QED
    BY <2>1, <1>1
<1>3. h \in Fields /\ h.size = w /\ h.prev = m[b].prev /\ h.unused = m[b].unused
  BY <1>1 DEF Fields
<1> HIDE DEF h
<1>4. Written(m1, m, e1, b, h, e1)
  BY <1>1, <1>3, PutWrites DEF h
<1>5. DOMAIN m1 = {y \in DOMAIN m : y < b \/ e1 <= y} \cup {b}
  BY <1>4 DEF Written
<1>6. DOMAIN m1 = DOMAIN m
  BY <1>1, <1>2, <1>5
<1>7. m1[b].prev = m[b].prev /\ ~ m1[b].unused /\ m1[b].size = w
  BY <1>3, <1>4 DEF Written
<1>8. ASSUME NEW x \in DOMAIN m
      PROVE  /\ m1[x].unused = m[x].unused /\ m1[x].prev = m[x].prev
             /\ x # b => m1[x].size = m[x].size /\ NextOf(m1, x) = NextOf(m, x)
             /\ PrevOf(m1, x) = PrevOf(m, x)
  <2>1. x # e1
    BY <1>1, <1>2
  <2>2. /\ m1[x].unused = m[x].unused /\ m1[x].prev = m[x].prev
        /\ x # b => m1[x].size = m[x].size
    BY <2>1, <1>3, <1>4, <1>6 DEF Written
  <2> QED
    BY <2>2 DEF NextOf, PrevOf
<1>9. NextOf(m1, b) = e1
  BY <1>7 DEF NextOf
<1>10. HeadersIn(m1, e1)
  BY <1>1, <1>4 DEF HeadersIn, HeaderMap, Written
<1>11. \A x \in DOMAIN m : x # b => x < b /\ NextOf(m1, x) <= b /\ NextOf(m1, x) \in DOMAIN m
  <2>1. ASSUME NEW x \in DOMAIN m, x # b
        PROVE  x < b /\ NextOf(m, x) <= b /\ NextOf(m, x) \in DOMAIN m
    <3>1. x < b
      BY <2>1, <1>1, <1>2
    <3>2. NextOf(m, x) <= b /\ NextOf(m, x) # e
      BY <3>1, <1>1, HeaderPos, Around
    <3> QED
      BY <3>1, <3>2 DEF WellFormed, Tiled
  <2> QED
    BY <2>1, <1>8
<1>12. Tiled(m1, e1)
  <2>1. 0 \in DOMAIN m1
    BY <1>1, <1>6, HeaderPos, Around DEF WellFormed, Tiled
  <2>2. \A x \in DOMAIN m1 : NextOf(m1, x) = e1 \/ NextOf(m1, x) \in DOMAIN m1
    BY <1>6, <1>9, <1>11
  <2>3. \A x \in DOMAIN m1 : NextOf(m1, x) <= e1
    BY <1>1, <1>6, <1>9, <1>11
  <2>4. ASSUME NEW x \in DOMAIN m1, NEW y \in DOMAIN m1, x < y
        PROVE  NextOf(m1, x) <= y
    <3>1. x # b
      BY <2>4, <1>1, <1>2, <1>6
    <3> QED
      BY <3>1, <2>4, <1>6, <1>8 DEF WellFormed, Tiled
  <2> QED
    BY <2>1, <2>2, <2>3, <2>4, <1>6, <1>9 DEF Tiled
<1>13. BackLinked(m1)
  <2> SUFFICES ASSUME NEW x \in DOMAIN m1, x > 0
               PROVE  PrevOf(m1, x) \in DOMAIN m1 /\ NextOf(m1, PrevOf(m1, x)) = x
    BY DEF BackLinked
  <2>1. PrevOf(m, x) \in DOMAIN m /\ NextOf(m, PrevOf(m, x)) = x /\ PrevOf(m1, x) = PrevOf(m, x)
    BY <1>6, <1>8 DEF WellFormed, BackLinked
  <2>2. PrevOf(m, x) < x
    BY <2>1, <1>1, <1>6, HeaderPos, Around
  <2>3. PrevOf(m, x) # b
    BY <2>2, <1>1, <1>2, <1>6
  <2> QED
    BY <2>1, <2>3, <1>6, <1>8
<1>14. Coalesced(m1, e1)
  <2> SUFFICES ASSUME NEW x \in DOMAIN m1, m1[x].unused
               PROVE  NextOf(m1, x) < e1 /\ ~ m1[NextOf(m1, x)].unused
    BY DEF Coalesced
  <2>1. x # b /\ m[x].unused
    BY <1>6, <1>7, <1>8
  <2>2. ~ m[NextOf(m, x)].unused
    BY <2>1, <1>6 DEF WellFormed, Coalesced
  <2> QED
    BY <2>1, <2>2, <1>1, <1>6, <1>8, <1>11
<1>15. \A x, len : x # b => (UsedAt(m1, x, len) <=> UsedAt(m, x, len))
  BY <1>6, <1>8 DEF UsedAt
<1>16. UsedAt(m1, b, w)
  BY <1>6, <1>7 DEF UsedAt
<1> QED
  BY <1>10, <1>12, <1>13, <1>14, <1>15, <1>16 DEF WellFormed

(***************************************************************************)
(* A split changes one used block: the one it makes.                       *)
(***************************************************************************)
LEMMA SplitUses ==
    ASSUME NEW m, NEW e, WellFormed(m, e),
           NEW b \in DOMAIN m, NEW avail \in Nat, NEW used \in Nat, used <= avail,
           NEW q \in DOMAIN m, q = b + Header + avail, ~ m[q].unused,
           \A x \in DOMAIN m : b < x /\ x < q => m[x].unused,
           NEW m1, m1 = Split(m, e, b, avail, used)
    PROVE  /\ \A x, len : x # b => (UsedAt(m1, x, len) <=> UsedAt(m, x, len))
           /\ UsedAt(m1, b, SplitSize(avail, used))
           /\ SplitSize(avail, used) \in Nat /\ SplitSize(avail, used) >= used
<1> DEFINE r == b + Header + used
<1>1. SplitInto(m1, m, b, avail, used, r, q)
  BY SplitWrites
<1>2. /\ b \in Nat /\ q \in Nat /\ r \in Nat /\ b < r /\ r <= q /\ b < q
      /\ DOMAIN m \subseteq Nat
  BY HeaderPos, Around DEF HeaderMap
<1>3. /\ b \in DOMAIN m1 /\ q \in DOMAIN m1
      /\ \A x \in DOMAIN m : x < b \/ q <= x => x \in DOMAIN m1
      /\ \A x \in DOMAIN m1 : x < b \/ x = b \/ q <= x \/ (x = r /\ m1[r].unused)
      /\ \A x \in DOMAIN m1 : x < b \/ q <= x => x \in DOMAIN m
  <2>1. CASE r + Header <= q
    <3>1. DOMAIN m1 = {y \in DOMAIN m : y <= b \/ q <= y} \cup {r} /\ m1[r].unused
      BY <2>1, <1>1 DEF SplitInto
    <3>2. r < q
      BY <2>1, <1>2, HeaderPos
    <3> QED
      BY <3>1, <3>2, <1>2
  <2>2. CASE ~(r + Header <= q)
    <3>1. DOMAIN m1 = {y \in DOMAIN m : y <= b \/ q <= y}
      BY <2>2, <1>1 DEF SplitInto
    <3> QED
      BY <3>1, <1>2
  <2> QED
    BY <2>1, <2>2
<1>4. /\ \A x \in DOMAIN m : x < b \/ q <= x =>
            m1[x].size = m[x].size /\ m1[x].unused = m[x].unused
      /\ m1[b].unused = FALSE /\ m1[b].size = SplitSize(avail, used)
  BY <1>1 DEF SplitInto
<1>5. ASSUME NEW x, NEW len, x # b, UsedAt(m, x, len)
      PROVE  UsedAt(m1, x, len)
  <2>1. x \in DOMAIN m /\ ~ m[x].unused /\ m[x].size = len
    BY <1>5 DEF UsedAt
  <2>2. x < b \/ q <= x
    BY <2>1, <1>2, <1>5
  <2> QED
    BY <2>1, <2>2, <1>3, <1>4 DEF UsedAt
<1>6. ASSUME NEW x, NEW len, x # b, UsedAt(m1, x, len)
      PROVE  UsedAt(m, x, len)
  <2>1. x \in DOMAIN m1 /\ ~ m1[x].unused /\ m1[x].size = len
    BY <1>6 DEF UsedAt
  <2>2. (x < b \/ q <= x) /\ x \in DOMAIN m
    BY <2>1, <1>3, <1>6
  <2> QED
    BY <2>1, <2>2, <1>4 DEF UsedAt
<1>7. UsedAt(m1, b, SplitSize(avail, used))
  BY <1>3, <1>4 DEF UsedAt
<1>8. SplitSize(avail, used) \in Nat /\ SplitSize(avail, used) >= used
  BY DEF SplitSize
<1> QED
  BY <1>5, <1>6, <1>7, <1>8

(***************************************************************************)
(* What a call may do to the used blocks when it changes what the client   *)
(* knows about object i from o[i] to v.                                    *)
(***************************************************************************)
LEMMA Handover ==
    ASSUME NEW m, HeaderMap(m), NEW o \in [Ids -> Spans], Owned(m, o),
           NEW i \in Ids, NEW v \in Spans,
           NEW m1, HeaderMap(m1), NEW o1, o1 = [o EXCEPT ![i] = v],
           \A x, n : x # HeaderOf(o[i]) /\ x # HeaderOf(v) =>
                (UsedAt(m1, x, n) <=> UsedAt(m, x, n)),
           v # Null => UsedAt(m1, HeaderOf(v), v.len),
           v # Null /\ HeaderOf(v) # HeaderOf(o[i]) =>
                \A n : ~ UsedAt(m, HeaderOf(v), n),
           o[i] # Null /\ HeaderOf(v) # HeaderOf(o[i]) =>
                \A n : ~ UsedAt(m1, HeaderOf(o[i]), n)
    PROVE  Owned(m1, o1)
<1>1. o1[i] = v /\ (\A j \in Ids : j # i => o1[j] = o[j]) /\ HeaderOf(Null) \notin Nat
  BY HeaderPos DEF HeaderOf, Null
<1>2. /\ \A j \in Ids : o[j] # Null => UsedAt(m, HeaderOf(o[j]), o[j].len)
      /\ \A j, k \in Ids : o[j] # Null /\ o[j] = o[k] => j = k
      /\ \A b \in DOMAIN m : ~ m[b].unused =>
            \E j \in Ids : o[j] # Null /\ HeaderOf(o[j]) = b
  BY DEF Owned
<1>3. \A j \in Ids : /\ o[j].at \in Nat /\ o[j].len \in Nat
                     /\ o[j] = [at |-> o[j].at, len |-> o[j].len]
  BY DEF Spans
<1>4. ASSUME NEW j \in Ids, NEW k \in Ids, o[j] # Null, o[k] # Null,
             HeaderOf(o[j]) = HeaderOf(o[k])
      PROVE  j = k
  <2>1. o[j].len = o[k].len
    BY <1>2, <1>4 DEF UsedAt
  <2>2. o[j].at = o[k].at
    <3>1. o[j].at \in Nat /\ o[k].at \in Nat
      BY <1>3
    <3> QED
      BY <3>1, <1>4, HeaderPos DEF HeaderOf
  <2> QED
    BY <2>1, <2>2, <1>2, <1>3, <1>4
<1>5. ASSUME NEW j \in Ids, j # i, o[j] # Null
      PROVE  HeaderOf(o[j]) # HeaderOf(v) /\ HeaderOf(o[j]) # HeaderOf(o[i])
  <2>1. UsedAt(m, HeaderOf(o[j]), o[j].len) /\ HeaderOf(o[j]) \in Nat
    BY <1>2, <1>5 DEF UsedAt, HeaderMap
  <2>2. HeaderOf(o[j]) # HeaderOf(o[i])
    BY <2>1, <1>1, <1>4, <1>5
  <2>3. HeaderOf(o[j]) # HeaderOf(v)
    BY <2>1, <2>2, <1>1
  <2> QED
    BY <2>2, <2>3
<1>6. ASSUME NEW j \in Ids, o1[j] # Null
      PROVE  UsedAt(m1, HeaderOf(o1[j]), o1[j].len)
  <2>1. CASE j = i
    BY <2>1, <1>1, <1>6
  <2>2. CASE j # i
    BY <2>2, <1>1, <1>2, <1>5, <1>6
  <2> QED
    BY <2>1, <2>2
<1>7. ASSUME NEW j \in Ids, NEW k \in Ids, o1[j] # Null, o1[j] = o1[k]
      PROVE  j = k
  <2>1. CASE j # i /\ k # i
    BY <2>1, <1>1, <1>2, <1>7
  <2>2. CASE j = i /\ k # i
    BY <2>2, <1>1, <1>5, <1>7
  <2>3. CASE j # i /\ k = i
    BY <2>3, <1>1, <1>5, <1>7
  <2> QED
    BY <2>1, <2>2, <2>3
<1>8. ASSUME NEW b \in DOMAIN m1, ~ m1[b].unused
      PROVE  \E j \in Ids : o1[j] # Null /\ HeaderOf(o1[j]) = b
  <2>0. UsedAt(m1, b, m1[b].size) /\ b \in Nat
    BY <1>8 DEF UsedAt, HeaderMap
  <2>1. CASE b = HeaderOf(v)
    <3>1. v # Null
      BY <2>0, <2>1, <1>1
    <3> QED
      BY <2>1, <3>1, <1>1
  <2>2. CASE b # HeaderOf(v)
    <3>1. b # HeaderOf(o[i])
      BY <2>0, <2>2, <1>1
    <3>2. UsedAt(m, b, m1[b].size)
      BY <2>0, <2>2, <3>1
    <3>3. PICK j \in Ids : o[j] # Null /\ HeaderOf(o[j]) = b
      BY <3>2, <1>2 DEF UsedAt
    <3>4. j # i
      BY <3>1, <3>3
    <3> QED
      BY <3>3, <3>4, <1>1
  <2> QED
    BY <2>1, <2>2
<1> QED
  BY <1>6, <1>7, <1>8 DEF Owned

-----------------------------------------------------------------------------

(* What GenInv says, in the terms of the lemmas above.                     *)
LEMMA InvFacts ==
    ASSUME GenInv
    PROVE  /\ WellFormed(blocks, size) /\ Owned(blocks, obj) /\ HeaderMap(blocks)
           /\ size \in 0..Cap /\ obj \in [Ids -> Spans]
  BY DEF GenInv, TypeOK, BlocksOK, ObjectsOK, WellFormed, HeadersIn, HeaderMap

(* Conversely, what an action has to show.                                 *)
LEMMA InvFrom ==
    ASSUME NEW m1, NEW e1, NEW o1, NEW i \in Ids, NEW v \in Spans,
           obj \in [Ids -> Spans], o1 = [obj EXCEPT ![i] = v],
           WellFormed(m1, e1), e1 \in 0..Cap, Owned(m1, o1),
           size' = e1, blocks' = m1, obj' = o1
    PROVE  GenInv'
<1>1. o1 \in [Ids -> Spans]
  OBVIOUS
<1> QED
  BY <1>1 DEF GenInv, TypeOK, BlocksOK, ObjectsOK, WellFormed

(***************************************************************************)
(* The first fit for w bytes is split into a used block.                   *)
(***************************************************************************)
LEMMA ReuseKeeps ==
    ASSUME GenInv, NEW w \in Nat, NEW b \in DOMAIN blocks, FirstFit(b, w)
    PROVE  /\ WellFormed(Reuse(b, w), size)
           /\ \A x, len : x # b => (UsedAt(Reuse(b, w), x, len) <=> UsedAt(blocks, x, len))
           /\ UsedAt(Reuse(b, w), b, ReuseSize(b, w))
           /\ \A len : ~ UsedAt(blocks, b, len)
           /\ ReuseSize(b, w) \in Nat /\ ReuseSize(b, w) >= w
<1> DEFINE q == NextOf(blocks, b)
<1>1. WellFormed(blocks, size)
  BY InvFacts
<1>2. blocks[b].unused /\ blocks[b].size >= w /\ blocks[b].size \in Nat
  BY <1>1 DEF FirstFit, Fitting, WellFormed, HeadersIn, Fields
<1>3. q < size /\ ~ blocks[q].unused /\ q \in DOMAIN blocks
  <2>1. q < size /\ ~ blocks[q].unused
    BY <1>1, <1>2 DEF WellFormed, Coalesced
  <2> QED
    BY <2>1, <1>1, Around DEF WellFormed, Tiled
<1>4. \A x \in DOMAIN blocks : b < x /\ x < q => blocks[x].unused
  <2>1. ASSUME NEW x \in DOMAIN blocks, b < x, x < q PROVE FALSE
    <3>1. q <= x
      BY <2>1, <1>1 DEF WellFormed, Tiled
    <3>2. x \in Nat /\ q \in Nat
      BY <1>1, <1>3, Around
    <3> QED
      BY <2>1, <3>1, <3>2
  <2> QED
    BY <2>1
<1>5. q = b + Header + blocks[b].size
  BY DEF NextOf
<1> HIDE DEF q
<1>6. WellFormed(Reuse(b, w), size)
  BY <1>1, <1>2, <1>3, <1>5, SplitKeeps DEF Reuse
<1>7. /\ \A x, len : x # b => (UsedAt(Reuse(b, w), x, len) <=> UsedAt(blocks, x, len))
      /\ UsedAt(Reuse(b, w), b, ReuseSize(b, w))
      /\ ReuseSize(b, w) \in Nat /\ ReuseSize(b, w) >= w
  BY <1>1, <1>2, <1>3, <1>4, <1>5, SplitUses DEF Reuse, ReuseSize
<1> QED
  BY <1>2, <1>6, <1>7 DEF UsedAt

(***************************************************************************)
(* No block fits: a used block is appended.                                *)
(***************************************************************************)
LEMMA AppendOk ==
    ASSUME GenInv, NEW w \in Nat, CanAppend(w)
    PROVE  /\ WellFormed(Appended(w), size + Header + w)
           /\ \A x, len : x # size => (UsedAt(Appended(w), x, len) <=> UsedAt(blocks, x, len))
           /\ UsedAt(Appended(w), size, w)
           /\ size \notin DOMAIN blocks
           /\ size + Header + w \in 0..Cap
<1>1. WellFormed(blocks, size) /\ size \in 0..Cap /\ HeaderMap(blocks)
  BY InvFacts
<1>2. size > 0 => \E b \in DOMAIN blocks : NextOf(blocks, b) = size /\ LastSize = blocks[b].size
  <2> SUFFICES ASSUME size > 0
               PROVE  \E b \in DOMAIN blocks : NextOf(blocks, b) = size /\ LastSize = blocks[b].size
    OBVIOUS
  <2> DEFINE L == CHOOSE b \in DOMAIN blocks : NextOf(blocks, b) = size
  <2>1. \E b \in DOMAIN blocks : NextOf(blocks, b) = size
    BY <1>1 DEF WellFormed, Tiled
  <2>2. L \in DOMAIN blocks /\ NextOf(blocks, L) = size
    BY <2>1
  <2>3. LastSize = blocks[L].size
    BY <1>1, CapAssumption DEF LastSize
  <2> QED
    BY <2>2, <2>3
<1>3. LastSize \in Nat
  <2>1. CASE size = 0
    BY <2>1 DEF LastSize
  <2>2. CASE size > 0
    BY <2>2, <1>1, <1>2 DEF HeaderMap, Fields
  <2> QED
    BY <2>1, <2>2, <1>1, CapAssumption
<1>4. size + Header + w \in 0..Cap
  BY <1>1, HeaderPos, CapAssumption DEF CanAppend
<1> QED
  BY <1>1, <1>2, <1>3, <1>4, AppendKeeps DEF Appended

(***************************************************************************)
(* A pointer of the client names the used block in front of it.            *)
(***************************************************************************)
LEMMA LiveBlock ==
    ASSUME GenInv, NEW i \in Ids, Live(i)
    PROVE  /\ HeaderOf(obj[i]) \in DOMAIN blocks /\ ~ blocks[HeaderOf(obj[i])].unused
           /\ blocks[HeaderOf(obj[i])].size = obj[i].len
           /\ UsedAt(blocks, HeaderOf(obj[i]), obj[i].len)
           /\ HeaderOf(obj[i]) \in Nat /\ obj[i].len \in Nat
  BY InvFacts DEF Owned, UsedAt, Live, HeaderMap, Spans

(* What Told records.                                                      *)
LEMMA ToldSpan ==
    ASSUME NEW b \in Nat, NEW len \in Nat,
           NEW v, v = [at |-> b + Header, len |-> len]
    PROVE  v \in Spans /\ HeaderOf(v) = b /\ v.len = len /\ v # Null
  BY HeaderPos DEF Spans, HeaderOf, Null

LEMMA NullSpan == Null \in Spans /\ HeaderOf(Null) \notin Nat
  BY HeaderPos DEF Spans, Null, HeaderOf

LEMMA AllocReuseKeeps ==
    ASSUME GenInv, NEW i \in Ids, NEW n \in Requests, AllocReuse(i, n)
    PROVE  GenInv'
<1> DEFINE w == Align(n)
<1>1. w \in Nat
  BY AlignUp, RequestsAssumption
<1> HIDE DEF w
<1>2. PICK b \in DOMAIN blocks :
         /\ FirstFit(b, w)
         /\ blocks' = Reuse(b, w)
         /\ Told(i, b, ReuseSize(b, w))
  BY DEF AllocReuse, w
<1> DEFINE m1 == Reuse(b, w)
           k  == ReuseSize(b, w)
           v  == [at |-> b + Header, len |-> k]
<1>3. /\ WellFormed(m1, size)
      /\ \A x, len : x # b => (UsedAt(m1, x, len) <=> UsedAt(blocks, x, len))
      /\ UsedAt(m1, b, k)
      /\ \A len : ~ UsedAt(blocks, b, len)
      /\ k \in Nat
  BY <1>1, <1>2, ReuseKeeps
<1>4. b \in Nat /\ HeaderMap(m1) /\ HeaderMap(blocks)
  BY <1>3, InvFacts DEF HeaderMap, WellFormed, HeadersIn
<1>5. v \in Spans /\ HeaderOf(v) = b /\ v.len = k /\ v # Null
  BY <1>3, <1>4, ToldSpan
<1>6. obj' = [obj EXCEPT ![i] = v] /\ obj[i] = Null /\ size' = size /\ blocks' = m1
  BY <1>2 DEF Told, AllocReuse, Live
<1> HIDE DEF v, m1, k
<1>7. Owned(m1, obj')
  BY <1>3, <1>4, <1>5, <1>6, InvFacts, Handover
<1> QED
  BY <1>3, <1>5, <1>6, <1>7, InvFacts, InvFrom

LEMMA AllocAppendKeeps ==
    ASSUME GenInv, NEW i \in Ids, NEW n \in Requests, AllocAppend(i, n)
    PROVE  GenInv'
<1> DEFINE w == Align(n)
<1>1. w \in Nat
  BY AlignUp, RequestsAssumption
<1>2. CanAppend(w) /\ size' = size + Header + w /\ blocks' = Appended(w) /\ Told(i, size, w)
  BY DEF AllocAppend
<1> HIDE DEF w
<1> DEFINE v == [at |-> size + Header, len |-> w]
<1>3. /\ WellFormed(Appended(w), size + Header + w)
      /\ \A x, len : x # size => (UsedAt(Appended(w), x, len) <=> UsedAt(blocks, x, len))
      /\ UsedAt(Appended(w), size, w)
      /\ size \notin DOMAIN blocks
      /\ size + Header + w \in 0..Cap
  BY <1>1, <1>2, AppendOk
<1>4. size \in Nat /\ HeaderMap(Appended(w))
  BY <1>3, InvFacts, CapAssumption DEF HeaderMap, WellFormed, HeadersIn
<1>5. v \in Spans /\ HeaderOf(v) = size /\ v.len = w /\ v # Null
  BY <1>1, <1>4, ToldSpan
<1>6. obj' = [obj EXCEPT ![i] = v] /\ obj[i] = Null
  BY <1>2 DEF Told, AllocAppend, Live
<1>7. \A len : ~ UsedAt(blocks, size, len)
  BY <1>3 DEF UsedAt
<1> HIDE DEF v
<1>8. Owned(Appended(w), obj')
  BY <1>3, <1>4, <1>5, <1>6, <1>7, InvFacts, Handover
<1> QED
  BY <1>2, <1>3, <1>5, <1>6, <1>8, InvFacts, InvFrom

LEMMA ReallocLastKeeps ==
    ASSUME GenInv, NEW i \in Ids, NEW n \in Requests, ReallocLast(i, n)
    PROVE  GenInv'
<1> DEFINE w == Align(n)
           b == HeaderOf(obj[i])
           m1 == Put(blocks, size', b, [blocks[b] EXCEPT !.size = w])
           v == [at |-> b + Header, len |-> w]
<1>1. w \in Nat
  BY AlignUp, RequestsAssumption
<1>2. /\ Live(i) /\ FitsInPlace(b, w) /\ size' = size - blocks[b].size + w
      /\ blocks' = m1 /\ Told(i, b, w)
  BY DEF ReallocLast
<1>3. /\ b \in DOMAIN blocks /\ ~ blocks[b].unused /\ b \in Nat
      /\ UsedAt(blocks, b, obj[i].len)
  BY <1>2, LiveBlock
<1>4. /\ WellFormed(blocks, size) /\ HeaderMap(blocks) /\ size \in Nat /\ size <= Cap
      /\ blocks[b].size \in Nat
  BY <1>3, InvFacts, CapAssumption DEF HeaderMap, Fields
<1> HIDE DEF w, b
<1>5. NextOf(blocks, b) = size /\ size' = b + Header + w /\ size' <= Cap
  <2>1. NextOf(blocks, b) >= size /\ size - blocks[b].size + w <= Cap
    BY <1>2 DEF FitsInPlace, IsLast
  <2>2. NextOf(blocks, b) <= size /\ NextOf(blocks, b) \in Nat
    BY <1>3, <1>4, Around
  <2> QED
    BY <2>1, <2>2, <1>1, <1>2, <1>3, <1>4, HeaderPos DEF NextOf
<1>6. /\ WellFormed(m1, size')
      /\ \A x, len : x # b => (UsedAt(m1, x, len) <=> UsedAt(blocks, x, len))
      /\ UsedAt(m1, b, w)
  BY <1>1, <1>3, <1>4, <1>5, ResizeKeeps
<1>7. HeaderMap(m1) /\ size' \in 0..Cap
  BY <1>1, <1>3, <1>5, <1>6, HeaderPos, CapAssumption DEF HeaderMap, WellFormed, HeadersIn
<1>8. v \in Spans /\ HeaderOf(v) = b /\ v.len = w /\ v # Null
  BY <1>1, <1>3, ToldSpan
<1>9. obj' = [obj EXCEPT ![i] = v] /\ b = HeaderOf(obj[i])
  BY <1>2 DEF Told, b
<1> HIDE DEF v, m1
<1>10. Owned(m1, obj')
  BY <1>4, <1>6, <1>7, <1>8, <1>9, InvFacts, Handover
<1> QED
  BY <1>2, <1>6, <1>7, <1>8, <1>9, <1>10, InvFacts, InvFrom

(***************************************************************************)
(* The bytes a realloc may use without moving end at a used block when the *)
(* block is not the last one.                                              *)
(***************************************************************************)
LEMMA AvailableEnds ==
    ASSUME GenInv, NEW b \in DOMAIN blocks, ~ blocks[b].unused, NextOf(blocks, b) < size,
           NEW q, q = b + Header + Available(b)
    PROVE  /\ Available(b) \in Nat
           /\ q \in DOMAIN blocks /\ ~ blocks[q].unused
           /\ \A x \in DOMAIN blocks : b < x /\ x < q => blocks[x].unused
<1> DEFINE n == NextOf(blocks, b)
<1>1. WellFormed(blocks, size) /\ HeaderMap(blocks) /\ b \in Nat /\ blocks[b].size \in Nat
  BY InvFacts DEF HeaderMap, Fields
<1>2. n \in DOMAIN blocks /\ n \in Nat /\ blocks[n].size \in Nat
  <2>1. n \in Nat /\ size \in Nat
    BY <1>1, Around
  <2>2. n \in DOMAIN blocks
    BY <2>1, <1>1 DEF WellFormed, Tiled
  <2> QED
    BY <2>1, <2>2, <1>1 DEF HeaderMap, Fields
<1>3. ~ IsLast(b) /\ n = b + Header + blocks[b].size
  BY <1>1, <1>2, CapAssumption, InvFacts DEF IsLast, NextOf
<1>4. CASE blocks[n].unused
  <2>1. Available(b) = blocks[b].size + Header + blocks[n].size
    BY <1>3, <1>4 DEF Available
  <2>2. q = NextOf(blocks, n)
    BY <2>1, <1>1, <1>2, <1>3, HeaderPos DEF NextOf
  <2>3. q = MergeNext(blocks, b)
    BY <2>2, <1>4 DEF MergeNext
  <2>4. Available(b) \in Nat
    BY <2>1, <1>1, <1>2, HeaderPos
  <2> QED
    BY <2>3, <2>4, <1>1, MergeEnds
<1>5. CASE ~ blocks[n].unused
  <2>1. Available(b) = blocks[b].size
    BY <1>5 DEF Available
  <2>2. q = n /\ q = MergeNext(blocks, b)
    BY <2>1, <1>3, <1>5 DEF MergeNext
  <2> QED
    BY <2>1, <2>2, <1>1, MergeEnds
<1> QED
  BY <1>4, <1>5

LEMMA ReallocSplitKeeps ==
    ASSUME GenInv, NEW i \in Ids, NEW n \in Requests, ReallocSplit(i, n)
    PROVE  GenInv'
<1> DEFINE w == Align(n)
           b == HeaderOf(obj[i])
           a == Available(b)
           q == b + Header + a
           m1 == Split(blocks, size, b, a, w)
           k == SplitSize(a, w)
           v == [at |-> b + Header, len |-> k]
<1>1. w \in Nat
  BY AlignUp, RequestsAssumption
<1>2. /\ Live(i) /\ ~ FitsInPlace(b, w) /\ a >= w
      /\ blocks' = m1 /\ Told(i, b, k) /\ size' = size
  BY DEF ReallocSplit
<1>3. /\ b \in DOMAIN blocks /\ ~ blocks[b].unused /\ b \in Nat
  BY <1>2, LiveBlock
<1>4. /\ WellFormed(blocks, size) /\ HeaderMap(blocks) /\ size \in 0..Cap
      /\ blocks[b].size \in Nat /\ NextOf(blocks, b) \in Nat
  BY <1>3, InvFacts, Around DEF HeaderMap, Fields
<1> HIDE DEF w, b
<1>5. NextOf(blocks, b) < size
  <2> SUFFICES ASSUME NextOf(blocks, b) >= size PROVE FALSE
    BY <1>4, CapAssumption
  <2>1. a = blocks[b].size
    BY DEF Available, IsLast
  <2>2. size - blocks[b].size + w <= Cap
    BY <2>1, <1>1, <1>2, <1>4, CapAssumption
  <2> QED
    BY <2>2, <1>2 DEF FitsInPlace, IsLast
<1>6. /\ a \in Nat /\ q \in DOMAIN blocks /\ ~ blocks[q].unused
      /\ \A x \in DOMAIN blocks : b < x /\ x < q => blocks[x].unused
  BY <1>3, <1>5, AvailableEnds
<1> HIDE DEF a
<1>7. WellFormed(m1, size)
  BY <1>1, <1>2, <1>3, <1>4, <1>6, SplitKeeps
<1>8. /\ \A x, len : x # b => (UsedAt(m1, x, len) <=> UsedAt(blocks, x, len))
      /\ UsedAt(m1, b, k) /\ k \in Nat
  BY <1>1, <1>2, <1>3, <1>4, <1>6, SplitUses
<1>9. HeaderMap(m1)
  BY <1>7 DEF HeaderMap, WellFormed, HeadersIn
<1>10. v \in Spans /\ HeaderOf(v) = b /\ v.len = k /\ v # Null
  BY <1>3, <1>8, ToldSpan
<1>11. obj' = [obj EXCEPT ![i] = v] /\ b = HeaderOf(obj[i])
  BY <1>2 DEF Told, b
<1> HIDE DEF v, m1, k
<1>12. Owned(m1, obj')
  BY <1>4, <1>8, <1>9, <1>10, <1>11, InvFacts, Handover
<1> QED
  BY <1>2, <1>4, <1>7, <1>10, <1>11, <1>12, InvFacts, InvFrom

(***************************************************************************)
(* A move: the old block is merged in the buffer that holds the new one.   *)
(***************************************************************************)
LEMMA MoveKeeps ==
    ASSUME GenInv, NEW i \in Ids, Live(i),
           NEW c \in Nat, NEW k \in Nat, NEW m, NEW e \in 0..Cap,
           WellFormed(m, e),
           \A x, len : x # c => (UsedAt(m, x, len) <=> UsedAt(blocks, x, len)),
           UsedAt(m, c, k),
           \A len : ~ UsedAt(blocks, c, len),
           NEW b, b = HeaderOf(obj[i]),
           blocks' = MergeBlocks(m, e, b), size' = MergeEnd(m, e, b), Told(i, c, k)
    PROVE  GenInv'
<1> DEFINE m1 == MergeBlocks(m, e, b)
           e1 == MergeEnd(m, e, b)
           v  == [at |-> c + Header, len |-> k]
<1>1. UsedAt(blocks, b, obj[i].len) /\ b # c
  BY LiveBlock
<1>2. UsedAt(m, b, obj[i].len)
  BY <1>1
<1>3. b \in DOMAIN m /\ ~ m[b].unused
  BY <1>2 DEF UsedAt
<1>4. /\ WellFormed(m1, e1) /\ e1 \in Nat /\ e1 <= e
      /\ \A x, len : x # b => (UsedAt(m1, x, len) <=> UsedAt(m, x, len))
      /\ \A len : ~ UsedAt(m1, b, len)
  BY <1>3, MergeKeeps
<1>5. HeaderMap(m1) /\ HeaderMap(blocks) /\ e1 \in 0..Cap
  BY <1>4, InvFacts, CapAssumption DEF HeaderMap, WellFormed, HeadersIn
<1>6. v \in Spans /\ HeaderOf(v) = c /\ v.len = k /\ v # Null
  BY ToldSpan
<1>7. obj' = [obj EXCEPT ![i] = v]
  BY DEF Told
<1> HIDE DEF v, m1, e1
<1>8. /\ \A x, n : x # b /\ x # c => (UsedAt(m1, x, n) <=> UsedAt(blocks, x, n))
      /\ UsedAt(m1, c, k)
  BY <1>1, <1>4
<1>9. Owned(m1, obj')
  BY <1>4, <1>5, <1>6, <1>7, <1>8, InvFacts, Handover
<1> QED
  BY <1>4, <1>5, <1>6, <1>7, <1>9, InvFacts, InvFrom DEF m1, e1

LEMMA ReallocMoveReuseKeeps ==
    ASSUME GenInv, NEW i \in Ids, NEW n \in Requests, ReallocMoveReuse(i, n)
    PROVE  GenInv'
<1> DEFINE w == Align(n)
           b == HeaderOf(obj[i])
<1>1. w \in Nat
  BY AlignUp, RequestsAssumption
<1>2. PICK c \in DOMAIN blocks :
         /\ FirstFit(c, w)
         /\ blocks' = MergeBlocks(Reuse(c, w), size, b)
         /\ size' = MergeEnd(Reuse(c, w), size, b)
         /\ Told(i, c, ReuseSize(c, w))
  BY DEF ReallocMoveReuse
<1> HIDE DEF w
<1>3. /\ WellFormed(Reuse(c, w), size)
      /\ \A x, len : x # c => (UsedAt(Reuse(c, w), x, len) <=> UsedAt(blocks, x, len))
      /\ UsedAt(Reuse(c, w), c, ReuseSize(c, w))
      /\ \A len : ~ UsedAt(blocks, c, len)
      /\ ReuseSize(c, w) \in Nat
  BY <1>1, <1>2, ReuseKeeps
<1>4. Live(i) /\ c \in Nat /\ size \in 0..Cap
  BY InvFacts DEF ReallocMoveReuse, HeaderMap
<1> QED
  BY <1>2, <1>3, <1>4, MoveKeeps

LEMMA ReallocMoveAppendKeeps ==
    ASSUME GenInv, NEW i \in Ids, NEW n \in Requests, ReallocMoveAppend(i, n)
    PROVE  GenInv'
<1> DEFINE w == Align(n)
           b == HeaderOf(obj[i])
           e == size + Header + w
<1>1. w \in Nat
  BY AlignUp, RequestsAssumption
<1>2. /\ Live(i) /\ CanAppend(w)
      /\ blocks' = MergeBlocks(Appended(w), e, b)
      /\ size' = MergeEnd(Appended(w), e, b)
      /\ Told(i, size, w)
  BY DEF ReallocMoveAppend
<1> HIDE DEF w
<1>3. /\ WellFormed(Appended(w), e)
      /\ \A x, len : x # size => (UsedAt(Appended(w), x, len) <=> UsedAt(blocks, x, len))
      /\ UsedAt(Appended(w), size, w)
      /\ size \notin DOMAIN blocks
      /\ e \in 0..Cap
  BY <1>1, <1>2, AppendOk
<1>4. size \in Nat /\ \A len : ~ UsedAt(blocks, size, len)
  BY <1>3, InvFacts, CapAssumption DEF UsedAt
<1> QED
  BY <1>1, <1>2, <1>3, <1>4, MoveKeeps

LEMMA FreeKeeps ==
    ASSUME GenInv, NEW i \in Ids, Free(i)
    PROVE  GenInv'
<1> DEFINE b == HeaderOf(obj[i])
           m1 == MergeBlocks(blocks, size, b)
           e1 == MergeEnd(blocks, size, b)
<1>1. Live(i) /\ blocks' = m1 /\ size' = e1 /\ obj' = [obj EXCEPT ![i] = Null]
  BY DEF Free
<1>2. b \in DOMAIN blocks /\ ~ blocks[b].unused /\ b \in Nat
  BY <1>1, LiveBlock
<1>3. WellFormed(blocks, size) /\ HeaderMap(blocks) /\ size \in 0..Cap
  BY InvFacts
<1>4. /\ WellFormed(m1, e1) /\ e1 \in Nat /\ e1 <= size
      /\ \A x, len : x # b => (UsedAt(m1, x, len) <=> UsedAt(blocks, x, len))
      /\ \A len : ~ UsedAt(m1, b, len)
  BY <1>2, <1>3, MergeKeeps
<1>5. HeaderMap(m1) /\ e1 \in 0..Cap
  BY <1>3, <1>4, CapAssumption DEF HeaderMap, WellFormed, HeadersIn
<1> HIDE DEF m1, e1
<1>6. Owned(m1, obj')
  BY <1>1, <1>3, <1>4, <1>5, InvFacts, NullSpan, Handover
<1> QED
  BY <1>1, <1>4, <1>5, <1>6, InvFacts, NullSpan, InvFrom

LEMMA InitInv ==
    ASSUME Init
    PROVE  GenInv
<1>1. size = 0 /\ DOMAIN blocks = {} /\ obj = [i \in Ids |-> Null]
  BY DEF Init
<1>2. HeadersIn(blocks, size)
  BY DEF Init, HeadersIn
<1>3. WellFormed(blocks, size)
  BY <1>1, <1>2 DEF WellFormed, Tiled, BackLinked, Coalesced
<1>4. Owned(blocks, obj)
  BY <1>1 DEF Owned
<1>5. obj \in [Ids -> Spans] /\ size \in 0..Cap
  BY <1>1, NullSpan, CapAssumption
<1> QED
  BY <1>2, <1>3, <1>4, <1>5 DEF GenInv, TypeOK, BlocksOK, ObjectsOK

LEMMA ClearKeeps ==
    ASSUME Clear
    PROVE  GenInv'
<1>1. size' = 0 /\ DOMAIN blocks' = {} /\ obj' = [i \in Ids |-> Null]
  BY DEF Clear
<1>2. HeadersIn(blocks', size')
  BY DEF Clear, HeadersIn
<1>3. WellFormed(blocks', size')
  BY <1>1, <1>2 DEF WellFormed, Tiled, BackLinked, Coalesced
<1>4. Owned(blocks', obj')
  BY <1>1 DEF Owned
<1>5. obj' \in [Ids -> Spans] /\ size' \in 0..Cap
  BY <1>1, NullSpan, CapAssumption
<1> QED
  BY <1>2, <1>3, <1>4, <1>5 DEF GenInv, TypeOK, BlocksOK, ObjectsOK

LEMMA StutterKeeps ==
    ASSUME GenInv, UNCHANGED vars
    PROVE  GenInv'
<1>1. size' = size /\ blocks' = blocks /\ obj' = obj
  BY DEF vars
<1> QED
  BY <1>1 DEF GenInv, TypeOK, BlocksOK, ObjectsOK

(***************************************************************************)
(* Every call of the allocator keeps the invariant.                        *)
(***************************************************************************)
LEMMA NextKeeps ==
    ASSUME GenInv, [Next]_vars
    PROVE  GenInv'
<1>1. ASSUME NEW i \in Ids, NEW n \in Requests, Alloc(i, n)
      PROVE  GenInv'
  <2>1. CASE AllocReuse(i, n)
    BY <2>1, AllocReuseKeeps
  <2>2. CASE AllocAppend(i, n)
    BY <2>2, AllocAppendKeeps
  <2>3. CASE AllocNull(i, n)
    BY <2>3, StutterKeeps DEF AllocNull
  <2> QED
    BY <1>1, <2>1, <2>2, <2>3 DEF Alloc
<1>2. ASSUME NEW i \in Ids, NEW n \in Requests, Realloc(i, n)
      PROVE  GenInv'
  <2>1. CASE ReallocLast(i, n)
    BY <2>1, ReallocLastKeeps
  <2>2. CASE ReallocSplit(i, n)
    BY <2>2, ReallocSplitKeeps
  <2>3. CASE ReallocMoveReuse(i, n)
    BY <2>3, ReallocMoveReuseKeeps
  <2>4. CASE ReallocMoveAppend(i, n)
    BY <2>4, ReallocMoveAppendKeeps
  <2>5. CASE ReallocNull(i, n)
    BY <2>5, StutterKeeps DEF ReallocNull
  <2> QED
    BY <1>2, <2>1, <2>2, <2>3, <2>4, <2>5 DEF Realloc
<1>3. ASSUME NEW i \in Ids, Free(i)
      PROVE  GenInv'
  BY <1>3, FreeKeeps
<1>4. CASE Clear
  BY <1>4, ClearKeeps
<1>5. CASE UNCHANGED vars
  BY <1>5, StutterKeeps
<1> QED
  BY <1>1, <1>2, <1>3, <1>4, <1>5 DEF Next

(***************************************************************************)
(* After any history of alloc, realloc, free and clear calls the buffer is *)
(* a doubly linked, fully merged tiling whose used blocks are exactly the  *)
(* client's live objects with the sizes it was told, for every buffer      *)
(* size, header size, alignment, set of requests and number of objects.    *)
(***************************************************************************)
THEOREM GenInvHolds == Spec => []GenInv
<1>1. Init => GenInv
  BY InitInv
<1>2. GenInv /\ [Next]_vars => GenInv'
  BY NextKeeps
<1> QED
  BY <1>1, <1>2, PTL DEF Spec

(* The type invariant, which the runs check as well.                       *)
THEOREM TypeOKHolds == Spec => []TypeOK
<1>1. GenInv => TypeOK
  BY DEF GenInv
<1> QED
  BY <1>1, GenInvHolds, PTL

(* The blocks tile the used buffer, linked both ways and merged.           *)
THEOREM BlocksOKHolds == Spec => []BlocksOK
<1>1. GenInv => BlocksOK
  BY DEF GenInv
<1> QED
  BY <1>1, GenInvHolds, PTL

(* The used blocks are the client's objects, with the sizes it was told.   *)
THEOREM ObjectsOKHolds == Spec => []ObjectsOK
<1>1. GenInv => ObjectsOK
  BY DEF GenInv
<1> QED
  BY <1>1, GenInvHolds, PTL

(***************************************************************************)
(* When the client holds nothing the used buffer is empty: the last block  *)
(* is always a used one.                                                   *)
(***************************************************************************)
THEOREM NothingLeaksHolds == Spec => []NothingLeaks
<1>1. ASSUME GenInv, \A i \in Ids : ~ Live(i), size # 0
      PROVE  FALSE
  <2>1. WellFormed(blocks, size) /\ Owned(blocks, obj) /\ size > 0 /\ size \in Nat
    BY <1>1, InvFacts, CapAssumption
  <2>2. PICK b \in DOMAIN blocks : NextOf(blocks, b) = size
    BY <2>1 DEF WellFormed, Tiled
  <2>3. ~ blocks[b].unused
    BY <2>1, <2>2 DEF WellFormed, Coalesced
  <2> QED
    BY <2>1, <2>3, <1>1 DEF Owned, Live
<1>2. GenInv => NothingLeaks
  BY <1>1 DEF NothingLeaks
<1> QED
  BY <1>2, GenInvHolds, PTL

-----------------------------------------------------------------------------
(* Two used blocks of a well-formed buffer have payloads that are apart.   *)
LEMMA UsedApart ==
    ASSUME NEW m, NEW e, WellFormed(m, e),
           NEW s \in Spans, UsedAt(m, HeaderOf(s), s.len),
           NEW t \in Spans, UsedAt(m, HeaderOf(t), t.len),
           HeaderOf(s) # HeaderOf(t)
    PROVE  Contract!Apart(s, t)
<1> DEFINE b == HeaderOf(s)
           c == HeaderOf(t)
<1>1. /\ s.at \in Nat /\ s.len \in Nat /\ t.at \in Nat /\ t.len \in Nat
      /\ b = s.at - Header /\ c = t.at - Header
  BY DEF Spans, HeaderOf
<1>2. /\ b \in DOMAIN m /\ m[b].size = s.len /\ b \in Nat
      /\ c \in DOMAIN m /\ m[c].size = t.len /\ c \in Nat
  BY DEF UsedAt, WellFormed, HeadersIn
<1>3. b < c => b + Header + s.len <= c
  BY <1>2 DEF WellFormed, Tiled, NextOf
<1>4. c < b => c + Header + t.len <= b
  BY <1>2 DEF WellFormed, Tiled, NextOf
<1>5. b # c
  OBVIOUS
<1> HIDE DEF b, c
<1> QED
  BY <1>1, <1>2, <1>3, <1>4, <1>5, HeaderPos DEF Contract!Apart

(***************************************************************************)
(* The live objects of a well-formed buffer are inside it and apart.       *)
(***************************************************************************)
LEMMA AllPlaced ==
    ASSUME NEW m, NEW e \in 0..Cap, WellFormed(m, e),
           NEW o \in [Ids -> Spans], Owned(m, o),
           NEW i \in Ids, o[i] # Null
    PROVE  /\ o[i] \in Contract!Span
           /\ o[i].at + o[i].len <= Cap
           /\ \A j \in Ids \ {i} : o[j] # Null => Contract!Apart(o[i], o[j])
<1> DEFINE b == HeaderOf(o[i])
<1>1. UsedAt(m, b, o[i].len) /\ e <= Cap
  BY CapAssumption DEF Owned
<1>2. b \in DOMAIN m /\ b \in Nat /\ m[b].size = o[i].len
  BY <1>1 DEF UsedAt, WellFormed, HeadersIn
<1>3. o[i].at \in Nat /\ o[i].len \in Nat /\ o[i].at = b + Header
      /\ o[i] = [at |-> o[i].at, len |-> o[i].len]
  BY <1>2, HeaderPos DEF Spans, HeaderOf
<1>4. NextOf(m, b) <= e
  BY <1>2 DEF WellFormed, Tiled
<1>5. o[i].at + o[i].len <= Cap
  BY <1>1, <1>2, <1>3, <1>4, HeaderPos, CapAssumption DEF NextOf
<1>6. o[i].at \in 1..Cap /\ o[i].len \in 0..Cap
  BY <1>2, <1>3, <1>5, HeaderPos, CapAssumption
<1>7. o[i] \in Contract!Span
  BY <1>3, <1>6 DEF Contract!Span
<1>8. ASSUME NEW j \in Ids \ {i}, o[j] # Null
      PROVE  Contract!Apart(o[i], o[j])
  <2>1. UsedAt(m, HeaderOf(o[j]), o[j].len) /\ o[j] # o[i] /\ o[j] \in Spans
    BY <1>8 DEF Owned
  <2>2. HeaderOf(o[j]) # b
    <3>1. SUFFICES ASSUME HeaderOf(o[j]) = b PROVE FALSE
      OBVIOUS
    <3>2. o[j].len = o[i].len
      BY <2>1, <3>1, <1>1 DEF UsedAt
    <3>3. o[j].at \in Nat /\ o[j] = [at |-> o[j].at, len |-> o[j].len]
      BY <2>1 DEF Spans
    <3>4. o[j].at - Header = b
      BY <3>1 DEF HeaderOf
    <3>5. o[j].at = o[i].at
      BY <3>3, <3>4, <1>2, <1>3, HeaderPos
    <3> QED
      BY <3>2, <3>3, <3>5, <2>1, <1>3
  <2> QED
    BY <2>1, <2>2, <1>1, UsedApart
<1> QED
  BY <1>5, <1>7, <1>8

(***************************************************************************)
(* A step between good states that tells the client a new span of at least *)
(* n bytes for object i gives i a place in the sense of the contract.      *)
(***************************************************************************)
LEMMA GivenFrom ==
    ASSUME GenInv, GenInv', NEW i \in Ids, NEW n \in Nat, NEW b, NEW len \in Nat,
           Told(i, b, len), len >= n, b \in Nat
    PROVE  Contract!Given(i, n)
<1>1. /\ WellFormed(blocks', size') /\ size' \in 0..Cap
      /\ obj' \in [Ids -> Spans] /\ Owned(blocks', obj') /\ obj \in [Ids -> Spans]
  BY DEF GenInv, TypeOK, BlocksOK, ObjectsOK
<1>2. obj'[i] = [at |-> b + Header, len |-> len] /\ obj' = [obj EXCEPT ![i] = obj'[i]]
  BY <1>1 DEF Told
<1>3. obj'[i] # Null /\ obj'[i].len >= n
  BY <1>2, HeaderPos DEF Null
<1>4. /\ obj'[i] \in Contract!Span
      /\ obj'[i].at + obj'[i].len <= Cap
      /\ \A j \in Ids \ {i} : obj'[j] # Null => Contract!Apart(obj'[i], obj'[j])
  BY <1>1, <1>3, AllPlaced
<1>5. \A j \in Ids \ {i} : obj'[j] = obj[j]
  BY <1>1, <1>2
<1>6. Contract!Placed(i, obj'[i])
  BY <1>4, <1>5 DEF Contract!Placed, Contract!Live, Contract!Null, Null
<1> QED
  BY <1>2, <1>3, <1>4, <1>6 DEF Contract!Given

(***************************************************************************)
(* A move copies between spans that are apart, into one that holds all of  *)
(* the old payload.                                                        *)
(***************************************************************************)
LEMMA MovesApart ==
    ASSUME GenInv, NEW i \in Ids, Live(i),
           NEW c \in Nat, NEW k \in Nat, NEW m, NEW e,
           WellFormed(m, e),
           \A x, len : x # c => (UsedAt(m, x, len) <=> UsedAt(blocks, x, len)),
           UsedAt(m, c, k),
           \A len : ~ UsedAt(blocks, c, len),
           NEW w \in Nat, k >= w, MustMove(HeaderOf(obj[i]), w), Told(i, c, k)
    PROVE  Contract!Apart(obj'[i], obj[i]) /\ obj'[i].len >= obj[i].len
<1> DEFINE b == HeaderOf(obj[i])
           v == [at |-> c + Header, len |-> k]
<1>1. /\ UsedAt(blocks, b, obj[i].len) /\ b # c /\ b \in DOMAIN blocks
      /\ blocks[b].size = obj[i].len /\ obj[i].len \in Nat
  BY LiveBlock
<1>2. UsedAt(m, b, obj[i].len)
  BY <1>1
<1>3. v \in Spans /\ HeaderOf(v) = c /\ v.len = k
  BY ToldSpan
<1>4. obj'[i] = v /\ obj[i] \in Spans
  BY InvFacts DEF Told
<1>5. Contract!Apart(v, obj[i])
  BY <1>1, <1>2, <1>3, <1>4, UsedApart
<1>6. Available(b) \in Nat /\ Available(b) >= blocks[b].size
  <2> DEFINE q == NextOf(blocks, b)
  <2>1. CASE ~ IsLast(b) /\ blocks[q].unused
    <3>1. q \in DOMAIN blocks
      <4>1. q = size \/ q \in DOMAIN blocks
        BY <1>1, InvFacts DEF WellFormed, Tiled
      <4> QED
        BY <4>1, <2>1, InvFacts, CapAssumption DEF IsLast
    <3>2. blocks[q].size \in Nat
      BY <3>1, InvFacts DEF HeaderMap, Fields
    <3>3. Available(b) = blocks[b].size + Header + blocks[q].size
      BY <2>1 DEF Available
    <3> QED
      BY <3>2, <3>3, <1>1, HeaderPos
  <2>2. CASE ~ (~ IsLast(b) /\ blocks[q].unused)
    <3>1. Available(b) = blocks[b].size
      BY <2>2 DEF Available
    <3> QED
      BY <3>1, <1>1
  <2> QED
    BY <2>1, <2>2
<1>7. k >= obj[i].len
  BY <1>1, <1>6 DEF MustMove
<1> QED
  BY <1>3, <1>4, <1>5, <1>7

(* Every step but Clear and Free either gives object i a place or fails.   *)
LEMMA AllocContract ==
    ASSUME GenInv, GenInv', NEW i \in Ids, NEW n \in Requests, Alloc(i, n)
    PROVE  Contract!Alloc(i, n) \/ obj' = obj
<1> DEFINE w == Align(n)
<1>1. w \in Nat /\ w >= n /\ n \in Nat
  BY AlignUp, RequestsAssumption
<1>2. ~ Contract!Live(i) <=> ~ Live(i)
  BY DEF Contract!Live, Contract!Null, Live, Null
<1> HIDE DEF w
<1>3. CASE AllocReuse(i, n)
  <2>1. PICK b \in DOMAIN blocks : FirstFit(b, w) /\ Told(i, b, ReuseSize(b, w))
    BY <1>3 DEF AllocReuse, w
  <2>2. ReuseSize(b, w) \in Nat /\ ReuseSize(b, w) >= n
    BY <2>1, <1>1, ReuseKeeps
  <2>3. b \in Nat
    BY InvFacts DEF HeaderMap
  <2> QED
    BY <2>1, <2>2, <2>3, <1>1, <1>2, <1>3, GivenFrom DEF AllocReuse, Contract!Alloc
<1>4. CASE AllocAppend(i, n)
  <2>1. size \in Nat
    BY InvFacts, CapAssumption
  <2> QED
    BY <2>1, <1>1, <1>2, <1>4, GivenFrom DEF AllocAppend, Contract!Alloc, w
<1>5. CASE AllocNull(i, n)
  BY <1>5 DEF AllocNull, vars
<1> QED
  BY <1>3, <1>4, <1>5 DEF Alloc

LEMMA ReallocContract ==
    ASSUME GenInv, GenInv', NEW i \in Ids, NEW n \in Requests, Realloc(i, n)
    PROVE  Contract!Realloc(i, n) \/ obj' = obj
<1> DEFINE w == Align(n)
           b == HeaderOf(obj[i])
<1>1. w \in Nat /\ w >= n /\ n \in Nat
  BY AlignUp, RequestsAssumption
<1>2. /\ Live(i) /\ Contract!Live(i)
      /\ b \in Nat /\ b \in DOMAIN blocks /\ blocks[b].size \in Nat
  <2>1. Live(i)
    BY DEF Realloc, ReallocLast, ReallocSplit, ReallocMoveReuse,
           ReallocMoveAppend, ReallocNull
  <2> QED
    BY <2>1, LiveBlock DEF Contract!Live, Contract!Null, Live, Null
<1>3. ASSUME NEW len \in Nat, len >= n, Told(i, b, len)
      PROVE  Contract!Realloc(i, n)
  <2>1. Contract!Given(i, n)
    BY <1>1, <1>2, <1>3, GivenFrom
  <2>2. obj'[i].at = b + Header /\ obj[i].at \in Nat
    BY <1>3, InvFacts DEF Told, Spans
  <2>3. obj'[i].at = obj[i].at
    BY <2>2, <1>2, HeaderPos DEF HeaderOf
  <2> QED
    BY <2>1, <2>3, <1>2 DEF Contract!Realloc
<1> HIDE DEF w
<1>4. CASE ReallocLast(i, n)
  BY <1>4, <1>1, <1>3 DEF ReallocLast, w
<1>5. CASE ReallocSplit(i, n)
  <2> DEFINE a == Available(b)
             k == SplitSize(a, w)
  <2>1. Told(i, b, k) /\ a >= w
    BY <1>5 DEF ReallocSplit, w
  <2>2. k = w \/ k = a
    BY DEF SplitSize
  <2>3. a \in Nat
    <3>1. NextOf(blocks, b) \in Nat /\ NextOf(blocks, b) <= size
      BY <1>2, InvFacts, Around DEF WellFormed, Tiled
    <3>2. CASE NextOf(blocks, b) < size
      BY <3>2, <1>2, LiveBlock, AvailableEnds
    <3>3. CASE ~ (NextOf(blocks, b) < size)
      BY <3>1, <3>3, <1>2, InvFacts, CapAssumption DEF Available, IsLast
    <3> QED
      BY <3>2, <3>3
  <2>4. k \in Nat /\ k >= n
    BY <2>1, <2>2, <2>3, <1>1
  <2> QED
    BY <2>1, <2>4, <1>3
<1>6. CASE ReallocMoveReuse(i, n)
  <2>1. PICK c \in DOMAIN blocks :
           FirstFit(c, w) /\ Told(i, c, ReuseSize(c, w)) /\ MustMove(b, w)
    BY <1>6 DEF ReallocMoveReuse, w
  <2>2. /\ WellFormed(Reuse(c, w), size)
        /\ \A x, len : x # c => (UsedAt(Reuse(c, w), x, len) <=> UsedAt(blocks, x, len))
        /\ UsedAt(Reuse(c, w), c, ReuseSize(c, w))
        /\ \A len : ~ UsedAt(blocks, c, len)
        /\ ReuseSize(c, w) \in Nat /\ ReuseSize(c, w) >= w
    BY <2>1, <1>1, ReuseKeeps
  <2>3. c \in Nat
    BY InvFacts DEF HeaderMap
  <2>4. Contract!Given(i, n)
    BY <2>1, <2>2, <2>3, <1>1, GivenFrom
  <2>5. Contract!Apart(obj'[i], obj[i]) /\ obj'[i].len >= obj[i].len
    BY <2>1, <2>2, <2>3, <1>1, <1>2, MovesApart
  <2> QED
    BY <2>4, <2>5, <1>2 DEF Contract!Realloc
<1>7. CASE ReallocMoveAppend(i, n)
  <2>1. CanAppend(w) /\ Told(i, size, w) /\ MustMove(b, w)
    BY <1>7 DEF ReallocMoveAppend, w
  <2>2. /\ WellFormed(Appended(w), size + Header + w)
        /\ \A x, len : x # size => (UsedAt(Appended(w), x, len) <=> UsedAt(blocks, x, len))
        /\ UsedAt(Appended(w), size, w)
        /\ \A len : ~ UsedAt(blocks, size, len)
    BY <2>1, <1>1, AppendOk DEF UsedAt
  <2>3. size \in Nat
    BY InvFacts, CapAssumption
  <2>4. Contract!Given(i, n)
    BY <2>1, <2>3, <1>1, GivenFrom
  <2>5. Contract!Apart(obj'[i], obj[i]) /\ obj'[i].len >= obj[i].len
    BY <2>1, <2>2, <2>3, <1>1, <1>2, MovesApart
  <2> QED
    BY <2>4, <2>5, <1>2 DEF Contract!Realloc
<1>8. CASE ReallocNull(i, n)
  BY <1>8 DEF ReallocNull, vars
<1> QED
  BY <1>4, <1>5, <1>6, <1>7, <1>8 DEF Realloc

(***************************************************************************)
(* The allocator implements the contract of a heap: its clients see only   *)
(* spans that are inside the buffer, large enough and apart, a failed call *)
(* leaves their view alone, and a realloc that moves copies between spans  *)
(* that are apart.                                                         *)
(***************************************************************************)
THEOREM ContractHolds == Spec => ContractSpec
<1>1. Init => Contract!Init
  BY DEF Init, Contract!Init, Contract!Null, Null
<1>2. ASSUME GenInv, GenInv', [Next]_vars
      PROVE  [Contract!Next]_obj
  <2>1. ASSUME NEW i \in Ids, NEW n \in Requests, Alloc(i, n)
        PROVE  [Contract!Next]_obj
    BY <2>1, <1>2, AllocContract DEF Contract!Next
  <2>2. ASSUME NEW i \in Ids, NEW n \in Requests, Realloc(i, n)
        PROVE  [Contract!Next]_obj
    BY <2>2, <1>2, ReallocContract DEF Contract!Next
  <2>3. ASSUME NEW i \in Ids, Free(i)
        PROVE  [Contract!Next]_obj
    BY <2>3 DEF Free, Live, Null,
                Contract!Next, Contract!Free, Contract!Live, Contract!Null
  <2>4. CASE Clear
    BY <2>4 DEF Clear, Null, Contract!Next, Contract!Clear, Contract!Null
  <2>5. CASE UNCHANGED vars
    BY <2>5 DEF vars
  <2> QED
    BY <1>2, <2>1, <2>2, <2>3, <2>4, <2>5 DEF Next
<1> QED
  BY <1>1, <1>2, GenInvHolds, PTL DEF Spec, ContractSpec, Contract!Spec

-----------------------------------------------------------------------------
(***************************************************************************)
(* Where the general allocator places blocks.  Every block starts at a     *)
(* multiple of the alignment and has a payload of such a size, for every   *)
(* alignment, header and capacity, aligned or not.  And it gives up only   *)
(* when there is no room: holes are merged, so first fit never misses      *)
(* bytes that lie side by side.                                            *)
(***************************************************************************)
Aligned(x) == x % Alignment = 0

AlignedMap(m) == \A b \in DOMAIN m : Aligned(b) /\ Aligned(m[b].size)

LEMMA MultipleOf ==
    ASSUME NEW k \in Int, NEW a \in Nat \ {0}
    PROVE  (k * a) % a = 0
OBVIOUS

LEMMA AlignedSum ==
    ASSUME NEW x \in Int, NEW y \in Int, Aligned(x), Aligned(y)
    PROVE  Aligned(x + y) /\ Aligned(x - y)
<1> DEFINE k == x \div Alignment
           l == y \div Alignment
<1>1. Alignment \in Nat \ {0} /\ k \in Int /\ l \in Int
  BY AlignmentAssumption
<1>2. x = k * Alignment /\ y = l * Alignment
  BY AlignmentAssumption DEF Aligned
<1> HIDE DEF k, l
<1>3. x + y = (k + l) * Alignment /\ x - y = (k - l) * Alignment
  BY <1>1, <1>2
<1>4. k + l \in Int /\ k - l \in Int
  BY <1>1
<1>5. ((k + l) * Alignment) % Alignment = 0 /\ ((k - l) * Alignment) % Alignment = 0
  BY <1>1, <1>4, MultipleOf
<1> QED
  BY <1>3, <1>5 DEF Aligned

LEMMA AlignAligns ==
    ASSUME NEW n \in Nat
    PROVE  Aligned(Align(n))
<1> DEFINE q == (n + Alignment - 1) \div Alignment
<1>1. q \in Nat
  BY AlignmentAssumption
<1>2. Align(n) = q * Alignment
  BY DEF Align
<1> HIDE DEF q
<1>3. (q * Alignment) % Alignment = 0
  BY <1>1, AlignmentAssumption
<1> QED
  BY <1>2, <1>3 DEF Aligned

LEMMA HeaderAligned == Header \in Nat /\ Aligned(Header) /\ Aligned(0)
  BY HeaderAssumption, AlignmentAssumption DEF Aligned

LEMMA ThreeAligned ==
    ASSUME NEW x \in Nat, NEW y \in Nat, Aligned(x), Aligned(y)
    PROVE  x + Header + y \in Nat /\ Aligned(x + Header + y)
<1>1. x + Header \in Nat /\ Aligned(x + Header)
  BY HeaderAligned, AlignedSum
<1>2. \A z \in Nat : Aligned(z) => z + y \in Nat /\ Aligned(z + y)
  BY AlignedSum
<1> QED
  BY <1>1, <1>2

(* A block that starts and is sized at multiples is followed by one.       *)
LEMMA NextAligned ==
    ASSUME NEW m, HeaderMap(m), AlignedMap(m), NEW b \in DOMAIN m
    PROVE  NextOf(m, b) \in Nat /\ Aligned(NextOf(m, b))
<1>1. b \in Nat /\ m[b].size \in Nat /\ Aligned(b) /\ Aligned(m[b].size)
  BY DEF HeaderMap, Fields, AlignedMap
<1> QED
  BY <1>1, ThreeAligned DEF NextOf

(* The used part of an aligned buffer ends where a block ends.             *)
LEMMA EndAligned ==
    ASSUME NEW m, NEW e, WellFormed(m, e), AlignedMap(m)
    PROVE  e \in Nat /\ Aligned(e)
<1>1. e \in Nat /\ HeaderMap(m)
  BY DEF WellFormed, HeadersIn, HeaderMap
<1>2. e > 0 => \E b \in DOMAIN m : NextOf(m, b) = e
  BY DEF WellFormed, Tiled
<1> QED
  BY <1>1, <1>2, NextAligned, HeaderAligned

(* A header written at a multiple, with such a size.                       *)
LEMMA PutAligned ==
    ASSUME NEW m, AlignedMap(m), NEW e, NEW b, NEW h,
           Aligned(b), Aligned(h.size)
    PROVE  AlignedMap(Put(m, e, b, h))
<1> DEFINE m1 == Put(m, e, b, h)
<1>1. ASSUME NEW x \in DOMAIN m1
      PROVE  (x = b /\ m1[x].size = h.size) \/ (x \in DOMAIN m /\ m1[x].size = m[x].size)
  BY DEF Put
<1> HIDE DEF m1
<1>2. AlignedMap(m1)
  BY <1>1 DEF AlignedMap
<1> QED
  BY <1>2 DEF m1

(* A split at multiples leaves multiples.                                  *)
LEMMA SplitAligned ==
    ASSUME NEW m, AlignedMap(m), NEW e, NEW b \in Nat, Aligned(b),
           NEW avail \in Nat, Aligned(avail), NEW used \in Nat, Aligned(used)
    PROVE  AlignedMap(Split(m, e, b, avail, used))
<1> DEFINE r  == b + Header + used
           sr == avail - used - Header
           mr == SplitRest(m, e, b, avail, used)
           hr == [prev |-> 0, unused |-> TRUE, size |-> sr]
           hb == [prev |-> m[b].prev, unused |-> FALSE, size |-> SplitSize(avail, used)]
<1>1. Aligned(r)
  <2>1. b + Header \in Int /\ Aligned(b + Header)
    BY HeaderAligned, AlignedSum
  <2> QED
    BY <2>1, AlignedSum
<1>2. Aligned(sr)
  <2>1. avail - used \in Int /\ Aligned(avail - used)
    BY AlignedSum
  <2> QED
    BY <2>1, HeaderAligned, AlignedSum
<1>3. Aligned(SplitSize(avail, used))
  BY DEF SplitSize
<1>4. mr = m \/ mr = Put(m, e, r, hr)
  BY DEF SplitRest
<1>5. AlignedMap(Put(m, e, r, hr))
  <2>1. hr.size = sr
    OBVIOUS
  <2> HIDE DEF r, sr, hr
  <2> QED
    BY <1>1, <1>2, <2>1, PutAligned
<1>6. AlignedMap(mr)
  BY <1>4, <1>5
<1>7. Split(m, e, b, avail, used) = Put(mr, e, b, hb)
  BY DEF Split
<1>8. hb.size = SplitSize(avail, used)
  OBVIOUS
<1> HIDE DEF mr, hb
<1> QED
  BY <1>3, <1>6, <1>7, <1>8, PutAligned

(* A merge takes a multiple out of a buffer of multiples.                  *)
LEMMA MergeAligned ==
    ASSUME NEW m, NEW e, WellFormed(m, e), AlignedMap(m),
           NEW b \in DOMAIN m, ~ m[b].unused
    PROVE  AlignedMap(MergeBlocks(m, e, b))
<1> DEFINE s == MergeStart(m, b)
           n == MergeNext(m, b)
           h == [prev |-> m[s].prev, unused |-> TRUE, size |-> n - s - Header]
<1>1. s \in DOMAIN m /\ HeaderMap(m) /\ NextOf(m, b) \in Nat /\ e \in Nat
  BY MergeStarts, Around
<1>2. s \in Nat /\ Aligned(s)
  BY <1>1 DEF HeaderMap, AlignedMap
<1>3. CASE NextOf(m, b) >= e
  <2> DEFINE m1 == [x \in {y \in DOMAIN m : y < s} |-> m[x]]
  <2>1. MergeBlocks(m, e, b) = m1
    BY <1>3 DEF MergeBlocks
  <2>2. AlignedMap(m1)
    BY DEF AlignedMap
  <2> QED
    BY <2>1, <2>2
<1>4. CASE NextOf(m, b) < e
  <2>1. n \in DOMAIN m
    BY <1>4, MergeEnds
  <2>2. n \in Nat /\ Aligned(n)
    BY <1>1, <2>1 DEF HeaderMap, AlignedMap
  <2>3. MergeBlocks(m, e, b) = Put(m, e, s, h)
    BY <1>1, <1>4 DEF MergeBlocks
  <2> HIDE DEF s, n
  <2>4. n - s \in Int /\ Aligned(n - s)
    BY <1>2, <2>2, AlignedSum
  <2>5. Aligned(n - s - Header)
    BY <2>4, HeaderAligned, AlignedSum
  <2>6. h.size = n - s - Header
    OBVIOUS
  <2> HIDE DEF h
  <2> QED
    BY <1>2, <2>3, <2>5, <2>6, PutAligned
<1> QED
  BY <1>1, <1>3, <1>4

-----------------------------------------------------------------------------
(* The buffers that ralcGen_alloc leaves.                                  *)
LEMMA ReuseAligned ==
    ASSUME GenInv, AlignedMap(blocks), NEW w \in Nat, Aligned(w),
           NEW b \in DOMAIN blocks
    PROVE  AlignedMap(Reuse(b, w))
<1>1. b \in Nat /\ Aligned(b) /\ blocks[b].size \in Nat /\ Aligned(blocks[b].size)
  BY InvFacts DEF HeaderMap, Fields, AlignedMap
<1> QED
  BY <1>1, SplitAligned DEF Reuse

LEMMA AppendAligned ==
    ASSUME GenInv, AlignedMap(blocks), NEW w \in Nat, Aligned(w)
    PROVE  AlignedMap(Appended(w))
<1> DEFINE h == [prev |-> LastSize, unused |-> FALSE, size |-> w]
<1>1. Aligned(size)
  BY InvFacts, EndAligned
<1>2. Appended(w) = Put(blocks, size + Header + w, size, h) /\ h.size = w
  BY DEF Appended
<1> HIDE DEF h
<1> QED
  BY <1>1, <1>2, PutAligned

(* What a block can grow to is a multiple as well.                         *)
LEMMA AvailableAligned ==
    ASSUME GenInv, AlignedMap(blocks), NEW b \in DOMAIN blocks
    PROVE  Available(b) \in Nat /\ Aligned(Available(b))
<1> DEFINE q == NextOf(blocks, b)
<1>1. blocks[b].size \in Nat /\ Aligned(blocks[b].size)
  BY InvFacts DEF HeaderMap, Fields, AlignedMap
<1>2. CASE ~ IsLast(b) /\ blocks[q].unused
  <2>1. q \in DOMAIN blocks
    <3>1. q = size \/ q \in DOMAIN blocks
      BY InvFacts DEF WellFormed, Tiled
    <3> QED
      BY <3>1, <1>2, InvFacts, CapAssumption DEF IsLast
  <2>2. blocks[q].size \in Nat /\ Aligned(blocks[q].size)
    BY <2>1, InvFacts DEF HeaderMap, Fields, AlignedMap
  <2>3. Available(b) = blocks[b].size + Header + blocks[q].size
    BY <1>2 DEF Available
  <2> HIDE DEF q
  <2> QED
    BY <1>1, <2>2, <2>3, ThreeAligned
<1>3. CASE ~ (~ IsLast(b) /\ blocks[q].unused)
  BY <1>1, <1>3 DEF Available
<1> QED
  BY <1>2, <1>3

-----------------------------------------------------------------------------
(* One lemma per operation that writes headers.                            *)
LEMMA AllocAligned ==
    ASSUME GenInv, AlignedMap(blocks), NEW i \in Ids, NEW n \in Requests, Alloc(i, n)
    PROVE  AlignedMap(blocks')
<1> DEFINE w == Align(n)
<1>1. w \in Nat /\ Aligned(w)
  BY RequestsAssumption, AlignUp, AlignAligns
<1>2. CASE AllocReuse(i, n)
  <2>1. PICK b \in DOMAIN blocks : blocks' = Reuse(b, w)
    BY <1>2 DEF AllocReuse
  <2> HIDE DEF w
  <2> QED
    BY <1>1, <2>1, ReuseAligned
<1>3. CASE AllocAppend(i, n)
  <2>1. blocks' = Appended(w)
    BY <1>3 DEF AllocAppend
  <2> HIDE DEF w
  <2> QED
    BY <1>1, <2>1, AppendAligned
<1>4. CASE AllocNull(i, n)
  BY <1>4 DEF AllocNull, vars
<1> QED
  BY <1>2, <1>3, <1>4 DEF Alloc

LEMMA ReallocAligned ==
    ASSUME GenInv, AlignedMap(blocks), NEW i \in Ids, NEW n \in Requests, Realloc(i, n)
    PROVE  AlignedMap(blocks')
<1> DEFINE w == Align(n)
           b == HeaderOf(obj[i])
<1>1. w \in Nat /\ Aligned(w)
  BY RequestsAssumption, AlignUp, AlignAligns
<1>2. Live(i)
  BY DEF Realloc, ReallocLast, ReallocSplit, ReallocMoveReuse,
         ReallocMoveAppend, ReallocNull
<1>3. /\ b \in DOMAIN blocks /\ b \in Nat /\ Aligned(b) /\ ~ blocks[b].unused
      /\ UsedAt(blocks, b, obj[i].len)
  BY <1>2, LiveBlock DEF AlignedMap
<1>4. CASE ReallocLast(i, n)
  <2> DEFINE h == [blocks[b] EXCEPT !.size = w]
  <2>1. blocks' = Put(blocks, size', b, h)
    BY <1>4 DEF ReallocLast
  <2>2. h.size = w
    BY <1>3, InvFacts DEF HeaderMap, Fields
  <2> HIDE DEF h, w, b
  <2> QED
    BY <1>1, <1>3, <2>1, <2>2, PutAligned
<1>5. CASE ReallocSplit(i, n)
  <2>1. blocks' = Split(blocks, size, b, Available(b), w)
    BY <1>5 DEF ReallocSplit
  <2> HIDE DEF w, b
  <2>2. Available(b) \in Nat /\ Aligned(Available(b))
    BY <1>3, AvailableAligned
  <2> QED
    BY <1>1, <1>3, <2>1, <2>2, SplitAligned
<1>6. CASE ReallocMoveReuse(i, n)
  <2>1. PICK c \in DOMAIN blocks :
           FirstFit(c, w) /\ blocks' = MergeBlocks(Reuse(c, w), size, b)
    BY <1>6 DEF ReallocMoveReuse
  <2> HIDE DEF w, b
  <2>2. /\ WellFormed(Reuse(c, w), size)
        /\ \A x, len : x # c => (UsedAt(Reuse(c, w), x, len) <=> UsedAt(blocks, x, len))
        /\ \A len : ~ UsedAt(blocks, c, len)
    BY <1>1, <2>1, ReuseKeeps
  <2>3. UsedAt(Reuse(c, w), b, obj[i].len)
    BY <1>3, <2>2
  <2>4. AlignedMap(Reuse(c, w))
    BY <1>1, ReuseAligned
  <2> QED
    BY <2>1, <2>2, <2>3, <2>4, MergeAligned DEF UsedAt
<1>7. CASE ReallocMoveAppend(i, n)
  <2> DEFINE e == size + Header + w
  <2>1. CanAppend(w) /\ blocks' = MergeBlocks(Appended(w), e, b)
    BY <1>7 DEF ReallocMoveAppend
  <2> HIDE DEF w, b
  <2>2. /\ WellFormed(Appended(w), e) /\ size \notin DOMAIN blocks
        /\ \A x, len : x # size => (UsedAt(Appended(w), x, len) <=> UsedAt(blocks, x, len))
    BY <1>1, <2>1, AppendOk
  <2>3. UsedAt(Appended(w), b, obj[i].len)
    BY <1>3, <2>2
  <2>4. AlignedMap(Appended(w))
    BY <1>1, AppendAligned
  <2> HIDE DEF e
  <2> QED
    BY <2>1, <2>2, <2>3, <2>4, MergeAligned DEF UsedAt
<1>8. CASE ReallocNull(i, n)
  BY <1>8 DEF ReallocNull, vars
<1> QED
  BY <1>4, <1>5, <1>6, <1>7, <1>8 DEF Realloc

(***************************************************************************)
(* Every pointer the allocator gives out is a multiple of the alignment    *)
(* and so is every payload size, so the low bit of prevSize_unused is the  *)
(* flag's alone whatever is allocated, resized and released.               *)
(***************************************************************************)
THEOREM PayloadsAlignedHolds == Spec => []PayloadsAligned
<1>1. Init => AlignedMap(blocks)
  BY DEF Init, AlignedMap
<1>2. ASSUME GenInv, AlignedMap(blocks), [Next]_vars
      PROVE  AlignedMap(blocks')
  <2>1. ASSUME NEW i \in Ids, NEW n \in Requests, Alloc(i, n)
        PROVE  AlignedMap(blocks')
    BY <2>1, <1>2, AllocAligned
  <2>2. ASSUME NEW i \in Ids, NEW n \in Requests, Realloc(i, n)
        PROVE  AlignedMap(blocks')
    BY <2>2, <1>2, ReallocAligned
  <2>3. ASSUME NEW i \in Ids, Free(i)
        PROVE  AlignedMap(blocks')
    <3>1. Live(i) /\ blocks' = MergeBlocks(blocks, size, HeaderOf(obj[i]))
      BY <2>3 DEF Free
    <3> QED
      BY <3>1, <1>2, LiveBlock, InvFacts, MergeAligned
  <2>4. CASE Clear
    BY <2>4 DEF Clear, AlignedMap
  <2>5. CASE UNCHANGED vars
    BY <2>5, <1>2 DEF vars
  <2> QED
    BY <1>2, <2>1, <2>2, <2>3, <2>4, <2>5 DEF Next
<1>3. ASSUME GenInv, AlignedMap(blocks)
      PROVE  PayloadsAligned
  <2> SUFFICES ASSUME NEW b \in DOMAIN blocks
               PROVE  Aligned(b + Header) /\ Aligned(blocks[b].size)
    BY DEF PayloadsAligned, Aligned
  <2>1. b \in Nat /\ Aligned(b) /\ Aligned(blocks[b].size)
    BY <1>3, InvFacts DEF HeaderMap, AlignedMap
  <2> QED
    BY <2>1, HeaderAligned, AlignedSum
<1>4. AlignedMap(blocks)' <=> AlignedMap(blocks')
  BY DEF AlignedMap
<1> QED
  BY <1>1, <1>2, <1>3, <1>4, GenInvHolds, PTL DEF Spec

-----------------------------------------------------------------------------
(* The numbers are well-founded, said of sets.                             *)
(***************************************************************************)
(* Every byte of the used buffer belongs to a block: of the blocks that    *)
(* end after it, the one that ends first starts at it or before.           *)
(***************************************************************************)
LEMMA BlockOver ==
    ASSUME NEW m, NEW e, WellFormed(m, e), NEW x \in Nat, x < e
    PROVE  \E b \in DOMAIN m : b <= x /\ x < NextOf(m, b)
<1> DEFINE T == {y \in Nat : y > x /\ \E b \in DOMAIN m : NextOf(m, b) = y}
<1>1. e \in Nat /\ \A b \in DOMAIN m : b \in Nat /\ NextOf(m, b) \in Nat /\ b < NextOf(m, b)
  BY Around, HeaderPos DEF WellFormed, HeadersIn
<1>2. e \in T
  BY <1>1 DEF WellFormed, Tiled
<1>3. PICK y \in T : \A z \in T : y <= z
  BY <1>2, LeastOf
<1>4. PICK b \in DOMAIN m : NextOf(m, b) = y
  OBVIOUS
<1>5. b <= x
  <2> SUFFICES ASSUME b > x PROVE FALSE
    BY <1>1
  <2>1. PrevOf(m, b) \in DOMAIN m /\ NextOf(m, PrevOf(m, b)) = b
    BY <1>1 DEF WellFormed, BackLinked
  <2>2. b \in T
    BY <1>1, <2>1
  <2> QED
    BY <1>1, <1>3, <1>4, <2>2
<1> QED
  BY <1>4, <1>5

(***************************************************************************)
(* Room for w bytes and a header among the used blocks is a hole that      *)
(* fits, or bytes at the end.                                              *)
(***************************************************************************)
LEMMA RoomIsFound ==
    ASSUME GenInv, NEW w \in Nat, NoRoom(w),
           NEW x \in Nat, x + Header + w <= Cap,
           \A b \in DOMAIN blocks : ~ blocks[b].unused =>
               NextOf(blocks, b) <= x \/ x + Header + w <= b
    PROVE  FALSE
<1>1. /\ WellFormed(blocks, size) /\ HeaderMap(blocks) /\ size \in Nat
      /\ Cap \in Nat /\ Header \in Nat /\ Header > 0
  BY InvFacts, HeaderPos, CapAssumption
<1>2. x < size
  BY <1>1 DEF NoRoom
<1>3. PICK b \in DOMAIN blocks : b <= x /\ x < NextOf(blocks, b)
  BY <1>1, <1>2, BlockOver
<1> DEFINE q == NextOf(blocks, b)
<1>4. b \in Nat /\ blocks[b].size \in Nat /\ q = b + Header + blocks[b].size
  BY <1>1 DEF HeaderMap, Fields, NextOf
<1>5. blocks[b].unused
  BY <1>1, <1>3, <1>4
<1>6. q \in DOMAIN blocks /\ ~ blocks[q].unused
  BY <1>1, <1>5 DEF WellFormed, Coalesced, Tiled
<1>7. q < NextOf(blocks, q)
  BY <1>1, <1>6, Around
<1>8. NextOf(blocks, q) \in Nat
  BY <1>1, <1>6, Around
<1>9. x + Header + w <= q
  <2>1. NextOf(blocks, q) <= x \/ x + Header + w <= q
    BY <1>6
  <2> HIDE DEF q
  <2> QED
    BY <2>1, <1>1, <1>3, <1>4, <1>7, <1>8 DEF q
<1>10. blocks[b].size >= w
  <2> HIDE DEF q
  <2> QED
    BY <1>1, <1>3, <1>4, <1>9
<1> QED
  BY <1>5, <1>10 DEF NoRoom, Fitting

(***************************************************************************)
(* When ralcGen_alloc, or the move of ralcGen_realloc, gives up on a size, *)
(* no run of bytes that could hold it with its header is free of the       *)
(* client's objects: for every buffer, alignment and history of calls.     *)
(***************************************************************************)
THEOREM FailsOnlyWhenFullHolds == Spec => []FailsOnlyWhenFull
<1>1. ASSUME GenInv
      PROVE  FailsOnlyWhenFull
  <2> SUFFICES ASSUME NEW n \in Requests, NoRoom(Align(n)),
                      NEW x \in 0..(Cap - Header - Align(n)),
                      \A b \in DOMAIN blocks : ~ blocks[b].unused =>
                          NextOf(blocks, b) <= x \/ x + Header + Align(n) <= b
               PROVE  FALSE
    BY DEF FailsOnlyWhenFull
  <2>1. Align(n) \in Nat
    BY RequestsAssumption, AlignUp
  <2>2. x \in Nat /\ x + Header + Align(n) <= Cap
    BY <2>1, HeaderPos, CapAssumption
  <2> QED
    BY <1>1, <2>1, <2>2, RoomIsFound
<1> QED
  BY <1>1, GenInvHolds, PTL

-----------------------------------------------------------------------------
(***************************************************************************)
(* The account.  The blocks up to a position, with their headers, are as   *)
(* many bytes as the position; so the payloads and one header for each     *)
(* block are the used buffer.                                              *)
(***************************************************************************)
Sizes  == [b \in DOMAIN blocks |-> blocks[b].size]
Heads  == [b \in DOMAIN blocks |-> Header]
Wholes == [b \in DOMAIN blocks |-> blocks[b].size + Header]
Lens   == [i \in Ids |-> obj[i].len]
Held   == {i \in Ids : Live(i)}
Taken  == DOMAIN blocks \ Unused

LEMMA BlocksFinite ==
    ASSUME GenInv
    PROVE  /\ IsFiniteSet(DOMAIN blocks) /\ Counts(Sizes, DOMAIN blocks)
           /\ \A b \in DOMAIN blocks :
                 /\ Sizes[b] \in Nat /\ Heads[b] \in Nat /\ Heads[b] = Header
                 /\ Wholes[b] \in Nat /\ Wholes[b] = Sizes[b] + Heads[b]
<1>1. HeaderMap(blocks) /\ size \in Nat /\ WellFormed(blocks, size)
  BY InvFacts, CapAssumption
<1>2. DOMAIN blocks \subseteq 0..size
  <2> SUFFICES ASSUME NEW b \in DOMAIN blocks PROVE b \in 0..size
    OBVIOUS
  <2>1. b \in Nat /\ b + Header <= NextOf(blocks, b) /\ NextOf(blocks, b) <= size
        /\ NextOf(blocks, b) \in Nat
    BY <1>1, Around
  <2> QED
    BY <1>1, <2>1, HeaderPos
<1>3. IsFiniteSet(0..size)
  BY <1>1, FS_Interval
<1>4. IsFiniteSet(DOMAIN blocks)
  BY <1>2, <1>3, FS_Subset
<1>5. \A b \in DOMAIN blocks : blocks[b].size \in Nat
  BY <1>1 DEF HeaderMap, Fields
<1> QED
  BY <1>4, <1>5, HeaderPos DEF Counts, Sizes, Heads, Wholes

Below(p) == {b \in DOMAIN blocks : b < p}

(* A position other than 0 has a block that ends there, the last before it.*)
LEMMA EndsAt ==
    ASSUME GenInv, NEW p \in DOMAIN blocks \cup {size}, p # 0
    PROVE  \E b \in DOMAIN blocks :
              /\ b \in Nat /\ p \in Nat /\ b < p /\ p = b + Wholes[b]
              /\ Below(p) = Below(b) \cup {b} /\ b \notin Below(b)
<1>1. HeaderMap(blocks) /\ size \in Nat /\ WellFormed(blocks, size)
  BY InvFacts, CapAssumption
<1>2. p \in Nat /\ p > 0 /\ DOMAIN blocks \subseteq Nat
  BY <1>1 DEF HeaderMap
<1>3. PICK b \in DOMAIN blocks : NextOf(blocks, b) = p
  <2>1. CASE p \in DOMAIN blocks
    BY <1>1, <1>2, <2>1 DEF WellFormed, BackLinked
  <2>2. CASE p = size
    BY <1>1, <1>2, <2>2 DEF WellFormed, Tiled
  <2> QED
    BY <2>1, <2>2
<1>4. /\ b \in Nat /\ b + Header <= p
      /\ \A x \in DOMAIN blocks : x \in Nat /\ (b < x => p <= x)
  <2>1. b \in Nat /\ b + Header <= p
    BY <1>1, <1>3, Around
  <2>2. \A x \in DOMAIN blocks : b < x => NextOf(blocks, b) <= x
    BY <1>1 DEF WellFormed, Tiled
  <2> QED
    BY <1>2, <1>3, <2>1, <2>2
<1>5. b < p
  BY <1>2, <1>4, HeaderPos
<1>6. p = b + Wholes[b]
  <2>1. blocks[b].size \in Nat
    BY <1>1 DEF HeaderMap, Fields
  <2> QED
    BY <1>3, <1>4, <2>1, HeaderPos DEF Wholes, NextOf
<1>7. ASSUME NEW x PROVE x \in Below(p) <=> x \in Below(b) \cup {b}
  BY <1>2, <1>4, <1>5 DEF Below
<1>8. Below(p) = Below(b) \cup {b} /\ b \notin Below(b)
  BY <1>4, <1>7 DEF Below
<1> QED
  BY <1>2, <1>4, <1>5, <1>6, <1>8

LEMMA WholesSum ==
    ASSUME GenInv
    PROVE  Total(Wholes, DOMAIN blocks) = size
<1> DEFINE T == {p \in DOMAIN blocks \cup {size} : Total(Wholes, Below(p)) # p}
<1>1. HeaderMap(blocks) /\ size \in Nat /\ DOMAIN blocks \subseteq Nat
  BY InvFacts, CapAssumption DEF HeaderMap
<1>2. T = {}
  <2> SUFFICES ASSUME T # {} PROVE FALSE
    OBVIOUS
  <2>1. PICK p \in T : \A x \in T : p <= x
    <3>1. T \in SUBSET Nat
      BY <1>1
    <3> HIDE DEF T
    <3> QED
      BY <3>1, LeastOf
  <2>2. p \in DOMAIN blocks \cup {size} /\ Total(Wholes, Below(p)) # p
    OBVIOUS
  <2>3. p # 0
    <3>1. Below(0) = {}
      BY <1>1 DEF Below
    <3> QED
      BY <2>2, <3>1, TotalEmpty
  <2>4. PICK b \in DOMAIN blocks :
           /\ b \in Nat /\ p \in Nat /\ b < p /\ p = b + Wholes[b]
           /\ Below(p) = Below(b) \cup {b} /\ b \notin Below(b)
    BY <2>2, <2>3, EndsAt
  <2>5. Total(Wholes, Below(b)) = b
    <3>1. ~ (p <= b)
      BY <2>4
    <3> QED
      BY <2>1, <3>1
  <2>6. Grows(Wholes, Below(b), b)
    <3>1. IsFiniteSet(DOMAIN blocks) /\ Counts(Wholes, DOMAIN blocks) /\ Below(b) \subseteq DOMAIN blocks
      BY BlocksFinite DEF Counts, Below
    <3> QED
      BY <2>4, <3>1, TotalGrows
  <2> QED
    BY <2>2, <2>4, <2>5, <2>6 DEF Grows
<1>3. DOMAIN blocks = Below(size)
  <2> SUFFICES ASSUME NEW b \in DOMAIN blocks PROVE b < size
    BY DEF Below
  <2>1. b \in Nat /\ b + Header <= NextOf(blocks, b) /\ NextOf(blocks, b) <= size
        /\ NextOf(blocks, b) \in Nat
    BY InvFacts, Around
  <2> QED
    BY <1>1, <2>1, HeaderPos
<1>4. Total(Wholes, Below(size)) = size
  BY <1>2
<1> QED
  BY <1>3, <1>4

LEMMA PayloadSumIs ==
    ASSUME NEW S, S \subseteq DOMAIN blocks
    PROVE  PayloadSum(S) = Total(Sizes, S)
<1> DEFINE It(h) == h = [s \in SUBSET S |->
                            IF s = {} THEN 0
                            ELSE LET x == CHOOSE x \in s : TRUE IN blocks[x].size + h[s \ {x}]]
<1>1. ASSUME NEW h PROVE It(h) <=> IsSum(h, Sizes, S)
  <2>1. \A s \in SUBSET S : s # {} => (CHOOSE x \in s : TRUE) \in DOMAIN blocks
    OBVIOUS
  <2> QED
    BY <2>1 DEF IsSum, Sizes
<1>2. PayloadSum(S) = (CHOOSE h : It(h))[S]
  BY DEF PayloadSum, MapThenSumSet, MapThenFoldSet
<1> HIDE DEF It
<1>3. (CHOOSE h : It(h)) = CHOOSE h : IsSum(h, Sizes, S)
  BY <1>1, Zenon
<1> QED
  BY <1>2, <1>3 DEF Total

LEMMA LensSum == MapThenSumSet(LAMBDA i : obj[i].len, Held) = Total(Lens, Held)
<1> DEFINE It(h) == h = [s \in SUBSET Held |->
                            IF s = {} THEN 0
                            ELSE LET x == CHOOSE x \in s : TRUE IN obj[x].len + h[s \ {x}]]
<1>1. ASSUME NEW h PROVE It(h) <=> IsSum(h, Lens, Held)
  <2>1. \A s \in SUBSET Held : s # {} => (CHOOSE x \in s : TRUE) \in Ids
    BY DEF Held
  <2> QED
    BY <2>1 DEF IsSum, Lens
<1>2. MapThenSumSet(LAMBDA i : obj[i].len, Held) = (CHOOSE h : It(h))[Held]
  BY DEF MapThenSumSet, MapThenFoldSet
<1> HIDE DEF It
<1>3. (CHOOSE h : It(h)) = CHOOSE h : IsSum(h, Lens, Held)
  BY <1>1, Zenon
<1> QED
  BY <1>2, <1>3 DEF Total

(* The used blocks are recounted as the client's objects.                  *)
LEMMA HeldSum ==
    ASSUME GenInv
    PROVE  Recount(Sizes, Taken, Lens, Held)
<1> DEFINE m == [b \in Taken |-> CHOOSE i \in Held : HeaderOf(obj[i]) = b]
<1>1. Owned(blocks, obj) /\ obj \in [Ids -> Spans]
  BY InvFacts
<1>2. \A b \in DOMAIN blocks : b \in Taken <=> ~ blocks[b].unused
  BY DEF Taken, Unused
<1>3. ASSUME NEW i \in Held
      PROVE  /\ i \in Ids /\ HeaderOf(obj[i]) \in Taken
             /\ blocks[HeaderOf(obj[i])].size = obj[i].len
  <2>1. i \in Ids /\ Live(i)
    BY DEF Held
  <2> QED
    BY <1>2, <2>1, LiveBlock
<1>4. ASSUME NEW b \in Taken
      PROVE  m[b] \in Held /\ HeaderOf(obj[m[b]]) = b
  <2>1. \E i \in Held : HeaderOf(obj[i]) = b
    BY <1>1, <1>2 DEF Owned, Held, Live, Taken
  <2> QED
    BY <2>1
<1>5. ASSUME NEW i \in Held, NEW j \in Held, HeaderOf(obj[i]) = HeaderOf(obj[j])
      PROVE  i = j
  <2>1. obj[i] \in Spans /\ obj[j] \in Spans /\ obj[i].len = obj[j].len
    BY <1>1, <1>3, <1>5
  <2>2. obj[i].at = obj[j].at
    BY <1>5, <2>1, HeaderPos DEF Spans, HeaderOf
  <2>3. obj[i] = obj[j]
    BY <2>1, <2>2 DEF Spans
  <2>4. i \in Ids /\ j \in Ids /\ obj[i] # Null
    BY DEF Held, Live
  <2> QED
    BY <1>1, <2>3, <2>4 DEF Owned
<1> HIDE DEF m
<1>6. \A b \in Taken : m[b] \in Held /\ Sizes[b] = Lens[m[b]]
  <2> SUFFICES ASSUME NEW b \in Taken PROVE m[b] \in Held /\ Sizes[b] = Lens[m[b]]
    OBVIOUS
  <2>1. m[b] \in Held /\ HeaderOf(obj[m[b]]) = b
    BY <1>4
  <2>2. m[b] \in Ids /\ blocks[b].size = obj[m[b]].len
    BY <1>3, <2>1
  <2> QED
    BY <2>1, <2>2 DEF Sizes, Lens, Taken
<1>7. \A i \in Held : \E b \in Taken : i = m[b]
  <2> SUFFICES ASSUME NEW i \in Held PROVE \E b \in Taken : i = m[b]
    OBVIOUS
  <2>1. HeaderOf(obj[i]) \in Taken
    BY <1>3
  <2>2. i = m[HeaderOf(obj[i])]
    BY <1>4, <1>5, <2>1
  <2> QED
    BY <2>1, <2>2
<1>8. \A b \in Taken : \A c \in Taken : m[b] = m[c] => b = c
  BY <1>4
<1>9. IsFiniteSet(Taken) /\ Counts(Sizes, Taken)
  <2>1. IsFiniteSet(DOMAIN blocks) /\ Counts(Sizes, DOMAIN blocks) /\ Taken \subseteq DOMAIN blocks
    BY BlocksFinite DEF Taken
  <2> QED
    BY <2>1, FS_Subset DEF Counts
<1> QED
  BY <1>6, <1>7, <1>8, <1>9, TotalReindex

(***************************************************************************)
(* The report is exact: as blocks it has the client's objects, and what is *)
(* neither payload nor hole is one header for each block, and for one more *)
(* at the end of the buffer if there is room for it.                       *)
(***************************************************************************)
THEOREM UsageIsExactHolds == Spec => []UsageIsExact
<1>1. GenInv => UsageIsExact
  <2> SUFFICES ASSUME GenInv PROVE UsageIsExact
    OBVIOUS
  <2> DEFINE S == DOMAIN blocks
             n == Cardinality(S)
             t == Total(Sizes, Taken)
             u == Total(Sizes, Unused)
             h == n * Header
  <2>1. size \in Nat /\ size <= Cap /\ Cap \in Nat /\ Header \in Nat
    BY InvFacts, CapAssumption, HeaderPos
  <2>2. Unused \subseteq S /\ Taken \subseteq S /\ Taken = S \ Unused /\ IsFiniteSet(S) /\ n \in Nat
    BY BlocksFinite, FS_CardinalityType DEF Unused, Taken
  <2>3. Total(Sizes, S) = u + t
    BY <2>2, BlocksFinite, TotalParts
  <2>4. t \in Nat /\ u \in Nat
    <3>1. IsFiniteSet(Taken) /\ IsFiniteSet(Unused)
      BY <2>2, FS_Subset
    <3>2. (\A b \in Taken : Sizes[b] \in Nat) /\ \A b \in Unused : Sizes[b] \in Nat
      BY <2>2, BlocksFinite
    <3> QED
      BY <3>1, <3>2, TotalNat
  <2>5. Total(Heads, S) = h
    <3>1. \A b \in S : Heads[b] = Header
      BY BlocksFinite
    <3> QED
      BY <2>1, <2>2, <3>1, TotalSteady
  <2>6. Total(Wholes, S) = Total(Sizes, S) + Total(Heads, S)
    BY <2>2, BlocksFinite, TotalPlus
  <2>7. size = (u + t) + h
    BY <2>3, <2>5, <2>6, WholesSum
  <2>8. Cardinality(Taken) \in Nat /\ Cardinality(Unused) \in Nat
        /\ Cardinality(Taken) + Cardinality(Unused) = n
    <3>1. S \cap Unused = Unused
      BY <2>2
    <3>2. Cardinality(Taken) = n - Cardinality(Unused)
      BY <2>2, <3>1, FS_Difference
    <3>3. Cardinality(Taken) \in Nat /\ Cardinality(Unused) \in Nat
      BY <2>2, FS_Subset, FS_CardinalityType
    <3> QED
      BY <2>2, <3>2, <3>3
  <2>9. Recount(Sizes, Taken, Lens, Held)
    BY HeldSum
  <2>10. PayloadSum(Taken) = t /\ PayloadSum(Unused) = u
    BY <2>2, PayloadSumIs
  <2> DEFINE r == Tail
  <2>11. /\ Usage.blockCount = Cardinality(Taken) /\ Usage.blockSize = t
         /\ Usage.holeCount = Cardinality(Unused)
         /\ Usage.systemSize = (Cap - t) - (u + r)
    BY <2>10 DEF Usage, Taken
  <2>12. r = IF Cap - size > Header THEN (Cap - size) - Header ELSE 0
    BY DEF Tail
  <2>13. /\ Usage.blockCount = Cardinality(Held)
         /\ Usage.blockSize = MapThenSumSet(LAMBDA i : obj[i].len, Held)
    BY <2>9, <2>11, LensSum DEF Recount
  <2>14. Header * (Cardinality(Taken) + Cardinality(Unused)) = h /\ h \in Nat
    BY <2>1, <2>2, <2>8
  <2> HIDE DEF S, n, t, u, h, r
  <2>15. (Cap - t) - (u + r) = h + (IF Cap - size > Header THEN Header ELSE Cap - size)
    BY <2>1, <2>4, <2>7, <2>12, <2>14
  <2>16. Usage.systemSize
           = Header * (Usage.blockCount + Usage.holeCount)
               + (IF Cap - size > Header THEN Header ELSE Cap - size)
    BY <2>11, <2>14, <2>15
  <2> QED
    BY <2>13, <2>16 DEF UsageIsExact, Held
<1> QED
  BY <1>1, GenInvHolds, PTL

=============================================================================
