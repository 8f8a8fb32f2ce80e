---------------------------- MODULE rlist_proofs ----------------------------
(***************************************************************************)
(* The list is its client's sequence of elements, read along the links in  *)
(* either direction, after any history of inserts, resizes and removes.    *)
(***************************************************************************)
EXTENDS rlist, FiniteSetTheorems, SequenceTheorems, Lemmas, TLAPS

Pointer == Blocks \cup {NULL}
Elem    == [prev : Pointer, next : Pointer, size : Nat]
Items   == [at : Blocks, len : Nat]

-----------------------------------------------------------------------------
(* Sequences of the client's view.                                         *)
WithInserted(t, s, k, e) ==
    /\ t \in Seq(Items) /\ Len(t) = Len(s) + 1
    /\ t[k] = e
    /\ \A j \in 1..(k - 1) : t[j] = s[j]
    /\ \A j \in (k + 1)..(Len(s) + 1) : t[j] = s[j - 1]

WithCut(t, s, k, n) ==
    /\ t \in Seq(Items) /\ Len(t) = Len(s) - n
    /\ \A j \in 1..(k - 1) : t[j] = s[j]
    /\ \A j \in k..(Len(s) - n) : t[j] = s[j + n]

(* A sequence followed by another.                                         *)
Joined(r, s, t) ==
    /\ r \in Seq(Items)
    /\ Len(s) \in Nat /\ Len(t) \in Nat /\ Len(r) = Len(s) + Len(t)
    /\ \A j \in 1..(Len(s) + Len(t)) : r[j] = IF j <= Len(s) THEN s[j] ELSE t[j - Len(s)]

LEMMA JoinedIs ==
    ASSUME NEW s \in Seq(Items), NEW t \in Seq(Items), NEW r, r = s \o t
    PROVE  Joined(r, s, t)
<1>1. Len(s) \in Nat /\ Len(t) \in Nat
  BY LenProperties
<1>2. /\ s \o t \in Seq(Items) /\ Len(s \o t) = Len(s) + Len(t)
      /\ \A j \in 1..(Len(s) + Len(t)) :
            (s \o t)[j] = IF j <= Len(s) THEN s[j] ELSE t[j - Len(s)]
  BY ConcatProperties
<1> QED
  BY <1>1, <1>2 DEF Joined

LEMMA InsertIs ==
    ASSUME NEW s \in Seq(Items), NEW k \in 1..(Len(s) + 1), NEW e \in Items
    PROVE  WithInserted(InsertAt(s, k, e), s, k, e)
<1> DEFINE u == SubSeq(s, 1, k - 1)
           v == SubSeq(s, k, Len(s))
           c == u \o <<e>>
           t == c \o v
<1>1. Len(s) \in Nat /\ \A j \in 1..Len(s) : s[j] \in Items
  BY LenProperties, ElementOfSeq
<1>2. u \in Seq(Items) /\ Len(u) = k - 1 /\ \A j \in 1..(k - 1) : u[j] = s[j]
  BY <1>1, SubSeqProperties
<1>3. v \in Seq(Items) /\ Len(v) = Len(s) - k + 1
  BY <1>1, SubSeqProperties
<1>4. \A j \in 1..(Len(s) - k + 1) : v[j] = s[k + j - 1]
  BY <1>1, SubSeqProperties
<1>5. <<e>> \in Seq(Items) /\ Len(<<e>>) = 1 /\ <<e>>[1] = e
  OBVIOUS
<1> HIDE DEF u, v
<1>6. c \in Seq(Items) /\ Len(c) = k /\ c[k] = e /\ \A j \in 1..(k - 1) : c[j] = s[j]
  <2> DEFINE d == <<e>>
  <2>1. d \in Seq(Items) /\ Len(d) = 1 /\ d[1] = e /\ c = u \o d
    BY <1>5
  <2> HIDE DEF d
  <2>2. Len(u) = k - 1 /\ Len(u) + Len(d) = k /\ k - (k - 1) = 1
    BY <1>2, <2>1
  <2> HIDE DEF c
  <2>a. Joined(c, u, d)
    BY <1>2, <2>1, JoinedIs
  <2>3. /\ c \in Seq(Items) /\ Len(c) = k
        /\ \A j \in 1..k : c[j] = IF j <= k - 1 THEN u[j] ELSE d[j - (k - 1)]
    BY <2>a, <2>2 DEF Joined
  <2>b. k \in 1..k /\ ~ (k <= k - 1)
    BY <2>2
  <2>4. c[k] = d[1]
    BY <2>b, <2>2, <2>3
  <2>5. \A j \in 1..(k - 1) : j \in 1..k /\ j <= k - 1
    OBVIOUS
  <2> QED
    BY <1>2, <2>1, <2>3, <2>4, <2>5
<1> HIDE DEF c
<1>7. /\ t \in Seq(Items) /\ Len(t) = Len(s) + 1
      /\ \A j \in 1..(Len(s) + 1) : t[j] = IF j <= k THEN c[j] ELSE v[j - k]
  <2>1. Len(c) + Len(v) = Len(s) + 1 /\ Len(c) = k
    BY <1>1, <1>3, <1>6
  <2>2. Joined(t, c, v)
    BY <1>3, <1>6, JoinedIs
  <2> QED
    BY <2>1, <2>2 DEF Joined
<1> HIDE DEF t
<1>8. t[k] = e /\ \A j \in 1..(k - 1) : t[j] = s[j]
  BY <1>1, <1>6, <1>7
<1>9. ASSUME NEW j \in (k + 1)..(Len(s) + 1)
      PROVE  t[j] = s[j - 1]
  <2>1. t[j] = v[j - k]
    BY <1>1, <1>7
  <2>2. j - k \in 1..(Len(s) - k + 1) /\ k + (j - k) - 1 = j - 1
    BY <1>1
  <2> QED
    BY <1>4, <2>1, <2>2
<1>10. InsertAt(s, k, e) = t
  BY DEF InsertAt, t, c, u, v
<1> QED
  BY <1>7, <1>8, <1>9, <1>10 DEF WithInserted

LEMMA CutIs ==
    ASSUME NEW s \in Seq(Items), NEW k \in 1..Len(s), NEW n \in 1..(Len(s) - k + 1)
    PROVE  WithCut(SubSeq(s, 1, k - 1) \o SubSeq(s, k + n, Len(s)), s, k, n)
<1> DEFINE u == SubSeq(s, 1, k - 1)
           v == SubSeq(s, k + n, Len(s))
           t == u \o v
<1>1. Len(s) \in Nat /\ \A j \in 1..Len(s) : s[j] \in Items
  BY LenProperties, ElementOfSeq
<1>2. u \in Seq(Items) /\ Len(u) = k - 1 /\ \A j \in 1..(k - 1) : u[j] = s[j]
  BY <1>1, SubSeqProperties
<1>3. v \in Seq(Items) /\ Len(v) = Len(s) - (k + n) + 1
  BY <1>1, SubSeqProperties
<1>4. \A j \in 1..(Len(s) - (k + n) + 1) : v[j] = s[(k + n) + j - 1]
  BY <1>1, SubSeqProperties
<1> HIDE DEF u, v
<1>5. /\ t \in Seq(Items) /\ Len(t) = Len(s) - n
      /\ \A j \in 1..(Len(s) - n) : t[j] = IF j <= k - 1 THEN u[j] ELSE v[j - (k - 1)]
  <2>1. Len(u) + Len(v) = Len(s) - n /\ Len(u) = k - 1
    BY <1>1, <1>2, <1>3
  <2>2. Joined(t, u, v)
    BY <1>2, <1>3, JoinedIs
  <2> QED
    BY <2>1, <2>2 DEF Joined
<1> HIDE DEF t
<1>6. \A j \in 1..(k - 1) : t[j] = s[j]
  <2> SUFFICES ASSUME NEW j \in 1..(k - 1) PROVE t[j] = s[j]
    OBVIOUS
  <2>1. j \in 1..(Len(s) - n) /\ j <= k - 1
    BY <1>1
  <2> QED
    BY <1>2, <1>5, <2>1
<1>7. ASSUME NEW j \in k..(Len(s) - n)
      PROVE  t[j] = s[j + n]
  <2>0. j \in 1..(Len(s) - n) /\ ~ (j <= k - 1)
    BY <1>1
  <2>1. t[j] = v[j - (k - 1)]
    BY <2>0, <1>5
  <2>2. /\ j - (k - 1) \in 1..(Len(s) - (k + n) + 1)
        /\ (k + n) + (j - (k - 1)) - 1 = j + n
    BY <1>1
  <2> QED
    BY <1>4, <2>1, <2>2
<1> QED
  BY <1>5, <1>6, <1>7 DEF WithCut, t, u, v

-----------------------------------------------------------------------------
(* The list as a relation between the client's sequence s, the headers nd  *)
(* and the blocks ln that the parent has lent.                             *)

AtOf(s, i)  == IF i \in DOMAIN s THEN s[i].at ELSE NULL
Ats(s)      == {s[i].at : i \in DOMAIN s}
Distinct(s) == \A i, j \in DOMAIN s : s[i].at = s[j].at => i = j

Chained(s, nd) ==
    \A i \in DOMAIN s :
        nd[s[i].at].prev = AtOf(s, i - 1) /\ nd[s[i].at].next = AtOf(s, i + 1)

Shape(s, nd, ln) ==
    /\ s \in Seq(Items) /\ Distinct(s)
    /\ nd \in [Ats(s) -> Elem]
    /\ DOMAIN ln = Ats(s)
    /\ \A x \in Ats(s) : ln[x] = nd[x].size + Header
    /\ Chained(s, nd)

(* The blocks are large enough for what the client asked for.              *)
Roomy(s, ln) == \A i \in 1..Len(s) : ln[AtOf(s, i)] >= s[i].len + Header

LEMMA Pointers1 ==
    ASSUME NEW s \in Seq(Items), Distinct(s)
    PROVE  /\ Len(s) \in Nat /\ DOMAIN s = 1..Len(s)
           /\ Ats(s) \subseteq Blocks /\ NULL \notin Ats(s)
           /\ \A i \in Int : AtOf(s, i) \in Ats(s) \cup {NULL}
           /\ \A i \in Int : AtOf(s, i) \in Pointer
           /\ \A i \in 1..Len(s) : AtOf(s, i) = s[i].at /\ AtOf(s, i) \in Ats(s)
           /\ \A i \in Int : i \notin 1..Len(s) => AtOf(s, i) = NULL
           /\ \A i, j \in Int : AtOf(s, i) = AtOf(s, j) /\ AtOf(s, i) # NULL => i = j
           /\ \A x \in Ats(s) : \E i \in 1..Len(s) : x = AtOf(s, i)
<1>1. Len(s) \in Nat /\ DOMAIN s = 1..Len(s) /\ \A i \in 1..Len(s) : s[i] \in Items
  BY LenProperties, ElementOfSeq
<1>2. \A i \in 1..Len(s) : s[i].at \in Blocks
  BY <1>1 DEF Items
<1>3. Ats(s) \subseteq Blocks /\ NULL \notin Ats(s)
  BY <1>1, <1>2, ListAssumption DEF Ats
<1>4. \A i \in 1..Len(s) : AtOf(s, i) = s[i].at /\ AtOf(s, i) \in Ats(s)
  BY <1>1 DEF AtOf, Ats
<1>5. \A i \in Int : i \notin 1..Len(s) => AtOf(s, i) = NULL
  BY <1>1 DEF AtOf
<1>6. \A i \in Int : AtOf(s, i) \in Ats(s) \cup {NULL}
  BY <1>4, <1>5
<1>7. \A i \in Int : AtOf(s, i) \in Pointer
  BY <1>3, <1>6 DEF Pointer
<1>8. ASSUME NEW i \in Int, NEW j \in Int, AtOf(s, i) = AtOf(s, j), AtOf(s, i) # NULL
      PROVE  i = j
  <2>1. i \in 1..Len(s) /\ j \in 1..Len(s)
    BY <1>5, <1>8
  <2> QED
    BY <2>1, <1>1, <1>4, <1>8 DEF Distinct
<1>9. \A x \in Ats(s) : \E i \in 1..Len(s) : x = AtOf(s, i)
  BY <1>1, <1>4 DEF Ats
<1> QED
  BY <1>1, <1>3, <1>4, <1>5, <1>6, <1>7, <1>8, <1>9

(* Writing one link of one element.                                        *)
LEMMA LinkNextIs ==
    ASSUME NEW D, NULL \notin D, NEW nd \in [D -> Elem],
           NEW p \in D \cup {NULL}, NEW x \in Pointer
    PROVE  LET r == LinkNext(nd, p, x) IN
           /\ r \in [D -> Elem]
           /\ \A y \in D : /\ r[y].prev = nd[y].prev /\ r[y].size = nd[y].size
                           /\ r[y].next = IF y = p THEN x ELSE nd[y].next
<1>1. CASE p = NULL
  BY <1>1 DEF LinkNext
<1>2. CASE p # NULL
  <2> DEFINE r == [nd EXCEPT ![p].next = x]
  <2>1. LinkNext(nd, p, x) = r /\ p \in D
    BY <1>2 DEF LinkNext
  <2>2. r = [y \in D |-> IF y = p THEN [nd[p] EXCEPT !.next = x] ELSE nd[y]]
    OBVIOUS
  <2>3. nd[p] \in Elem
    BY <2>1
  <2> DEFINE h == [nd[p] EXCEPT !.next = x]
  <2>4. h \in Elem /\ h.prev = nd[p].prev /\ h.size = nd[p].size /\ h.next = x
    BY <2>3 DEF Elem
  <2> HIDE DEF h
  <2>5. r = [y \in D |-> IF y = p THEN h ELSE nd[y]]
    BY <2>2 DEF h
  <2> HIDE DEF r
  <2> QED
    BY <2>1, <2>4, <2>5
<1> QED
  BY <1>1, <1>2

LEMMA LinkPrevIs ==
    ASSUME NEW D, NULL \notin D, NEW nd \in [D -> Elem],
           NEW p \in D \cup {NULL}, NEW x \in Pointer
    PROVE  LET r == LinkPrev(nd, p, x) IN
           /\ r \in [D -> Elem]
           /\ \A y \in D : /\ r[y].next = nd[y].next /\ r[y].size = nd[y].size
                           /\ r[y].prev = IF y = p THEN x ELSE nd[y].prev
<1>1. CASE p = NULL
  BY <1>1 DEF LinkPrev
<1>2. CASE p # NULL
  <2> DEFINE r == [nd EXCEPT ![p].prev = x]
  <2>1. LinkPrev(nd, p, x) = r /\ p \in D
    BY <1>2 DEF LinkPrev
  <2>2. r = [y \in D |-> IF y = p THEN [nd[p] EXCEPT !.prev = x] ELSE nd[y]]
    OBVIOUS
  <2>3. nd[p] \in Elem
    BY <2>1
  <2> DEFINE h == [nd[p] EXCEPT !.prev = x]
  <2>4. h \in Elem /\ h.next = nd[p].next /\ h.size = nd[p].size /\ h.prev = x
    BY <2>3 DEF Elem
  <2> HIDE DEF h
  <2>5. r = [y \in D |-> IF y = p THEN h ELSE nd[y]]
    BY <2>2 DEF h
  <2> HIDE DEF r
  <2> QED
    BY <2>1, <2>4, <2>5
<1> QED
  BY <1>1, <1>2

(* Both neighbours of x point to it afterwards, and nothing else changed.  *)
LinksTo(r, nd, D, p, q, x) ==
    /\ r \in [D -> Elem]
    /\ \A y \in D : /\ r[y].size = nd[y].size
                    /\ r[y].next = IF y = p THEN x ELSE nd[y].next
                    /\ r[y].prev = IF y = q THEN x ELSE nd[y].prev

LEMMA LinkedIs ==
    ASSUME NEW D, NULL \notin D, NEW nd \in [D -> Elem], NEW x \in D, x \in Blocks,
           NEW p \in D \cup {NULL}, p = nd[x].prev,
           NEW q \in D \cup {NULL}, q = nd[x].next
    PROVE  LinksTo(Linked(nd, x), nd, D, p, q, x)
<1> DEFINE m == LinkNext(nd, p, x)
           r == Linked(nd, x)
<1>1. x \in Pointer
  BY DEF Pointer
<1>2. /\ m \in [D -> Elem]
      /\ \A y \in D : /\ m[y].prev = nd[y].prev /\ m[y].size = nd[y].size
                      /\ m[y].next = IF y = p THEN x ELSE nd[y].next
  BY <1>1, LinkNextIs
<1>3. r = LinkPrev(m, q, x)
  BY DEF Linked, m
<1> HIDE DEF m, r
<1>4. /\ r \in [D -> Elem]
      /\ \A y \in D : /\ r[y].next = m[y].next /\ r[y].size = m[y].size
                      /\ r[y].prev = IF y = q THEN x ELSE m[y].prev
  BY <1>1, <1>2, <1>3, LinkPrevIs
<1>5. LinksTo(r, nd, D, p, q, x)
  BY <1>2, <1>4 DEF LinksTo
<1> QED
  BY <1>5 DEF r

-----------------------------------------------------------------------------
(* rlist_insert: x comes between the elements k - 1 and k, with header h.  *)
Inserted(s, nd, ln, k, x, len, sz, h, s1, nd1, ln1) ==
    /\ s1 = InsertAt(s, k, [at |-> x, len |-> len])
    /\ h = [prev |-> AtOf(s, k - 1), next |-> AtOf(s, k), size |-> sz]
    /\ nd1 = Linked([b \in Ats(s) \cup {x} |-> IF b = x THEN h ELSE nd[b]], x)
    /\ ln1 = [b \in Ats(s) \cup {x} |-> IF b = x THEN sz + Header ELSE ln[b]]

LEMMA InsertKeeps ==
    ASSUME NEW s, NEW nd, NEW ln, Shape(s, nd, ln),
           NEW k \in 1..(Len(s) + 1), NEW x \in Blocks \ Ats(s),
           NEW len \in Nat, NEW sz \in Nat, NEW h, NEW s1, NEW nd1, NEW ln1,
           Inserted(s, nd, ln, k, x, len, sz, h, s1, nd1, ln1)
    PROVE  /\ Shape(s1, nd1, ln1) /\ Len(s1) = Len(s) + 1
           /\ AtOf(s1, 1) = IF AtOf(s, k - 1) = NULL THEN x ELSE AtOf(s, 1)
           /\ AtOf(s1, Len(s1)) = IF AtOf(s, k) = NULL THEN x ELSE AtOf(s, Len(s))
           /\ Roomy(s, ln) /\ sz >= len => Roomy(s1, ln1)
<1> DEFINE e == [at |-> x, len |-> len]
           A == Ats(s) \cup {x}
           nd0 == [b \in A |-> IF b = x THEN h ELSE nd[b]]
<1> USE DEF Inserted
<1>1. /\ s \in Seq(Items) /\ Distinct(s) /\ nd \in [Ats(s) -> Elem]
      /\ DOMAIN ln = Ats(s) /\ Chained(s, nd)
      /\ \A y \in Ats(s) : ln[y] = nd[y].size + Header
      /\ x \in Blocks /\ x # NULL /\ x \notin Ats(s)
  BY ListAssumption DEF Shape
<1>2. /\ Len(s) \in Nat /\ DOMAIN s = 1..Len(s)
      /\ Ats(s) \subseteq Blocks /\ NULL \notin Ats(s)
      /\ \A i \in Int : AtOf(s, i) \in Ats(s) \cup {NULL} /\ AtOf(s, i) \in Pointer
      /\ \A i \in 1..Len(s) : AtOf(s, i) = s[i].at /\ AtOf(s, i) \in Ats(s)
      /\ \A i \in Int : i \notin 1..Len(s) => AtOf(s, i) = NULL
      /\ \A i, j \in Int : AtOf(s, i) = AtOf(s, j) /\ AtOf(s, i) # NULL => i = j
      /\ \A y \in Ats(s) : \E i \in 1..Len(s) : y = AtOf(s, i)
  BY <1>1, Pointers1
<1>3. e \in Items /\ e.at = x
  BY <1>1 DEF Items
<1>4. /\ s1 \in Seq(Items) /\ Len(s1) = Len(s) + 1 /\ DOMAIN s1 = 1..(Len(s) + 1)
      /\ s1[k] = e
      /\ \A j \in 1..(k - 1) : s1[j] = s[j]
      /\ \A j \in (k + 1)..(Len(s) + 1) : s1[j] = s[j - 1]
  <2> HIDE DEF e
  <2>1. /\ s1 \in Seq(Items) /\ Len(s1) = Len(s) + 1
        /\ s1[k] = e
        /\ \A j \in 1..(k - 1) : s1[j] = s[j]
        /\ \A j \in (k + 1)..(Len(s) + 1) : s1[j] = s[j - 1]
    <3>1. s1 = InsertAt(s, k, e)
      BY DEF e
    <3>2. s \in Seq(Items) /\ e \in Items
      BY <1>1, <1>3
    <3>3. WithInserted(s1, s, k, e)
      BY <3>1, <3>2, InsertIs
    <3> QED
      BY <3>3 DEF WithInserted
  <2>2. DOMAIN s1 = 1..Len(s1)
    BY <2>1, LenProperties
  <2> QED
    BY <2>1, <2>2
<1>5. \A j \in Int : AtOf(s1, j) = IF j < k THEN AtOf(s, j)
                                  ELSE IF j = k THEN x ELSE AtOf(s, j - 1)
  <2> SUFFICES ASSUME NEW j \in Int
               PROVE  AtOf(s1, j) = IF j < k THEN AtOf(s, j)
                                    ELSE IF j = k THEN x ELSE AtOf(s, j - 1)
    OBVIOUS
  <2>1. CASE j < k
    <3>1. CASE j >= 1
      <4>1. j \in 1..(k - 1) /\ j \in DOMAIN s /\ j \in DOMAIN s1
        BY <2>1, <3>1, <1>2, <1>4
      <4> QED
        BY <2>1, <4>1, <1>4 DEF AtOf
    <3>2. CASE ~ (j >= 1)
      BY <2>1, <3>2, <1>2, <1>4 DEF AtOf
    <3> QED
      BY <3>1, <3>2
  <2>2. CASE j = k
    BY <2>2, <1>2, <1>3, <1>4 DEF AtOf
  <2>3. CASE j > k /\ j <= Len(s) + 1
    <3>1. j \in (k + 1)..(Len(s) + 1) /\ j \in DOMAIN s1 /\ j - 1 \in DOMAIN s
      BY <2>3, <1>2, <1>4
    <3> QED
      BY <3>1, <2>3, <1>4 DEF AtOf
  <2>4. CASE j > Len(s) + 1
    BY <2>4, <1>2, <1>4 DEF AtOf
  <2> QED
    BY <2>1, <2>2, <2>3, <2>4, <1>2
<1>6. \A i \in 1..(Len(s) + 1) : s1[i].at = AtOf(s1, i)
  BY <1>4 DEF AtOf
<1>7. Ats(s1) = A
  <2>1. \A y : y \in Ats(s1) <=> \E i \in 1..(Len(s) + 1) : y = AtOf(s1, i)
    BY <1>4, <1>6 DEF Ats
  <2>2. ASSUME NEW i \in 1..(Len(s) + 1) PROVE AtOf(s1, i) \in A
    <3>1. CASE i < k
      BY <3>1, <1>2, <1>5
    <3>2. CASE i = k
      BY <3>2, <1>5
    <3>3. CASE i > k
      <4>1. i - 1 \in 1..Len(s)
        BY <3>3, <1>2
      <4> QED
        BY <3>3, <4>1, <1>2, <1>5
    <3> QED
      BY <3>1, <3>2, <3>3
  <2>3. ASSUME NEW y \in A PROVE \E i \in 1..(Len(s) + 1) : y = AtOf(s1, i)
    <3>1. CASE y = x
      BY <3>1, <1>5
    <3>2. CASE y # x
      <4>1. PICK i \in 1..Len(s) : y = AtOf(s, i)
        BY <3>2, <1>2
      <4>2. CASE i < k
        BY <4>1, <4>2, <1>2, <1>5
      <4>3. CASE i >= k
        <5>1. i + 1 \in 1..(Len(s) + 1) /\ i + 1 > k /\ (i + 1) - 1 = i
          BY <4>3, <1>2
        <5>2. AtOf(s1, i + 1) = AtOf(s, i)
          BY <5>1, <1>5
        <5> QED
          BY <4>1, <5>1, <5>2
      <4> QED
        BY <4>2, <4>3
    <3> QED
      BY <3>1, <3>2
  <2> QED
    BY <2>1, <2>2, <2>3
<1>8. Distinct(s1)
  <2> SUFFICES \A i, j \in 1..(Len(s) + 1) : AtOf(s1, i) = AtOf(s1, j) => i = j
    BY <1>4, <1>6 DEF Distinct
  <2> SUFFICES ASSUME NEW i \in 1..(Len(s) + 1), NEW j \in 1..(Len(s) + 1),
                      AtOf(s1, i) = AtOf(s1, j), i < j
               PROVE  FALSE
    BY <1>2
  <2>1. CASE i < k /\ j < k
    BY <2>1, <1>2, <1>5
  <2>2. CASE i < k /\ j = k
    BY <2>2, <1>1, <1>2, <1>5
  <2>3. CASE i < k /\ j > k
    <3>1. AtOf(s1, i) = AtOf(s, i) /\ AtOf(s1, j) = AtOf(s, j - 1) /\ i \in 1..Len(s)
      BY <2>3, <1>2, <1>5
    <3>2. AtOf(s, i) # NULL /\ j - 1 \in Int /\ j - 1 # i /\ i \in Int
      BY <2>3, <3>1, <1>2
    <3>3. AtOf(s, i) = AtOf(s, j - 1)
      BY <3>1
    <3> HIDE DEF A, nd0
    <3> QED
      BY <3>2, <3>3, <1>1, Pointers1
  <2>4. CASE i = k
    <3>1. AtOf(s1, i) = x /\ AtOf(s1, j) = AtOf(s, j - 1) /\ j - 1 \in 1..Len(s)
      BY <2>4, <1>2, <1>5
    <3> QED
      BY <3>1, <1>1, <1>2
  <2>5. CASE i > k
    <3>1. AtOf(s1, i) = AtOf(s, i - 1) /\ AtOf(s1, j) = AtOf(s, j - 1) /\ i - 1 \in 1..Len(s)
      BY <2>5, <1>2, <1>5
    <3>2. AtOf(s, i - 1) # NULL /\ j - 1 \in Int /\ i - 1 # j - 1 /\ i - 1 \in Int
      BY <3>1, <1>2
    <3>3. AtOf(s, i - 1) = AtOf(s, j - 1)
      BY <3>1
    <3> QED
      BY <3>2, <3>3, <1>1, Pointers1
  <2> QED
    BY <2>1, <2>2, <2>3, <2>4, <2>5
<1>9. h \in Elem /\ h.prev = AtOf(s, k - 1) /\ h.next = AtOf(s, k) /\ h.size = sz
  BY <1>2 DEF Elem
<1>10. nd0 \in [A -> Elem] /\ nd0[x] = h /\ \A y \in Ats(s) : nd0[y] = nd[y]
  BY <1>1, <1>9
<1>11. NULL \notin A /\ x \in A /\ AtOf(s, k - 1) \in A \cup {NULL} /\ AtOf(s, k) \in A \cup {NULL}
  BY <1>1, <1>2
<1> HIDE DEF A, nd0
<1>12. /\ nd1 \in [A -> Elem]
       /\ \A y \in A : /\ nd1[y].size = nd0[y].size
                       /\ nd1[y].next = IF y = AtOf(s, k - 1) THEN x ELSE nd0[y].next
                       /\ nd1[y].prev = IF y = AtOf(s, k) THEN x ELSE nd0[y].prev
  <2>1. nd1 = Linked(nd0, x)
    BY DEF nd0, A
  <2> QED
    <3>1. AtOf(s, k - 1) = nd0[x].prev /\ AtOf(s, k) = nd0[x].next
      BY <1>9, <1>10
    <3>2. x \in A /\ x \in Blocks /\ nd0 \in [A -> Elem] /\ NULL \notin A
      BY <1>1, <1>10, <1>11
    <3>3. AtOf(s, k - 1) \in A \cup {NULL} /\ AtOf(s, k) \in A \cup {NULL}
      BY <1>11
    <3>4. LinksTo(nd1, nd0, A, AtOf(s, k - 1), AtOf(s, k), x)
      BY <2>1, <3>1, <3>2, <3>3, LinkedIs
    <3> QED
      BY <3>4 DEF LinksTo
<1>13. Chained(s1, nd1)
  <2> SUFFICES ASSUME NEW i \in 1..(Len(s) + 1)
               PROVE  /\ nd1[AtOf(s1, i)].prev = AtOf(s1, i - 1)
                      /\ nd1[AtOf(s1, i)].next = AtOf(s1, i + 1)
    <3>1. ASSUME NEW i \in DOMAIN s1
          PROVE  i \in 1..(Len(s) + 1) /\ s1[i].at = AtOf(s1, i)
      BY <1>4, <1>6
    <3> QED
      BY <3>1 DEF Chained
  <2>0. \A j \in 1..Len(s) : /\ nd[AtOf(s, j)].prev = AtOf(s, j - 1)
                             /\ nd[AtOf(s, j)].next = AtOf(s, j + 1)
                             /\ AtOf(s, j) \in A /\ nd0[AtOf(s, j)] = nd[AtOf(s, j)]
                             /\ AtOf(s, j) # NULL
    BY <1>1, <1>2, <1>10 DEF Chained, A
  <2>1. CASE i < k
    <3>1. i \in 1..Len(s) /\ AtOf(s1, i) = AtOf(s, i) /\ AtOf(s1, i - 1) = AtOf(s, i - 1)
      BY <2>1, <1>2, <1>5
    <3>2. AtOf(s, i) # AtOf(s, k)
      BY <2>1, <3>1, <2>0, <1>2
    <3>a. AtOf(s, i) \in A /\ nd0[AtOf(s, i)] = nd[AtOf(s, i)]
      BY <3>1, <2>0
    <3>b. /\ nd[AtOf(s, i)].prev = AtOf(s, i - 1)
          /\ nd[AtOf(s, i)].next = AtOf(s, i + 1)
      BY <3>1, <2>0
    <3>3. nd1[AtOf(s1, i)].prev = AtOf(s1, i - 1)
      BY <3>1, <3>2, <3>a, <3>b, <1>12
    <3>4. CASE i = k - 1
      <4>1. AtOf(s1, i + 1) = x
        BY <3>4, <1>5
      <4> QED
        BY <4>1, <3>1, <3>3, <3>4, <2>0, <1>12
    <3>5. CASE i # k - 1
      <4>1. AtOf(s1, i + 1) = AtOf(s, i + 1)
        BY <3>5, <2>1, <1>5
      <4>2. AtOf(s, i) # AtOf(s, k - 1)
        BY <3>1, <3>5, <2>0, <1>2
      <4> QED
        BY <4>1, <4>2, <3>1, <3>3, <3>a, <3>b, <1>12
    <3> QED
      BY <3>4, <3>5
  <2>2. CASE i = k
    <3>1. AtOf(s1, i) = x /\ AtOf(s1, i - 1) = AtOf(s, k - 1) /\ AtOf(s1, i + 1) = AtOf(s, k)
      BY <2>2, <1>5
    <3>2. x # AtOf(s, k - 1) /\ x # AtOf(s, k)
      BY <1>1, <1>2
    <3> QED
      <4>1. nd1[x].next = nd0[x].next /\ nd1[x].prev = nd0[x].prev
        BY <3>2, <1>11, <1>12
      <4>2. nd0[x].next = AtOf(s, k) /\ nd0[x].prev = AtOf(s, k - 1)
        BY <1>9, <1>10
      <4> QED
        BY <3>1, <4>1, <4>2
  <2>3. CASE i > k
    <3>1. /\ i - 1 \in 1..Len(s) /\ AtOf(s1, i) = AtOf(s, i - 1)
          /\ AtOf(s1, i + 1) = AtOf(s, i)
      <4>1. i + 1 > k /\ (i + 1) - 1 = i /\ i + 1 \in Int
        BY <2>3
      <4> QED
        BY <4>1, <2>3, <1>2, <1>5
    <3>2. AtOf(s, i - 1) # AtOf(s, k - 1)
      BY <3>1, <2>3, <2>0, <1>2
    <3>3. nd1[AtOf(s1, i)].next = AtOf(s1, i + 1)
      <4>1. nd[AtOf(s, i - 1)].next = AtOf(s, i)
        BY <3>1, <2>0
      <4> QED
        BY <4>1, <3>1, <3>2, <2>0, <1>12
    <3>4. CASE i - 1 = k
      <4>1. AtOf(s1, i - 1) = x /\ AtOf(s1, i) = AtOf(s, k) /\ AtOf(s, k) \in A
        BY <3>4, <3>1, <2>0, <1>5
      <4>2. nd1[AtOf(s, k)].prev = x
        BY <4>1, <1>12
      <4> QED
        BY <4>1, <4>2, <3>3
    <3>5. CASE i - 1 # k
      <4>1. AtOf(s1, i - 1) = AtOf(s, (i - 1) - 1)
        BY <3>5, <2>3, <1>5
      <4>2. AtOf(s, i - 1) # AtOf(s, k)
        BY <3>1, <3>5, <2>0, <1>2
      <4>3. nd1[AtOf(s, i - 1)].prev = nd[AtOf(s, i - 1)].prev
        BY <4>2, <3>1, <2>0, <1>12
      <4>4. nd[AtOf(s, i - 1)].prev = AtOf(s, (i - 1) - 1)
        BY <3>1, <2>0
      <4> QED
        BY <4>1, <4>3, <4>4, <3>1, <3>3
    <3> QED
      BY <3>4, <3>5
  <2> QED
    BY <2>1, <2>2, <2>3
<1>14. DOMAIN ln1 = A /\ \A y \in A : ln1[y] = nd1[y].size + Header
  <2>1. ln1 = [b \in A |-> IF b = x THEN sz + Header ELSE ln[b]]
    BY DEF A
  <2>2. nd1[x].size = sz /\ ln1[x] = sz + Header
    BY <2>1, <1>9, <1>10, <1>11, <1>12
  <2>3. ASSUME NEW y \in Ats(s)
        PROVE  ln1[y] = nd1[y].size + Header
    <3>1. y \in A /\ y # x
      BY <1>1 DEF A
    <3>2. nd1[y].size = nd[y].size
      BY <3>1, <1>10, <1>12
    <3>3. ln1[y] = ln[y]
      BY <2>1, <3>1
    <3> QED
      BY <3>2, <3>3, <1>1
  <2>4. \A y \in A : y = x \/ y \in Ats(s)
    BY DEF A
  <2> QED
    BY <2>1, <2>2, <2>3, <2>4
<1>15. AtOf(s1, 1) = IF AtOf(s, k - 1) = NULL THEN x ELSE AtOf(s, 1)
  BY <1>1, <1>2, <1>5
<1>16. AtOf(s1, Len(s1)) = IF AtOf(s, k) = NULL THEN x ELSE AtOf(s, Len(s))
  <2>1. CASE k = Len(s) + 1
    BY <2>1, <1>2, <1>4, <1>5
  <2>2. CASE k < Len(s) + 1
    <3>1. k \in 1..Len(s) /\ AtOf(s, k) # NULL /\ Len(s1) > k /\ Len(s1) - 1 = Len(s)
      BY <2>2, <1>2, <1>4
    <3>2. AtOf(s1, Len(s1)) = AtOf(s, Len(s1) - 1)
      BY <3>1, <1>2, <1>4, <1>5
    <3> QED
      BY <3>1, <3>2
  <2> QED
    BY <2>1, <2>2, <1>2
<1>17. ASSUME Roomy(s, ln), sz >= len
       PROVE  Roomy(s1, ln1)
  <2> SUFFICES ASSUME NEW i \in 1..(Len(s) + 1)
               PROVE  ln1[AtOf(s1, i)] >= s1[i].len + Header
    BY <1>4 DEF Roomy
  <2>0. \A j \in 1..Len(s) : /\ ln1[AtOf(s, j)] = ln[AtOf(s, j)]
                             /\ ln[AtOf(s, j)] >= s[j].len + Header
    BY <1>1, <1>2, <1>17 DEF Roomy
  <2>1. CASE i < k
    <3>1. i \in 1..(k - 1) /\ i \in 1..Len(s) /\ i \in Int
      BY <2>1, <1>2
    <3>2. s1[i] = s[i] /\ AtOf(s1, i) = AtOf(s, i)
      BY <3>1, <2>1, <1>4, <1>5
    <3> QED
      BY <3>1, <3>2, <2>0
  <2>2. CASE i = k
    <3>1. AtOf(s1, i) = x /\ s1[i].len = len /\ ln1[x] = sz + Header
      BY <2>2, <1>4, <1>5
    <3> QED
      BY <3>1, <1>17, ListAssumption
  <2>3. CASE i > k
    <3>1. i \in (k + 1)..(Len(s) + 1) /\ i - 1 \in 1..Len(s) /\ i \in Int
      BY <2>3, <1>2
    <3>2. s1[i] = s[i - 1] /\ AtOf(s1, i) = AtOf(s, i - 1)
      BY <3>1, <2>3, <1>4, <1>5
    <3> QED
      BY <3>1, <3>2, <2>0
  <2> QED
    BY <2>1, <2>2, <2>3, <1>2
<1> QED
  BY <1>4, <1>7, <1>8, <1>12, <1>13, <1>14, <1>15, <1>16, <1>17 DEF Shape

-----------------------------------------------------------------------------
(* rlist_resize: the block y takes the place of element k, which was p; it *)
(* may be p itself.                                                        *)
Replaced(s, k, e) == [s EXCEPT ![k] = e]

Resized(s, nd, ln, k, p, y, len, sz, h, B, s1, nd1, ln1) ==
    /\ h.prev = nd[p].prev /\ h.next = nd[p].next /\ h.size = sz
    /\ B = (Ats(s) \ {p}) \cup {y}
    /\ s1 = Replaced(s, k, [at |-> y, len |-> len])
    /\ nd1 = Linked([b \in B |-> IF b = y THEN h ELSE nd[b]], y)
    /\ DOMAIN ln1 = B /\ ln1[y] = sz + Header
    /\ \A b \in B : b # y => ln1[b] = ln[b]

LEMMA ResizeKeeps ==
    ASSUME NEW s, NEW nd, NEW ln, Shape(s, nd, ln),
           NEW k \in 1..Len(s), NEW p, p = AtOf(s, k),
           NEW y \in Blocks, y = p \/ y \notin Ats(s),
           NEW len \in Nat, NEW sz \in Nat, NEW h \in Elem,
           NEW B, NEW s1, NEW nd1, NEW ln1,
           Resized(s, nd, ln, k, p, y, len, sz, h, B, s1, nd1, ln1)
    PROVE  /\ Shape(s1, nd1, ln1) /\ Len(s1) = Len(s)
           /\ AtOf(s1, 1) = IF nd[p].prev = NULL THEN y ELSE AtOf(s, 1)
           /\ AtOf(s1, Len(s1)) = IF nd[p].next = NULL THEN y ELSE AtOf(s, Len(s))
           /\ Roomy(s, ln) /\ sz >= len => Roomy(s1, ln1)
<1> DEFINE e == [at |-> y, len |-> len]
           nd0 == [b \in B |-> IF b = y THEN h ELSE nd[b]]
<1> USE DEF Resized
<1>1. /\ s \in Seq(Items) /\ Distinct(s) /\ nd \in [Ats(s) -> Elem]
      /\ DOMAIN ln = Ats(s) /\ Chained(s, nd)
      /\ \A x \in Ats(s) : ln[x] = nd[x].size + Header
      /\ y # NULL
  BY ListAssumption DEF Shape
<1>2. /\ Len(s) \in Nat /\ DOMAIN s = 1..Len(s)
      /\ Ats(s) \subseteq Blocks /\ NULL \notin Ats(s)
      /\ \A i \in Int : AtOf(s, i) \in Ats(s) \cup {NULL} /\ AtOf(s, i) \in Pointer
      /\ \A i \in 1..Len(s) : AtOf(s, i) = s[i].at /\ AtOf(s, i) \in Ats(s)
      /\ \A i \in Int : i \notin 1..Len(s) => AtOf(s, i) = NULL
      /\ \A i, j \in Int : AtOf(s, i) = AtOf(s, j) /\ AtOf(s, i) # NULL => i = j
      /\ \A x \in Ats(s) : \E i \in 1..Len(s) : x = AtOf(s, i)
  BY <1>1, Pointers1
<1>3. e \in Items /\ e.at = y
  BY DEF Items
<1>4. /\ s1 \in Seq(Items) /\ Len(s1) = Len(s) /\ DOMAIN s1 = 1..Len(s)
      /\ s1[k] = e
      /\ \A j \in 1..Len(s) : j # k => s1[j] = s[j]
  <2>1. s1 = Replaced(s, k, e)
    OBVIOUS
  <2> HIDE DEF e
  <2>2. /\ s1 \in Seq(Items) /\ Len(s1) = Len(s)
        /\ \A j \in 1..Len(s) : s1[j] = IF j = k THEN e ELSE s[j]
    BY <2>1, <1>1, <1>3, ExceptSeq DEF Replaced
  <2>3. DOMAIN s1 = 1..Len(s1)
    BY <2>2, LenProperties
  <2> QED
    BY <2>2, <2>3
<1>5. \A j \in Int : AtOf(s1, j) = IF j = k THEN y ELSE AtOf(s, j)
  <2> SUFFICES ASSUME NEW j \in Int
               PROVE  AtOf(s1, j) = IF j = k THEN y ELSE AtOf(s, j)
    OBVIOUS
  <2>1. CASE j = k
    BY <2>1, <1>3, <1>4 DEF AtOf
  <2>2. CASE j # k /\ j \in 1..Len(s)
    BY <2>2, <1>2, <1>4 DEF AtOf
  <2>3. CASE j # k /\ j \notin 1..Len(s)
    BY <2>3, <1>2, <1>4 DEF AtOf
  <2> QED
    BY <2>1, <2>2, <2>3
<1>6. \A i \in 1..Len(s) : s1[i].at = AtOf(s1, i)
  BY <1>4 DEF AtOf
<1>7. \A j \in Int : j # k => AtOf(s, j) # p /\ AtOf(s, j) # y
  <2> SUFFICES ASSUME NEW j \in Int, j # k
               PROVE  AtOf(s, j) # p /\ AtOf(s, j) # y
    OBVIOUS
  <2>1. p # NULL /\ p \in Ats(s)
    BY <1>2
  <2>2. AtOf(s, j) # p
    BY <2>1, <1>2
  <2>3. CASE y = p
    BY <2>2, <2>3
  <2>4. CASE y \notin Ats(s)
    BY <2>4, <1>1, <1>2
  <2> QED
    BY <2>2, <2>3, <2>4
<1>8. \A i \in 1..Len(s) : i # k => AtOf(s, i) \in B /\ AtOf(s, i) \in Ats(s)
  BY <1>2, <1>7
<1>9. Ats(s1) = B
  <2>1. \A x : x \in Ats(s1) <=> \E i \in 1..Len(s) : x = AtOf(s1, i)
    BY <1>4, <1>6 DEF Ats
  <2>2. ASSUME NEW i \in 1..Len(s) PROVE AtOf(s1, i) \in B
    BY <1>5, <1>8
  <2>3. ASSUME NEW x \in B PROVE \E i \in 1..Len(s) : x = AtOf(s1, i)
    <3>1. CASE x = y
      BY <3>1, <1>5
    <3>2. CASE x # y
      <4>1. PICK i \in 1..Len(s) : x = AtOf(s, i)
        BY <3>2, <1>2
      <4>2. i # k
        BY <4>1, <3>2
      <4> QED
        BY <4>1, <4>2, <1>5
    <3> QED
      BY <3>1, <3>2
  <2> QED
    BY <2>1, <2>2, <2>3
<1>10. Distinct(s1)
  <2> SUFFICES ASSUME NEW i \in 1..Len(s), NEW j \in 1..Len(s),
                      AtOf(s1, i) = AtOf(s1, j), i # j
               PROVE  FALSE
    BY <1>2, <1>4, <1>6 DEF Distinct
  <2>1. CASE i = k
    BY <2>1, <1>5, <1>7
  <2>2. CASE j = k
    BY <2>2, <1>5, <1>7
  <2>3. CASE i # k /\ j # k
    <3>1. AtOf(s, i) = AtOf(s, j) /\ AtOf(s, i) # NULL /\ i \in Int /\ j \in Int
      BY <2>3, <1>2, <1>5
    <3> QED
      BY <3>1, <1>1, Pointers1
  <2> QED
    BY <2>1, <2>2, <2>3
<1>11. nd[p] \in Elem /\ nd[p].prev = AtOf(s, k - 1) /\ nd[p].next = AtOf(s, k + 1)
  BY <1>1, <1>2 DEF Chained
<1>12. h \in Elem /\ h.prev = AtOf(s, k - 1) /\ h.next = AtOf(s, k + 1) /\ h.size = sz
  BY <1>11
<1>13. nd0 \in [B -> Elem] /\ nd0[y] = h /\ y \in B
       /\ \A b \in B : b # y => nd0[b] = nd[b] /\ b \in Ats(s)
  BY <1>1, <1>12
<1>14. /\ NULL \notin B
       /\ AtOf(s, k - 1) \in B \cup {NULL} /\ AtOf(s, k + 1) \in B \cup {NULL}
  BY <1>1, <1>2, <1>7
<1> HIDE DEF nd0
<1>15. LinksTo(nd1, nd0, B, AtOf(s, k - 1), AtOf(s, k + 1), y)
  <2>1. nd1 = Linked(nd0, y)
    BY DEF nd0
  <2>2. AtOf(s, k - 1) = nd0[y].prev /\ AtOf(s, k + 1) = nd0[y].next
    BY <1>12, <1>13
  <2>3. y \in B /\ y \in Blocks /\ nd0 \in [B -> Elem] /\ NULL \notin B
    BY <1>13, <1>14
  <2> DEFINE b == AtOf(s, k - 1)
             a == AtOf(s, k + 1)
  <2>4. b \in B \cup {NULL} /\ a \in B \cup {NULL}
    BY <1>14
  <2>5. b = nd0[y].prev /\ a = nd0[y].next
    BY <2>2
  <2> HIDE DEF a, b
  <2>6. LinksTo(Linked(nd0, y), nd0, B, b, a, y)
    BY <2>3, <2>4, <2>5, LinkedIs
  <2> QED
    BY <2>1, <2>6 DEF a, b
<1>16. Chained(s1, nd1)
  <2> SUFFICES ASSUME NEW i \in 1..Len(s)
               PROVE  /\ nd1[AtOf(s1, i)].prev = AtOf(s1, i - 1)
                      /\ nd1[AtOf(s1, i)].next = AtOf(s1, i + 1)
    <3>1. ASSUME NEW i \in DOMAIN s1
          PROVE  i \in 1..Len(s) /\ s1[i].at = AtOf(s1, i)
      BY <1>4, <1>6
    <3> QED
      BY <3>1 DEF Chained
  <2>1. CASE i = k
    <3>1. AtOf(s1, i) = y /\ AtOf(s1, i - 1) = AtOf(s, k - 1) /\ AtOf(s1, i + 1) = AtOf(s, k + 1)
      BY <2>1, <1>5
    <3>2. y # AtOf(s, k - 1) /\ y # AtOf(s, k + 1)
      BY <1>7
    <3>3. nd1[y].next = nd0[y].next /\ nd1[y].prev = nd0[y].prev
      BY <3>2, <1>13, <1>15 DEF LinksTo
    <3> QED
      BY <3>1, <3>3, <1>12, <1>13
  <2>2. CASE i # k
    <3> DEFINE x == AtOf(s, i)
    <3>1. AtOf(s1, i) = x /\ x \in B /\ x # y /\ nd0[x] = nd[x] /\ x # NULL
      BY <2>2, <1>2, <1>5, <1>7, <1>8, <1>13
    <3>2. nd[x].prev = AtOf(s, i - 1) /\ nd[x].next = AtOf(s, i + 1)
      BY <1>1, <1>2 DEF Chained
    <3>3. x = AtOf(s, k - 1) <=> i + 1 = k
      BY <3>1, <1>2
    <3>4. x = AtOf(s, k + 1) <=> i - 1 = k
      BY <3>1, <1>2
    <3> HIDE DEF x
    <3>5. /\ nd1[x].next = IF i + 1 = k THEN y ELSE nd[x].next
          /\ nd1[x].prev = IF i - 1 = k THEN y ELSE nd[x].prev
      BY <3>1, <3>3, <3>4, <1>15 DEF LinksTo
    <3>6. /\ AtOf(s1, i + 1) = IF i + 1 = k THEN y ELSE AtOf(s, i + 1)
          /\ AtOf(s1, i - 1) = IF i - 1 = k THEN y ELSE AtOf(s, i - 1)
      BY <1>5
    <3> QED
      BY <3>1, <3>2, <3>5, <3>6
  <2> QED
    BY <2>1, <2>2
<1>17. \A b \in B : ln1[b] = nd1[b].size + Header
  <2> SUFFICES ASSUME NEW b \in B PROVE ln1[b] = nd1[b].size + Header
    OBVIOUS
  <2>1. nd1[b].size = nd0[b].size
    BY <1>15 DEF LinksTo
  <2> QED
    BY <2>1, <1>1, <1>12, <1>13
<1>18. nd1 \in [B -> Elem]
  BY <1>15 DEF LinksTo
<1>19. AtOf(s1, 1) = IF nd[p].prev = NULL THEN y ELSE AtOf(s, 1)
  BY <1>2, <1>5, <1>11
<1>20. AtOf(s1, Len(s1)) = IF nd[p].next = NULL THEN y ELSE AtOf(s, Len(s))
  BY <1>2, <1>4, <1>5, <1>11
<1>21. ASSUME Roomy(s, ln), sz >= len
       PROVE  Roomy(s1, ln1)
  <2> SUFFICES ASSUME NEW i \in 1..Len(s)
               PROVE  ln1[AtOf(s1, i)] >= s1[i].len + Header
    BY <1>4 DEF Roomy
  <2>1. CASE i = k
    <3>1. AtOf(s1, i) = y /\ s1[i].len = len
      BY <2>1, <1>4, <1>5
    <3> QED
      BY <3>1, <1>21, ListAssumption
  <2>2. CASE i # k
    <3>1. /\ s1[i] = s[i] /\ AtOf(s1, i) = AtOf(s, i)
          /\ AtOf(s, i) \in B /\ AtOf(s, i) # y
      BY <2>2, <1>2, <1>4, <1>5, <1>7, <1>8
    <3>2. ln[AtOf(s, i)] >= s[i].len + Header
      BY <1>21 DEF Roomy
    <3> QED
      BY <3>1, <3>2
  <2> QED
    BY <2>1, <2>2
<1> QED
  BY <1>4, <1>9, <1>10, <1>16, <1>17, <1>18, <1>19, <1>20, <1>21 DEF Shape

-----------------------------------------------------------------------------
(* rlist_remove: the n elements from element k on go.                      *)
Kept(s, k, n)      == Ats(s) \ {AtOf(s, k + i) : i \in 0..(n - 1)}
Unlinked(nd, b, a) == LinkPrev(LinkNext(nd, b, a), a, b)

LEMMA KeptIs ==
    ASSUME NEW s \in Seq(Items), Distinct(s),
           NEW k \in 1..Len(s), NEW n \in 1..(Len(s) - k + 1)
    PROVE  /\ \A i \in 1..Len(s) : i < k \/ i >= k + n => AtOf(s, i) \in Kept(s, k, n)
           /\ \A x \in Kept(s, k, n) :
                 \E i \in 1..Len(s) : x = AtOf(s, i) /\ (i < k \/ i >= k + n)
           /\ Kept(s, k, n) \subseteq Ats(s)
<1>1. /\ Len(s) \in Nat /\ NULL \notin Ats(s)
      /\ \A i \in 1..Len(s) : AtOf(s, i) \in Ats(s)
      /\ \A x \in Ats(s) : \E i \in 1..Len(s) : x = AtOf(s, i)
  BY Pointers1
<1>2. ASSUME NEW i \in 1..Len(s), i < k \/ i >= k + n
      PROVE  AtOf(s, i) \in Kept(s, k, n)
  <2> SUFFICES ASSUME NEW j \in 0..(n - 1), AtOf(s, i) = AtOf(s, k + j)
               PROVE  FALSE
    BY <1>1 DEF Kept
  <2>1. i \in Int /\ k + j \in Int /\ i # k + j
    BY <1>1, <1>2
  <2>2. AtOf(s, i) # NULL
    BY <1>1
  <2> QED
    BY <2>1, <2>2, Pointers1
<1>3. ASSUME NEW x \in Kept(s, k, n)
      PROVE  \E i \in 1..Len(s) : x = AtOf(s, i) /\ (i < k \/ i >= k + n)
  <2>1. PICK i \in 1..Len(s) : x = AtOf(s, i)
    BY <1>1, <1>3 DEF Kept
  <2>2. ASSUME i >= k, i < k + n PROVE FALSE
    <3>1. i - k \in 0..(n - 1) /\ k + (i - k) = i
      BY <2>2, <1>1
    <3> QED
      BY <2>1, <3>1 DEF Kept
  <2>3. i < k \/ i >= k + n
    BY <2>2, <1>1
  <2> QED
    BY <2>1, <2>3
<1> QED
  BY <1>2, <1>3 DEF Kept

Cut(s, nd, ln, k, n, B, b, a, nd0, s1, nd1, ln1) ==
    /\ B = Kept(s, k, n)
    /\ b = AtOf(s, k - 1) /\ a = AtOf(s, k + n)
    /\ WithCut(s1, s, k, n)
    /\ \A x \in B : nd0[x] = nd[x]
    /\ nd1 = Unlinked(nd0, b, a)
    /\ DOMAIN ln1 = B /\ \A x \in B : ln1[x] = ln[x]

LEMMA CutKeeps ==
    ASSUME NEW s, NEW nd, NEW ln, Shape(s, nd, ln),
           NEW k \in 1..Len(s), NEW n \in 1..(Len(s) - k + 1),
           NEW B, NEW b, NEW a, NEW nd0 \in [B -> Elem], NEW s1, NEW nd1, NEW ln1,
           Cut(s, nd, ln, k, n, B, b, a, nd0, s1, nd1, ln1)
    PROVE  /\ Shape(s1, nd1, ln1) /\ Len(s1) = Len(s) - n
           /\ AtOf(s1, 1) = IF b = NULL THEN a ELSE AtOf(s, 1)
           /\ AtOf(s1, Len(s1)) = IF a = NULL THEN b ELSE AtOf(s, Len(s))
           /\ Roomy(s, ln) => Roomy(s1, ln1)
<1> USE DEF Cut
<1>1. /\ s \in Seq(Items) /\ Distinct(s) /\ nd \in [Ats(s) -> Elem]
      /\ DOMAIN ln = Ats(s) /\ Chained(s, nd)
      /\ \A x \in Ats(s) : ln[x] = nd[x].size + Header
  BY DEF Shape
<1>2. /\ Len(s) \in Nat /\ DOMAIN s = 1..Len(s)
      /\ Ats(s) \subseteq Blocks /\ NULL \notin Ats(s)
      /\ \A i \in Int : AtOf(s, i) \in Ats(s) \cup {NULL} /\ AtOf(s, i) \in Pointer
      /\ \A i \in 1..Len(s) : AtOf(s, i) = s[i].at /\ AtOf(s, i) \in Ats(s)
      /\ \A i \in Int : i \notin 1..Len(s) => AtOf(s, i) = NULL
      /\ \A i, j \in Int : AtOf(s, i) = AtOf(s, j) /\ AtOf(s, i) # NULL => i = j
      /\ \A x \in Ats(s) : \E i \in 1..Len(s) : x = AtOf(s, i)
  BY <1>1, Pointers1
<1>3. /\ s1 \in Seq(Items) /\ Len(s1) = Len(s) - n /\ DOMAIN s1 = 1..(Len(s) - n)
      /\ \A j \in 1..(k - 1) : s1[j] = s[j]
      /\ \A j \in k..(Len(s) - n) : s1[j] = s[j + n]
  <2>2. /\ s1 \in Seq(Items) /\ Len(s1) = Len(s) - n
        /\ \A j \in 1..(k - 1) : s1[j] = s[j]
        /\ \A j \in k..(Len(s) - n) : s1[j] = s[j + n]
    BY DEF WithCut
  <2>3. DOMAIN s1 = 1..Len(s1)
    BY <2>2, LenProperties
  <2> QED
    BY <2>2, <2>3
<1>4. \A j \in Int : AtOf(s1, j) = IF j < k THEN AtOf(s, j) ELSE AtOf(s, j + n)
  <2> SUFFICES ASSUME NEW j \in Int
               PROVE  AtOf(s1, j) = IF j < k THEN AtOf(s, j) ELSE AtOf(s, j + n)
    OBVIOUS
  <2>1. CASE j < 1
    BY <2>1, <1>2, <1>3 DEF AtOf
  <2>2. CASE j >= 1 /\ j < k
    <3>1. j \in 1..(k - 1) /\ j \in DOMAIN s /\ j \in DOMAIN s1
      BY <2>2, <1>2, <1>3
    <3> QED
      BY <2>2, <3>1, <1>3 DEF AtOf
  <2>3. CASE j >= k /\ j <= Len(s) - n
    <3>1. j \in k..(Len(s) - n) /\ j + n \in DOMAIN s /\ j \in DOMAIN s1
      BY <2>3, <1>2, <1>3
    <3> QED
      BY <2>3, <3>1, <1>3 DEF AtOf
  <2>4. CASE j >= k /\ j > Len(s) - n
    <3>1. j + n \notin DOMAIN s /\ j \notin DOMAIN s1
      BY <2>4, <1>2, <1>3
    <3> QED
      BY <2>4, <3>1 DEF AtOf
  <2> QED
    BY <2>1, <2>2, <2>3, <2>4, <1>2
<1>5. \A i \in 1..(Len(s) - n) : s1[i].at = AtOf(s1, i)
  BY <1>3 DEF AtOf
<1>6. \A i \in 1..Len(s) : i < k \/ i >= k + n => AtOf(s, i) \in B
  BY <1>1, KeptIs
<1>7. /\ \A x \in B : \E i \in 1..Len(s) : x = AtOf(s, i) /\ (i < k \/ i >= k + n)
      /\ B \subseteq Ats(s)
  BY <1>1, KeptIs
<1>8. Ats(s1) = B
  <2>1. \A x : x \in Ats(s1) <=> \E i \in 1..(Len(s) - n) : x = AtOf(s1, i)
    BY <1>3, <1>5 DEF Ats
  <2>2. ASSUME NEW i \in 1..(Len(s) - n) PROVE AtOf(s1, i) \in B
    <3>1. CASE i < k
      BY <3>1, <1>2, <1>4, <1>6
    <3>2. CASE i >= k
      <4>1. AtOf(s1, i) = AtOf(s, i + n) /\ i + n \in 1..Len(s) /\ i + n >= k + n
        BY <3>2, <1>2, <1>4
      <4> QED
        BY <4>1, <1>6
    <3> QED
      BY <3>1, <3>2
  <2>3. ASSUME NEW x \in B PROVE \E i \in 1..(Len(s) - n) : x = AtOf(s1, i)
    <3>1. PICK i \in 1..Len(s) : x = AtOf(s, i) /\ (i < k \/ i >= k + n)
      BY <1>7
    <3>2. CASE i < k
      <4>1. i \in 1..(Len(s) - n) /\ AtOf(s1, i) = AtOf(s, i)
        BY <3>2, <1>2, <1>4
      <4> QED
        BY <3>1, <4>1
    <3>3. CASE i >= k + n
      <4>1. i - n \in 1..(Len(s) - n) /\ ~ (i - n < k) /\ (i - n) + n = i
        BY <3>3, <1>2
      <4>2. AtOf(s1, i - n) = AtOf(s, i)
        BY <4>1, <1>4
      <4> QED
        BY <3>1, <4>1, <4>2
    <3> QED
      BY <3>1, <3>2, <3>3
  <2>4. \A x : x \in Ats(s1) <=> x \in B
    BY <2>1, <2>2, <2>3
  <2> QED
    BY <2>4
<1>9. Distinct(s1)
  <2> SUFFICES \A i, j \in 1..(Len(s) - n) : AtOf(s1, i) = AtOf(s1, j) => i = j
    BY <1>3, <1>5 DEF Distinct
  <2> SUFFICES ASSUME NEW i \in 1..(Len(s) - n), NEW j \in 1..(Len(s) - n),
                      AtOf(s1, i) = AtOf(s1, j), i < j
               PROVE  FALSE
    BY <1>2
  <2>1. CASE j < k
    <3>1. AtOf(s, i) = AtOf(s, j) /\ AtOf(s, i) # NULL /\ i \in Int /\ j \in Int
      BY <2>1, <1>2, <1>4
    <3> QED
      BY <3>1, <1>1, Pointers1
  <2>2. CASE i < k /\ j >= k
    <3>1. AtOf(s, i) = AtOf(s, j + n) /\ AtOf(s, i) # NULL
      BY <2>2, <1>2, <1>4
    <3>2. i \in Int /\ j + n \in Int /\ i # j + n
      BY <1>2
    <3> QED
      BY <3>1, <3>2, <1>1, Pointers1
  <2>3. CASE i >= k
    <3>1. AtOf(s, i + n) = AtOf(s, j + n)
      BY <2>3, <1>2, <1>4
    <3>2. i + n \in 1..Len(s) /\ j + n \in Int /\ i + n # j + n
      BY <2>3, <1>2
    <3>3. AtOf(s, i + n) # NULL /\ i + n \in Int
      BY <3>2, <1>2
    <3> QED
      BY <3>1, <3>2, <3>3, <1>1, Pointers1
  <2> QED
    BY <2>1, <2>2, <2>3, <1>2
<1>10. a \in Pointer /\ b \in Pointer /\ NULL \notin B
  BY <1>2, <1>7
<1>11. a \in B \cup {NULL} /\ b \in B \cup {NULL}
  <2>1. CASE a = NULL \/ a \in B
    <3>1. b = NULL \/ b \in B
      BY <1>2, <1>6
    <3> QED
      BY <2>1, <3>1
  <2>2. a = NULL \/ a \in B
    <3>1. k + n \in Int /\ (k + n \in 1..Len(s) => k + n >= k + n)
      BY <1>2
    <3> QED
      BY <3>1, <1>2, <1>6
  <2> QED
    BY <2>1, <2>2
<1>12. /\ nd1 \in [B -> Elem]
       /\ \A x \in B : /\ nd1[x].size = nd[x].size
                       /\ nd1[x].next = IF x = b THEN a ELSE nd[x].next
                       /\ nd1[x].prev = IF x = a THEN b ELSE nd[x].prev
  <2> DEFINE m == LinkNext(nd0, b, a)
  <2>1. /\ m \in [B -> Elem]
        /\ \A y \in B : /\ m[y].prev = nd0[y].prev /\ m[y].size = nd0[y].size
                        /\ m[y].next = IF y = b THEN a ELSE nd0[y].next
    BY <1>10, <1>11, LinkNextIs
  <2>2. nd1 = LinkPrev(m, a, b)
    BY DEF Unlinked
  <2> HIDE DEF m
  <2>3. /\ nd1 \in [B -> Elem]
        /\ \A y \in B : /\ nd1[y].next = m[y].next /\ nd1[y].size = m[y].size
                        /\ nd1[y].prev = IF y = a THEN b ELSE m[y].prev
    BY <2>1, <2>2, <1>10, <1>11, LinkPrevIs
  <2> QED
    BY <2>1, <2>3
<1>13. Chained(s1, nd1)
  <2> SUFFICES ASSUME NEW i \in 1..(Len(s) - n)
               PROVE  /\ nd1[AtOf(s1, i)].prev = AtOf(s1, i - 1)
                      /\ nd1[AtOf(s1, i)].next = AtOf(s1, i + 1)
    <3>1. ASSUME NEW i \in DOMAIN s1
          PROVE  i \in 1..(Len(s) - n) /\ s1[i].at = AtOf(s1, i)
      BY <1>3, <1>5
    <3> QED
      BY <3>1 DEF Chained
  <2> DEFINE r == IF i < k THEN i ELSE i + n
             x == AtOf(s, r)
  <2>1. r \in 1..Len(s) /\ (r < k \/ r >= k + n) /\ r \in Int
    BY <1>2
  <2>2. AtOf(s1, i) = x
    BY <1>4
  <2> HIDE DEF r
  <2>3. x \in B /\ x # NULL
    BY <2>1, <1>2, <1>6
  <2>4. nd[x].prev = AtOf(s, r - 1) /\ nd[x].next = AtOf(s, r + 1)
    BY <2>1, <1>1, <1>2 DEF Chained
  <2>5. x = b <=> r = k - 1
    BY <2>1, <2>3, <1>2
  <2>6. x = a <=> r = k + n
    BY <2>1, <2>3, <1>2
  <2> HIDE DEF x
  <2>7. /\ nd1[x].next = IF r = k - 1 THEN a ELSE AtOf(s, r + 1)
        /\ nd1[x].prev = IF r = k + n THEN b ELSE AtOf(s, r - 1)
    BY <2>3, <2>4, <2>5, <2>6, <1>12
  <2>8. AtOf(s1, i + 1) = IF r = k - 1 THEN a ELSE AtOf(s, r + 1)
    <3>0. i + 1 \in Int
      BY <1>2
    <3>1. AtOf(s1, i + 1) = IF i + 1 < k THEN AtOf(s, i + 1) ELSE AtOf(s, (i + 1) + n)
      BY <3>0, <1>4
    <3>2. CASE i < k - 1
      BY <3>1, <3>2, <1>2 DEF r
    <3>3. CASE i = k - 1
      <4>1. (i + 1) + n = k + n /\ ~ (i + 1 < k) /\ r = k - 1
        BY <3>3, <1>2 DEF r
      <4> QED
        BY <3>1, <4>1
    <3>4. CASE i > k - 1
      <4>1. (i + 1) + n = r + 1 /\ ~ (i + 1 < k) /\ r # k - 1
        BY <3>4, <1>2 DEF r
      <4> QED
        BY <3>1, <4>1
    <3> QED
      BY <3>2, <3>3, <3>4, <1>2
  <2>9. AtOf(s1, i - 1) = IF r = k + n THEN b ELSE AtOf(s, r - 1)
    <3>0. i - 1 \in Int
      BY <1>2
    <3>1. AtOf(s1, i - 1) = IF i - 1 < k THEN AtOf(s, i - 1) ELSE AtOf(s, (i - 1) + n)
      BY <3>0, <1>4
    <3>2. CASE i < k
      <4>1. r = i /\ r # k + n /\ i - 1 < k
        BY <3>2, <1>2 DEF r
      <4> QED
        BY <3>1, <4>1
    <3>3. CASE i = k
      <4>1. r = k + n /\ i - 1 < k /\ i - 1 = k - 1
        BY <3>3, <1>2 DEF r
      <4> QED
        BY <3>1, <4>1
    <3>4. CASE i > k
      <4>1. (i - 1) + n = r - 1 /\ ~ (i - 1 < k) /\ r # k + n
        BY <3>4, <1>2 DEF r
      <4> QED
        BY <3>1, <4>1
    <3> QED
      BY <3>2, <3>3, <3>4, <1>2
  <2> QED
    BY <2>2, <2>7, <2>8, <2>9
<1>14. \A x \in B : ln1[x] = nd1[x].size + Header
  BY <1>1, <1>7, <1>12
<1>15. AtOf(s1, 1) = IF b = NULL THEN a ELSE AtOf(s, 1)
  <2>1. CASE k = 1
    <3>1. AtOf(s1, 1) = AtOf(s, 1 + n) /\ b = NULL
      BY <2>1, <1>2, <1>4
    <3> QED
      BY <2>1, <3>1
  <2>2. CASE k > 1
    <3>1. AtOf(s1, 1) = AtOf(s, 1) /\ b # NULL
      BY <2>2, <1>2, <1>4
    <3> QED
      BY <3>1
  <2> QED
    BY <2>1, <2>2, <1>2
<1>16. AtOf(s1, Len(s1)) = IF a = NULL THEN b ELSE AtOf(s, Len(s))
  <2>1. CASE k + n = Len(s) + 1
    <3>1. a = NULL /\ Len(s1) = k - 1 /\ k - 1 < k /\ k - 1 \in Int
      BY <2>1, <1>2, <1>3
    <3> QED
      BY <3>1, <1>4
  <2>2. CASE k + n < Len(s) + 1
    <3>1. a # NULL
      BY <2>2, <1>2
    <3>2. ~ (Len(s1) < k) /\ Len(s1) + n = Len(s) /\ Len(s1) \in Int
      BY <2>2, <1>2, <1>3
    <3> QED
      BY <3>1, <3>2, <1>4
  <2> QED
    BY <2>1, <2>2, <1>2
<1>17. ASSUME Roomy(s, ln)
       PROVE  Roomy(s1, ln1)
  <2> SUFFICES ASSUME NEW i \in 1..(Len(s) - n)
               PROVE  ln1[AtOf(s1, i)] >= s1[i].len + Header
    BY <1>3 DEF Roomy
  <2>1. AtOf(s1, i) \in B
    BY <1>3, <1>5, <1>8 DEF Ats
  <2>2. CASE i < k
    <3>1. i \in 1..(k - 1) /\ i \in 1..Len(s) /\ i \in Int
      BY <2>2, <1>2
    <3>2. s1[i] = s[i] /\ AtOf(s1, i) = AtOf(s, i)
      BY <3>1, <2>2, <1>3, <1>4
    <3>3. ln[AtOf(s, i)] >= s[i].len + Header
      BY <3>1, <1>17 DEF Roomy
    <3> QED
      BY <2>1, <3>2, <3>3
  <2>3. CASE i >= k
    <3>1. i \in k..(Len(s) - n) /\ i + n \in 1..Len(s) /\ i \in Int /\ ~ (i < k)
      BY <2>3, <1>2
    <3>2. s1[i] = s[i + n] /\ AtOf(s1, i) = AtOf(s, i + n)
      BY <3>1, <1>3, <1>4
    <3>3. ln[AtOf(s, i + n)] >= s[i + n].len + Header
      BY <3>1, <1>17 DEF Roomy
    <3> QED
      BY <2>1, <3>2, <3>3
  <2> QED
    BY <2>2, <2>3, <1>2
<1> QED
  BY <1>3, <1>8, <1>9, <1>12, <1>13, <1>14, <1>15, <1>16, <1>17 DEF Shape

-----------------------------------------------------------------------------
(* A walk along the next links finds the client's elements in order, and   *)
(* so does one along the prev links.  Both are recursive functions: the    *)
(* walk that the sequence describes shows that one exists, and two that    *)
(* agree before every step agree.                                          *)
LEMMA RunIs ==
    ASSUME NEW s, NEW ln, Shape(s, node, ln),
           NEW k \in 1..(Len(s) + 1), NEW n \in 0..(Len(s) - k + 1)
    PROVE  \A i \in 0..n : Run(AtOf(s, k), n)[i] = AtOf(s, k + i)
<1> DEFINE p == AtOf(s, k)
           g == [i \in 0..n |-> AtOf(s, k + i)]
           r == Run(p, n)
<1>1. /\ s \in Seq(Items) /\ Distinct(s) /\ Chained(s, node)
      /\ Len(s) \in Nat /\ DOMAIN s = 1..Len(s)
      /\ \A i \in 1..Len(s) : AtOf(s, i) = s[i].at
  BY Pointers1 DEF Shape
<1>2. \A i \in 1..n : AtOf(s, k + i) = node[AtOf(s, k + (i - 1))].next
  <2> SUFFICES ASSUME NEW i \in 1..n
               PROVE  AtOf(s, k + i) = node[AtOf(s, k + (i - 1))].next
    OBVIOUS
  <2>1. k + (i - 1) \in DOMAIN s /\ (k + (i - 1)) + 1 = k + i
    BY <1>1
  <2>2. node[s[k + (i - 1)].at].next = AtOf(s, (k + (i - 1)) + 1)
    BY <1>1, <2>1 DEF Chained
  <2> QED
    BY <1>1, <2>1, <2>2
<1>3. n \in Nat /\ k \in Nat /\ AtOf(s, k + 0) = p
  BY <1>1
<1> HIDE DEF p
<1>4. \A i \in 1..n : i - 1 \in 0..n
  BY <1>3
<1>5. g = [i \in 0..n |-> IF i = 0 THEN p ELSE node[g[i - 1]].next]
  <2>1. \A i \in 0..n : g[i] = IF i = 0 THEN p ELSE node[g[i - 1]].next
    <3> SUFFICES ASSUME NEW i \in 0..n
                 PROVE  g[i] = IF i = 0 THEN p ELSE node[g[i - 1]].next
      OBVIOUS
    <3>1. CASE i = 0
      BY <3>1, <1>3
    <3>2. CASE i # 0
      <4>1. i \in 1..n
        BY <3>2, <1>3
      <4> QED
        BY <3>2, <4>1, <1>2, <1>4
    <3> QED
      BY <3>1, <3>2
  <2>2. g = [i \in 0..n |-> g[i]]
    OBVIOUS
  <2> HIDE DEF g
  <2> QED
    BY <2>1, <2>2
<1>6. \E f : f = [i \in 0..n |-> IF i = 0 THEN p ELSE node[f[i - 1]].next]
  BY <1>5
<1>7. r = CHOOSE f : f = [i \in 0..n |-> IF i = 0 THEN p ELSE node[f[i - 1]].next]
  BY DEF Run
<1> HIDE DEF r, g
<1>8. r = [i \in 0..n |-> IF i = 0 THEN p ELSE node[r[i - 1]].next]
  BY <1>6, <1>7
<1>9. \A i \in 0..n : r[i] = IF i = 0 THEN p ELSE node[r[i - 1]].next
  BY <1>8
<1>10. ASSUME NEW m \in 0..n, r[m] # AtOf(s, k + m) PROVE FALSE
  <2> DEFINE T == {i \in 0..n : r[i] # AtOf(s, k + i)}
  <2>1. T \in SUBSET Nat /\ m \in T
    BY <1>3, <1>10
  <2>2. PICK i \in T : \A j \in T : i <= j
    BY <2>1, LeastOf
  <2>3. CASE i = 0
    BY <2>2, <2>3, <1>3, <1>9
  <2>4. CASE i # 0
    <3>1. i \in 1..n /\ i - 1 \in 0..n /\ ~ (i <= i - 1)
      BY <2>2, <2>4, <1>3
    <3>2. r[i - 1] = AtOf(s, k + (i - 1))
      BY <2>2, <3>1
    <3>3. r[i] = AtOf(s, k + i)
      BY <2>4, <3>1, <3>2, <1>2, <1>9
    <3> QED
      BY <2>2, <3>3
  <2> QED
    BY <2>3, <2>4
<1> QED
  BY <1>10 DEF r, p

LEMMA BackIs ==
    ASSUME NEW s, NEW ln, Shape(s, node, ln), last = AtOf(s, Len(s)),
           NEW k \in 0..(Len(s) - 1)
    PROVE  Backward(k) = AtOf(s, Len(s) - k)
<1> DEFINE n == Len(s)
           g == [i \in 0..k |-> AtOf(s, n - i)]
<1>1. /\ s \in Seq(Items) /\ Distinct(s) /\ Chained(s, node)
      /\ n \in Nat /\ DOMAIN s = 1..n
      /\ \A i \in 1..n : AtOf(s, i) = s[i].at
  BY Pointers1 DEF Shape
<1>2. \A i \in 1..k : AtOf(s, n - i) = node[AtOf(s, n - (i - 1))].prev
  <2> SUFFICES ASSUME NEW i \in 1..k
               PROVE  AtOf(s, n - i) = node[AtOf(s, n - (i - 1))].prev
    OBVIOUS
  <2>1. n - (i - 1) \in DOMAIN s /\ (n - (i - 1)) - 1 = n - i
    BY <1>1
  <2>2. node[s[n - (i - 1)].at].prev = AtOf(s, (n - (i - 1)) - 1)
    BY <1>1, <2>1 DEF Chained
  <2> QED
    BY <1>1, <2>1, <2>2
<1>3. k \in Nat /\ n - 0 = n /\ last = AtOf(s, n)
  BY <1>1
<1> HIDE DEF n
<1>4. \A i \in 1..k : i - 1 \in 0..k
  BY <1>3
<1>5. g = [i \in 0..k |-> IF i = 0 THEN last ELSE node[g[i - 1]].prev]
  <2>1. \A i \in 0..k : g[i] = IF i = 0 THEN last ELSE node[g[i - 1]].prev
    <3> SUFFICES ASSUME NEW i \in 0..k
                 PROVE  g[i] = IF i = 0 THEN last ELSE node[g[i - 1]].prev
      OBVIOUS
    <3>1. CASE i = 0
      BY <3>1, <1>3
    <3>2. CASE i # 0
      <4>1. i \in 1..k
        BY <3>2, <1>3
      <4> QED
        BY <3>2, <4>1, <1>2, <1>4
    <3> QED
      BY <3>1, <3>2
  <2>2. g = [i \in 0..k |-> g[i]]
    OBVIOUS
  <2> HIDE DEF g
  <2> QED
    BY <2>1, <2>2
<1>6. \E f : f = [i \in 0..k |-> IF i = 0 THEN last ELSE node[f[i - 1]].prev]
  BY <1>5
<1> DEFINE r == CHOOSE f : f = [i \in 0..k |-> IF i = 0 THEN last ELSE node[f[i - 1]].prev]
<1>7. Backward(k) = r[k]
  BY DEF Backward
<1>8. r = [i \in 0..k |-> IF i = 0 THEN last ELSE node[r[i - 1]].prev]
  BY <1>6
<1> HIDE DEF r, g
<1>9. \A i \in 0..k : r[i] = IF i = 0 THEN last ELSE node[r[i - 1]].prev
  BY <1>8
<1>10. ASSUME r[k] # AtOf(s, n - k) PROVE FALSE
  <2> DEFINE T == {i \in 0..k : r[i] # AtOf(s, n - i)}
  <2>1. T \in SUBSET Nat /\ k \in T
    BY <1>3, <1>10
  <2>2. PICK i \in T : \A j \in T : i <= j
    BY <2>1, LeastOf
  <2>3. CASE i = 0
    BY <2>2, <2>3, <1>3, <1>9
  <2>4. CASE i # 0
    <3>1. i \in 1..k /\ i - 1 \in 0..k /\ ~ (i <= i - 1)
      BY <2>2, <2>4, <1>3
    <3>2. r[i - 1] = AtOf(s, n - (i - 1))
      BY <2>2, <3>1
    <3>3. r[i] = AtOf(s, n - i)
      BY <2>4, <3>1, <3>2, <1>2, <1>9
    <3> QED
      BY <2>2, <3>3
  <2> QED
    BY <2>3, <2>4
<1> QED
  BY <1>7, <1>10 DEF n

-----------------------------------------------------------------------------
(* The inductive invariant.                                                *)
ListInv ==
    /\ Shape(items, node, lent)
    /\ count = Len(items)
    /\ first = AtOf(items, 1) /\ last = AtOf(items, Len(items))
    /\ TRUE \notin Spoils => Roomy(items, lent)

LEMMA InvFacts ==
    ASSUME ListInv
    PROVE  /\ items \in Seq(Items) /\ Distinct(items)
           /\ Len(items) \in Nat /\ DOMAIN items = 1..Len(items)
           /\ DOMAIN node = Ats(items) /\ DOMAIN lent = Ats(items)
           /\ Pointers = Ats(items) /\ Ats(items) \subseteq Blocks
           /\ NULL \notin Ats(items)
           /\ \A i \in 1..Len(items) : /\ AtOf(items, i) = items[i].at
                                       /\ AtOf(items, i) \in Ats(items)
           /\ \A i \in 1..Len(items) : node[AtOf(items, i)].prev = AtOf(items, i - 1)
           /\ \A i \in 1..Len(items) : node[AtOf(items, i)].next = AtOf(items, i + 1)
<1>1. /\ items \in Seq(Items) /\ Distinct(items) /\ node \in [Ats(items) -> Elem]
      /\ DOMAIN lent = Ats(items) /\ Chained(items, node)
  BY DEF ListInv, Shape
<1>2. /\ Len(items) \in Nat /\ DOMAIN items = 1..Len(items)
      /\ Ats(items) \subseteq Blocks /\ NULL \notin Ats(items)
      /\ \A i \in 1..Len(items) : AtOf(items, i) = items[i].at /\ AtOf(items, i) \in Ats(items)
  BY <1>1, Pointers1
<1>3. Pointers = Ats(items)
  BY DEF Pointers, Ats
<1> QED
  BY <1>1, <1>2, <1>3 DEF Chained

LEMMA IndexOfIs ==
    ASSUME ListInv, NEW p \in Pointers
    PROVE  /\ IndexOf(p) \in 1..Len(items) /\ AtOf(items, IndexOf(p)) = p
           /\ \A k \in 1..Len(items) : AtOf(items, k) = p => IndexOf(p) = k
<1>1. \E i \in DOMAIN items : items[i].at = p
  BY DEF Pointers
<1>2. IndexOf(p) \in DOMAIN items /\ items[IndexOf(p)].at = p
  BY <1>1 DEF IndexOf
<1> QED
  BY <1>2, InvFacts DEF Distinct

LEMMA InitListInv ==
    ASSUME Init PROVE ListInv
<1>1. items = <<>> /\ Len(items) = 0 /\ DOMAIN items = {} /\ items \in Seq(Items)
  BY DEF Init
<1>2. Ats(items) = {} /\ Distinct(items) /\ \A i \in Int : AtOf(items, i) = NULL
  BY <1>1 DEF Ats, Distinct, AtOf
<1>3. node \in [Ats(items) -> Elem] /\ DOMAIN lent = {}
  BY <1>2 DEF Init
<1>4. Shape(items, node, lent)
  BY <1>1, <1>2, <1>3 DEF Shape, Chained
<1>5. Roomy(items, lent)
  BY <1>1 DEF Roomy
<1>6. first = NULL /\ last = NULL /\ count = 0
  BY DEF Init
<1>7. AtOf(items, 1) = NULL /\ AtOf(items, Len(items)) = NULL
  BY <1>1, <1>2
<1> QED
  BY <1>1, <1>4, <1>5, <1>6, <1>7 DEF ListInv

LEMMA insertKeeps ==
    ASSUME ListInv, NEW n \in Requests, NEW p \in Pointers \cup {NULL}, insert(p, n)
    PROVE  ListInv'
<1>1. PICK x \in Blocks \ DOMAIN lent, more \in Extra :
         LET bytes == elemAllocSize(n) + more
             prev  == IF p = NULL THEN last ELSE node[p].prev
         IN
         /\ Given(x, bytes)
         /\ node' = Linked([b \in DOMAIN node \cup {x} |->
                               IF b = x THEN ElemOf(prev, p, bytes) ELSE node[b]], x)
         /\ first' = IF prev = NULL THEN x ELSE first
         /\ last' = IF p = NULL THEN x ELSE last
         /\ count' = count + 1
         /\ items' = InsertAt(items, IF p = NULL THEN Len(items) + 1 ELSE IndexOf(p),
                              [at |-> x, len |-> n])
  BY DEF insert
<1> DEFINE k    == IF p = NULL THEN Len(items) + 1 ELSE IndexOf(p)
           sz   == n + more
           prev == IF p = NULL THEN last ELSE node[p].prev
           h    == ElemOf(prev, p, elemAllocSize(n) + more)
           A    == Ats(items)
<1>2. /\ n \in Nat /\ more \in Nat /\ sz \in Nat /\ sz >= n /\ Header \in Nat
      /\ elemAllocSize(n) + more = sz + Header
      /\ (elemAllocSize(n) + more) - Header = sz
  BY ListAssumption DEF elemAllocSize
<1>3. /\ Len(items) \in Nat /\ DOMAIN node = A /\ DOMAIN lent = A /\ x \in Blocks \ A
      /\ Pointers = A /\ NULL \notin A
  BY InvFacts
<1>4. k \in 1..(Len(items) + 1) /\ AtOf(items, k) = p /\ AtOf(items, k - 1) = prev
  <2>1. CASE p = NULL
    <3>1. k = Len(items) + 1 /\ prev = last /\ k \notin DOMAIN items
      BY <2>1, InvFacts
    <3>2. k - 1 = Len(items) /\ last = AtOf(items, Len(items))
      BY <3>1, <1>3 DEF ListInv
    <3> QED
      BY <2>1, <3>1, <3>2, <1>3 DEF AtOf
  <2>2. CASE p # NULL
    <3>1. k = IndexOf(p) /\ p \in Pointers /\ prev = node[p].prev
      BY <2>2
    <3>2. k \in 1..Len(items) /\ AtOf(items, k) = p
      BY <3>1, IndexOfIs
    <3> QED
      BY <3>1, <3>2, InvFacts
  <2> QED
    BY <2>1, <2>2
<1>5. h = [prev |-> AtOf(items, k - 1), next |-> AtOf(items, k), size |-> sz]
  BY <1>2, <1>4 DEF ElemOf
<1>6. /\ node' = Linked([b \in A \cup {x} |-> IF b = x THEN h ELSE node[b]], x)
      /\ first' = IF prev = NULL THEN x ELSE first
      /\ last' = IF p = NULL THEN x ELSE last
      /\ count' = count + 1
      /\ items' = InsertAt(items, k, [at |-> x, len |-> n])
  BY <1>1, <1>3
<1>7. lent' = [b \in A \cup {x} |-> IF b = x THEN sz + Header ELSE lent[b]]
  BY <1>1, <1>2, <1>3 DEF Given
<1>8. Shape(items, node, lent)
  BY DEF ListInv
<1> HIDE DEF k, sz, prev, h, A
<1>9. /\ Shape(items', node', lent') /\ Len(items') = Len(items) + 1
      /\ AtOf(items', 1) = IF AtOf(items, k - 1) = NULL THEN x ELSE AtOf(items, 1)
      /\ AtOf(items', Len(items')) = IF AtOf(items, k) = NULL THEN x
                                     ELSE AtOf(items, Len(items))
      /\ Roomy(items, lent) /\ sz >= n => Roomy(items', lent')
  <2>1. x \in Blocks \ Ats(items)
    BY <1>3 DEF A
  <2>2. /\ node' = Linked([b \in Ats(items) \cup {x} |-> IF b = x THEN h ELSE node[b]], x)
        /\ lent' = [b \in Ats(items) \cup {x} |-> IF b = x THEN sz + Header ELSE lent[b]]
    BY <1>6, <1>7 DEF A
  <2> DEFINE s1 == items'
             nd1 == node'
             ln1 == lent'
  <2>3. Inserted(items, node, lent, k, x, n, sz, h, s1, nd1, ln1)
    BY <2>2, <1>5, <1>6 DEF Inserted
  <2> HIDE DEF s1, nd1, ln1
  <2>4. /\ Shape(s1, nd1, ln1) /\ Len(s1) = Len(items) + 1
        /\ AtOf(s1, 1) = IF AtOf(items, k - 1) = NULL THEN x ELSE AtOf(items, 1)
        /\ AtOf(s1, Len(s1)) = IF AtOf(items, k) = NULL THEN x ELSE AtOf(items, Len(items))
        /\ Roomy(items, lent) /\ sz >= n => Roomy(s1, ln1)
    BY <2>1, <2>3, <1>2, <1>4, <1>8, InsertKeeps
  <2> QED
    BY <2>4 DEF s1, nd1, ln1
<1> QED
  BY <1>2, <1>4, <1>6, <1>9 DEF ListInv

(* The block y, with room for sz bytes, takes the place of p.              *)
LEMMA RelinkedKeeps ==
    ASSUME ListInv, NEW p \in Pointers, NEW n \in Nat, NEW sz \in Nat,
           NEW y \in Blocks, y = p \/ y \notin DOMAIN lent,
           Relinked(p, y, sz + Header, n),
           DOMAIN lent' = (DOMAIN lent \ {p}) \cup {y},
           lent'[y] = sz + Header,
           \A b \in DOMAIN lent' : b # y => lent'[b] = lent[b],
           TRUE \notin Spoils => sz >= n
    PROVE  ListInv'
<1> DEFINE k == IndexOf(p)
           h == [node[p] EXCEPT !.size = (sz + Header) - Header]
           B == (Ats(items) \ {p}) \cup {y}
           s1 == items'
           nd1 == node'
           ln1 == lent'
<1>1. k \in 1..Len(items) /\ p = AtOf(items, k)
  BY IndexOfIs
<1>2. /\ DOMAIN node = Ats(items) /\ DOMAIN lent = Ats(items) /\ p \in Ats(items)
      /\ Shape(items, node, lent)
  BY InvFacts DEF ListInv
<1>3. node[p] \in Elem
  BY <1>2 DEF Shape
<1>4. (sz + Header) - Header = sz
  BY ListAssumption
<1>5. h \in Elem /\ h.prev = node[p].prev /\ h.next = node[p].next /\ h.size = sz
  BY <1>3, <1>4 DEF Elem
<1>6. /\ nd1 = Linked([b \in B |-> IF b = y THEN h ELSE node[b]], y)
      /\ s1 = [items EXCEPT ![k] = [at |-> y, len |-> n]]
      /\ first' = IF node[p].prev = NULL THEN y ELSE first
      /\ last' = IF node[p].next = NULL THEN y ELSE last
      /\ count' = count
  BY <1>2 DEF Relinked
<1>7. s1 = Replaced(items, k, [at |-> y, len |-> n])
  BY <1>6 DEF Replaced
<1>8. /\ DOMAIN ln1 = B /\ ln1[y] = sz + Header
      /\ \A b \in B : b # y => ln1[b] = lent[b]
  BY <1>2
<1>9. y = p \/ y \notin Ats(items)
  BY <1>2
<1>a. B = (Ats(items) \ {p}) \cup {y}
  OBVIOUS
<1>b. nd1 = Linked([b \in B |-> IF b = y THEN h ELSE node[b]], y)
  BY <1>6
<1>c. h \in Elem /\ h.prev = node[p].prev /\ h.next = node[p].next /\ h.size = sz
  BY <1>5
<1> HIDE DEF k, h, B, s1, nd1, ln1
<1>d. Resized(items, node, lent, k, p, y, n, sz, h, B, s1, nd1, ln1)
  BY <1>7, <1>8, <1>a, <1>b, <1>c DEF Resized
<1>10. /\ Shape(s1, nd1, ln1) /\ Len(s1) = Len(items)
       /\ AtOf(s1, 1) = IF node[p].prev = NULL THEN y ELSE AtOf(items, 1)
       /\ AtOf(s1, Len(s1)) = IF node[p].next = NULL THEN y ELSE AtOf(items, Len(items))
       /\ Roomy(items, lent) /\ sz >= n => Roomy(s1, ln1)
  BY <1>1, <1>2, <1>9, <1>c, <1>d, ResizeKeeps
<1>11. /\ Shape(items', node', lent') /\ Len(items') = Len(items)
       /\ AtOf(items', 1) = IF node[p].prev = NULL THEN y ELSE AtOf(items, 1)
       /\ AtOf(items', Len(items')) = IF node[p].next = NULL THEN y
                                      ELSE AtOf(items, Len(items))
       /\ Roomy(items, lent) /\ sz >= n => Roomy(items', lent')
  BY <1>10 DEF s1, nd1, ln1
<1> QED
  BY <1>6, <1>11 DEF ListInv

LEMMA resizeKeeps ==
    ASSUME ListInv, NEW n \in Requests, NEW p \in Pointers,
           resizeInPlace(p, n) \/ resizeMoved(p, n) \/ resizeCopied(p, n)
    PROVE  ListInv'
<1>1. /\ n \in Nat /\ p \in Blocks /\ p \in DOMAIN lent /\ DOMAIN lent \subseteq Blocks
      /\ Header \in Nat
  BY InvFacts, ListAssumption
<1>2. \A more \in Extra : more \in Nat
  BY ListAssumption
<1>3. CASE resizeInPlace(p, n)
  <2>1. PICK more \in Extra :
          /\ lent' = [lent EXCEPT ![p] = elemAllocSize(n) + more]
          /\ Relinked(p, p, elemAllocSize(n) + more, n)
    BY <1>3 DEF resizeInPlace
  <2> DEFINE sz == n + more
  <2>2. elemAllocSize(n) + more = sz + Header /\ sz \in Nat /\ sz >= n
    BY <1>1, <1>2 DEF elemAllocSize
  <2> HIDE DEF sz
  <2>3. lent' = [lent EXCEPT ![p] = sz + Header] /\ Relinked(p, p, sz + Header, n)
    BY <2>1, <2>2
  <2>4. /\ DOMAIN lent' = (DOMAIN lent \ {p}) \cup {p} /\ lent'[p] = sz + Header
        /\ \A b \in DOMAIN lent' : b # p => lent'[b] = lent[b]
    BY <2>3, <1>1
  <2> QED
    BY <2>2, <2>3, <2>4, <1>1, RelinkedKeeps
<1>4. CASE resizeMoved(p, n)
  <2>1. PICK y \in Blocks \ DOMAIN lent, more \in Extra :
          /\ lent' = [b \in (DOMAIN lent \ {p}) \cup {y} |->
                         IF b = y THEN elemAllocSize(n) + more ELSE lent[b]]
          /\ Relinked(p, y, elemAllocSize(n) + more, n)
    BY <1>4 DEF resizeMoved
  <2> DEFINE sz == n + more
  <2>2. elemAllocSize(n) + more = sz + Header /\ sz \in Nat /\ sz >= n
    BY <1>1, <1>2 DEF elemAllocSize
  <2> HIDE DEF sz
  <2>3. /\ Relinked(p, y, sz + Header, n)
        /\ lent' = [b \in (DOMAIN lent \ {p}) \cup {y} |->
                       IF b = y THEN sz + Header ELSE lent[b]]
    BY <2>1, <2>2
  <2>4. /\ DOMAIN lent' = (DOMAIN lent \ {p}) \cup {y} /\ lent'[y] = sz + Header
        /\ \A b \in DOMAIN lent' : b # y => lent'[b] = lent[b]
    BY <2>3
  <2> QED
    BY <2>2, <2>3, <2>4, <1>1, RelinkedKeeps
<1>5. CASE resizeCopied(p, n)
  <2>1. PICK y \in Blocks \ DOMAIN lent, more \in Extra, spoilt \in Spoils :
          LET bytes == elemAllocSize(IF spoilt THEN 0 ELSE n) + more IN
          /\ lent' = [b \in (DOMAIN lent \ {p}) \cup {y} |->
                         IF b = y THEN bytes ELSE lent[b]]
          /\ Relinked(p, y, bytes, n)
    BY <1>5 DEF resizeCopied
  <2> DEFINE m  == IF spoilt THEN 0 ELSE n
             sz == m + more
  <2>2. spoilt \in BOOLEAN /\ m \in Nat /\ (spoilt # TRUE => m = n)
    BY <1>1, ListAssumption
  <2>3. elemAllocSize(m) + more = sz + Header /\ sz \in Nat /\ sz >= m
    BY <1>1, <1>2, <2>2 DEF elemAllocSize
  <2>4. /\ Relinked(p, y, elemAllocSize(m) + more, n)
        /\ lent' = [b \in (DOMAIN lent \ {p}) \cup {y} |->
                       IF b = y THEN elemAllocSize(m) + more ELSE lent[b]]
    BY <2>1
  <2>5. TRUE \notin Spoils => sz >= n
    BY <2>2, <2>3
  <2> HIDE DEF sz, m
  <2>6. /\ Relinked(p, y, sz + Header, n)
        /\ lent' = [b \in (DOMAIN lent \ {p}) \cup {y} |->
                       IF b = y THEN sz + Header ELSE lent[b]]
    BY <2>3, <2>4
  <2>7. /\ DOMAIN lent' = (DOMAIN lent \ {p}) \cup {y} /\ lent'[y] = sz + Header
        /\ \A b \in DOMAIN lent' : b # y => lent'[b] = lent[b]
    BY <2>6
  <2> QED
    BY <2>3, <2>5, <2>6, <2>7, <1>1, RelinkedKeeps
<1> QED
  BY <1>3, <1>4, <1>5

LEMMA removeKeeps ==
    ASSUME ListInv, NEW k \in DOMAIN items, NEW n \in 1..(Len(items) - k + 1),
           remove(items[k].at, n)
    PROVE  ListInv'
<1> DEFINE p    == items[k].at
           a    == AtOf(items, k + n)
           b    == AtOf(items, k - 1)
           B    == Kept(items, k, n)
           gone == {Run(p, n)[i] : i \in 0..(n - 1)}
           nd0  == [x \in DOMAIN node \ gone |-> node[x]]
<1>1. /\ Shape(items, node, lent) /\ items \in Seq(Items)
      /\ Len(items) \in Nat /\ k \in 1..Len(items) /\ k \in Nat /\ n \in Nat
      /\ p = AtOf(items, k) /\ p \in Pointers
      /\ DOMAIN node = Ats(items) /\ DOMAIN lent = Ats(items)
      /\ node[p].prev = b
  <2>1. /\ items \in Seq(Items) /\ DOMAIN items = 1..Len(items) /\ Len(items) \in Nat
        /\ DOMAIN node = Ats(items) /\ DOMAIN lent = Ats(items)
    BY InvFacts
  <2>2. k \in 1..Len(items) /\ k \in Nat /\ n \in Nat
    BY <2>1
  <2>3. p = AtOf(items, k) /\ node[AtOf(items, k)].prev = b
    BY <2>2, InvFacts
  <2>4. p \in Pointers
    BY DEF Pointers
  <2>5. Shape(items, node, lent)
    BY DEF ListInv
  <2> QED
    BY <2>1, <2>2, <2>3, <2>4, <2>5
<1>2. IndexOf(p) = k
  BY <1>1, IndexOfIs
<1>3. \A i \in 0..n : Run(p, n)[i] = AtOf(items, k + i)
  <2>1. k \in 1..(Len(items) + 1) /\ n \in 0..(Len(items) - k + 1)
    BY <1>1
  <2> HIDE DEF p
  <2>2. \A i \in 0..n : Run(AtOf(items, k), n)[i] = AtOf(items, k + i)
    BY <1>1, <2>1, RunIs
  <2> QED
    BY <1>1, <2>2
<1>4. Run(p, n)[n] = a
  BY <1>1, <1>3
<1>5. gone = {AtOf(items, k + i) : i \in 0..(n - 1)}
  <2>1. \A i \in 0..(n - 1) : i \in 0..n
    BY <1>1
  <2>2. \A i \in 0..(n - 1) : Run(p, n)[i] = AtOf(items, k + i)
    BY <1>3, <2>1
  <2> HIDE DEF p
  <2> QED
    BY <2>2
<1>6. Ats(items) \ gone = B
  BY <1>5 DEF Kept
<1>7. /\ lent' = [x \in DOMAIN lent \ gone |-> lent[x]]
      /\ node' = LinkPrev(LinkNext(nd0, b, a), a, b)
      /\ first' = IF b = NULL THEN a ELSE first
      /\ last' = IF a = NULL THEN b ELSE last
      /\ count' = count - n
  BY <1>1, <1>4 DEF remove
<1>8. items' = SubSeq(items, 1, k - 1) \o SubSeq(items, k + n, Len(items))
  BY <1>2 DEF remove
<1> DEFINE s1 == items'
           nd1 == node'
           ln1 == lent'
<1>9. WithCut(s1, items, k, n)
  BY <1>1, <1>8, CutIs
<1>10. B \subseteq Ats(items)
  BY DEF Kept
<1>11. nd0 \in [B -> Elem] /\ \A x \in B : nd0[x] = node[x]
  BY <1>1, <1>6, <1>10 DEF Shape
<1>12. DOMAIN ln1 = B /\ \A x \in B : ln1[x] = lent[x]
  BY <1>1, <1>6, <1>7
<1>13. nd1 = Unlinked(nd0, b, a)
  BY <1>7 DEF Unlinked
<1>14. B = Kept(items, k, n) /\ b = AtOf(items, k - 1) /\ a = AtOf(items, k + n)
  OBVIOUS
<1> HIDE DEF p, a, b, B, gone, nd0, s1, nd1, ln1
<1>g. Cut(items, node, lent, k, n, B, b, a, nd0, s1, nd1, ln1)
  BY <1>9, <1>11, <1>12, <1>13, <1>14 DEF Cut
<1>15. /\ Shape(s1, nd1, ln1) /\ Len(s1) = Len(items) - n
       /\ AtOf(s1, 1) = IF b = NULL THEN a ELSE AtOf(items, 1)
       /\ AtOf(s1, Len(s1)) = IF a = NULL THEN b ELSE AtOf(items, Len(items))
       /\ Roomy(items, lent) => Roomy(s1, ln1)
  <2>1. Shape(items, node, lent) /\ k \in 1..Len(items) /\ nd0 \in [B -> Elem]
    BY <1>1, <1>11
  <2>2. n \in 1..(Len(items) - k + 1)
    OBVIOUS
  <2> QED
    BY ONLY <2>1, <2>2, <1>g, CutKeeps
<1>16. /\ Shape(items', node', lent') /\ Len(items') = Len(items) - n
       /\ AtOf(items', 1) = IF b = NULL THEN a ELSE AtOf(items, 1)
       /\ AtOf(items', Len(items')) = IF a = NULL THEN b ELSE AtOf(items, Len(items))
       /\ Roomy(items, lent) => Roomy(items', lent')
  BY <1>15 DEF s1, nd1, ln1
<1> QED
  BY <1>7, <1>16 DEF ListInv

(***************************************************************************)
(* The invariant is inductive.  LinksOK alone is not: that a write through *)
(* a neighbour's pointer changes no other element takes Distinct, and that *)
(* remove frees the elements of its run and nothing else takes the walk    *)
(* along next, which is over the whole list.                               *)
(***************************************************************************)
THEOREM ListInvHolds == Spec => []ListInv
<1>1. Init => ListInv
  BY InitListInv
<1>2. ListInv /\ [Next]_vars => ListInv'
  <2> SUFFICES ASSUME ListInv, [Next]_vars PROVE ListInv'
    OBVIOUS
  <2>1. ASSUME NEW n \in Requests, NEW p \in Pointers \cup {NULL}, insert(p, n)
        PROVE  ListInv'
    BY <2>1, insertKeeps
  <2>2. ASSUME NEW n \in Requests, NEW p \in Pointers,
               resizeInPlace(p, n) \/ resizeMoved(p, n) \/ resizeCopied(p, n)
        PROVE  ListInv'
    BY <2>2, resizeKeeps
  <2>3. CASE UNCHANGED vars
    BY <2>3 DEF vars, ListInv
  <2>4. CASE Refused
    BY <2>3, <2>4 DEF Refused
  <2>5. ASSUME NEW k \in DOMAIN items, NEW n \in 1..(Len(items) - k + 1),
               remove(items[k].at, n)
        PROVE  ListInv'
    BY <2>5, removeKeeps
  <2> QED
    BY <2>1, <2>2, <2>3, <2>4, <2>5 DEF Next
<1> QED
  BY <1>1, <1>2, PTL DEF Spec

(* There are as many elements as blocks.                                   *)
LEMMA ElementsCount ==
    ASSUME NEW s \in Seq(Items), Distinct(s)
    PROVE  IsFiniteSet(Ats(s)) /\ Cardinality(Ats(s)) = Len(s)
<1> DEFINE g == [i \in 1..Len(s) |-> s[i].at]
<1>1. Len(s) \in Nat /\ DOMAIN s = 1..Len(s)
  BY LenProperties
<1>2. g \in Bijection(1..Len(s), Ats(s))
  BY <1>1 DEF Distinct, Ats, Bijection, Injection, IsInjective, Surjection
<1>3. ExistsBijection(1..Len(s), Ats(s))
  BY <1>2 DEF ExistsBijection
<1>4. IsFiniteSet(1..Len(s)) /\ Cardinality(1..Len(s)) = Len(s)
  BY <1>1, FS_Interval
<1> QED
  BY <1>3, <1>4, FS_Bijection

(* No pointer of the list leads to a freed element.                        *)
THEOREM TypeOKHolds == Spec => []TypeOK
<1>1. ListInv => TypeOK
  <2> SUFFICES ASSUME ListInv PROVE TypeOK
    OBVIOUS
  <2>1. /\ items \in Seq(Items) /\ Distinct(items) /\ Len(items) \in Nat
        /\ DOMAIN items = 1..Len(items)
        /\ DOMAIN node = Ats(items) /\ DOMAIN lent = Ats(items)
        /\ Ats(items) \subseteq Blocks
        /\ node \in [Ats(items) -> Elem] /\ count = Len(items)
        /\ first = AtOf(items, 1) /\ last = AtOf(items, Len(items))
    BY InvFacts DEF ListInv, Shape
  <2>2. \A i \in Int : AtOf(items, i) \in DOMAIN node \cup {NULL}
    BY <2>1, Pointers1
  <2>3. {first, last} \subseteq DOMAIN node \cup {NULL}
    BY <2>1, <2>2
  <2>4. count \in 0..Cardinality(Blocks)
    <3>1. Cardinality(Ats(items)) = Len(items)
      BY <2>1, ElementsCount
    <3>2. Cardinality(Ats(items)) <= Cardinality(Blocks) /\ Cardinality(Blocks) \in Nat
      BY <2>1, ListAssumption, FS_Subset, FS_CardinalityType
    <3> QED
      BY <2>1, <3>1, <3>2
  <2>5. ASSUME NEW x \in DOMAIN node
        PROVE  /\ {node[x].prev, node[x].next} \subseteq DOMAIN node \cup {NULL}
               /\ node[x].size \in Nat
    <3>1. PICK i \in 1..Len(items) : x = AtOf(items, i)
      BY <2>1, Pointers1
    <3>2. node[x].prev = AtOf(items, i - 1) /\ node[x].next = AtOf(items, i + 1)
      BY <3>1, InvFacts
    <3>3. node[x].size \in Nat
      BY <2>1 DEF Elem
    <3> QED
      BY <3>2, <3>3, <2>2
  <2> QED
    BY <2>1, <2>3, <2>4, <2>5 DEF TypeOK
<1> QED
  BY ListInvHolds, <1>1, PTL

LEMMA AtIsAtOf ==
    ASSUME NEW i PROVE At(i) = AtOf(items, i)
BY DEF At, AtOf

(***************************************************************************)
(* Read forwards and backwards, the links are the client's elements in     *)
(* its order.                                                              *)
(***************************************************************************)
THEOREM LinksOKHolds == Spec => []LinksOK
<1>1. ListInv => LinksOK
  BY InvFacts, AtIsAtOf DEF ListInv, LinksOK
<1> QED
  BY ListInvHolds, <1>1, PTL

(* The blocks borrowed from the parent are the elements, each once.        *)
THEOREM NodesLentHolds == Spec => []NodesLent
<1>1. ListInv => NodesLent
  BY InvFacts, ElementsCount DEF NodesLent, Ats
<1> QED
  BY ListInvHolds, <1>1, PTL

(***************************************************************************)
(* rlist_at finds element k from the nearer end, and rlist_index is its    *)
(* inverse.                                                                *)
(***************************************************************************)
THEOREM WalksAgreeHolds == Spec => []WalksAgree
<1>1. ListInv => WalksAgree
  <2> SUFFICES ASSUME ListInv, NEW k \in 0..(count - 1)
               PROVE  at(k) = items[k + 1].at /\ index(items[k + 1].at) = k
    BY DEF WalksAgree
  <2>1. /\ Shape(items, node, lent) /\ Distinct(items) /\ items \in Seq(Items)
        /\ count = Len(items) /\ Len(items) \in Nat /\ DOMAIN items = 1..Len(items)
        /\ first = AtOf(items, 1) /\ last = AtOf(items, Len(items))
        /\ \A i \in 1..Len(items) : AtOf(items, i) = items[i].at
    BY InvFacts DEF ListInv
  <2>2. ASSUME NEW j \in 0..(count - 1) PROVE Forward(j) = items[j + 1].at
    <3>1. 1 \in 1..(Len(items) + 1) /\ j \in 0..(Len(items) - 1 + 1) /\ j \in 0..j
      BY <2>1
    <3>2. Run(AtOf(items, 1), j)[j] = AtOf(items, 1 + j)
      BY <2>1, <3>1, RunIs
    <3>3. j + 1 = 1 + j /\ j + 1 \in 1..Len(items)
      BY <2>1
    <3> QED
      BY <2>1, <3>2, <3>3 DEF Forward
  <2>3. ASSUME NEW j \in 0..(count - 1)
        PROVE  Backward(count - j - 1) = items[j + 1].at
    <3>1. /\ count - j - 1 \in 0..(Len(items) - 1)
          /\ Len(items) - (count - j - 1) = j + 1 /\ j + 1 \in 1..Len(items)
      BY <2>1
    <3>2. Backward(count - j - 1) = AtOf(items, Len(items) - (count - j - 1))
      BY <2>1, <3>1, BackIs
    <3> QED
      BY <2>1, <3>1, <3>2
  <2>4. at(k) = items[k + 1].at
    BY <2>2, <2>3 DEF at
  <2>5. \A j \in 0..(count - 1) : Forward(j) = items[k + 1].at <=> j = k
    <3> SUFFICES ASSUME NEW j \in 0..(count - 1)
                 PROVE  Forward(j) = items[k + 1].at <=> j = k
      OBVIOUS
    <3>1. j + 1 \in DOMAIN items /\ k + 1 \in DOMAIN items
      BY <2>1
    <3>2. items[j + 1].at = items[k + 1].at => j + 1 = k + 1
      BY <2>1, <3>1 DEF Distinct
    <3> QED
      BY <2>1, <2>2, <3>2
  <2>6. index(items[k + 1].at) = CHOOSE j \in 0..(count - 1) : Forward(j) = items[k + 1].at
    BY DEF index
  <2> QED
    BY <2>4, <2>5, <2>6
<1> QED
  BY ListInvHolds, <1>1, PTL

(***************************************************************************)
(* Every element has the payload its client asked for last, if a realloc   *)
(* that refuses leaves the size that it was asked for alone.               *)
(***************************************************************************)
THEOREM PayloadsFitHolds ==
    ASSUME TRUE \notin Spoils
    PROVE  Spec => []PayloadsFit
<1>1. ListInv => PayloadsFit
  <2> SUFFICES ASSUME ListInv, NEW i \in DOMAIN items
               PROVE  /\ items[i].at \in DOMAIN lent
                      /\ node[items[i].at].size >= items[i].len
                      /\ node[items[i].at].size + Header = lent[items[i].at]
    BY DEF PayloadsFit
  <2> DEFINE x == items[i].at
  <2>1. /\ i \in 1..Len(items) /\ x = AtOf(items, i) /\ x \in Ats(items)
        /\ DOMAIN lent = Ats(items) /\ items \in Seq(Items)
    BY InvFacts
  <2>2. lent[x] = node[x].size + Header /\ node[x] \in Elem
    BY <2>1 DEF ListInv, Shape
  <2>3. lent[x] >= items[i].len + Header
    BY <2>1 DEF ListInv, Roomy
  <2>4. node[x].size \in Nat /\ items[i].len \in Nat /\ Header \in Nat
    <3>1. items[i] \in Items
      BY <2>1, ElementOfSeq
    <3> QED
      BY <2>2, <3>1, ListAssumption DEF Elem, Items
  <2> HIDE DEF x
  <2>5. node[x].size >= items[i].len
    BY <2>2, <2>3, <2>4
  <2> QED
    BY <2>1, <2>2, <2>5 DEF x
<1> QED
  BY ListInvHolds, <1>1, PTL

(***************************************************************************)
(* The account.  The bytes the elements say they hold, and those bytes     *)
(* with the header in front of them.                                       *)
(***************************************************************************)
Payloads == [i \in DOMAIN items |-> node[items[i].at].size]
Heads    == [i \in DOMAIN items |-> Header]
Wholes   == [i \in DOMAIN items |-> node[items[i].at].size + Header]

LEMMA PayloadsSum ==
    MapThenSumSet(LAMBDA i : node[items[i].at].size, DOMAIN items)
        = Total(Payloads, DOMAIN items)
<1> DEFINE S == DOMAIN items
           It(h) == h = [s \in SUBSET S |->
                            IF s = {} THEN 0
                            ELSE LET x == CHOOSE x \in s : TRUE
                                 IN  node[items[x].at].size + h[s \ {x}]]
<1>1. ASSUME NEW h PROVE It(h) <=> IsSum(h, Payloads, S)
  <2>1. \A s \in SUBSET S : s # {} => (CHOOSE x \in s : TRUE) \in S
    OBVIOUS
  <2> QED
    BY <2>1 DEF IsSum, Payloads
<1>2. MapThenSumSet(LAMBDA i : node[items[i].at].size, DOMAIN items) = (CHOOSE h : It(h))[S]
  BY DEF MapThenSumSet, MapThenFoldSet
<1> HIDE DEF It
<1>3. (CHOOSE h : It(h)) = CHOOSE h : IsSum(h, Payloads, S)
  BY <1>1, Zenon
<1> QED
  BY <1>2, <1>3 DEF Total

(***************************************************************************)
(* getUsage reports the payloads of the client's elements, every header    *)
(* taken off once.                                                         *)
(***************************************************************************)
THEOREM UsageIsLiveHolds == Spec => []UsageIsLive
<1>1. ListInv => UsageIsLive
  <2> SUFFICES ASSUME ListInv PROVE UsageIsLive
    OBVIOUS
  <2> DEFINE S == DOMAIN items
             R == DOMAIN lent
             m == [i \in S |-> items[i].at]
  <2>1. /\ items \in Seq(Items) /\ Distinct(items) /\ Len(items) \in Nat
        /\ S = 1..Len(items) /\ R = Ats(items) /\ count = Len(items)
    BY InvFacts DEF ListInv, Shape
  <2>2. IsFiniteSet(S) /\ Cardinality(S) = Len(items)
    BY <2>1, CardUpTo
  <2>3. (\A i \in S : m[i] \in R) /\ \A b \in R : \E i \in S : b = m[i]
    BY <2>1 DEF Ats
  <2>4. ASSUME NEW i \in S
        PROVE  /\ Payloads[i] \in Nat /\ Heads[i] \in Nat /\ Heads[i] = Header
               /\ Wholes[i] = Payloads[i] + Heads[i] /\ Wholes[i] = lent[m[i]]
    <3>1. m[i] \in Ats(items) /\ m[i] = items[i].at
      BY <2>1, <2>3
    <3>2. node[m[i]] \in Elem /\ lent[m[i]] = node[m[i]].size + Header
      BY <2>1, <3>1, InvFacts DEF ListInv, Shape
    <3>3. node[m[i]].size \in Nat /\ Header \in Nat
      BY <3>2, ListAssumption DEF Elem
    <3> QED
      BY <3>1, <3>2, <3>3 DEF Payloads, Heads, Wholes
  <2>5. \A i \in S : \A j \in S : m[i] = m[j] => i = j
    BY <2>1 DEF Distinct
  <2> HIDE DEF S, R, m
  <2>6. Recount(Wholes, S, lent, R)
    <3>1. Counts(Wholes, S)
      BY <2>4 DEF Counts
    <3> QED
      BY <2>2, <2>3, <2>4, <2>5, <3>1, TotalReindex
  <2>7. Total(Wholes, S) = Total(Payloads, S) + Total(Heads, S)
    BY <2>2, <2>4, TotalPlus
  <2>8. Total(Heads, S) = Len(items) * Header /\ Header \in Nat
    <3>1. Header \in Nat
      BY ListAssumption
    <3>2. \A i \in S : Heads[i] = Header
      BY <2>4
    <3>3. Total(Heads, S) = Cardinality(S) * Header
      BY <2>2, <3>1, <3>2, TotalSteady
    <3> QED
      BY <2>2, <3>1, <3>3
  <2>9. Total(Payloads, S) \in Nat
    BY <2>2, <2>4, TotalNat
  <2>10. ParentUsage.blockSize = Total(lent, R) /\ ParentUsage.blockCount = Cardinality(R)
    <3>1. MapThenSumSet(LAMBDA b : lent[b], DOMAIN lent) = Total(lent, DOMAIN lent)
      BY TotalIs
    <3> QED
      BY <3>1 DEF ParentUsage, R
  <2>11. Usage.blockCount = Len(items)
    BY <2>2, <2>6, <2>10 DEF Usage, Recount
  <2>12. Usage.blockSize = Total(Payloads, S)
    <3>1. Usage.blockSize = Total(lent, R) - Len(items) * Header
      BY <2>1, <2>10 DEF Usage
    <3>2. Len(items) * Header \in Nat
      BY <2>1, <2>8
    <3> QED
      BY <2>6, <2>7, <2>8, <2>9, <3>1, <3>2 DEF Recount
  <2> QED
    BY <2>11, <2>12, PayloadsSum DEF UsageIsLive, S
<1> QED
  BY ListInvHolds, <1>1, PTL

=============================================================================
