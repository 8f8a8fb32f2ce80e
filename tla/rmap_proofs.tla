---------------------------- MODULE rmap_proofs -----------------------------
(***************************************************************************)
(* The hash map is its client's dictionary, after any history of sets that *)
(* move elements, removals, rehashes, refusals and iterations that remove. *)
(*                                                                         *)
(* The argument: every chain is a sequence of different elements (Linked), *)
(* and the elements are shared out among the chains by their hashes        *)
(* (Threads).  Every operation changes one chain (OneChain), and rehash is *)
(* a series of such operations on a map that begins empty.                 *)
(***************************************************************************)
EXTENDS rmap, Lemmas, SequenceTheorems

Pointer == Blocks \cup {NULL}
Elem    == [next : Pointer, key : Keys]

(* The elements of a map.                                                  *)
Nodes(nd) ==
    /\ DOMAIN nd \subseteq Blocks /\ IsFiniteSet(DOMAIN nd)
    /\ nd \in [DOMAIN nd -> Elem]

(* What the pointer before the i-th element of s holds.                    *)
At(s, i) == IF i <= Len(s) THEN s[i] ELSE NULL

(* The pointer to it, in the i-th chain.                                   *)
Ptr(i, s, j) == IF j = 1 THEN i ELSE s[j - 1]

(* s without its j-th element.                                             *)
Cut(s, j) == [m \in 1..(Len(s) - 1) |-> IF m < j THEN s[m] ELSE s[m + 1]]

(* From pointer p the elements of s are reached, in this order.            *)
Linked(nd, p, s) ==
    /\ s \in Seq(DOMAIN nd)
    /\ \A i, j \in 1..Len(s) : s[i] = s[j] => i = j
    /\ p = At(s, 1)
    /\ \A i \in 1..Len(s) : nd[s[i]].next = At(s, i + 1)

(* ch are the chains of the n buckets bs, and D the elements in them.      *)
Threads(nd, bs, n, D, ch) ==
    /\ bs \in [0..(n - 1) -> Pointer]
    /\ DOMAIN ch = 0..(n - 1)
    /\ \A i \in 0..(n - 1) : Linked(nd, bs[i], ch[i])
    /\ \A i \in 0..(n - 1) : \A j \in 1..Len(ch[i]) :
          ch[i][j] \in D /\ BucketIndex(nd[ch[i][j]].key, n) = i
    /\ \A e \in D : \E i \in 0..(n - 1) : \E j \in 1..Len(ch[i]) : ch[i][j] = e

-----------------------------------------------------------------------------
(* Chains.                                                                 *)
LEMMA LinkedFacts ==
    ASSUME NEW nd, Nodes(nd), NEW p, NEW s, Linked(nd, p, s)
    PROVE  /\ s \in Seq(DOMAIN nd) /\ Len(s) \in Nat /\ DOMAIN s = 1..Len(s)
           /\ \A i \in 1..Len(s) : s[i] \in DOMAIN nd /\ s[i] \in Blocks /\ s[i] # NULL
           /\ Len(s) <= Cardinality(DOMAIN nd) /\ Cardinality(DOMAIN nd) \in Nat
<1>1. s \in Seq(DOMAIN nd) /\ Len(s) \in Nat /\ DOMAIN s = 1..Len(s)
  BY LenProperties DEF Linked
<1>2. \A i \in 1..Len(s) : s[i] \in DOMAIN nd
  BY <1>1, ElementOfSeq
<1>3. DOMAIN nd \subseteq Blocks /\ IsFiniteSet(DOMAIN nd) /\ NULL \notin Blocks
  BY MapAssumption DEF Nodes
<1>4. s \in [1..Len(s) -> DOMAIN nd]
  BY <1>1, <1>2
<1>5. s \in Injection(1..Len(s), DOMAIN nd)
  BY <1>4 DEF Injection, IsInjective, Linked
<1>6. Cardinality(1..Len(s)) <= Cardinality(DOMAIN nd)
  BY <1>3, <1>5, FS_Injection
<1>7. Cardinality(1..Len(s)) = Len(s)
  BY <1>1, CardUpTo
<1> QED
  BY <1>1, <1>2, <1>3, <1>6, <1>7, FS_CardinalityType

(* Following next from the head of a chain gives the chain.                *)
LEMMA ChainIs ==
    ASSUME NEW nd, Nodes(nd), NEW p, NEW s, Linked(nd, p, s)
    PROVE  Chain(nd, p) = s
<1> DEFINE far == Cardinality(DOMAIN nd)
           n == Len(s)
           g == [i \in 0..far |-> At(s, i + 1)]
           IsWalk(w) == w = [i \in 0..far |->
                IF i = 0 THEN p
                ELSE LET e == w[i - 1] IN IF e = NULL THEN NULL ELSE nd[e].next]
           r == CHOOSE w : IsWalk(w)
<1>1. /\ far \in Nat /\ n \in Nat /\ n <= far /\ DOMAIN s = 1..n /\ s \in Seq(DOMAIN nd)
      /\ \A i \in 1..n : s[i] # NULL
  BY LinkedFacts
<1>2. \A i \in 1..far : i - 1 \in 0..far /\ (i - 1) + 1 = i
  BY <1>1
<1>3. ASSUME NEW i \in 1..far
      PROVE  At(s, i + 1) = IF At(s, i) = NULL THEN NULL ELSE nd[At(s, i)].next
  <2>1. CASE i <= n
    <3>1. i \in 1..n
      BY <2>1, <1>1
    <3>2. At(s, i) = s[i] /\ nd[s[i]].next = At(s, i + 1)
      BY <3>1, <2>1 DEF Linked, At
    <3> QED
      BY <3>1, <3>2, <1>1
  <2>2. CASE ~ (i <= n)
    <3>1. ~ (i + 1 <= n)
      BY <2>2, <1>1
    <3> QED
      BY <2>2, <3>1 DEF At
  <2> QED
    BY <2>1, <2>2
<1>4. p = At(s, 1)
  BY DEF Linked
<1> HIDE DEF far, n
<1>5. IsWalk(g)
  <2>1. \A i \in 0..far : g[i] = IF i = 0 THEN p
                ELSE LET e == g[i - 1] IN IF e = NULL THEN NULL ELSE nd[e].next
    <3> SUFFICES ASSUME NEW i \in 0..far
                 PROVE  g[i] = IF i = 0 THEN p
                         ELSE LET e == g[i - 1] IN IF e = NULL THEN NULL ELSE nd[e].next
      OBVIOUS
    <3>1. CASE i = 0
      BY <3>1, <1>1, <1>4
    <3>2. CASE i # 0
      <4>1. i \in 1..far
        BY <3>2, <1>1
      <4>2. g[i - 1] = At(s, i) /\ g[i] = At(s, i + 1)
        BY <4>1, <1>2
      <4> HIDE DEF g
      <4> QED
        BY <3>2, <4>1, <4>2, <1>3
    <3> QED
      BY <3>1, <3>2
  <2>2. g = [i \in 0..far |-> g[i]]
    OBVIOUS
  <2> HIDE DEF g
  <2> QED
    BY <2>1, <2>2
<1>6. IsWalk(r)
  <2>1. \E w : IsWalk(w)
    BY <1>5
  <2> HIDE DEF IsWalk
  <2> QED
    BY <2>1
<1>7. Chain(nd, p) = [i \in 1..Cardinality({j \in 0..far : r[j] # NULL}) |-> r[i - 1]]
  BY DEF Chain, far
<1> HIDE DEF r, g
<1>8. \A i \in 0..far : r[i] = IF i = 0 THEN p
                ELSE LET e == r[i - 1] IN IF e = NULL THEN NULL ELSE nd[e].next
  BY <1>6
<1>9. ASSUME NEW m \in 0..far PROVE r[m] = At(s, m + 1)
  <2> SUFFICES ASSUME r[m] # At(s, m + 1) PROVE FALSE
    OBVIOUS
  <2> DEFINE T == {i \in 0..far : r[i] # At(s, i + 1)}
  <2>1. T \in SUBSET Nat /\ m \in T
    BY <1>1
  <2>2. PICK i \in T : \A j \in T : i <= j
    BY <2>1, LeastOf
  <2>3. CASE i = 0
    BY <2>2, <2>3, <1>4, <1>8
  <2>4. CASE i # 0
    <3>1. i \in 1..far /\ ~ (i <= i - 1)
      BY <2>2, <2>4, <1>1
    <3>2. r[i - 1] = At(s, i)
      BY <2>2, <3>1, <1>2
    <3>3. r[i] = At(s, i + 1)
      BY <2>4, <3>1, <3>2, <1>3, <1>8
    <3> QED
      BY <2>2, <3>3
  <2> QED
    BY <2>3, <2>4
<1>10. {j \in 0..far : r[j] # NULL} = 0..(n - 1)
  <2>1. ASSUME NEW j \in 0..far PROVE r[j] # NULL <=> j \in 0..(n - 1)
    <3>1. CASE j + 1 <= n
      <4>1. j + 1 \in 1..n /\ j \in 0..(n - 1)
        BY <3>1, <1>1
      <4> QED
        BY <3>1, <4>1, <1>1, <1>9 DEF At, n
    <3>2. CASE ~ (j + 1 <= n)
      <4>1. j \notin 0..(n - 1)
        BY <3>2, <1>1
      <4> QED
        BY <3>2, <4>1, <1>9 DEF At, n
    <3> QED
      BY <3>1, <3>2
  <2>2. 0..(n - 1) \subseteq 0..far
    BY <1>1
  <2> QED
    BY <2>1, <2>2
<1>11. Cardinality(0..(n - 1)) = n
  BY <1>1, FS_Interval
<1>12. \A i \in 1..n : r[i - 1] = s[i]
  <2> SUFFICES ASSUME NEW i \in 1..n PROVE r[i - 1] = s[i]
    OBVIOUS
  <2>1. i - 1 \in 0..far /\ (i - 1) + 1 = i /\ i <= n
    BY <1>1
  <2> QED
    BY <2>1, <1>9 DEF At, n
<1>13. s = [i \in 1..n |-> s[i]]
  BY <1>1, SeqDef
<1> QED
  BY <1>7, <1>10, <1>11, <1>12, <1>13

LEMMA SeqInto ==
    ASSUME NEW S, NEW T, NEW s \in Seq(S), \A i \in 1..Len(s) : s[i] \in T
    PROVE  s \in Seq(T)
<1>1. Len(s) \in Nat /\ s = [i \in 1..Len(s) |-> s[i]]
  BY LenProperties
<1>2. [i \in 1..Len(s) |-> s[i]] \in [1..Len(s) -> T]
  OBVIOUS
<1> QED
  BY <1>1, <1>2, SeqDef

-----------------------------------------------------------------------------
(***************************************************************************)
(* Operations on one chain, the i-th: the others stay as they are, because *)
(* no element is in two.                                                   *)
(***************************************************************************)
OutOf(e, s) == \A j \in 1..Len(s) : s[j] # e

(* nd2 and bs2 are nd and bs but for the i-th chain, which is s2 there.    *)
OneDiffers(nd, bs, n, D, ch, nd2, bs2, D2, i, s2) ==
    /\ bs2 \in [0..(n - 1) -> Pointer]
    /\ \A x \in 0..(n - 1) : x # i => bs2[x] = bs[x]
    /\ \A e \in D : OutOf(e, ch[i]) => e \in D2 /\ e \in DOMAIN nd2 /\ nd2[e] = nd[e]
    /\ Linked(nd2, bs2[i], s2)
    /\ \A j \in 1..Len(s2) : s2[j] \in D2 /\ BucketIndex(nd2[s2[j]].key, n) = i
    /\ \A e \in D2 : (\E j \in 1..Len(s2) : s2[j] = e) \/ (e \in D /\ OutOf(e, ch[i]))

LEMMA OneChain ==
    ASSUME NEW nd, NEW bs, NEW n, NEW D, NEW ch, Threads(nd, bs, n, D, ch),
           NEW nd2, NEW bs2, NEW D2, NEW i \in 0..(n - 1), NEW s2,
           OneDiffers(nd, bs, n, D, ch, nd2, bs2, D2, i, s2)
    PROVE  Threads(nd2, bs2, n, D2, [ch EXCEPT ![i] = s2])
<1> USE DEF OneDiffers
<1> DEFINE c2 == [ch EXCEPT ![i] = s2]
<1>1. DOMAIN c2 = 0..(n - 1) /\ c2[i] = s2 /\ \A x \in 0..(n - 1) : x # i => c2[x] = ch[x]
  BY DEF Threads
<1> HIDE DEF c2
<1>2. ASSUME NEW x \in 0..(n - 1), x # i
      PROVE  \A j \in 1..Len(ch[x]) : /\ ch[x][j] \in D2 /\ ch[x][j] \in DOMAIN nd2
                                     /\ nd2[ch[x][j]] = nd[ch[x][j]]
                                     /\ BucketIndex(nd[ch[x][j]].key, n) = x
  <2> SUFFICES ASSUME NEW j \in 1..Len(ch[x])
               PROVE  /\ ch[x][j] \in D2 /\ ch[x][j] \in DOMAIN nd2
                      /\ nd2[ch[x][j]] = nd[ch[x][j]]
                      /\ BucketIndex(nd[ch[x][j]].key, n) = x
    OBVIOUS
  <2>1. ch[x][j] \in D /\ BucketIndex(nd[ch[x][j]].key, n) = x
    BY DEF Threads
  <2>2. OutOf(ch[x][j], ch[i])
    BY <1>2, <2>1 DEF Threads, OutOf
  <2> QED
    BY <2>1, <2>2
<1>3. ASSUME NEW x \in 0..(n - 1) PROVE Linked(nd2, bs2[x], c2[x])
  <2>1. CASE x = i
    BY <2>1, <1>1
  <2>2. CASE x # i
    <3>1. Linked(nd, bs[x], ch[x]) /\ bs2[x] = bs[x] /\ c2[x] = ch[x]
      BY <2>2, <1>1 DEF Threads
    <3>2. \A j \in 1..Len(ch[x]) : ch[x][j] \in DOMAIN nd2 /\ nd2[ch[x][j]] = nd[ch[x][j]]
      BY <2>2, <1>2
    <3>3. ch[x] \in Seq(DOMAIN nd2)
      BY <3>1, <3>2, SeqInto DEF Linked
    <3> QED
      BY <3>1, <3>2, <3>3 DEF Linked
  <2> QED
    BY <2>1, <2>2
<1>4. ASSUME NEW x \in 0..(n - 1), NEW j \in 1..Len(c2[x])
      PROVE  c2[x][j] \in D2 /\ BucketIndex(nd2[c2[x][j]].key, n) = x
  <2>1. CASE x = i
    BY <2>1, <1>1
  <2>2. CASE x # i
    BY <2>2, <1>1, <1>2
  <2> QED
    BY <2>1, <2>2
<1>5. ASSUME NEW e \in D2
      PROVE  \E x \in 0..(n - 1) : \E j \in 1..Len(c2[x]) : c2[x][j] = e
  <2>1. CASE \E j \in 1..Len(s2) : s2[j] = e
    BY <2>1, <1>1
  <2>2. CASE e \in D /\ OutOf(e, ch[i])
    <3>1. PICK x \in 0..(n - 1) : \E j \in 1..Len(ch[x]) : ch[x][j] = e
      BY <2>2 DEF Threads
    <3>2. x # i
      BY <2>2, <3>1 DEF OutOf
    <3> QED
      BY <3>1, <3>2, <1>1
  <2> QED
    BY <2>1, <2>2
<1>6. Threads(nd2, bs2, n, D2, c2)
  BY <1>1, <1>3, <1>4, <1>5 DEF Threads
<1> QED
  BY <1>6 DEF c2

(* An element in front of a chain, as add and rehash put it there.         *)
LEMMA PushFront ==
    ASSUME NEW nd, Nodes(nd), NEW bs, NEW n, NEW D, NEW ch, Threads(nd, bs, n, D, ch),
           NEW nd2, Nodes(nd2), NEW e \in DOMAIN nd2, e \notin D, NEW i \in 0..(n - 1),
           BucketIndex(nd2[e].key, n) = i, nd2[e].next = bs[i],
           \A x \in D : x \in DOMAIN nd2 /\ nd2[x] = nd[x]
    PROVE  Threads(nd2, [bs EXCEPT ![i] = e], n, D \cup {e}, [ch EXCEPT ![i] = <<e>> \o ch[i]])
<1> DEFINE s == ch[i]
           d == <<e>>
           s2 == d \o s
           b2 == [bs EXCEPT ![i] = e]
<1>1. Linked(nd, bs[i], s) /\ bs \in [0..(n - 1) -> Pointer] /\ e \in Blocks
  BY DEF Threads, Nodes
<1>2. s \in Seq(DOMAIN nd) /\ Len(s) \in Nat
  BY <1>1, LinkedFacts
<1>3. \A j \in 1..Len(s) : s[j] \in D /\ BucketIndex(nd[s[j]].key, n) = i
  BY DEF Threads
<1>4. s \in Seq(DOMAIN nd2)
  BY <1>2, <1>3, SeqInto
<1>5. d \in Seq(DOMAIN nd2) /\ Len(d) = 1 /\ d[1] = e
  OBVIOUS
<1> HIDE DEF s, d
<1>6. /\ s2 \in Seq(DOMAIN nd2) /\ Len(s2) = Len(s) + 1
      /\ \A j \in 1..(Len(s) + 1) : s2[j] = IF j <= 1 THEN d[j] ELSE s[j - 1]
  <2>1. /\ d \o s \in Seq(DOMAIN nd2) /\ Len(d \o s) = Len(d) + Len(s)
        /\ \A j \in 1..(Len(d) + Len(s)) :
              (d \o s)[j] = IF j <= Len(d) THEN d[j] ELSE s[j - Len(d)]
    BY <1>4, <1>5, ConcatProperties
  <2>2. Len(d) + Len(s) = Len(s) + 1
    BY <1>2, <1>5
  <2> QED
    BY <2>1, <2>2, <1>5
<1> HIDE DEF s2
<1>7. s2[1] = e /\ \A j \in 1..Len(s) : s2[j + 1] = s[j]
  <2>1. 1 \in 1..(Len(s) + 1) /\ \A j \in 1..Len(s) : j + 1 \in 1..(Len(s) + 1) /\ (j + 1) - 1 = j
                                                     /\ ~ (j + 1 <= 1)
    BY <1>2
  <2> QED
    BY <2>1, <1>5, <1>6
<1>8. \A j \in 1..(Len(s) + 1) : j = 1 \/ (j - 1 \in 1..Len(s) /\ s2[j] = s[j - 1])
  <2>1. \A j \in 1..(Len(s) + 1) : j = 1 \/ (j - 1 \in 1..Len(s) /\ (j - 1) + 1 = j)
    BY <1>2
  <2> QED
    BY <2>1, <1>7
<1>9. \A j \in 1..(Len(s) + 1) : At(s2, j + 1) = At(s, j)
  <2> SUFFICES ASSUME NEW j \in 1..(Len(s) + 1) PROVE At(s2, j + 1) = At(s, j)
    OBVIOUS
  <2>1. CASE j <= Len(s)
    <3>1. j \in 1..Len(s) /\ j + 1 <= Len(s2)
      BY <2>1, <1>2, <1>6
    <3> QED
      BY <2>1, <3>1, <1>7 DEF At
  <2>2. CASE ~ (j <= Len(s))
    <3>1. ~ (j + 1 <= Len(s2))
      BY <2>2, <1>2, <1>6
    <3> QED
      BY <2>2, <3>1 DEF At
  <2> QED
    BY <2>1, <2>2
<1>10. Linked(nd2, e, s2)
  <2>1. \A j, k \in 1..Len(s2) : s2[j] = s2[k] => j = k
    <3> SUFFICES ASSUME NEW j \in 1..(Len(s) + 1), NEW k \in 1..(Len(s) + 1), s2[j] = s2[k]
                 PROVE  j = k
      BY <1>6
    <3>1. CASE j = 1 /\ k # 1
      BY <3>1, <1>3, <1>7, <1>8
    <3>2. CASE j # 1 /\ k = 1
      BY <3>2, <1>3, <1>7, <1>8
    <3>3. CASE j # 1 /\ k # 1
      <4>1. j - 1 = k - 1
        BY <3>3, <1>1, <1>8 DEF Linked
      <4> QED
        BY <4>1
    <3> QED
      BY <3>1, <3>2, <3>3
  <2>2. e = At(s2, 1)
    <3>1. 1 <= Len(s2)
      BY <1>2, <1>6
    <3> QED
      BY <3>1, <1>7 DEF At
  <2>3. \A j \in 1..Len(s2) : nd2[s2[j]].next = At(s2, j + 1)
    <3> SUFFICES ASSUME NEW j \in 1..(Len(s) + 1) PROVE nd2[s2[j]].next = At(s, j)
      BY <1>6, <1>9
    <3>1. CASE j = 1
      BY <3>1, <1>1, <1>7 DEF Linked
    <3>2. CASE j # 1
      <4>1. j - 1 \in 1..Len(s) /\ s2[j] = s[j - 1] /\ (j - 1) + 1 = j
        BY <3>2, <1>8
      <4>2. nd[s[j - 1]].next = At(s, (j - 1) + 1)
        BY <4>1, <1>1 DEF Linked
      <4>3. nd2[s[j - 1]] = nd[s[j - 1]]
        BY <4>1, <1>3
      <4> QED
        BY <4>1, <4>2, <4>3
    <3> QED
      BY <3>1, <3>2
  <2> QED
    BY <2>1, <2>2, <2>3, <1>6 DEF Linked
<1>11. /\ b2 \in [0..(n - 1) -> Pointer] /\ b2[i] = e
       /\ \A x \in 0..(n - 1) : x # i => b2[x] = bs[x]
  BY <1>1 DEF Pointer
<1> HIDE DEF b2
<1>12. ASSUME NEW j \in 1..Len(s2)
       PROVE  s2[j] \in D \cup {e} /\ BucketIndex(nd2[s2[j]].key, n) = i
  <2>1. CASE j = 1
    BY <2>1, <1>7
  <2>2. CASE j # 1
    <3>1. j - 1 \in 1..Len(s) /\ s2[j] = s[j - 1]
      BY <2>2, <1>6, <1>8
    <3> QED
      BY <3>1, <1>3
  <2> QED
    BY <2>1, <2>2
<1>13. ASSUME NEW x \in D \cup {e}
       PROVE  (\E j \in 1..Len(s2) : s2[j] = x) \/ (x \in D /\ OutOf(x, ch[i]))
  <2>1. CASE x = e
    <3>1. 1 \in 1..Len(s2)
      BY <1>2, <1>6
    <3> QED
      BY <2>1, <3>1, <1>7
  <2>2. CASE x # e /\ ~ OutOf(x, s)
    <3>1. PICK j \in 1..Len(s) : s[j] = x
      BY <2>2 DEF OutOf
    <3>2. j + 1 \in 1..Len(s2) /\ s2[j + 1] = x
      BY <3>1, <1>2, <1>6, <1>7
    <3> QED
      BY <3>2
  <2> QED
    BY <2>1, <2>2 DEF s
<1>14. Linked(nd2, b2[i], s2)
  BY <1>10, <1>11
<1>15. Threads(nd2, b2, n, D \cup {e}, [ch EXCEPT ![i] = s2])
  <2> DEFINE D2 == D \cup {e}
  <2>1. \A j \in 1..Len(s2) : s2[j] \in D2 /\ BucketIndex(nd2[s2[j]].key, n) = i
    BY <1>12
  <2>2. \A x \in D2 : (\E j \in 1..Len(s2) : s2[j] = x) \/ (x \in D /\ OutOf(x, ch[i]))
    BY <1>13
  <2>3. \A x \in D : OutOf(x, ch[i]) => x \in D2 /\ x \in DOMAIN nd2 /\ nd2[x] = nd[x]
    OBVIOUS
  <2> HIDE DEF D2
  <2>4. Threads(nd2, b2, n, D2, [ch EXCEPT ![i] = s2])
    <3>1. OneDiffers(nd, bs, n, D, ch, nd2, b2, D2, i, s2)
      BY <1>11, <1>14, <2>1, <2>2, <2>3 DEF OneDiffers
    <3> QED
      BY <3>1, OneChain
  <2> QED
    BY <2>4 DEF D2
<1> QED
  BY <1>15 DEF b2, s2, s, d

(* Storing through a pointer, and taking out or adding an element.         *)
LEMMA StoreIs ==
    ASSUME NEW nd, Nodes(nd), NEW v \in Pointer, NEW pp
    PROVE  /\ Nodes(StoreInNodes(nd, pp, v))
           /\ DOMAIN StoreInNodes(nd, pp, v) = DOMAIN nd
           /\ \A x \in DOMAIN nd :
                 /\ StoreInNodes(nd, pp, v)[x].key = nd[x].key
                 /\ StoreInNodes(nd, pp, v)[x].next = IF x = pp THEN v ELSE nd[x].next
                 /\ x # pp => StoreInNodes(nd, pp, v)[x] = nd[x]
<1>1. CASE pp \notin DOMAIN nd
  BY <1>1 DEF StoreInNodes
<1>2. CASE pp \in DOMAIN nd
  <2> DEFINE m == [nd EXCEPT ![pp].next = v]
  <2>1. nd \in [DOMAIN nd -> Elem]
    BY DEF Nodes
  <2>2. m \in [DOMAIN nd -> Elem] /\ \A x \in DOMAIN nd :
           /\ m[x].key = nd[x].key /\ m[x].next = (IF x = pp THEN v ELSE nd[x].next)
           /\ x # pp => m[x] = nd[x]
    BY <1>2, <2>1 DEF Elem
  <2>3. DOMAIN m = DOMAIN nd
    OBVIOUS
  <2>4. m = StoreInNodes(nd, pp, v)
    BY <1>2 DEF StoreInNodes
  <2> HIDE DEF m
  <2> QED
    BY <2>2, <2>3, <2>4 DEF Nodes
<1> QED
  BY <1>1, <1>2

LEMMA StoreBucketIs ==
    ASSUME NEW bs, NEW n, bs \in [0..(n - 1) -> Pointer], NEW v \in Pointer, NEW pp
    PROVE  /\ StoreInBuckets(bs, pp, v) \in [0..(n - 1) -> Pointer]
           /\ \A x \in 0..(n - 1) :
                 /\ x = pp => StoreInBuckets(bs, pp, v)[x] = v
                 /\ x # pp => StoreInBuckets(bs, pp, v)[x] = bs[x]
  BY DEF StoreInBuckets

LEMMA WithoutIs ==
    ASSUME NEW nd, Nodes(nd), NEW e
    PROVE  /\ Nodes(Without(nd, e)) /\ DOMAIN Without(nd, e) = DOMAIN nd \ {e}
           /\ \A x \in DOMAIN nd \ {e} : Without(nd, e)[x] = nd[x]
<1>1. IsFiniteSet(DOMAIN nd \ {e})
  BY FS_Subset DEF Nodes
<1> QED
  BY <1>1 DEF Nodes, Without

LEMMA WithIs ==
    ASSUME NEW nd, Nodes(nd), NEW e \in Blocks, NEW v \in Elem
    PROVE  /\ Nodes(With(nd, e, v)) /\ DOMAIN With(nd, e, v) = DOMAIN nd \cup {e}
           /\ With(nd, e, v)[e] = v
           /\ \A x \in DOMAIN nd : x # e => With(nd, e, v)[x] = nd[x]
<1>1. IsFiniteSet(DOMAIN nd \cup {e})
  BY FS_AddElement DEF Nodes
<1> QED
  BY <1>1 DEF Nodes, With

LEMMA CutIs ==
    ASSUME NEW S, NEW s \in Seq(S), NEW j \in 1..Len(s)
    PROVE  /\ Cut(s, j) \in Seq(S) /\ Len(Cut(s, j)) = Len(s) - 1
           /\ \A m \in 1..(Len(s) - 1) : Cut(s, j)[m] = IF m < j THEN s[m] ELSE s[m + 1]
           /\ \A m \in 1..Len(s) : At(Cut(s, j), m) = IF m < j THEN s[m] ELSE At(s, m + 1)
<1>1. Len(s) \in Nat /\ Len(s) - 1 \in Nat
  BY LenProperties
<1>2. \A m \in 1..(Len(s) - 1) : m \in 1..Len(s) /\ m + 1 \in 1..Len(s)
  BY <1>1
<1>3. \A m \in 1..Len(s) : s[m] \in S
  BY ElementOfSeq
<1>4. Cut(s, j) \in [1..(Len(s) - 1) -> S]
  BY <1>2, <1>3 DEF Cut
<1>5. Cut(s, j) \in Seq(S) /\ Len(Cut(s, j)) = Len(s) - 1
  BY <1>1, <1>4, LenProperties, SeqDef
<1>6. \A m \in 1..(Len(s) - 1) : Cut(s, j)[m] = IF m < j THEN s[m] ELSE s[m + 1]
  BY DEF Cut
<1>7. ASSUME NEW m \in 1..Len(s)
      PROVE  At(Cut(s, j), m) = IF m < j THEN s[m] ELSE At(s, m + 1)
  <2>1. CASE m <= Len(s) - 1
    <3>1. m \in 1..(Len(s) - 1) /\ m + 1 <= Len(s)
      BY <1>1, <2>1
    <3> QED
      BY <2>1, <3>1, <1>5, <1>6 DEF At
  <2>2. CASE ~ (m <= Len(s) - 1)
    <3>1. ~ (m < j) /\ ~ (m + 1 <= Len(s))
      BY <1>1, <2>2
    <3> QED
      BY <2>2, <3>1, <1>5 DEF At
  <2> QED
    BY <2>1, <2>2
<1> QED
  BY <1>5, <1>6, <1>7

(* The elements that the chains hold, and what a pointer can point to.     *)
LEMMA ThreadsFacts ==
    ASSUME NEW nd, Nodes(nd), NEW bs, NEW n, NEW D, NEW ch, Threads(nd, bs, n, D, ch),
           NEW i \in 0..(n - 1)
    PROVE  /\ Linked(nd, bs[i], ch[i]) /\ ch[i] \in Seq(DOMAIN nd)
           /\ Len(ch[i]) \in Nat /\ DOMAIN ch[i] = 1..Len(ch[i])
           /\ \A j \in 1..Len(ch[i]) :
                 /\ ch[i][j] \in DOMAIN nd /\ ch[i][j] \in Blocks /\ ch[i][j] \in D
                 /\ ch[i][j] # NULL /\ BucketIndex(nd[ch[i][j]].key, n) = i
                 /\ nd[ch[i][j]].next = At(ch[i], j + 1)
           /\ bs[i] = At(ch[i], 1)
           /\ \A j, m \in 1..Len(ch[i]) : ch[i][j] = ch[i][m] => j = m
<1>1. Linked(nd, bs[i], ch[i])
  BY DEF Threads
<1> QED
  BY <1>1, LinkedFacts DEF Threads, Linked

LEMMA PtrFacts ==
    ASSUME NEW nd, Nodes(nd), NEW bs, NEW n, NEW D, NEW ch, Threads(nd, bs, n, D, ch),
           NEW i \in 0..(n - 1), NEW j \in 1..Len(ch[i])
    PROVE  /\ j = 1 => /\ Ptr(i, ch[i], j) = i
                       /\ \A m \in 1..Len(ch[i]) : ch[i][m] # Ptr(i, ch[i], j)
                       /\ \A x \in DOMAIN nd : x # Ptr(i, ch[i], j)
           /\ j # 1 => /\ j - 1 \in 1..Len(ch[i]) /\ Ptr(i, ch[i], j) = ch[i][j - 1]
                       /\ \A x \in 0..(n - 1) : x # Ptr(i, ch[i], j)
                       /\ \A m \in 1..Len(ch[i]) : ch[i][m] = Ptr(i, ch[i], j) <=> m = j - 1
           /\ Ptr(i, ch[i], j) # ch[i][j]
           /\ \A x \in 0..(n - 1) : x = Ptr(i, ch[i], j) => x = i
           /\ \A x \in D : OutOf(x, ch[i]) => x # Ptr(i, ch[i], j)
<1>1. /\ Len(ch[i]) \in Nat
      /\ \A m \in 1..Len(ch[i]) : ch[i][m] \in DOMAIN nd /\ ch[i][m] \in Blocks
      /\ \A k, m \in 1..Len(ch[i]) : ch[i][k] = ch[i][m] => k = m
  <2>1. Linked(nd, bs[i], ch[i])
    BY DEF Threads
  <2> QED
    BY <2>1, LinkedFacts DEF Linked
<1>2. \A x \in 0..(n - 1) : x \in Nat /\ x \notin Blocks
  BY MapAssumption
<1>3. D \subseteq DOMAIN nd /\ DOMAIN nd \subseteq Blocks
  <2>1. ASSUME NEW e \in D PROVE e \in DOMAIN nd
    <3>1. PICK x \in 0..(n - 1) : \E m \in 1..Len(ch[x]) : ch[x][m] = e
      BY DEF Threads
    <3> QED
      BY <3>1, ThreadsFacts
  <2> QED
    BY <2>1 DEF Nodes
<1>4. j # 1 => j - 1 \in 1..Len(ch[i]) /\ j # j - 1
  BY <1>1
<1> QED
  BY <1>1, <1>2, <1>3, <1>4 DEF Ptr, OutOf

(* Taking the j-th element out of the i-th chain, as rmap_remove and       *)
(* rmap_iterAll_remove do.                                                 *)
Unlinks(nd, bs, ch, i, j, nd2, bs2) ==
    LET e  == ch[i][j]
        pp == Ptr(i, ch[i], j)
    IN  /\ nd2 = Without(StoreInNodes(nd, pp, nd[e].next), e)
        /\ bs2 = StoreInBuckets(bs, pp, nd[e].next)

(* The elements nd2 are nd without e; next pointers may differ.            *)
Lost(nd, e, nd2) ==
    /\ Nodes(nd2) /\ DOMAIN nd2 = DOMAIN nd \ {e}
    /\ \A x \in DOMAIN nd \ {e} : nd2[x].key = nd[x].key

LEMMA Unlink ==
    ASSUME NEW nd, Nodes(nd), NEW bs, NEW n, NEW ch, Threads(nd, bs, n, DOMAIN nd, ch),
           NEW i \in 0..(n - 1), NEW j \in 1..Len(ch[i]),
           NEW nd2, NEW bs2, Unlinks(nd, bs, ch, i, j, nd2, bs2)
    PROVE  /\ Threads(nd2, bs2, n, DOMAIN nd2, [ch EXCEPT ![i] = Cut(ch[i], j)])
           /\ Lost(nd, ch[i][j], nd2)
<1> DEFINE e == ch[i][j]
           pp == Ptr(i, ch[i], j)
<1>0. /\ nd2 = Without(StoreInNodes(nd, pp, nd[e].next), e)
      /\ bs2 = StoreInBuckets(bs, pp, nd[e].next)
      /\ e = ch[i][j] /\ pp = Ptr(i, ch[i], j)
  BY DEF Unlinks
<1> HIDE DEF e, pp
<1> DEFINE s == ch[i]
           v == nd[e].next
           nd1 == StoreInNodes(nd, pp, v)
           D == DOMAIN nd
           D2 == DOMAIN nd \ {e}
           s2 == Cut(s, j)
<1>1. /\ s \in Seq(DOMAIN nd) /\ Len(s) \in Nat
      /\ \A m \in 1..Len(s) :
            /\ s[m] \in DOMAIN nd /\ s[m] \in D
            /\ BucketIndex(nd[s[m]].key, n) = i
            /\ nd[s[m]].next = At(s, m + 1)
      /\ bs[i] = At(s, 1)
      /\ \A m, k \in 1..Len(s) : s[m] = s[k] => m = k
  BY ThreadsFacts
<1>2. /\ j = 1 => pp = i /\ \A m \in 1..Len(s) : s[m] # pp
      /\ j # 1 => /\ j - 1 \in 1..Len(s)
                  /\ \A x \in 0..(n - 1) : x # pp
                  /\ \A m \in 1..Len(s) : s[m] = pp <=> m = j - 1
      /\ pp # e
      /\ \A x \in 0..(n - 1) : x = pp => x = i
      /\ \A x \in D : OutOf(x, s) => x # pp
  BY <1>0, PtrFacts
<1>3. e = s[j] /\ e \in DOMAIN nd /\ v \in Pointer /\ v = At(s, j + 1)
  BY <1>0, <1>1 DEF Nodes, Elem
<1>4. bs \in [0..(n - 1) -> Pointer]
  BY DEF Threads
<1> HIDE DEF s, v
<1>5. /\ Nodes(nd1) /\ DOMAIN nd1 = DOMAIN nd
      /\ \A x \in DOMAIN nd :
            /\ nd1[x].key = nd[x].key
            /\ nd1[x].next = IF x = pp THEN v ELSE nd[x].next
            /\ x # pp => nd1[x] = nd[x]
  BY <1>3, StoreIs
<1> HIDE DEF nd1
<1>6. /\ Nodes(nd2) /\ DOMAIN nd2 = DOMAIN nd \ {e}
      /\ \A x \in DOMAIN nd \ {e} :
            /\ nd2[x].key = nd[x].key
            /\ nd2[x].next = IF x = pp THEN v ELSE nd[x].next
            /\ x # pp => nd2[x] = nd[x]
  <2> nd2 = Without(nd1, e)
    BY <1>0 DEF nd1, v
  <2>1. /\ Nodes(nd2) /\ DOMAIN nd2 = DOMAIN nd1 \ {e}
        /\ \A x \in DOMAIN nd1 \ {e} : nd2[x] = nd1[x]
    <3>1. Nodes(nd1)
      BY <1>5
    <3>2. Nodes(Without(nd1, e))
      BY <3>1, WithoutIs
    <3> QED
      BY <3>2 DEF Without
  <2> QED
    BY <2>1, <1>5
<1>7. /\ bs2 \in [0..(n - 1) -> Pointer]
      /\ \A x \in 0..(n - 1) : /\ x = pp => bs2[x] = v
                               /\ x # pp => bs2[x] = bs[x]
  <2>1. v \in Pointer
    BY <1>3
  <2> bs2 = StoreInBuckets(bs, pp, v)
    BY <1>0 DEF v
  <2>2. bs2 \in [0..(n - 1) -> Pointer]
    BY <2>1, <1>4, StoreBucketIs
  <2>3. \A x \in 0..(n - 1) : (x = pp => bs2[x] = v) /\ (x # pp => bs2[x] = bs[x])
    BY <2>1, <1>4 DEF StoreInBuckets
  <2> QED
    BY <2>2, <2>3
<1>8. /\ s2 \in Seq(DOMAIN nd) /\ Len(s2) = Len(s) - 1
      /\ \A m \in 1..(Len(s) - 1) : s2[m] = IF m < j THEN s[m] ELSE s[m + 1]
      /\ \A m \in 1..Len(s) : At(s2, m) = IF m < j THEN s[m] ELSE At(s, m + 1)
  BY <1>1, CutIs DEF s
<1>9. j \in 1..Len(s)
  BY DEF s
<1> HIDE DEF s2
<1>10. ASSUME NEW m \in 1..Len(s2)
       PROVE  \E k \in 1..Len(s) : s2[m] = s[k] /\ k # j /\ k = IF m < j THEN m ELSE m + 1
  <2>1. m \in 1..(Len(s) - 1)
    BY <1>8
  <2>2. CASE m < j
    <3>1. m \in 1..Len(s) /\ m # j
      BY <2>1, <2>2, <1>1
    <3> QED
      BY <2>1, <2>2, <3>1, <1>8
  <2>3. CASE ~ (m < j)
    <3>1. m + 1 \in 1..Len(s) /\ m + 1 # j
      BY <2>1, <2>3, <1>1, <1>9
    <3> QED
      BY <2>1, <2>3, <3>1, <1>8
  <2> QED
    BY <2>2, <2>3
<1>11. ASSUME NEW m \in 1..Len(s2)
       PROVE  s2[m] \in DOMAIN nd2 /\ s2[m] \in D2 /\ BucketIndex(nd2[s2[m]].key, n) = i
  <2>1. PICK k \in 1..Len(s) : s2[m] = s[k] /\ k # j
    BY <1>10
  <2>2. s[k] # e
    BY <2>1, <1>1, <1>3, <1>9
  <2> QED
    BY <2>1, <2>2, <1>1, <1>6
<1>12. Linked(nd2, bs2[i], s2)
  <2>1. s2 \in Seq(DOMAIN nd2)
    BY <1>8, <1>11, SeqInto
  <2>2. ASSUME NEW m \in 1..Len(s2), NEW k \in 1..Len(s2), s2[m] = s2[k] PROVE m = k
    <3>1. PICK a \in 1..Len(s) : s2[m] = s[a] /\ a = IF m < j THEN m ELSE m + 1
      BY <1>10
    <3>2. PICK b \in 1..Len(s) : s2[k] = s[b] /\ b = IF k < j THEN k ELSE k + 1
      BY <1>10
    <3>3. a = b
      BY <2>2, <3>1, <3>2, <1>1
    <3> QED
      BY <3>1, <3>2, <3>3, <1>8, <1>9
  <2>3. bs2[i] = At(s2, 1)
    <3>1. 1 \in 1..Len(s)
      BY <1>1, <1>9
    <3>2. At(s2, 1) = IF 1 < j THEN s[1] ELSE At(s, 2)
      BY <3>1, <1>8
    <3>3. CASE j = 1
      BY <3>2, <3>3, <1>2, <1>3, <1>7
    <3>4. CASE j # 1
      <4>1. 1 < j /\ 1 <= Len(s)
        BY <3>1, <3>4, <1>9
      <4>2. At(s, 1) = s[1] /\ bs2[i] = bs[i]
        BY <4>1, <3>4, <1>2, <1>7 DEF At
      <4> QED
        BY <4>1, <4>2, <3>2, <1>1
    <3> QED
      BY <3>3, <3>4
  <2>4. ASSUME NEW m \in 1..Len(s2) PROVE nd2[s2[m]].next = At(s2, m + 1)
    <3>1. PICK k \in 1..Len(s) : s2[m] = s[k] /\ k # j /\ k = IF m < j THEN m ELSE m + 1
      BY <1>10
    <3>2. m + 1 \in 1..Len(s) /\ k \in Int /\ m \in Int /\ j \in Int
      BY <1>8, <1>9
    <3>3. s[k] \in DOMAIN nd \ {e}
      BY <3>1, <1>1, <1>3, <1>9
    <3>4. nd2[s[k]].next = IF s[k] = pp THEN v ELSE At(s, k + 1)
      BY <3>3, <1>1, <1>6
    <3>5. At(s2, m + 1) = IF m + 1 < j THEN s[m + 1] ELSE At(s, (m + 1) + 1)
      BY <3>2, <1>8
    <3>6. s[k] = pp <=> (j # 1 /\ k = j - 1)
      BY <1>2
    <3>7. CASE m + 1 < j
      <4>1. k = m /\ ~ (s[k] = pp) /\ m + 1 <= Len(s)
        BY <3>1, <3>2, <3>6, <3>7
      <4> QED
        BY <4>1, <3>1, <3>4, <3>5, <3>7 DEF At
    <3>8. CASE m + 1 = j
      <4>1. k = m /\ s[k] = pp /\ (m + 1) + 1 = j + 1
        BY <3>1, <3>2, <3>6, <3>8
      <4> QED
        BY <4>1, <3>1, <3>2, <3>4, <3>5, <3>8, <1>3
    <3>9. CASE m + 1 > j
      <4>1. k = m + 1 /\ ~ (s[k] = pp) /\ ~ (m + 1 < j)
        BY <3>1, <3>2, <3>6, <3>9
      <4> QED
        BY <4>1, <3>1, <3>4, <3>5
    <3> QED
      BY <3>2, <3>7, <3>8, <3>9
  <2> QED
    BY <2>1, <2>2, <2>3, <2>4 DEF Linked
<1>13. ASSUME NEW x \in D2
       PROVE  (\E m \in 1..Len(s2) : s2[m] = x) \/ (x \in D /\ OutOf(x, s))
  <2> SUFFICES ASSUME NEW k \in 1..Len(s), s[k] = x PROVE \E m \in 1..Len(s2) : s2[m] = x
    BY DEF OutOf
  <2>1. k # j
    BY <1>3
  <2>2. CASE k < j
    <3>1. k \in 1..(Len(s) - 1)
      BY <2>2, <1>1, <1>9
    <3> QED
      BY <2>2, <3>1, <1>8
  <2>3. CASE ~ (k < j)
    <3>1. k - 1 \in 1..(Len(s) - 1) /\ ~ (k - 1 < j) /\ (k - 1) + 1 = k
      BY <2>1, <2>3, <1>1, <1>9
    <3> QED
      BY <3>1, <1>8
  <2> QED
    BY <2>2, <2>3
<1>14. ASSUME NEW x \in D, OutOf(x, s)
       PROVE  x \in D2 /\ x \in DOMAIN nd2 /\ nd2[x] = nd[x]
  <2>1. x # e /\ x # pp
    BY <1>2, <1>3, <1>9, <1>14 DEF OutOf
  <2>2. x \in DOMAIN nd
    <3>1. PICK y \in 0..(n - 1) : \E m \in 1..Len(ch[y]) : ch[y][m] = x
      BY DEF Threads
    <3> QED
      BY <3>1, ThreadsFacts
  <2> QED
    BY <2>1, <2>2, <1>6
<1>15. \A x \in 0..(n - 1) : x # i => bs2[x] = bs[x]
  BY <1>2, <1>7
<1> HIDE DEF D2
<1>16. OneDiffers(nd, bs, n, D, ch, nd2, bs2, D2, i, s2)
  BY <1>7, <1>11, <1>12, <1>13, <1>14, <1>15 DEF OneDiffers, s
<1>17. Threads(nd2, bs2, n, D2, [ch EXCEPT ![i] = s2])
  BY <1>16, OneChain
<1> QED
  BY <1>6, <1>17 DEF D2, s2, s, e, Lost

(* The j-th element of the i-th chain moves to block x, as in rmap_set.    *)
Swaps(nd, bs, ch, i, j, x, nd2, bs2) ==
    LET e  == ch[i][j]
        pp == Ptr(i, ch[i], j)
    IN  /\ nd2 = StoreInNodes(With(Without(nd, e), x, nd[e]), pp, x)
        /\ bs2 = StoreInBuckets(bs, pp, x)

(* The elements nd2 are nd, with x in the place of e.                      *)
Replaced(nd, e, x, nd2) ==
    /\ Nodes(nd2) /\ DOMAIN nd2 = (DOMAIN nd \ {e}) \cup {x}
    /\ nd2[x].key = nd[e].key
    /\ \A y \in DOMAIN nd \ {e} : nd2[y].key = nd[y].key

LEMMA Swap ==
    ASSUME NEW nd, Nodes(nd), NEW bs, NEW n, NEW ch, Threads(nd, bs, n, DOMAIN nd, ch),
           NEW i \in 0..(n - 1), NEW j \in 1..Len(ch[i]),
           NEW x \in Blocks, x \notin DOMAIN nd,
           NEW nd2, NEW bs2, Swaps(nd, bs, ch, i, j, x, nd2, bs2)
    PROVE  /\ Threads(nd2, bs2, n, DOMAIN nd2, [ch EXCEPT ![i] = [ch[i] EXCEPT ![j] = x]])
           /\ Replaced(nd, ch[i][j], x, nd2)
<1> DEFINE e == ch[i][j]
           pp == Ptr(i, ch[i], j)
<1>0. /\ nd2 = StoreInNodes(With(Without(nd, e), x, nd[e]), pp, x)
      /\ bs2 = StoreInBuckets(bs, pp, x)
      /\ e = ch[i][j] /\ pp = Ptr(i, ch[i], j)
  BY DEF Swaps
<1> HIDE DEF e, pp
<1> DEFINE s == ch[i]
           v == nd[e]
           nd0 == Without(nd, e)
           nd1 == With(nd0, x, v)
           D == DOMAIN nd
           D2 == (D \ {e}) \cup {x}
           s2 == [s EXCEPT ![j] = x]
<1>1. /\ s \in Seq(DOMAIN nd) /\ Len(s) \in Nat /\ DOMAIN s = 1..Len(s)
      /\ \A m \in 1..Len(s) :
            /\ s[m] \in DOMAIN nd /\ s[m] \in D
            /\ BucketIndex(nd[s[m]].key, n) = i
            /\ nd[s[m]].next = At(s, m + 1)
      /\ bs[i] = At(s, 1)
      /\ \A m, k \in 1..Len(s) : s[m] = s[k] => m = k
  <2>1. Linked(nd, bs[i], s)
    BY DEF Threads
  <2>2. \A m \in 1..Len(s) : s[m] \in D /\ BucketIndex(nd[s[m]].key, n) = i
    BY DEF Threads
  <2> HIDE DEF s
  <2> QED
    BY <2>1, <2>2, LinkedFacts DEF Linked
<1>2. /\ j = 1 => pp = i /\ \A m \in 1..Len(s) : s[m] # pp
      /\ j # 1 => /\ j - 1 \in 1..Len(s)
                  /\ \A y \in 0..(n - 1) : y # pp
                  /\ \A m \in 1..Len(s) : s[m] = pp <=> m = j - 1
      /\ pp # e
      /\ \A y \in 0..(n - 1) : y = pp => y = i
      /\ \A y \in D : OutOf(y, s) => y # pp
  BY <1>0, PtrFacts
<1>3. e = s[j] /\ j \in 1..Len(s) /\ e \in DOMAIN nd /\ v \in Elem /\ x # e
  BY <1>0, <1>1 DEF Nodes
<1>4. bs \in [0..(n - 1) -> Pointer] /\ x \in Pointer
  BY DEF Threads, Pointer
<1>5. pp # x
  <2>1. CASE j = 1
    BY <2>1, <1>2, MapAssumption
  <2>2. CASE j # 1
    <3>1. s[j - 1] = pp /\ s[j - 1] \in DOMAIN nd
      BY <2>2, <1>1, <1>2
    <3> QED
      BY <3>1
  <2> QED
    BY <2>1, <2>2
<1> HIDE DEF s, v
<1>6. /\ Nodes(nd0) /\ DOMAIN nd0 = DOMAIN nd \ {e}
      /\ \A y \in DOMAIN nd \ {e} : nd0[y] = nd[y]
  BY WithoutIs
<1> HIDE DEF nd0
<1>7. /\ Nodes(nd1) /\ DOMAIN nd1 = (DOMAIN nd \ {e}) \cup {x}
      /\ nd1[x] = v
      /\ \A y \in DOMAIN nd \ {e} : nd1[y] = nd[y]
  <2>1. /\ Nodes(nd1) /\ DOMAIN nd1 = DOMAIN nd0 \cup {x} /\ nd1[x] = v
        /\ \A y \in DOMAIN nd0 : y # x => nd1[y] = nd0[y]
    <3>1. Nodes(nd1)
      BY <1>3, <1>6, WithIs
    <3> QED
      BY <3>1 DEF With
  <2> HIDE DEF nd1
  <2> QED
    BY <2>1, <1>6
<1>8. /\ Nodes(nd2) /\ DOMAIN nd2 = (DOMAIN nd \ {e}) \cup {x}
      /\ nd2[x] = v
      /\ \A y \in DOMAIN nd \ {e} :
            /\ nd2[y].key = nd[y].key
            /\ nd2[y].next = IF y = pp THEN x ELSE nd[y].next
            /\ y # pp => nd2[y] = nd[y]
  <2>1. nd2 = StoreInNodes(nd1, pp, x)
    BY <1>0 DEF nd0, v
  <2> HIDE DEF nd1
  <2>2. /\ Nodes(nd2) /\ DOMAIN nd2 = DOMAIN nd1
        /\ \A y \in DOMAIN nd1 :
              /\ nd2[y].key = nd1[y].key
              /\ nd2[y].next = IF y = pp THEN x ELSE nd1[y].next
              /\ y # pp => nd2[y] = nd1[y]
    BY <2>1, <1>4, <1>7, StoreIs
  <2> QED
    BY <2>2, <1>5, <1>7
<1>9. bs2 \in [0..(n - 1) -> Pointer]
  BY <1>0, <1>4 DEF StoreInBuckets
<1>10. \A y \in 0..(n - 1) : (y = pp => bs2[y] = x) /\ (y # pp => bs2[y] = bs[y])
  BY <1>0, <1>4 DEF StoreInBuckets
<1>11. /\ Len(s2) = Len(s) /\ DOMAIN s2 = 1..Len(s) /\ s2[j] = x
       /\ \A m \in 1..Len(s) : m # j => s2[m] = s[m]
  BY <1>1, <1>3
<1>12. \A m \in 1..Len(s) : s2[m] \in DOMAIN nd2
  BY <1>1, <1>3, <1>8, <1>11
<1>13. s2 \in Seq(DOMAIN nd2)
  <2>1. s2 = [m \in 1..Len(s) |-> s2[m]]
    BY <1>11
  <2> HIDE DEF s2
  <2>2. [m \in 1..Len(s) |-> s2[m]] \in [1..Len(s) -> DOMAIN nd2]
    BY <1>12
  <2> QED
    BY <2>1, <2>2, <1>1, SeqDef
<1> HIDE DEF s2, nd1
<1>14. \A m \in 1..(Len(s) + 1) : At(s2, m) = IF m = j THEN x ELSE At(s, m)
  <2> SUFFICES ASSUME NEW m \in 1..(Len(s) + 1)
               PROVE  At(s2, m) = IF m = j THEN x ELSE At(s, m)
    OBVIOUS
  <2>1. CASE m <= Len(s)
    <3>1. m \in 1..Len(s)
      BY <2>1, <1>1
    <3> QED
      BY <2>1, <3>1, <1>11 DEF At
  <2>2. CASE ~ (m <= Len(s))
    <3>1. m # j
      BY <2>2, <1>3, <1>1
    <3> QED
      BY <2>2, <3>1, <1>11 DEF At
  <2> QED
    BY <2>1, <2>2
<1>15. ASSUME NEW m \in 1..Len(s), m # j
       PROVE  /\ s[m] # e /\ s[m] # x /\ s[m] \in DOMAIN nd \ {e} /\ s2[m] = s[m]
              /\ s[m] \in D
  BY <1>15, <1>1, <1>3, <1>11
<1>16. ASSUME NEW m \in 1..Len(s2)
       PROVE  s2[m] \in D2 /\ BucketIndex(nd2[s2[m]].key, n) = i
  <2>1. CASE m = j
    <3>1. BucketIndex(v.key, n) = i
      BY <1>1, <1>3 DEF v
    <3> QED
      BY <2>1, <3>1, <1>8, <1>11
  <2>2. CASE m # j
    <3>1. m \in 1..Len(s)
      BY <1>11
    <3>2. s2[m] = s[m] /\ s[m] \in D \ {e} /\ nd2[s[m]].key = nd[s[m]].key
      BY <2>2, <3>1, <1>8, <1>15
    <3> QED
      BY <3>1, <3>2, <1>1
  <2> QED
    BY <2>1, <2>2
<1>17. Linked(nd2, bs2[i], s2)
  <2>1. ASSUME NEW m \in 1..Len(s2), NEW k \in 1..Len(s2), s2[m] = s2[k] PROVE m = k
    BY <2>1, <1>1, <1>11, <1>15
  <2>2. bs2[i] = At(s2, 1)
    <3>1. 1 \in 1..(Len(s) + 1)
      BY <1>1
    <3>2. At(s2, 1) = IF 1 = j THEN x ELSE At(s, 1)
      BY <3>1, <1>14
    <3>3. i \in 0..(n - 1)
      OBVIOUS
    <3>4. CASE j = 1
      BY <3>2, <3>3, <3>4, <1>2, <1>10
    <3>5. CASE j # 1
      BY <3>2, <3>3, <3>5, <1>1, <1>2, <1>10
    <3> QED
      BY <3>4, <3>5
  <2>3. ASSUME NEW m \in 1..Len(s2) PROVE nd2[s2[m]].next = At(s2, m + 1)
    <3>1. m \in 1..Len(s) /\ m + 1 \in 1..(Len(s) + 1)
      BY <1>1, <1>11
    <3>2. At(s2, m + 1) = IF m + 1 = j THEN x ELSE At(s, m + 1)
      BY <3>1, <1>14
    <3>3. CASE m = j
      <4>1. nd2[s2[m]].next = At(s, m + 1)
        BY <3>1, <3>3, <1>1, <1>3, <1>8, <1>11 DEF v
      <4>2. m + 1 # j
        BY <3>1, <3>3
      <4> QED
        BY <4>1, <4>2, <3>2
    <3>4. CASE m # j
      <4>1. s2[m] = s[m] /\ s[m] \in DOMAIN nd \ {e}
        BY <3>1, <3>4, <1>15
      <4>2. nd2[s[m]].next = IF s[m] = pp THEN x ELSE At(s, m + 1)
        BY <3>1, <4>1, <1>1, <1>8
      <4>3. s[m] = pp <=> (j # 1 /\ m = j - 1)
        BY <3>1, <1>2
      <4>4. s[m] = pp <=> m + 1 = j
        BY <3>1, <4>3, <1>3
      <4> QED
        BY <4>1, <4>2, <4>4, <3>2
    <3> QED
      BY <3>3, <3>4
  <2> QED
    BY <2>1, <2>2, <2>3, <1>13 DEF Linked
<1>18. ASSUME NEW y \in D2
       PROVE  (\E m \in 1..Len(s2) : s2[m] = y) \/ (y \in D /\ OutOf(y, s))
  <2>1. CASE y = x
    BY <2>1, <1>3, <1>11
  <2>2. CASE y # x
    <3>1. y \in D /\ y # e
      BY <2>2
    <3> SUFFICES ASSUME NEW k \in 1..Len(s), s[k] = y PROVE \E m \in 1..Len(s2) : s2[m] = y
      BY <3>1 DEF OutOf
    <3>2. k # j
      BY <3>1, <1>3
    <3> QED
      BY <3>2, <1>11
  <2> QED
    BY <2>1, <2>2
<1>19. ASSUME NEW y \in D, OutOf(y, s)
       PROVE  y \in D2 /\ y \in DOMAIN nd2 /\ nd2[y] = nd[y]
  <2>1. y # e /\ y # pp
    BY <1>2, <1>3, <1>19 DEF OutOf
  <2>2. y \in DOMAIN nd
    <3>1. PICK z \in 0..(n - 1) : \E m \in 1..Len(ch[z]) : ch[z][m] = y
      BY DEF Threads
    <3> QED
      BY <3>1, ThreadsFacts
  <2> QED
    BY <2>1, <2>2, <1>8
<1>20. \A y \in 0..(n - 1) : y # i => bs2[y] = bs[y]
  BY <1>2, <1>10
<1> HIDE DEF D2
<1>21. OneDiffers(nd, bs, n, D, ch, nd2, bs2, D2, i, s2)
  BY <1>9, <1>16, <1>17, <1>18, <1>19, <1>20 DEF OneDiffers, s
<1>22. Threads(nd2, bs2, n, D2, [ch EXCEPT ![i] = s2])
  BY <1>21, OneChain
<1> QED
  BY <1>8, <1>22 DEF D2, v, s2, s, e, Replaced

-----------------------------------------------------------------------------
(***************************************************************************)
(* rehash.  acc is what it has made of the map nd when the elements of D   *)
(* are in the new array of n buckets.                                      *)
(***************************************************************************)
Part(acc, nd, n, D) ==
    /\ Nodes(acc.node) /\ DOMAIN acc.node = DOMAIN nd
    /\ \A e \in DOMAIN nd : acc.node[e].key = nd[e].key
    /\ \E ch : Threads(acc.node, acc.buckets, n, D, ch)

LEMMA IndexInArray ==
    ASSUME NEW k \in Keys, NEW n \in Nat \ {0}
    PROVE  BucketIndex(k, n) \in 0..(n - 1)
<1>1. Hash[k] \in Nat
  BY MapAssumption
<1>2. Hash[k] % n \in 0..(n - 1)
  BY <1>1
<1> QED
  BY <1>2 DEF BucketIndex

LEMMA ReinsertedIs ==
    ASSUME NEW acc, NEW nd, Nodes(nd), NEW n \in Nat \ {0}, NEW D, Part(acc, nd, n, D),
           NEW e \in DOMAIN nd, e \notin D
    PROVE  Part(Reinserted(acc, e, n), nd, n, D \cup {e})
<1> DEFINE an == acc.node
           ab == acc.buckets
           i == BucketIndex(an[e].key, n)
           nd2 == StoreInNodes(an, e, ab[i])
           bs2 == [ab EXCEPT ![i] = e]
<1>1. Nodes(an) /\ DOMAIN an = DOMAIN nd /\ \A x \in DOMAIN nd : an[x].key = nd[x].key
  BY DEF Part
<1>2. PICK ch : Threads(an, ab, n, D, ch)
  BY DEF Part
<1>3. i \in 0..(n - 1)
  <2>1. an[e].key \in Keys
    BY <1>1 DEF Nodes, Elem
  <2> QED
    BY <2>1, IndexInArray
<1>4. ab[i] \in Pointer
  BY <1>2, <1>3 DEF Threads
<1>5. Reinserted(acc, e, n).node = nd2 /\ Reinserted(acc, e, n).buckets = bs2
  BY <1>1 DEF Reinserted, StoreInNodes
<1> HIDE DEF an, ab
<1>6. /\ Nodes(nd2) /\ DOMAIN nd2 = DOMAIN an
      /\ \A x \in DOMAIN an :
            /\ nd2[x].key = an[x].key
            /\ nd2[x].next = (IF x = e THEN ab[i] ELSE an[x].next)
            /\ x # e => nd2[x] = an[x]
  <2>1. Nodes(nd2)
    BY <1>1, <1>4, StoreIs
  <2>2. DOMAIN nd2 = DOMAIN an
    BY <1>1, <1>4, StoreIs
  <2>3. \A x \in DOMAIN an :
            /\ nd2[x].key = an[x].key
            /\ nd2[x].next = (IF x = e THEN ab[i] ELSE an[x].next)
            /\ x # e => nd2[x] = an[x]
    BY <1>1, <1>4, StoreIs
  <2> QED
    BY <2>1, <2>2, <2>3
<1> HIDE DEF nd2
<1>7. \A x \in D : x \in DOMAIN nd2 /\ nd2[x] = an[x]
  <2> SUFFICES ASSUME NEW x \in D PROVE x \in DOMAIN nd2 /\ nd2[x] = an[x]
    OBVIOUS
  <2>1. PICK y \in 0..(n - 1) : \E m \in 1..Len(ch[y]) : ch[y][m] = x
    BY <1>2 DEF Threads
  <2>2. x \in DOMAIN an
    BY <2>1, <1>1, <1>2, ThreadsFacts
  <2> QED
    BY <2>2, <1>6
<1>8. e \in DOMAIN nd2 /\ BucketIndex(nd2[e].key, n) = i /\ nd2[e].next = ab[i]
  BY <1>1, <1>6
<1> HIDE DEF i
<1>9. Threads(nd2, bs2, n, D \cup {e}, [ch EXCEPT ![i] = <<e>> \o ch[i]])
  <2>1. Nodes(an) /\ Nodes(nd2)
    BY <1>1, <1>6
  <2> HIDE DEF bs2
  <2>2. bs2 = [ab EXCEPT ![i] = e]
    BY DEF bs2
  <2> QED
    BY <2>1, <2>2, <1>2, <1>3, <1>7, <1>8, PushFront
<1> QED
  BY <1>1, <1>5, <1>6, <1>9 DEF Part

(* The elements of one chain move to the new array.                        *)
LEMMA MovedIs ==
    ASSUME NEW acc, NEW nd, Nodes(nd), NEW n \in Nat \ {0}, NEW D, Part(acc, nd, n, D),
           NEW s \in Seq(DOMAIN nd), \A i, j \in 1..Len(s) : s[i] = s[j] => i = j,
           \A i \in 1..Len(s) : s[i] \notin D,
           NEW E, D \subseteq E, \A i \in 1..Len(s) : s[i] \in E,
           \A e \in E : e \in D \/ \E i \in 1..Len(s) : s[i] = e
    PROVE  Part(Moved(acc, s, n), nd, n, E)
<1> DEFINE IsRun(w, m) == w = [j \in 0..m |->
                IF j = 0 THEN acc ELSE Reinserted(w[j - 1], s[j], n)]
           Starts(m) == \E w : IsRun(w, m)
           r == CHOOSE w : IsRun(w, Len(s))
           In(m) == D \cup {s[j] : j \in 1..m}
<1>1. Len(s) \in Nat /\ \A j \in 1..Len(s) : s[j] \in DOMAIN nd
  BY LenProperties, ElementOfSeq
<1>2. ASSUME NEW m \in Nat PROVE Starts(m)
  <2> SUFFICES ASSUME ~ Starts(m) PROVE FALSE
    OBVIOUS
  <2> DEFINE T == {i \in Nat : ~ Starts(i)}
  <2>1. T \in SUBSET Nat /\ m \in T
    OBVIOUS
  <2> HIDE DEF Starts
  <2>2. PICK i \in T : \A j \in T : i <= j
    BY <2>1, LeastOf
  <2>3. Starts(0)
    <3> DEFINE w == [j \in 0..0 |-> acc]
    <3>1. IsRun(w, 0)
      OBVIOUS
    <3> QED
      BY <3>1 DEF Starts
  <2>4. i - 1 \in Nat /\ ~ (i <= i - 1)
    BY <2>2, <2>3
  <2>5. PICK f : IsRun(f, i - 1)
    <3>1. Starts(i - 1)
      BY <2>2, <2>4
    <3> QED
      BY <3>1 DEF Starts
  <2> DEFINE w == [j \in 0..i |-> IF j = i THEN Reinserted(f[i - 1], s[i], n) ELSE f[j]]
  <2>6. \A j \in 0..i : w[j] = IF j = 0 THEN acc ELSE Reinserted(w[j - 1], s[j], n)
    <3> SUFFICES ASSUME NEW j \in 0..i
                 PROVE  w[j] = IF j = 0 THEN acc ELSE Reinserted(w[j - 1], s[j], n)
      OBVIOUS
    <3>1. CASE j = i
      <4>1. j # 0 /\ j - 1 \in 0..i /\ j - 1 # i
        BY <3>1, <2>4
      <4> QED
        BY <3>1, <4>1
    <3>2. CASE j # i
      <4>1. j \in 0..(i - 1)
        BY <3>2, <2>4
      <4>2. f[j] = IF j = 0 THEN acc ELSE Reinserted(f[j - 1], s[j], n)
        BY <4>1, <2>5
      <4>3. j # 0 => j - 1 \in 0..i /\ j - 1 # i
        BY <4>1, <2>4
      <4> QED
        BY <3>2, <4>2, <4>3
    <3> QED
      BY <3>1, <3>2
  <2>7. w = [j \in 0..i |-> w[j]]
    OBVIOUS
  <2> HIDE DEF w
  <2>8. IsRun(w, i)
    BY <2>6, <2>7
  <2> QED
    BY <2>2, <2>8 DEF Starts
<1>3. IsRun(r, Len(s))
  <2>1. \E w : IsRun(w, Len(s))
    BY <1>1, <1>2
  <2> HIDE DEF IsRun
  <2> QED
    BY <2>1
<1>4. Moved(acc, s, n) = r[Len(s)]
  BY DEF Moved
<1> HIDE DEF r
<1>5. \A j \in 0..Len(s) : r[j] = IF j = 0 THEN acc ELSE Reinserted(r[j - 1], s[j], n)
  BY <1>3
<1>6. ASSUME NEW m \in 0..Len(s) PROVE Part(r[m], nd, n, In(m))
  <2> SUFFICES ASSUME ~ Part(r[m], nd, n, In(m)) PROVE FALSE
    OBVIOUS
  <2> DEFINE T == {i \in 0..Len(s) : ~ Part(r[i], nd, n, In(i))}
  <2>1. T \in SUBSET Nat /\ m \in T
    BY <1>1
  <2>2. PICK i \in T : \A j \in T : i <= j
    BY <2>1, LeastOf
  <2>3. CASE i = 0
    <3>1. In(0) = D /\ r[0] = acc
      BY <1>1, <1>5
    <3> HIDE DEF In
    <3> QED
      BY <2>2, <2>3, <3>1
  <2>4. CASE i # 0
    <3>1. i - 1 \in 0..Len(s) /\ i \in 1..Len(s) /\ ~ (i <= i - 1)
      BY <2>2, <2>4, <1>1
    <3>2. Part(r[i - 1], nd, n, In(i - 1))
      BY <2>2, <3>1
    <3>3. s[i] \notin In(i - 1)
      <4>1. \A j \in 1..(i - 1) : j \in 1..Len(s) /\ j # i
        BY <3>1
      <4> QED
        BY <3>1, <4>1
    <3>4. In(i) = In(i - 1) \cup {s[i]}
      <4>1. \A j \in 1..i : j \in 1..(i - 1) \/ j = i
        BY <3>1
      <4>2. i \in 1..i /\ 1..(i - 1) \subseteq 1..i
        BY <3>1
      <4>3. In(i) \subseteq In(i - 1) \cup {s[i]}
        BY <4>1
      <4>4. In(i - 1) \cup {s[i]} \subseteq In(i)
        BY <4>2
      <4> QED
        BY <4>3, <4>4
    <3> HIDE DEF In
    <3>5. s[i] \in DOMAIN nd
      BY <3>1, <1>1
    <3>6. Part(Reinserted(r[i - 1], s[i], n), nd, n, In(i))
      BY <3>2, <3>3, <3>4, <3>5, ReinsertedIs
    <3>7. r[i] = Reinserted(r[i - 1], s[i], n)
      BY <3>1, <2>2, <2>4, <1>5
    <3> QED
      BY <2>2, <3>6, <3>7
  <2> QED
    BY <2>3, <2>4
<1>7. Len(s) \in 0..Len(s)
  BY <1>1
<1>8. Part(r[Len(s)], nd, n, In(Len(s)))
  BY <1>6, <1>7
<1>9. In(Len(s)) = E
  OBVIOUS
<1> HIDE DEF In
<1> QED
  BY <1>4, <1>8, <1>9

(* The chains of a map, as following next gives them.                      *)
Chains(nd, bs) == [i \in DOMAIN bs |-> Chain(nd, bs[i])]

LEMMA TheChains ==
    ASSUME NEW nd, Nodes(nd), NEW bs, NEW n, NEW D, NEW ch, Threads(nd, bs, n, D, ch)
    PROVE  Threads(nd, bs, n, D, Chains(nd, bs))
<1>1. DOMAIN bs = 0..(n - 1) /\ DOMAIN ch = 0..(n - 1)
  BY DEF Threads
<1>2. \A i \in 0..(n - 1) : Chain(nd, bs[i]) = ch[i]
  BY ChainIs DEF Threads
<1>3. DOMAIN Chains(nd, bs) = 0..(n - 1) /\ \A i \in 0..(n - 1) : Chains(nd, bs)[i] = ch[i]
  BY <1>1, <1>2 DEF Chains
<1> QED
  BY <1>3 DEF Threads

LEMMA ChainsAre ==
    ASSUME NEW nd, NEW bs, NEW n, NEW D, Threads(nd, bs, n, D, Chains(nd, bs)),
           NEW i \in 0..(n - 1)
    PROVE  Chain(nd, bs[i]) = Chains(nd, bs)[i]
  BY DEF Threads, Chains

(* rehash moves every element to the new array.                            *)
LEMMA RehashedIs ==
    ASSUME Nodes(node), bucketCount \in Nat,
           Threads(node, buckets, bucketCount, DOMAIN node, Chains(node, buckets)),
           NEW n \in Nat \ {0}
    PROVE  Part(Rehashed(n), node, n, DOMAIN node)
<1> DEFINE C == bucketCount
           ch == Chains(node, buckets)
           empty == [node |-> node, buckets |-> [b \in 0..(n - 1) |-> NULL]]
           IsRun(w, m) == w = [i \in 0..m |->
                IF i = 0 THEN empty ELSE Moved(w[i - 1], Chain(node, buckets[i - 1]), n)]
           Starts(m) == \E w : IsRun(w, m)
           r == CHOOSE w : IsRun(w, C)
           In(m) == {e \in DOMAIN node : BucketIndex(node[e].key, C) < m}
<1> HIDE DEF ch
<1>1. Threads(node, buckets, C, DOMAIN node, ch) /\ C \in Nat
  BY DEF ch
<1>2. \A i \in 0..(C - 1) : Chain(node, buckets[i]) = ch[i]
  BY ChainsAre DEF ch
<1>3. ASSUME NEW m \in Nat PROVE Starts(m)
  <2> SUFFICES ASSUME ~ Starts(m) PROVE FALSE
    OBVIOUS
  <2> DEFINE T == {i \in Nat : ~ Starts(i)}
  <2>1. T \in SUBSET Nat /\ m \in T
    OBVIOUS
  <2> HIDE DEF Starts
  <2>2. PICK i \in T : \A j \in T : i <= j
    BY <2>1, LeastOf
  <2> HIDE DEF empty
  <2>3. Starts(0)
    <3> DEFINE w == [j \in 0..0 |-> empty]
    <3>1. IsRun(w, 0)
      OBVIOUS
    <3> QED
      BY <3>1 DEF Starts
  <2>4. i - 1 \in Nat /\ ~ (i <= i - 1)
    BY <2>2, <2>3
  <2>5. PICK f : IsRun(f, i - 1)
    <3>1. Starts(i - 1)
      BY <2>2, <2>4
    <3> QED
      BY <3>1 DEF Starts
  <2> DEFINE w == [j \in 0..i |-> IF j = i THEN Moved(f[i - 1], Chain(node, buckets[i - 1]), n)
                                  ELSE f[j]]
  <2>6. \A j \in 0..i : w[j] = IF j = 0 THEN empty
                               ELSE Moved(w[j - 1], Chain(node, buckets[j - 1]), n)
    <3> SUFFICES ASSUME NEW j \in 0..i
                 PROVE  w[j] = IF j = 0 THEN empty
                               ELSE Moved(w[j - 1], Chain(node, buckets[j - 1]), n)
      OBVIOUS
    <3>1. CASE j = i
      <4>1. j # 0 /\ j - 1 \in 0..i /\ j - 1 # i
        BY <3>1, <2>4
      <4> QED
        BY <3>1, <4>1
    <3>2. CASE j # i
      <4>1. j \in 0..(i - 1)
        BY <3>2, <2>4
      <4>2. f[j] = IF j = 0 THEN empty ELSE Moved(f[j - 1], Chain(node, buckets[j - 1]), n)
        BY <4>1, <2>5
      <4>3. j # 0 => j - 1 \in 0..i /\ j - 1 # i
        BY <4>1, <2>4
      <4> QED
        BY <3>2, <4>2, <4>3
    <3> QED
      BY <3>1, <3>2
  <2>7. w = [j \in 0..i |-> w[j]]
    OBVIOUS
  <2> HIDE DEF w
  <2>8. IsRun(w, i)
    BY <2>6, <2>7
  <2> QED
    BY <2>2, <2>8 DEF Starts
<1>4. IsRun(r, C)
  <2>1. \E w : IsRun(w, C)
    BY <1>1, <1>3
  <2> HIDE DEF IsRun
  <2> QED
    BY <2>1
<1>5. Rehashed(n) = r[C]
  BY DEF Rehashed
<1> HIDE DEF r
<1>6. \A i \in 0..C : r[i] = IF i = 0 THEN empty
                             ELSE Moved(r[i - 1], Chain(node, buckets[i - 1]), n)
  BY <1>4
<1>7. \A e \in DOMAIN node : \E i \in 0..(C - 1) : /\ BucketIndex(node[e].key, C) = i
                                                  /\ \E j \in 1..Len(ch[i]) : ch[i][j] = e
  <2> SUFFICES ASSUME NEW e \in DOMAIN node
               PROVE  \E i \in 0..(C - 1) : /\ BucketIndex(node[e].key, C) = i
                                            /\ \E j \in 1..Len(ch[i]) : ch[i][j] = e
    OBVIOUS
  <2>1. PICK i \in 0..(C - 1) : \E j \in 1..Len(ch[i]) : ch[i][j] = e
    BY <1>1 DEF Threads
  <2>2. BucketIndex(node[e].key, C) = i
    BY <2>1, <1>1 DEF Threads
  <2> QED
    BY <2>1, <2>2
<1>8. Part(empty, node, n, {})
  <2>1. empty.node = node /\ empty.buckets = [b \in 0..(n - 1) |-> NULL]
    OBVIOUS
  <2> DEFINE none == [i \in 0..(n - 1) |-> <<>>]
  <2>2. /\ DOMAIN none = 0..(n - 1)
        /\ \A i \in 0..(n - 1) : none[i] = <<>> /\ empty.buckets[i] = NULL
        /\ empty.buckets \in [0..(n - 1) -> Pointer]
    BY <2>1 DEF Pointer
  <2>3. <<>> \in Seq(DOMAIN node) /\ Len(<<>>) = 0 /\ ~ (1 <= 0) /\ 1..0 = {}
    OBVIOUS
  <2> HIDE DEF none, empty
  <2>4. Linked(node, NULL, <<>>)
    BY <2>3 DEF Linked, At
  <2>5. Threads(node, empty.buckets, n, {}, none)
    BY <2>2, <2>3, <2>4 DEF Threads
  <2> QED
    BY <2>1, <2>5 DEF Part
<1> HIDE DEF empty
<1>9. ASSUME NEW m \in 0..C PROVE Part(r[m], node, n, In(m))
  <2> SUFFICES ASSUME ~ Part(r[m], node, n, In(m)) PROVE FALSE
    OBVIOUS
  <2> DEFINE T == {i \in 0..C : ~ Part(r[i], node, n, In(i))}
  <2> HIDE DEF In
  <2>1. T \in SUBSET Nat /\ m \in T
    BY <1>1
  <2>2. PICK i \in T : \A j \in T : i <= j
    BY <2>1, LeastOf
  <2>3. CASE i = 0
    <3>1. In(0) = {}
      <4>1. \A e \in DOMAIN node : ~ (BucketIndex(node[e].key, C) < 0)
        BY <1>7
      <4> QED
        BY <4>1 DEF In
    <3>2. r[0] = empty
      BY <1>1, <1>6
    <3> QED
      BY <2>2, <2>3, <3>1, <3>2, <1>8
  <2>4. CASE i # 0
    <3>1. i - 1 \in 0..C /\ i - 1 \in 0..(C - 1) /\ i \in 1..C /\ ~ (i <= i - 1)
      BY <2>2, <2>4, <1>1
    <3>2. Part(r[i - 1], node, n, In(i - 1))
      BY <2>2, <3>1
    <3> DEFINE s == ch[i - 1]
    <3>3. /\ s \in Seq(DOMAIN node) /\ \A a, b \in 1..Len(s) : s[a] = s[b] => a = b
          /\ \A a \in 1..Len(s) : s[a] \in DOMAIN node /\ BucketIndex(node[s[a]].key, C) = i - 1
      <4>1. Linked(node, buckets[i - 1], s)
        BY <3>1, <1>1 DEF Threads
      <4> QED
        BY <3>1, <4>1, <1>1 DEF Threads, Linked
    <3>4. \A a \in 1..Len(s) : s[a] \notin In(i - 1)
      BY <3>1, <3>3 DEF In
    <3>5. /\ In(i - 1) \subseteq In(i) /\ \A a \in 1..Len(s) : s[a] \in In(i)
          /\ \A e \in In(i) : e \in In(i - 1) \/ \E a \in 1..Len(s) : s[a] = e
      <4>1. ASSUME NEW e \in In(i), e \notin In(i - 1) PROVE \E a \in 1..Len(s) : s[a] = e
        <5>1. e \in DOMAIN node /\ BucketIndex(node[e].key, C) < i
              /\ ~ (BucketIndex(node[e].key, C) < i - 1)
          BY <4>1 DEF In
        <5>2. PICK x \in 0..(C - 1) : /\ BucketIndex(node[e].key, C) = x
                                      /\ \E a \in 1..Len(ch[x]) : ch[x][a] = e
          BY <5>1, <1>7
        <5>3. x = i - 1
          BY <5>1, <5>2, <3>1
        <5> QED
          BY <5>2, <5>3
      <4>2. ASSUME NEW a \in 1..Len(s) PROVE s[a] \in In(i)
        BY <3>1, <3>3 DEF In
      <4>3. In(i - 1) \subseteq In(i)
        <5>1. ASSUME NEW e \in In(i - 1) PROVE e \in In(i)
          <6>1. e \in DOMAIN node /\ BucketIndex(node[e].key, C) < i - 1
            BY DEF In
          <6>2. BucketIndex(node[e].key, C) \in Int
            BY <6>1, <1>7
          <6> QED
            BY <6>1, <6>2, <3>1 DEF In
        <5> QED
          BY <5>1
      <4> HIDE DEF s
      <4> QED
        BY <4>1, <4>2, <4>3
    <3> HIDE DEF s
    <3>6. Part(Moved(r[i - 1], s, n), node, n, In(i))
      BY <3>2, <3>3, <3>4, <3>5, MovedIs
    <3>7. r[i] = Moved(r[i - 1], s, n)
      BY <3>1, <2>2, <2>4, <1>2, <1>6 DEF s
    <3> QED
      BY <2>2, <3>6, <3>7
  <2> QED
    BY <2>3, <2>4
<1>10. In(C) = DOMAIN node
  <2>1. \A e \in DOMAIN node : BucketIndex(node[e].key, C) < C
    BY <1>1, <1>7
  <2> QED
    BY <2>1
<1> HIDE DEF In
<1>11. C \in 0..C
  BY <1>1
<1>12. Part(r[C], node, n, In(C))
  BY <1>9, <1>11
<1> QED
  BY <1>5, <1>10, <1>12

-----------------------------------------------------------------------------
(***************************************************************************)
(* The inductive invariant of the map.  The chains hold all elements, the  *)
(* client's dictionary is the inverse of their keys, and the array has     *)
(* room.                                                                   *)
(***************************************************************************)
MapOK ==
    /\ Nodes(node)
    /\ bucketCount \in Nat /\ (bucketCount = 0 \/ bucketCount >= 4)
    /\ Threads(node, buckets, bucketCount, DOMAIN node, Chains(node, buckets))

Counted ==
    /\ count = Cardinality(DOMAIN node)
    /\ count <= bucketCount \div 2 + bucketCount \div 4
    /\ tables = IF bucketCount = 0 THEN 0 ELSE 1

(* The dictionary dc and the elements nd know each other.                  *)
Known(dc, nd) ==
    /\ DOMAIN dc \subseteq Keys
    /\ \A k \in DOMAIN dc : dc[k] \in DOMAIN nd /\ nd[dc[k]].key = k
    /\ \A e \in DOMAIN nd : nd[e].key \in DOMAIN dc /\ dc[nd[e].key] = e

MapInv == MapOK /\ Counted /\ Known(dict, node) /\ todo \subseteq Keys

(***************************************************************************)
(* The inductive invariant of a valid iterator x: it has come to the m-th  *)
(* element of chain b - 1 of the chains ch, or is before the first (b = 0).*)
(***************************************************************************)
Iterator ==
    [bucketIndex : Nat, next : Pointer, prevNext : Pointer \cup Nat,
     last : Pointer, lastPrevNext : Pointer \cup Nat]

Cursor(x, ch, n, b, m) ==
    /\ b \in 0..n /\ m \in Nat /\ x.bucketIndex = b
    /\ b = 0 => x.next = NULL /\ x.prevNext = NULL
    /\ b > 0 => /\ m <= Len(ch[b - 1])
                /\ x.next = At(ch[b - 1], m + 1)
                /\ x.prevNext = Ptr(b - 1, ch[b - 1], m + 1)

(* The element it returned last is the m-th.                               *)
Returned(x, ch, b, m) ==
    x.last # NULL =>
        b > 0 /\ m > 0 /\ x.last = ch[b - 1][m] /\ x.lastPrevNext = Ptr(b - 1, ch[b - 1], m)

(* Element e comes after the cursor.                                       *)
IsAhead(e, ch, n, b, m) ==
    \E i \in 0..(n - 1) : \E j \in 1..Len(ch[i]) :
        ch[i][j] = e /\ (i >= b \/ (i = b - 1 /\ j > m))

KeysAhead(nd, ch, n, b, m) == {nd[e].key : e \in {x \in DOMAIN nd : IsAhead(x, ch, n, b, m)}}

IterInv ==
    it # NULL =>
        /\ it \in Iterator
        /\ \E b, m \in Nat :
              /\ Cursor(it, Chains(node, buckets), bucketCount, b, m)
              /\ Returned(it, Chains(node, buckets), b, m)
              /\ todo = KeysAhead(node, Chains(node, buckets), bucketCount, b, m)

-----------------------------------------------------------------------------
(* What the operators of the code find in a map that is MapOK.             *)
LEMMA MapFacts ==
    ASSUME MapOK
    PROVE  /\ DOMAIN Chains(node, buckets) = 0..(bucketCount - 1)
           /\ DOMAIN buckets = 0..(bucketCount - 1)
           /\ \A e \in DOMAIN node : /\ e \in Blocks /\ e # NULL /\ node[e] \in Elem
                                     /\ node[e].key \in Keys /\ node[e].next \in Pointer
           /\ \A i \in 0..(bucketCount - 1) : i \in DOMAIN buckets
                    /\ Chain(node, buckets[i]) = Chains(node, buckets)[i]
           /\ \A i \in 0..(bucketCount - 1) : \A j \in 1..Len(Chains(node, buckets)[i]) :
                 /\ Chains(node, buckets)[i][j] \in DOMAIN node
                 /\ BucketIndex(node[Chains(node, buckets)[i][j]].key, bucketCount) = i
           /\ \A e \in DOMAIN node : \E j \in 1..Len(Chains(node, buckets)[BucketIndex(node[e].key, bucketCount)]) :
                    Chains(node, buckets)[BucketIndex(node[e].key, bucketCount)][j] = e
           /\ \A e \in DOMAIN node :
                    bucketCount > 0 /\ BucketIndex(node[e].key, bucketCount) \in 0..(bucketCount - 1)
<1> DEFINE ch == Chains(node, buckets)
           n == bucketCount
<1>1. Nodes(node) /\ n \in Nat /\ Threads(node, buckets, n, DOMAIN node, ch)
  BY DEF MapOK
<1>2. \A i \in 0..(n - 1) : Chain(node, buckets[i]) = ch[i]
  BY <1>1, ChainsAre
<1> HIDE DEF ch, n
<1>3. DOMAIN ch = 0..(n - 1) /\ DOMAIN buckets = 0..(n - 1)
  BY <1>1 DEF Threads
<1>4. \A e \in DOMAIN node : /\ e \in Blocks /\ e # NULL /\ node[e] \in Elem
                             /\ node[e].key \in Keys /\ node[e].next \in Pointer
  BY <1>1, MapAssumption DEF Nodes, Elem
<1>5. \A i \in 0..(n - 1) : \A j \in 1..Len(ch[i]) :
          ch[i][j] \in DOMAIN node /\ BucketIndex(node[ch[i][j]].key, n) = i
  BY <1>1 DEF Threads
<1>6. ASSUME NEW e \in DOMAIN node
      PROVE  /\ n > 0 /\ BucketIndex(node[e].key, n) \in 0..(n - 1)
             /\ \E j \in 1..Len(ch[BucketIndex(node[e].key, n)]) :
                    ch[BucketIndex(node[e].key, n)][j] = e
  <2>1. PICK i \in 0..(n - 1) : \E j \in 1..Len(ch[i]) : ch[i][j] = e
    BY <1>1 DEF Threads
  <2>2. BucketIndex(node[e].key, n) = i /\ n > 0
    BY <2>1, <1>1, <1>5
  <2> QED
    BY <2>1, <2>2
<1> QED
  BY <1>2, <1>3, <1>4, <1>5, <1>6 DEF ch, n

(* rmap_get finds the element with the key, if there is one.               *)
LEMMA GetFinds ==
    ASSUME MapOK, NEW k \in Keys
    PROVE  /\ get(k) # NULL => get(k) \in DOMAIN node /\ node[get(k)].key = k
           /\ get(k) = NULL => \A e \in DOMAIN node : node[e].key # k
<1> DEFINE i == BucketIndex(k, bucketCount)
           s == Chains(node, buckets)[i]
<1>1. CASE bucketCount = 0
  BY <1>1, MapFacts DEF get
<1>2. CASE bucketCount # 0
  <2>1. i \in 0..(bucketCount - 1)
    BY <1>2, IndexInArray DEF MapOK
  <2>2. Chain(node, buckets[i]) = s
    BY <2>1, MapFacts
  <2>3. s \in Seq(DOMAIN node) /\ Len(s) \in Nat /\ DOMAIN s = 1..Len(s)
        /\ \A j \in 1..Len(s) : s[j] \in DOMAIN node /\ s[j] # NULL
    <3>1. Nodes(node) /\ Linked(node, buckets[i], s)
      BY <2>1 DEF MapOK, Threads
    <3> HIDE DEF s
    <3> QED
      BY <3>1, LinkedFacts
  <2>4. \A e \in DOMAIN node : node[e].key = k => \E j \in 1..Len(s) : s[j] = e
    BY MapFacts
  <2>5. get(k) = IF Hits(s, k) = {} THEN NULL ELSE s[Min(Hits(s, k))]
    BY <2>2, <1>2 DEF get
  <2> HIDE DEF s, i
  <2>6. CASE Hits(s, k) = {}
    <3>1. \A j \in 1..Len(s) : node[s[j]].key # k
      BY <2>3, <2>6 DEF Hits
    <3> QED
      BY <3>1, <2>4, <2>5, <2>6
  <2>7. CASE Hits(s, k) # {}
    <3>1. Hits(s, k) \in SUBSET Nat
      BY <2>3 DEF Hits
    <3>2. PICK j \in Hits(s, k) : \A m \in Hits(s, k) : j <= m
      BY <2>7, <3>1, LeastOf
    <3>3. Min(Hits(s, k)) = j
      BY <3>1, <3>2, LeastIs
    <3>4. j \in 1..Len(s) /\ node[s[j]].key = k
      BY <2>3, <3>2 DEF Hits
    <3> QED
      BY <3>3, <3>4, <2>3, <2>5, <2>7
  <2> QED
    BY <2>6, <2>7
<1> QED
  BY <1>1, <1>2

LEMMA GetIs ==
    ASSUME MapOK, Known(dict, node), NEW k \in Keys
    PROVE  /\ k \in DOMAIN dict => get(k) = dict[k] /\ get(k) # NULL
           /\ k \notin DOMAIN dict => get(k) = NULL
<1>1. /\ get(k) # NULL => get(k) \in DOMAIN node /\ node[get(k)].key = k
      /\ get(k) = NULL => \A e \in DOMAIN node : node[e].key # k
  BY GetFinds
<1> QED
  BY <1>1 DEF Known

(* Its place, and the pointer to it, as the walk finds them.               *)
LEMMA PlaceIs ==
    ASSUME MapOK, NEW e \in DOMAIN node
    PROVE  \E i \in 0..(bucketCount - 1) : \E j \in 1..Len(Chains(node, buckets)[i]) :
              /\ Chains(node, buckets)[i][j] = e
              /\ PrevNext(e) = Ptr(i, Chains(node, buckets)[i], j)
<1> DEFINE i == BucketIndex(node[e].key, bucketCount)
           s == Chains(node, buckets)[i]
           at == CHOOSE m \in DOMAIN s : s[m] = e
<1>1. i \in 0..(bucketCount - 1) /\ \E j \in 1..Len(s) : s[j] = e
  BY MapFacts
<1>2. Chain(node, buckets[i]) = s
  BY <1>1, MapFacts
<1>3. DOMAIN s = 1..Len(s)
  BY <1>1, ThreadsFacts DEF MapOK
<1>4. PrevNext(e) = IF at = 1 THEN i ELSE s[at - 1]
  BY <1>2 DEF PrevNext
<1> HIDE DEF s, i
<1>5. at \in 1..Len(s) /\ s[at] = e
  BY <1>1, <1>3
<1> HIDE DEF at
<1>6. PrevNext(e) = Ptr(i, s, at)
  BY <1>4 DEF Ptr
<1> QED
  BY <1>1, <1>5, <1>6 DEF s

-----------------------------------------------------------------------------
(* Steps that keep the invariant of the map.                               *)
LEMMA CountIs ==
    ASSUME NEW bs, NEW n \in Nat, bs \in [0..(n - 1) -> Pointer]
    PROVE  Cardinality(DOMAIN bs) = n
<1>1. DOMAIN bs = 0..(n - 1)
  OBVIOUS
<1>2. Cardinality(0..(n - 1)) = n
  BY FS_Interval
<1> QED
  BY <1>1, <1>2

LEMMA MapOKNext ==
    ASSUME Nodes(node'), NEW n \in Nat, n = 0 \/ n >= 4, NEW ch,
           Threads(node', buckets', n, DOMAIN node', ch)
    PROVE  MapOK' /\ bucketCount' = n
<1>1. buckets' \in [0..(n - 1) -> Pointer]
  BY DEF Threads
<1>2. bucketCount' = n
  BY <1>1, CountIs DEF bucketCount
<1>3. Threads(node', buckets', n, DOMAIN node', Chains(node', buckets'))
  BY TheChains
<1> QED
  BY <1>2, <1>3 DEF MapOK

LEMMA RoomyIs ==
    ASSUME MapOK, Counted
    PROVE  \E n \in Nat : /\ n >= 4 /\ Part(Roomy, node, n, DOMAIN node)
                          /\ Cardinality(DOMAIN Roomy.buckets) = n
                          /\ count + 1 <= n \div 2 + n \div 4
                          /\ TablesAfter = 1
<1>1. count \in Nat
  BY FS_CardinalityType DEF MapOK, Nodes, Counted
<1>2. bucketCount \in Nat /\ (bucketCount = 0 \/ bucketCount >= 4)
      /\ count <= bucketCount \div 2 + bucketCount \div 4
  BY DEF MapOK, Counted
<1>3. CASE NeedsRehash
  <2> DEFINE n == NewBucketCount
  <2>1. n \in Nat /\ n >= 4
    BY <1>2 DEF NewBucketCount, InitBucketCount
  <2>2. count + 1 <= n \div 2 + n \div 4
    <3>1. CASE bucketCount = 0
      BY <3>1, <1>1, <1>2 DEF NewBucketCount, InitBucketCount
    <3>2. CASE bucketCount # 0
      <4>1. n = bucketCount * 2 /\ bucketCount >= 4
        BY <3>2, <1>2 DEF NewBucketCount
      <4>2. (bucketCount * 2) \div 2 = bucketCount /\ (bucketCount * 2) \div 4 = bucketCount \div 2
        BY <1>2
      <4>3. bucketCount \div 2 + bucketCount \div 4 + 1 <= bucketCount + bucketCount \div 2
        BY <1>2, <4>1
      <4>4. bucketCount \div 2 \in Int /\ bucketCount \div 4 \in Int
        BY <1>2
      <4> QED
        BY <4>1, <4>2, <4>3, <4>4, <1>1, <1>2
    <3> QED
      BY <3>1, <3>2
  <2>3. TablesAfter = 1
    BY <1>2, <1>3 DEF TablesAfter, Counted
  <2>4. Roomy = Rehashed(n)
    BY <1>3 DEF Roomy
  <2> HIDE DEF n
  <2>5. Part(Roomy, node, n, DOMAIN node)
    BY <2>1, <2>4, RehashedIs DEF MapOK
  <2>6. Cardinality(DOMAIN Roomy.buckets) = n
    <3>1. Roomy.buckets \in [0..(n - 1) -> Pointer]
      BY <2>5 DEF Part, Threads
    <3> QED
      BY <2>1, <3>1, CountIs
  <2> QED
    BY <2>1, <2>2, <2>3, <2>5, <2>6
<1>4. CASE ~ NeedsRehash
  <2>1. count + 1 <= bucketCount \div 2 + bucketCount \div 4
    BY <1>1, <1>2, <1>4 DEF NeedsRehash
  <2>2. bucketCount >= 4
    BY <1>1, <1>2, <2>1
  <2>3. TablesAfter = 1
    BY <1>4, <2>2 DEF TablesAfter, Counted
  <2>4. Roomy.node = node /\ Roomy.buckets = buckets
    BY <1>4 DEF Roomy
  <2>5. Part(Roomy, node, bucketCount, DOMAIN node)
    BY <2>4 DEF Part, MapOK
  <2>6. Cardinality(DOMAIN Roomy.buckets) = bucketCount
    BY <2>4 DEF bucketCount
  <2> QED
    BY <1>2, <2>1, <2>2, <2>3, <2>5, <2>6
<1> QED
  BY <1>3, <1>4

LEMMA AddKeeps ==
    ASSUME MapInv, NEW k \in Keys, get(k) = NULL, addElem(k), Invalidated
    PROVE  MapInv'
<1> DEFINE rn == Roomy.node
           rb == Roomy.buckets
<1>1. MapOK /\ Counted /\ Known(dict, node)
  BY DEF MapInv
<1>2. PICK n \in Nat : /\ n >= 4 /\ Part(Roomy, node, n, DOMAIN node)
                       /\ Cardinality(DOMAIN rb) = n
                       /\ count + 1 <= n \div 2 + n \div 4
                       /\ TablesAfter = 1
  BY <1>1, RoomyIs
<1> DEFINE i == BucketIndex(k, n)
<1>3. i \in 0..(n - 1)
  BY <1>2, IndexInArray
<1>4. PICK e \in Blocks \ DOMAIN node :
        /\ node' = With(rn, e, [next |-> rb[i], key |-> k])
        /\ buckets' = [rb EXCEPT ![i] = e]
        /\ count' = count + 1 /\ tables' = 1 /\ dict' = With(dict, k, e)
  BY <1>2 DEF addElem
<1>5. /\ Nodes(rn) /\ DOMAIN rn = DOMAIN node
      /\ \A x \in DOMAIN node : rn[x].key = node[x].key
  BY <1>2 DEF Part
<1>6. PICK ch : Threads(rn, rb, n, DOMAIN node, ch)
  BY <1>2 DEF Part
<1> DEFINE v == [next |-> rb[i], key |-> k]
<1>7. v \in Elem /\ v.next = rb[i] /\ v.key = k
  <2>1. rb[i] \in Pointer
    BY <1>3, <1>6 DEF Threads
  <2> HIDE DEF rb, i
  <2> QED
    BY <2>1 DEF Elem
<1> HIDE DEF rn, rb, i, v
<1>8. /\ Nodes(node') /\ DOMAIN node' = DOMAIN node \cup {e}
      /\ node'[e] = v
      /\ \A x \in DOMAIN node : x # e => node'[x] = rn[x]
  <2>1. node' = With(rn, e, v) /\ e \in Blocks
    BY <1>4 DEF v
  <2>2. Nodes(With(rn, e, v))
    BY <2>1, <1>5, <1>7, WithIs
  <2> QED
    BY <2>1, <2>2, <1>5 DEF With
<1>9. Threads(node', buckets', n, DOMAIN node', [ch EXCEPT ![i] = <<e>> \o ch[i]])
  <2>1. e \in DOMAIN node' /\ e \notin DOMAIN node /\ node'[e].next = rb[i]
        /\ BucketIndex(node'[e].key, n) = i
    BY <1>4, <1>7, <1>8 DEF i
  <2>2. \A x \in DOMAIN node : x \in DOMAIN node' /\ node'[x] = rn[x]
    BY <1>4, <1>8
  <2>3. Nodes(rn) /\ Nodes(node')
    BY <1>5, <1>8
  <2>4. Threads(node', [rb EXCEPT ![i] = e], n, DOMAIN node \cup {e}, [ch EXCEPT ![i] = <<e>> \o ch[i]])
    BY <2>1, <2>2, <2>3, <1>3, <1>6, PushFront
  <2> QED
    BY <2>4, <1>4, <1>8
<1>10. MapOK' /\ bucketCount' = n
  <2>1. Nodes(node')
    BY <1>8
  <2> QED
    BY <2>1, <1>2, <1>9, MapOKNext
<1>11. Counted'
  <2>1. Cardinality(DOMAIN node') = Cardinality(DOMAIN node) + 1
    BY <1>1, <1>4, <1>8, FS_AddElement DEF MapOK, Nodes
  <2>2. count' = Cardinality(DOMAIN node')
    BY <2>1, <1>1, <1>4 DEF Counted
  <2>3. count' <= bucketCount' \div 2 + bucketCount' \div 4
    BY <1>2, <1>4, <1>10
  <2>4. tables' = IF bucketCount' = 0 THEN 0 ELSE 1
    BY <1>2, <1>4, <1>10
  <2> QED
    BY <2>2, <2>3, <2>4 DEF Counted
<1>12. Known(dict', node')
  <2>1. k \notin DOMAIN dict
    BY <1>1, GetIs
  <2>2. /\ DOMAIN dict' = DOMAIN dict \cup {k} /\ dict'[k] = e
        /\ \A x \in DOMAIN dict : x # k => dict'[x] = dict[x]
    BY <1>4 DEF With
  <2>3. node'[e].key = k /\ \A x \in DOMAIN node : node'[x].key = node[x].key
    BY <1>4, <1>5, <1>7, <1>8
  <2>4. DOMAIN node' = DOMAIN node \cup {e} /\ e \notin DOMAIN node
    BY <1>4, <1>8
  <2> QED
    BY <1>1, <2>1, <2>2, <2>3, <2>4 DEF Known
<1> QED
  BY <1>10, <1>11, <1>12 DEF MapInv, Invalidated

LEMMA AddRefusedKeeps ==
    ASSUME MapInv, addElemRefused, Invalidated
    PROVE  MapInv'
<1>1. MapOK /\ Counted /\ Known(dict, node)
  BY DEF MapInv
<1>2. PICK n \in Nat : /\ n >= 4 /\ Part(Roomy, node, n, DOMAIN node)
                       /\ count + 1 <= n \div 2 + n \div 4 /\ TablesAfter = 1
  BY <1>1, RoomyIs
<1>3. /\ node' = Roomy.node /\ buckets' = Roomy.buckets
      /\ count' = count /\ dict' = dict /\ tables' = 1
  BY <1>2 DEF addElemRefused
<1>4. /\ Nodes(node') /\ DOMAIN node' = DOMAIN node
      /\ \A x \in DOMAIN node : node'[x].key = node[x].key
      /\ \E ch : Threads(node', buckets', n, DOMAIN node', ch)
  <2>1. /\ Nodes(node') /\ DOMAIN node' = DOMAIN node
        /\ \A x \in DOMAIN node : node'[x].key = node[x].key
    BY <1>2, <1>3 DEF Part
  <2>2. \E ch : Threads(node', buckets', n, DOMAIN node, ch)
    BY <1>2, <1>3 DEF Part
  <2> QED
    BY <2>1, <2>2
<1>5. MapOK' /\ bucketCount' = n
  BY <1>2, <1>4, MapOKNext
<1>6. Counted'
  <2>1. count \in Nat /\ count = Cardinality(DOMAIN node)
    BY <1>1, FS_CardinalityType DEF MapOK, Nodes, Counted
  <2> QED
    BY <2>1, <1>2, <1>3, <1>4, <1>5 DEF Counted
<1>7. Known(dict', node')
  BY <1>1, <1>3, <1>4 DEF Known
<1> QED
  BY <1>5, <1>6, <1>7 DEF MapInv, Invalidated

(* The element of key k leaves.                                            *)
LEMMA Forgets ==
    ASSUME MapInv, NEW k \in DOMAIN dict,
           DOMAIN node' = DOMAIN node \ {dict[k]},
           \A x \in DOMAIN node \ {dict[k]} : node'[x].key = node[x].key,
           count' = count - 1, dict' = Without(dict, k), tables' = tables,
           MapOK', bucketCount' = bucketCount
    PROVE  Counted' /\ Known(dict', node')
<1>1. MapOK /\ Counted /\ Known(dict, node)
  BY DEF MapInv
<1>2. dict[k] \in DOMAIN node
  BY <1>1 DEF Known
<1>3. Cardinality(DOMAIN node') = Cardinality(DOMAIN node) - 1 /\ Cardinality(DOMAIN node) \in Nat
  BY <1>1, <1>2, RemoveOne DEF MapOK, Nodes
<1>4. bucketCount \div 2 + bucketCount \div 4 \in Int
  BY <1>1 DEF MapOK
<1>5. Counted'
  BY <1>1, <1>3, <1>4 DEF Counted
<1>6. Known(dict', node')
  <2>1. DOMAIN dict' = DOMAIN dict \ {k} /\ \A x \in DOMAIN dict \ {k} : dict'[x] = dict[x]
    BY DEF Without
  <2> QED
    BY <1>1, <2>1 DEF Known
<1> QED
  BY <1>5, <1>6

(* Unlinking element e at place j of chain i.                              *)
LEMMA UnlinkKeeps ==
    ASSUME MapOK, NEW i \in 0..(bucketCount - 1), NEW j \in 1..Len(Chains(node, buckets)[i]),
           NEW e, e = Chains(node, buckets)[i][j],
           NEW pp, pp = Ptr(i, Chains(node, buckets)[i], j),
           node' = Without(StoreInNodes(node, pp, node[e].next), e),
           buckets' = StoreInBuckets(buckets, pp, node[e].next)
    PROVE  /\ MapOK' /\ bucketCount' = bucketCount
           /\ DOMAIN node' = DOMAIN node \ {e}
           /\ \A x \in DOMAIN node \ {e} : node'[x].key = node[x].key
           /\ Chains(node', buckets')
                = [Chains(node, buckets) EXCEPT ![i] = Cut(Chains(node, buckets)[i], j)]
<1> DEFINE ch == Chains(node, buckets)
           n == bucketCount
<1>1. Nodes(node) /\ n \in Nat /\ (n = 0 \/ n >= 4) /\ Threads(node, buckets, n, DOMAIN node, ch)
  BY DEF MapOK
<1> DEFINE c2 == [ch EXCEPT ![i] = Cut(ch[i], j)]
<1> HIDE DEF ch, n
<1>2. i \in 0..(n - 1) /\ j \in 1..Len(ch[i]) /\ e = ch[i][j] /\ pp = Ptr(i, ch[i], j)
  BY DEF ch, n
<1>3. /\ Threads(node', buckets', n, DOMAIN node \ {e}, c2)
      /\ Nodes(node')
      /\ DOMAIN node' = DOMAIN node \ {e}
      /\ \A x \in DOMAIN node \ {e} : node'[x].key = node[x].key
  <2>1. Unlinks(node, buckets, ch, i, j, node', buckets')
    BY <1>2 DEF Unlinks
  <2> QED
    <3>1. Threads(node', buckets', n, DOMAIN node', [ch EXCEPT ![i] = Cut(ch[i], j)])
      BY <2>1, <1>1, <1>2, Unlink
    <3>2. Lost(node, ch[i][j], node')
      BY <2>1, <1>1, <1>2, Unlink
    <3> QED
      BY <3>1, <3>2, <1>2 DEF Lost
<1> HIDE DEF c2
<1>4. Threads(node', buckets', n, DOMAIN node', c2)
  BY <1>3
<1>5. MapOK' /\ bucketCount' = n
  BY <1>1, <1>3, <1>4, MapOKNext
<1>6. Chains(node', buckets') = c2
  <2>1. /\ DOMAIN buckets' = 0..(n - 1) /\ DOMAIN c2 = 0..(n - 1)
        /\ \A x \in 0..(n - 1) : Linked(node', buckets'[x], c2[x])
    BY <1>4 DEF Threads
  <2>2. \A x \in 0..(n - 1) : Chain(node', buckets'[x]) = c2[x]
    <3>1. Nodes(node')
      BY <1>3
    <3> QED
      BY <2>1, <3>1, ChainIs
  <2>3. c2 = [x \in 0..(n - 1) |-> c2[x]]
    <3>1. c2 = [x \in DOMAIN c2 |-> c2[x]]
      BY DEF c2
    <3> QED
      BY <2>1, <3>1
  <2> QED
    BY <2>1, <2>2, <2>3 DEF Chains
<1> QED
  BY <1>3, <1>5, <1>6 DEF c2, ch, n

LEMMA RemoveKeeps ==
    ASSUME MapInv, NEW k \in Keys, remove(k)
    PROVE  MapInv'
<1> DEFINE e == get(k)
<1>1. MapOK /\ Counted /\ Known(dict, node)
  BY DEF MapInv
<1>2. k \in DOMAIN dict /\ e = dict[k] /\ e \in DOMAIN node
  BY <1>1, GetIs DEF Known, remove
<1>3. /\ node' = Without(StoreInNodes(node, PrevNext(e), node[e].next), e)
      /\ buckets' = StoreInBuckets(buckets, PrevNext(e), node[e].next)
      /\ count' = count - 1 /\ dict' = Without(dict, k)
      /\ todo' = {} /\ tables' = tables
  BY DEF remove, Invalidated
<1> HIDE DEF e
<1>4. PICK i \in 0..(bucketCount - 1) : \E j \in 1..Len(Chains(node, buckets)[i]) :
              /\ Chains(node, buckets)[i][j] = e
              /\ PrevNext(e) = Ptr(i, Chains(node, buckets)[i], j)
  BY <1>1, <1>2, PlaceIs
<1>5. PICK j \in 1..Len(Chains(node, buckets)[i]) :
              /\ Chains(node, buckets)[i][j] = e
              /\ PrevNext(e) = Ptr(i, Chains(node, buckets)[i], j)
  BY <1>4
<1>6. /\ MapOK' /\ bucketCount' = bucketCount
      /\ DOMAIN node' = DOMAIN node \ {e}
      /\ \A x \in DOMAIN node \ {e} : node'[x].key = node[x].key
  BY <1>1, <1>3, <1>5, UnlinkKeeps
<1>7. Counted' /\ Known(dict', node')
  BY <1>2, <1>3, <1>6, Forgets
<1> QED
  BY <1>3, <1>6, <1>7 DEF MapInv

LEMMA ReplaceKeeps ==
    ASSUME MapInv, NEW k \in Keys, replaceMoved(k)
    PROVE  MapInv'
<1> DEFINE e == get(k)
<1>1. MapOK /\ Counted /\ Known(dict, node)
  BY DEF MapInv
<1>2. k \in DOMAIN dict /\ e = dict[k] /\ e \in DOMAIN node
  BY <1>1, GetIs DEF Known, replaceMoved
<1>3. PICK x \in Blocks \ DOMAIN node :
        /\ node' = StoreInNodes(With(Without(node, e), x, node[e]), PrevNext(e), x)
        /\ buckets' = StoreInBuckets(buckets, PrevNext(e), x)
        /\ dict' = [dict EXCEPT ![k] = x]
  BY DEF replaceMoved
<1>4. count' = count /\ tables' = tables /\ todo' = {}
  BY DEF replaceMoved, Invalidated
<1> HIDE DEF e
<1> DEFINE ch == Chains(node, buckets)
           n == bucketCount
<1>5. PICK i \in 0..(n - 1) : \E j \in 1..Len(ch[i]) : ch[i][j] = e /\ PrevNext(e) = Ptr(i, ch[i], j)
  BY <1>1, <1>2, PlaceIs
<1>6. PICK j \in 1..Len(ch[i]) : ch[i][j] = e /\ PrevNext(e) = Ptr(i, ch[i], j)
  BY <1>5
<1>7. Nodes(node) /\ n \in Nat /\ (n = 0 \/ n >= 4) /\ Threads(node, buckets, n, DOMAIN node, ch)
  BY <1>1 DEF MapOK
<1> HIDE DEF ch, n
<1>8. Swaps(node, buckets, ch, i, j, x, node', buckets')
  BY <1>3, <1>6 DEF Swaps
<1>9. Threads(node', buckets', n, DOMAIN node', [ch EXCEPT ![i] = [ch[i] EXCEPT ![j] = x]])
  BY <1>3, <1>6, <1>7, <1>8, Swap
<1>10. Replaced(node, ch[i][j], x, node')
  BY <1>3, <1>6, <1>7, <1>8, Swap
<1>11. /\ Nodes(node') /\ DOMAIN node' = (DOMAIN node \ {e}) \cup {x}
       /\ node'[x].key = node[e].key
       /\ \A y \in DOMAIN node \ {e} : node'[y].key = node[y].key
  BY <1>6, <1>10 DEF Replaced
<1>12. MapOK' /\ bucketCount' = n
  <2>1. Nodes(node')
    BY <1>11
  <2> QED
    BY <2>1, <1>7, <1>9, MapOKNext
<1>13. Counted'
  <2>1. /\ IsFiniteSet(DOMAIN node \ {e}) /\ Cardinality(DOMAIN node) \in Nat
        /\ Cardinality(DOMAIN node \ {e}) = Cardinality(DOMAIN node) - 1
    BY <1>2, <1>7, RemoveOne DEF Nodes
  <2>2. Cardinality((DOMAIN node \ {e}) \cup {x}) = Cardinality(DOMAIN node \ {e}) + 1
    BY <1>3, <2>1, FS_AddElement
  <2>3. Cardinality(DOMAIN node') = Cardinality(DOMAIN node)
    BY <1>11, <2>1, <2>2
  <2> QED
    BY <2>3, <1>1, <1>4, <1>12 DEF Counted, n
<1>14. Known(dict', node')
  <2>1. DOMAIN dict' = DOMAIN dict /\ dict'[k] = x /\ \A y \in DOMAIN dict : y # k => dict'[y] = dict[y]
    BY <1>2, <1>3
  <2>2. node[e].key = k /\ \A y \in DOMAIN dict : y # k => dict[y] # e
    BY <1>1, <1>2 DEF Known
  <2>3. ASSUME NEW y \in DOMAIN dict PROVE dict'[y] \in DOMAIN node' /\ node'[dict'[y]].key = y
    <3>1. CASE y = k
      BY <3>1, <2>1, <2>2, <1>11
    <3>2. CASE y # k
      <4>1. dict'[y] = dict[y] /\ dict[y] \in DOMAIN node \ {e} /\ node[dict[y]].key = y
        BY <3>2, <2>1, <2>2, <1>1 DEF Known
      <4> QED
        BY <4>1, <1>11
    <3> QED
      BY <3>1, <3>2
  <2>4. ASSUME NEW y \in DOMAIN node'
        PROVE  node'[y].key \in DOMAIN dict' /\ dict'[node'[y].key] = y
    <3>1. CASE y = x
      BY <3>1, <2>1, <2>2, <1>2, <1>11
    <3>2. CASE y # x
      <4>1. y \in DOMAIN node \ {e} /\ node'[y].key = node[y].key
        BY <3>2, <1>11
      <4>2. node[y].key \in DOMAIN dict /\ dict[node[y].key] = y
        BY <4>1, <1>1 DEF Known
      <4>3. node[y].key # k
        BY <4>1, <4>2, <1>2
      <4> QED
        BY <4>1, <4>2, <4>3, <2>1
    <3> QED
      BY <3>1, <3>2
  <2> QED
    BY <2>1, <2>3, <2>4, <1>1 DEF Known
<1> QED
  BY <1>4, <1>12, <1>13, <1>14 DEF MapInv

(* The elements that clear gives back are all.                             *)
LEMMA ChainedIsAll ==
    ASSUME MapOK
    PROVE  Chained = DOMAIN node
<1> DEFINE ch == Chains(node, buckets)
           n == bucketCount
<1>1. /\ DOMAIN buckets = 0..(n - 1)
      /\ \A i \in 0..(n - 1) : Chain(node, buckets[i]) = ch[i]
      /\ \A i \in 0..(n - 1) : \A j \in 1..Len(ch[i]) : ch[i][j] \in DOMAIN node
  BY MapFacts
<1>2. \A i \in 0..(n - 1) : DOMAIN ch[i] = 1..Len(ch[i])
  BY ThreadsFacts DEF MapOK
<1>3. ASSUME NEW e \in DOMAIN node
      PROVE  \E i \in 0..(n - 1) : \E j \in 1..Len(ch[i]) : ch[i][j] = e
  BY PlaceIs
<1> HIDE DEF ch, n
<1>4. \A i \in 0..(n - 1) : Elements(buckets[i]) = {ch[i][j] : j \in 1..Len(ch[i])}
  BY <1>1, <1>2 DEF Elements, ToSet
<1>5. Chained \subseteq DOMAIN node
  BY <1>1, <1>4 DEF Chained
<1>6. ASSUME NEW e \in DOMAIN node PROVE e \in Chained
  <2>1. PICK i \in 0..(n - 1) : \E j \in 1..Len(ch[i]) : ch[i][j] = e
    BY <1>3
  <2>2. e \in Elements(buckets[i])
    BY <2>1, <1>4
  <2> QED
    BY <2>1, <2>2, <1>1 DEF Chained
<1> QED
  BY <1>5, <1>6

LEMMA EmptyIsOK ==
    ASSUME buckets' = NoArray, Nodes(node'), DOMAIN node' = {}, count' = 0, tables' = 0,
           DOMAIN dict' = {}, todo' = {}
    PROVE  MapInv'
<1>1. NoArray \in [0..(0 - 1) -> Pointer] /\ 0..(0 - 1) = {}
  BY DEF NoArray
<1>2. Cardinality({}) = 0 /\ IsFiniteSet({})
  BY FS_EmptySet
<1>3. Threads(node', buckets', 0, DOMAIN node', [i \in {} |-> <<>>])
  BY <1>1 DEF Threads
<1>4. MapOK' /\ bucketCount' = 0
  BY <1>3, MapOKNext
<1>5. 0 <= 0 \div 2 + 0 \div 4
  OBVIOUS
<1> QED
  BY <1>2, <1>4, <1>5 DEF MapInv, Counted, Known

LEMMA ClearKeeps ==
    ASSUME MapInv, clear
    PROVE  MapInv'
<1>1. MapOK /\ Counted
  BY DEF MapInv
<1>2. node' = [e \in {} |-> node[e]]
  BY <1>1, ChainedIsAll DEF clear
<1>3. Nodes(node') /\ DOMAIN node' = {}
  BY <1>2, FS_EmptySet DEF Nodes
<1>4. tables = 1
  BY <1>1 DEF Counted, clear
<1>5. /\ buckets' = NoArray /\ count' = 0 /\ tables' = tables - 1
      /\ dict' = [k \in {} |-> NULL] /\ todo' = {}
  BY DEF clear, Invalidated
<1> QED
  BY <1>3, <1>4, <1>5, EmptyIsOK

-----------------------------------------------------------------------------
(* The iterator.                                                           *)

(* Steps that leave the map alone.                                         *)
LEMMA SameMap ==
    ASSUME MapInv, UNCHANGED mapVars, todo' \subseteq Keys
    PROVE  MapInv'
<1>1. /\ node' = node /\ buckets' = buckets /\ count' = count
      /\ tables' = tables /\ dict' = dict
  BY DEF mapVars
<1>2. MapOK /\ Counted /\ Known(dict, node)
  BY DEF MapInv
<1>3. MapOK' /\ bucketCount' = bucketCount
  <2>1. /\ bucketCount \in Nat /\ (bucketCount = 0 \/ bucketCount >= 4) /\ Nodes(node')
        /\ Threads(node', buckets', bucketCount, DOMAIN node', Chains(node, buckets))
    BY <1>1, <1>2 DEF MapOK
  <2> QED
    BY <2>1, MapOKNext
<1>4. Counted' /\ Known(dict', node')
  BY <1>1, <1>2, <1>3 DEF Counted
<1> QED
  BY <1>3, <1>4 DEF MapInv

(* What a cursor says.                                                     *)
LEMMA CursorFacts ==
    ASSUME MapOK, NEW x, NEW b, NEW m, Cursor(x, Chains(node, buckets), bucketCount, b, m)
    PROVE  /\ b \in Nat /\ b <= bucketCount /\ m \in Nat /\ x.bucketIndex = b
           /\ b = 0 => x.next = NULL /\ x.prevNext = NULL
           /\ b > 0 => /\ b - 1 \in 0..(bucketCount - 1)
                       /\ m <= Len(Chains(node, buckets)[b - 1])
                       /\ x.next = At(Chains(node, buckets)[b - 1], m + 1)
                       /\ x.prevNext = Ptr(b - 1, Chains(node, buckets)[b - 1], m + 1)
                       /\ x.next # NULL => /\ m + 1 \in 1..Len(Chains(node, buckets)[b - 1])
                                           /\ x.next = Chains(node, buckets)[b - 1][m + 1]
<1>1. bucketCount \in Nat
  BY DEF MapOK
<1>2. /\ b \in 0..bucketCount /\ m \in Nat /\ x.bucketIndex = b
      /\ b = 0 => x.next = NULL /\ x.prevNext = NULL
  BY DEF Cursor
<1>3. ASSUME b > 0
      PROVE  /\ b - 1 \in 0..(bucketCount - 1)
             /\ m <= Len(Chains(node, buckets)[b - 1])
             /\ x.next = At(Chains(node, buckets)[b - 1], m + 1)
             /\ x.prevNext = Ptr(b - 1, Chains(node, buckets)[b - 1], m + 1)
             /\ x.next # NULL => /\ m + 1 \in 1..Len(Chains(node, buckets)[b - 1])
                                 /\ x.next = Chains(node, buckets)[b - 1][m + 1]
  <2>1. b - 1 \in 0..(bucketCount - 1)
    BY <1>1, <1>2, <1>3
  <2>2. /\ m <= Len(Chains(node, buckets)[b - 1])
        /\ x.next = At(Chains(node, buckets)[b - 1], m + 1)
        /\ x.prevNext = Ptr(b - 1, Chains(node, buckets)[b - 1], m + 1)
    BY <1>3 DEF Cursor
  <2>3. Len(Chains(node, buckets)[b - 1]) \in Nat
    BY <2>1, ThreadsFacts DEF MapOK
  <2>4. x.next # NULL => /\ m + 1 \in 1..Len(Chains(node, buckets)[b - 1])
                         /\ x.next = Chains(node, buckets)[b - 1][m + 1]
    BY <1>2, <2>2, <2>3 DEF At
  <2> QED
    BY <2>1, <2>2, <2>4
<1> QED
  BY <1>1, <1>2, <1>3

(* A pointer that holds NULL is at the end of its chain.                   *)
LEMMA ChainEnds ==
    ASSUME MapOK, NEW i \in 0..(bucketCount - 1), NEW m \in Nat
    PROVE  /\ At(Chains(node, buckets)[i], m + 1) = NULL
                => \A j \in 1..Len(Chains(node, buckets)[i]) : ~ (j > m)
           /\ buckets[i] = At(Chains(node, buckets)[i], 1) /\ buckets[i] \in Pointer
<1> DEFINE s == Chains(node, buckets)[i]
<1>1. Linked(node, buckets[i], s) /\ buckets[i] \in Pointer /\ Nodes(node)
  BY DEF MapOK, Threads
<1> HIDE DEF s
<1>2. Len(s) \in Nat /\ \A j \in 1..Len(s) : s[j] # NULL
  BY <1>1, LinkedFacts
<1>3. ASSUME At(s, m + 1) = NULL, NEW j \in 1..Len(s), j > m PROVE FALSE
  <2>1. m + 1 <= Len(s) /\ m + 1 \in 1..Len(s)
    BY <1>2, <1>3
  <2> QED
    BY <2>1, <1>2, <1>3 DEF At
<1>4. buckets[i] = At(s, 1)
  BY <1>1 DEF Linked
<1> QED
  BY <1>1, <1>3, <1>4 DEF s

(* The loop of rmap_iterAll_next passes over empty buckets only.           *)
LEMMA SoughtIs ==
    ASSUME MapOK, IterInv, it # NULL
    PROVE  /\ Sought \in Iterator
           /\ \E b, m \in Nat :
                 /\ Cursor(Sought, Chains(node, buckets), bucketCount, b, m)
                 /\ todo = KeysAhead(node, Chains(node, buckets), bucketCount, b, m)
                 /\ Sought.next = NULL => b = bucketCount
<1> DEFINE ch == Chains(node, buckets)
           n == bucketCount
<1>1. it \in Iterator /\ n \in Nat /\ DOMAIN buckets = 0..(n - 1)
  BY MapFacts DEF IterInv, MapOK
<1>2. PICK b0 \in Nat, m0 \in Nat :
        Cursor(it, ch, n, b0, m0) /\ todo = KeysAhead(node, ch, n, b0, m0)
  BY DEF IterInv
<1>3. /\ b0 <= n /\ it.bucketIndex = b0
      /\ b0 > 0 => b0 - 1 \in 0..(n - 1) /\ it.next = At(ch[b0 - 1], m0 + 1)
      /\ b0 = 0 => it.next = NULL
  BY <1>2, CursorFacts
<1>4. \A i \in 0..(n - 1) : \A m \in Nat :
          /\ At(ch[i], m + 1) = NULL => \A j \in 1..Len(ch[i]) : ~ (j > m)
          /\ buckets[i] = At(ch[i], 1) /\ buckets[i] \in Pointer
  BY ChainEnds
<1> HIDE DEF ch, n
<1>5. CASE it.next # NULL \/ b0 >= n
  <2>1. Sought = it
    BY <1>3, <1>5 DEF Sought, n
  <2>2. it.next = NULL => b0 = n
    BY <1>3, <1>5, <1>1
  <2> QED
    BY <2>1, <2>2, <1>1, <1>2 DEF ch, n
<1>6. CASE it.next = NULL /\ ~ (b0 >= n)
  <2> DEFINE full == {i \in DOMAIN buckets : i >= it.bucketIndex /\ buckets[i] # NULL}
             i == IF full = {} THEN n - 1
                  ELSE CHOOSE m \in full : \A k \in full : m <= k
  <2>1. Sought = [it EXCEPT !.bucketIndex = i + 1, !.next = buckets[i], !.prevNext = i]
    BY <1>3, <1>6 DEF Sought, n
  <2>2. /\ i \in 0..(n - 1) /\ i >= b0 /\ (buckets[i] # NULL \/ i = n - 1)
        /\ \A x \in 0..(n - 1) : x >= b0 /\ x < i => buckets[x] = NULL
    <3>1. \A x : x \in full <=> x \in 0..(n - 1) /\ x >= b0 /\ buckets[x] # NULL
      BY <1>1, <1>3
    <3> HIDE DEF full
    <3>2. CASE full = {}
      BY <3>1, <3>2, <1>1, <1>3, <1>6
    <3>3. CASE full # {}
      <4>1. full \in SUBSET Nat
        BY <3>1, <1>1
      <4>2. \E m \in full : \A k \in full : m <= k
        BY <3>3, <4>1, LeastOf
      <4>3. i \in full /\ \A k \in full : i <= k
        BY <3>3, <4>2
      <4> HIDE DEF i
      <4>4. i \in 0..(n - 1) /\ i >= b0 /\ buckets[i] # NULL
        BY <4>3, <3>1
      <4>5. ASSUME NEW x \in 0..(n - 1), x >= b0, x < i, buckets[x] # NULL PROVE FALSE
        <5>1. x \in full
          BY <4>5, <3>1
        <5> QED
          BY <5>1, <4>3, <4>4, <4>5
      <4> QED
        BY <4>4, <4>5
    <3> QED
      BY <3>2, <3>3
  <2> HIDE DEF full, i
  <2>3. buckets[i] \in Pointer /\ buckets[i] = At(ch[i], 0 + 1)
    BY <2>2, <1>4
  <2>4. Sought \in Iterator
    <3>1. i + 1 \in Nat /\ i \in Pointer \cup Nat
      BY <2>2, <1>1
    <3> QED
      BY <2>1, <2>3, <3>1, <1>1 DEF Iterator
  <2>5. Sought.bucketIndex = i + 1 /\ Sought.next = buckets[i] /\ Sought.prevNext = i
    BY <2>1, <1>1 DEF Iterator
  <2>6. (i + 1) - 1 = i /\ i + 1 \in 0..n /\ i + 1 > 0 /\ i + 1 \in Nat /\ i + 1 # 0
    BY <2>2, <1>1
  <2>7. Cursor(Sought, ch, n, i + 1, 0)
    <3>1. Len(ch[i]) \in Nat
      BY <2>2, ThreadsFacts DEF MapOK, ch, n
    <3>2. 0 <= Len(ch[i]) /\ Ptr(i, ch[i], 0 + 1) = i
      BY <3>1 DEF Ptr
    <3> QED
      BY <2>3, <2>5, <2>6, <3>2 DEF Cursor
  <2>8. ASSUME NEW e PROVE IsAhead(e, ch, n, b0, m0) <=> IsAhead(e, ch, n, i + 1, 0)
    <3>1. ASSUME IsAhead(e, ch, n, b0, m0) PROVE IsAhead(e, ch, n, i + 1, 0)
      <4>0. PICK x \in 0..(n - 1) : \E j \in 1..Len(ch[x]) :
                ch[x][j] = e /\ (x >= b0 \/ (x = b0 - 1 /\ j > m0))
        BY <3>1 DEF IsAhead
      <4>1. PICK j \in 1..Len(ch[x]) :
                ch[x][j] = e /\ (x >= b0 \/ (x = b0 - 1 /\ j > m0))
        BY <4>0
      <4>2. CASE x >= b0
        <5>1. ~ (x < i)
          <6> SUFFICES ASSUME x < i PROVE FALSE
            OBVIOUS
          <6>1. At(ch[x], 0 + 1) = NULL
            BY <4>2, <2>2, <1>4
          <6>2. \A k \in 1..Len(ch[x]) : ~ (k > 0)
            BY <6>1, <1>4
          <6> QED
            BY <6>2
        <5>2. x >= i + 1 \/ (x = (i + 1) - 1 /\ j > 0)
          BY <5>1, <2>2
        <5> QED
          BY <4>1, <5>2 DEF IsAhead
      <4>3. CASE x = b0 - 1 /\ j > m0
        <5>1. b0 > 0
          BY <4>3, <1>2
        <5>2. At(ch[b0 - 1], m0 + 1) = NULL
          BY <5>1, <1>3, <1>6
        <5> QED
          BY <4>3, <5>1, <5>2, <1>3, <1>4
      <4> QED
        BY <4>1, <4>2, <4>3
    <3>2. ASSUME IsAhead(e, ch, n, i + 1, 0) PROVE IsAhead(e, ch, n, b0, m0)
      <4>0. PICK x \in 0..(n - 1) : \E j \in 1..Len(ch[x]) :
                ch[x][j] = e /\ (x >= i + 1 \/ (x = (i + 1) - 1 /\ j > 0))
        BY <3>2 DEF IsAhead
      <4>1. PICK j \in 1..Len(ch[x]) :
                ch[x][j] = e /\ (x >= i + 1 \/ (x = (i + 1) - 1 /\ j > 0))
        BY <4>0
      <4>2. x >= b0
        BY <4>1, <2>2, <2>6
      <4> QED
        BY <4>1, <4>2 DEF IsAhead
    <3> QED
      BY <3>1, <3>2
  <2>9. todo = KeysAhead(node, ch, n, i + 1, 0)
    BY <2>8, <1>2 DEF KeysAhead
  <2>10. Sought.next = NULL => i + 1 = n
    BY <2>2, <2>5, <1>1
  <2> QED
    BY <2>4, <2>6, <2>7, <2>9, <2>10 DEF ch, n
<1> QED
  BY <1>5, <1>6

LEMMA GetAllKeeps ==
    ASSUME MapInv, getAll
    PROVE  MapInv' /\ IterInv'
<1> DEFINE ch == Chains(node, buckets)
           n == bucketCount
<1>1. /\ MapOK /\ Known(dict, node) /\ node' = node /\ buckets' = buckets
      /\ todo' = DOMAIN dict
  BY DEF MapInv, getAll, mapVars
<1>2. MapInv'
  <2>1. todo' \subseteq Keys
    BY <1>1 DEF Known
  <2> QED
    BY <2>1, SameMap DEF getAll
<1>3. bucketCount' = n /\ n \in Nat /\ Chains(node', buckets') = ch
  BY <1>1 DEF bucketCount, MapOK
<1>4. it' = [bucketIndex |-> 0, next |-> NULL, prevNext |-> NULL, last |-> NULL,
             lastPrevNext |-> NULL]
  BY DEF getAll
<1>5. \A e \in DOMAIN node : IsAhead(e, ch, n, 0, 0)
  <2> SUFFICES ASSUME NEW e \in DOMAIN node PROVE IsAhead(e, ch, n, 0, 0)
    OBVIOUS
  <2>1. PICK i \in 0..(n - 1) : \E j \in 1..Len(ch[i]) : ch[i][j] = e
    BY <1>1, PlaceIs
  <2>2. i >= 0
    OBVIOUS
  <2> HIDE DEF ch, n
  <2> QED
    BY <2>1, <2>2 DEF IsAhead
<1> HIDE DEF ch, n
<1>6. todo' = KeysAhead(node, ch, n, 0, 0)
  <2>1. KeysAhead(node, ch, n, 0, 0) = {node[e].key : e \in DOMAIN node}
    BY <1>5 DEF KeysAhead
  <2>2. {node[e].key : e \in DOMAIN node} = DOMAIN dict
    BY <1>1 DEF Known
  <2> QED
    BY <1>1, <2>1, <2>2
<1>7. it' \in Iterator
  BY <1>4 DEF Iterator, Pointer
<1>8. Cursor(it', ch, n, 0, 0) /\ Returned(it', ch, 0, 0)
  BY <1>3, <1>4 DEF Cursor, Returned
<1>9. 0 \in Nat
  OBVIOUS
<1> QED
  BY <1>1, <1>2, <1>3, <1>6, <1>7, <1>8, <1>9 DEF IterInv

(* The element after the cursor is the only one that a step passes.        *)
LEMMA AheadStep ==
    ASSUME MapOK, Known(dict, node), NEW b \in 1..bucketCount, NEW m \in Nat,
           m + 1 \in 1..Len(Chains(node, buckets)[b - 1]),
           NEW e, e = Chains(node, buckets)[b - 1][m + 1]
    PROVE  KeysAhead(node, Chains(node, buckets), bucketCount, b, m + 1)
             = KeysAhead(node, Chains(node, buckets), bucketCount, b, m) \ {node[e].key}
<1> DEFINE ch == Chains(node, buckets)
           n == bucketCount
           A(j) == {x \in DOMAIN node : IsAhead(x, ch, n, b, j)}
<1>1. b - 1 \in 0..(n - 1) /\ n \in Nat /\ b \in Nat /\ b >= 1
  BY DEF MapOK
<1>2. /\ e \in DOMAIN node
      /\ BucketIndex(node[e].key, n) = b - 1
      /\ \A x \in 0..(n - 1) : \A j \in 1..Len(ch[x]) : BucketIndex(node[ch[x][j]].key, n) = x
      /\ \A j, k \in 1..Len(ch[b - 1]) : ch[b - 1][j] = ch[b - 1][k] => j = k
  <2>1. Threads(node, buckets, n, DOMAIN node, ch)
    BY DEF MapOK
  <2>2. Linked(node, buckets[b - 1], ch[b - 1])
    BY <1>1, <2>1 DEF Threads
  <2> HIDE DEF ch, n
  <2>3. \A x \in 0..(n - 1) : \A j \in 1..Len(ch[x]) :
            ch[x][j] \in DOMAIN node /\ BucketIndex(node[ch[x][j]].key, n) = x
    BY <2>1 DEF Threads
  <2>4. m + 1 \in 1..Len(ch[b - 1]) /\ e = ch[b - 1][m + 1]
    BY DEF ch
  <2> QED
    BY <1>1, <2>2, <2>3, <2>4 DEF Linked
<1>3. m + 1 \in 1..Len(ch[b - 1]) /\ e = ch[b - 1][m + 1]
  OBVIOUS
<1> HIDE DEF ch, n
<1>4. ASSUME NEW x, IsAhead(x, ch, n, b, m + 1) PROVE IsAhead(x, ch, n, b, m) /\ x # e
  <2>1. PICK i \in 0..(n - 1) : \E j \in 1..Len(ch[i]) :
            ch[i][j] = x /\ (i >= b \/ (i = b - 1 /\ j > m + 1))
    BY <1>4 DEF IsAhead
  <2>2. PICK j \in 1..Len(ch[i]) :
            ch[i][j] = x /\ (i >= b \/ (i = b - 1 /\ j > m + 1))
    BY <2>1
  <2>3. i >= b \/ (i = b - 1 /\ j > m)
    BY <2>2
  <2>4. x # e
    <3>1. CASE i >= b
      <4>1. i # b - 1
        BY <3>1, <1>1
      <4> QED
        BY <4>1, <2>2, <1>2
    <3>2. CASE i = b - 1 /\ j > m + 1
      BY <3>2, <2>2, <1>2, <1>3
    <3> QED
      BY <2>2, <3>1, <3>2
  <2> QED
    BY <2>2, <2>3, <2>4 DEF IsAhead
<1>5. ASSUME NEW x, IsAhead(x, ch, n, b, m), x # e PROVE IsAhead(x, ch, n, b, m + 1)
  <2>1. PICK i \in 0..(n - 1) : \E j \in 1..Len(ch[i]) :
            ch[i][j] = x /\ (i >= b \/ (i = b - 1 /\ j > m))
    BY <1>5 DEF IsAhead
  <2>2. PICK j \in 1..Len(ch[i]) : ch[i][j] = x /\ (i >= b \/ (i = b - 1 /\ j > m))
    BY <2>1
  <2>3. i >= b \/ (i = b - 1 /\ j > m + 1)
    <3>1. i = b - 1 => j # m + 1
      BY <2>2, <1>3, <1>5
    <3> QED
      BY <2>2, <3>1
  <2> QED
    BY <2>2, <2>3 DEF IsAhead
<1>6. IsAhead(e, ch, n, b, m)
  <2>1. m + 1 > m
    OBVIOUS
  <2> QED
    BY <2>1, <1>1, <1>3 DEF IsAhead
<1>7. A(m + 1) = A(m) \ {e} /\ e \in A(m)
  BY <1>2, <1>4, <1>5, <1>6
<1>8. \A x, y \in DOMAIN node : node[x].key = node[y].key => x = y
  BY DEF Known
<1> DEFINE B == A(m + 1)
           C == A(m)
<1>9. B = C \ {e} /\ e \in C /\ C \subseteq DOMAIN node
  BY <1>7
<1> HIDE DEF B, C
<1>10. {node[x].key : x \in B} = {node[x].key : x \in C} \ {node[e].key}
  BY <1>8, <1>9
<1> QED
  BY <1>10 DEF KeysAhead, B, C, ch, n

LEMMA IterNextKeeps ==
    ASSUME MapInv, IterInv, iterAll_next
    PROVE  MapInv' /\ IterInv'
<1> DEFINE ch == Chains(node, buckets)
           n == bucketCount
           S == Sought
           e == Sought.next
<1>1. /\ MapOK /\ Known(dict, node) /\ todo \subseteq Keys
      /\ it # NULL /\ e # NULL /\ node' = node /\ buckets' = buckets
      /\ todo' = todo \ {node[e].key}
      /\ it' = [S EXCEPT !.next = node[e].next, !.prevNext = e, !.last = e,
                         !.lastPrevNext = S.prevNext]
  BY DEF MapInv, iterAll_next, mapVars
<1>2. MapInv'
  <2>1. todo' \subseteq Keys
    BY <1>1
  <2> QED
    BY <2>1, SameMap DEF iterAll_next
<1>3. bucketCount' = n /\ n \in Nat /\ Chains(node', buckets') = ch
  BY <1>1 DEF bucketCount, MapOK
<1>4. S \in Iterator
  BY <1>1, SoughtIs
<1>5. PICK b \in Nat, m \in Nat : Cursor(S, ch, n, b, m) /\ todo = KeysAhead(node, ch, n, b, m)
  BY <1>1, SoughtIs
<1>6. /\ b # 0 /\ b <= n /\ b > 0
      /\ b - 1 \in 0..(n - 1) /\ m + 1 \in 1..Len(ch[b - 1]) /\ e = ch[b - 1][m + 1]
      /\ S.prevNext = Ptr(b - 1, ch[b - 1], m + 1)
      /\ S.bucketIndex = b
  BY <1>1, <1>5, CursorFacts
<1>7. b \in 1..n
  BY <1>3, <1>6
<1>8. KeysAhead(node, ch, n, b, m + 1) = KeysAhead(node, ch, n, b, m) \ {node[e].key}
  BY <1>1, <1>6, <1>7, AheadStep
<1>9. e \in DOMAIN node /\ e \in Blocks /\ node[e].next \in Pointer
      /\ node[e].next = At(ch[b - 1], (m + 1) + 1)
  <2>1. Threads(node, buckets, n, DOMAIN node, ch) /\ Nodes(node)
    BY <1>1 DEF MapOK
  <2>2. Linked(node, buckets[b - 1], ch[b - 1])
    BY <1>6, <2>1 DEF Threads
  <2>3. e \in DOMAIN node
    BY <1>6, <2>1 DEF Threads
  <2>4. e \in Blocks /\ node[e].next \in Pointer
    BY <2>1, <2>3 DEF Nodes, Elem
  <2>5. node[ch[b - 1][m + 1]].next = At(ch[b - 1], (m + 1) + 1)
    BY <1>6, <2>2 DEF Linked
  <2> QED
    BY <1>6, <2>3, <2>4, <2>5
<1> HIDE DEF ch, n, S, e
<1>10. it' \in Iterator
  <2>1. e \in Pointer /\ e \in Pointer \cup Nat /\ S.prevNext \in Pointer \cup Nat
    BY <1>4, <1>9 DEF Pointer, Iterator
  <2> QED
    BY <1>1, <1>4, <1>9, <2>1 DEF Iterator
<1>11. /\ it'.bucketIndex = b /\ it'.next = node[e].next /\ it'.prevNext = e
       /\ it'.last = e /\ it'.lastPrevNext = S.prevNext
  BY <1>1, <1>4, <1>6 DEF Iterator
<1>12. m + 1 \in Nat /\ m + 1 > 0 /\ m + 1 <= Len(ch[b - 1]) /\ (m + 1) + 1 # 1
       /\ ((m + 1) + 1) - 1 = m + 1
  <2>1. Len(ch[b - 1]) \in Nat
    BY <1>1, <1>6, ThreadsFacts DEF MapOK, ch, n
  <2> QED
    BY <1>6, <2>1
<1>13. Cursor(it', ch, n, b, m + 1)
  <2>1. Ptr(b - 1, ch[b - 1], (m + 1) + 1) = e
    BY <1>6, <1>12 DEF Ptr
  <2>2. b \in 0..n
    BY <1>3, <1>7
  <2> QED
    BY <1>6, <1>9, <1>11, <1>12, <2>1, <2>2 DEF Cursor
<1>14. Returned(it', ch, b, m + 1)
  BY <1>6, <1>11, <1>12 DEF Returned
<1>15. todo' = KeysAhead(node', ch, n, b, m + 1)
  BY <1>1, <1>5, <1>8
<1> QED
  BY <1>2, <1>3, <1>10, <1>12, <1>13, <1>14, <1>15 DEF IterInv

(* Nothing comes after the end.                                            *)
LEMMA IterEndFacts ==
    ASSUME MapInv, IterInv, iterAll_end
    PROVE  todo = {}
<1> DEFINE ch == Chains(node, buckets)
           n == bucketCount
<1>1. MapOK /\ it # NULL /\ Sought.next = NULL /\ n \in Nat
  BY DEF MapInv, iterAll_end, MapOK
<1>2. PICK b \in Nat, m \in Nat :
        Cursor(Sought, ch, n, b, m) /\ todo = KeysAhead(node, ch, n, b, m) /\ b = n
  BY <1>1, SoughtIs
<1>3. ASSUME b > 0 PROVE b - 1 \in 0..(n - 1) /\ At(ch[b - 1], m + 1) = NULL
  BY <1>1, <1>2, <1>3, CursorFacts
<1>4. b > 0 => \A j \in 1..Len(ch[b - 1]) : ~ (j > m)
  <2> SUFFICES ASSUME b > 0 PROVE \A j \in 1..Len(ch[b - 1]) : ~ (j > m)
    OBVIOUS
  <2>1. b - 1 \in 0..(n - 1) /\ At(ch[b - 1], m + 1) = NULL
    BY <1>3
  <2> QED
    BY <2>1, <1>1, <1>2, ChainEnds
<1> HIDE DEF ch, n
<1>5. ASSUME NEW x PROVE ~ IsAhead(x, ch, n, b, m)
  <2> SUFFICES ASSUME IsAhead(x, ch, n, b, m) PROVE FALSE
    OBVIOUS
  <2>1. PICK i \in 0..(n - 1) : \E j \in 1..Len(ch[i]) : i >= b \/ (i = b - 1 /\ j > m)
    BY DEF IsAhead
  <2>2. ~ (i >= b)
    BY <1>1, <1>2
  <2>3. PICK j \in 1..Len(ch[i]) : i = b - 1 /\ j > m
    BY <2>1, <2>2
  <2>4. b > 0
    BY <2>3, <1>2
  <2> QED
    BY <2>3, <2>4, <1>4
<1> QED
  BY <1>2, <1>5 DEF KeysAhead

LEMMA IterEndKeeps ==
    ASSUME MapInv, IterInv, iterAll_end
    PROVE  MapInv' /\ IterInv'
<1> DEFINE ch == Chains(node, buckets)
           n == bucketCount
           S == Sought
<1>1. /\ MapOK /\ todo \subseteq Keys /\ it # NULL /\ node' = node /\ buckets' = buckets
      /\ todo' = todo /\ it' = [S EXCEPT !.last = NULL, !.lastPrevNext = NULL]
  BY DEF MapInv, iterAll_end, mapVars
<1>2. MapInv'
  BY <1>1, SameMap DEF iterAll_end
<1>3. bucketCount' = n /\ Chains(node', buckets') = ch
  BY <1>1 DEF bucketCount
<1>4. S \in Iterator
  BY <1>1, SoughtIs
<1>5. PICK b \in Nat, m \in Nat : Cursor(S, ch, n, b, m) /\ todo = KeysAhead(node, ch, n, b, m)
  BY <1>1, SoughtIs
<1> HIDE DEF ch, n, S
<1>6. NULL \in Pointer /\ NULL \in Pointer \cup Nat
  BY DEF Pointer
<1>7. it' \in Iterator
  BY <1>1, <1>4, <1>6 DEF Iterator
<1>8. /\ it'.bucketIndex = S.bucketIndex /\ it'.next = S.next /\ it'.prevNext = S.prevNext
      /\ it'.last = NULL
  BY <1>1, <1>4 DEF Iterator
<1>9. Cursor(it', ch, n, b, m) /\ Returned(it', ch, b, m)
  BY <1>5, <1>8 DEF Cursor, Returned
<1> QED
  BY <1>1, <1>2, <1>3, <1>5, <1>7, <1>9 DEF IterInv

LEMMA IterRemoveKeeps ==
    ASSUME MapInv, IterInv, iterAll_removeElem
    PROVE  MapInv' /\ IterInv'
<1> DEFINE ch == Chains(node, buckets)
           n == bucketCount
           e == it.last
           pp == it.lastPrevNext
           c2 == Chains(node', buckets')
<1>1. /\ MapOK /\ Counted /\ Known(dict, node) /\ todo \subseteq Keys /\ n \in Nat
      /\ it # NULL /\ e # NULL /\ it \in Iterator
      /\ node' = Without(StoreInNodes(node, pp, node[e].next), e)
      /\ buckets' = StoreInBuckets(buckets, pp, node[e].next)
      /\ dict' = Without(dict, node[e].key)
      /\ count' = count - 1 /\ tables' = tables /\ todo' = todo
      /\ it' = [it EXCEPT !.prevNext = pp, !.last = NULL, !.lastPrevNext = NULL]
  BY DEF MapInv, MapOK, IterInv, iterAll_removeElem
<1>2. PICK b \in Nat, m \in Nat :
        Cursor(it, ch, n, b, m) /\ Returned(it, ch, b, m) /\ todo = KeysAhead(node, ch, n, b, m)
  BY <1>1 DEF IterInv
<1>3. b > 0 /\ m > 0 /\ e = ch[b - 1][m] /\ pp = Ptr(b - 1, ch[b - 1], m)
  BY <1>1, <1>2 DEF Returned
<1>4. /\ b - 1 \in 0..(n - 1) /\ m <= Len(ch[b - 1]) /\ it.bucketIndex = b
      /\ it.next = At(ch[b - 1], m + 1)
  BY <1>1, <1>2, <1>3, CursorFacts
<1>5. ch[b - 1] \in Seq(DOMAIN node) /\ Len(ch[b - 1]) \in Nat
  BY <1>1, <1>4, ThreadsFacts DEF MapOK
<1>6. m \in 1..Len(ch[b - 1])
  BY <1>3, <1>4, <1>5
<1>7. e \in DOMAIN node
  BY <1>3, <1>5, <1>6, ElementOfSeq
<1>8. /\ MapOK' /\ bucketCount' = n
      /\ DOMAIN node' = DOMAIN node \ {e}
      /\ \A x \in DOMAIN node \ {e} : node'[x].key = node[x].key
      /\ c2 = [ch EXCEPT ![b - 1] = Cut(ch[b - 1], m)]
  <2> DEFINE i == b - 1
  <2>1. i \in 0..(bucketCount - 1) /\ m \in 1..Len(Chains(node, buckets)[i])
        /\ e = Chains(node, buckets)[i][m] /\ pp = Ptr(i, Chains(node, buckets)[i], m)
    BY <1>3, <1>4, <1>6
  <2> HIDE DEF i, e, pp
  <2>2. /\ MapOK' /\ bucketCount' = bucketCount
        /\ DOMAIN node' = DOMAIN node \ {e}
        /\ \A x \in DOMAIN node \ {e} : node'[x].key = node[x].key
        /\ c2 = [ch EXCEPT ![i] = Cut(ch[i], m)]
    BY <2>1, <1>1, UnlinkKeeps
  <2> QED
    BY <2>2 DEF i
<1> DEFINE k == node[e].key
<1>9. k \in DOMAIN dict /\ dict[k] = e
  BY <1>1, <1>7 DEF Known
<1> HIDE DEF ch, n, e, pp, c2, k
<1>10. Counted' /\ Known(dict', node')
  <2>1. dict' = Without(dict, k)
    BY <1>1 DEF k
  <2>2. bucketCount' = bucketCount
    BY <1>8 DEF n
  <2>3. MapInv
    OBVIOUS
  <2> QED
    BY <2>1, <2>2, <2>3, <1>1, <1>8, <1>9, Forgets
<1>11. MapInv'
  BY <1>1, <1>8, <1>10 DEF MapInv
<1> DEFINE s == ch[b - 1]
           t == Cut(s, m)
<1>12. DOMAIN ch = 0..(n - 1)
  BY <1>1, MapFacts DEF ch, n
<1>13. c2[b - 1] = t /\ \A x \in 0..(n - 1) : x # b - 1 => c2[x] = ch[x]
  BY <1>4, <1>8, <1>12
<1>14. /\ Len(t) = Len(s) - 1
       /\ \A j \in 1..(Len(s) - 1) : t[j] = IF j < m THEN s[j] ELSE s[j + 1]
       /\ \A j \in 1..Len(s) : At(t, j) = IF j < m THEN s[j] ELSE At(s, j + 1)
  BY <1>5, <1>6, CutIs
<1> HIDE DEF t, s
<1>15. m \in 1..Len(s) /\ Len(s) \in Nat /\ e = s[m] /\ it.next = At(s, m + 1)
  BY <1>3, <1>4, <1>5, <1>6 DEF s
<1>16. it' \in Iterator
  <2>1. NULL \in Pointer /\ NULL \in Pointer \cup Nat /\ pp \in Pointer \cup Nat
    BY <1>1 DEF Pointer, Iterator, pp
  <2> QED
    BY <2>1, <1>1 DEF Iterator
<1>17. /\ it'.bucketIndex = b /\ it'.next = At(s, m + 1) /\ it'.prevNext = pp /\ it'.last = NULL
  BY <1>1, <1>4, <1>15 DEF Iterator
<1>18. m - 1 \in Nat /\ (m - 1) + 1 = m /\ m - 1 <= Len(t)
  BY <1>14, <1>15
<1>19. Cursor(it', c2, n, b, m - 1) /\ Returned(it', c2, b, m - 1)
  <2>1. At(t, m) = At(s, m + 1)
    BY <1>14, <1>15
  <2>2. Ptr(b - 1, t, m) = pp
    <3>1. CASE m = 1
      BY <3>1, <1>3 DEF Ptr
    <3>2. CASE m # 1
      <4>1. m - 1 \in 1..(Len(s) - 1) /\ m - 1 < m
        BY <3>2, <1>15
      <4>2. t[m - 1] = s[m - 1]
        BY <4>1, <1>14
      <4> QED
        BY <3>2, <4>2, <1>3 DEF Ptr, s
    <3> QED
      BY <3>1, <3>2
  <2>3. b \in 0..n /\ b # 0
    BY <1>1, <1>3, <1>4
  <2> QED
    BY <2>1, <2>2, <2>3, <1>3, <1>13, <1>17, <1>18 DEF Cursor, Returned
<1>20. ASSUME NEW x PROVE IsAhead(x, c2, n, b, m - 1) <=> IsAhead(x, ch, n, b, m)
  <2>1. ASSUME IsAhead(x, ch, n, b, m) PROVE IsAhead(x, c2, n, b, m - 1)
    <3>1. PICK i \in 0..(n - 1) : \E j \in 1..Len(ch[i]) :
              ch[i][j] = x /\ (i >= b \/ (i = b - 1 /\ j > m))
      BY <2>1 DEF IsAhead
    <3>2. PICK j \in 1..Len(ch[i]) : ch[i][j] = x /\ (i >= b \/ (i = b - 1 /\ j > m))
      BY <3>1
    <3>3. CASE i >= b
      <4>1. i # b - 1
        BY <3>3
      <4> QED
        BY <3>2, <3>3, <4>1, <1>13 DEF IsAhead
    <3>4. CASE i = b - 1 /\ j > m
      <4>1. j - 1 \in 1..Len(t) /\ j - 1 \in 1..(Len(s) - 1) /\ ~ (j - 1 < m)
            /\ (j - 1) + 1 = j /\ j - 1 > m - 1
        BY <3>4, <1>14, <1>15 DEF s
      <4>2. t[j - 1] = x
        BY <3>2, <3>4, <4>1, <1>14 DEF s
      <4> QED
        BY <3>4, <4>1, <4>2, <1>4, <1>13 DEF IsAhead
    <3> QED
      BY <3>2, <3>3, <3>4
  <2>2. ASSUME IsAhead(x, c2, n, b, m - 1) PROVE IsAhead(x, ch, n, b, m)
    <3>1. PICK i \in 0..(n - 1) : \E j \in 1..Len(c2[i]) :
              c2[i][j] = x /\ (i >= b \/ (i = b - 1 /\ j > m - 1))
      BY <2>2 DEF IsAhead
    <3>2. PICK j \in 1..Len(c2[i]) : c2[i][j] = x /\ (i >= b \/ (i = b - 1 /\ j > m - 1))
      BY <3>1
    <3>3. CASE i >= b
      <4>1. i # b - 1
        BY <3>3
      <4> QED
        BY <3>2, <3>3, <4>1, <1>13 DEF IsAhead
    <3>4. CASE i = b - 1 /\ j > m - 1
      <4>1. j \in 1..(Len(s) - 1) /\ ~ (j < m) /\ t[j] = x
        BY <3>2, <3>4, <1>13, <1>14, <1>15
      <4>2. j + 1 \in 1..Len(s) /\ j + 1 > m /\ s[j + 1] = x
        BY <4>1, <1>14, <1>15
      <4> QED
        BY <4>2, <1>4 DEF IsAhead, s
    <3> QED
      BY <3>2, <3>3, <3>4
  <2> QED
    BY <2>1, <2>2
<1>21. ~ IsAhead(e, c2, n, b, m - 1)
  <2> SUFFICES ASSUME IsAhead(e, c2, n, b, m - 1) PROVE FALSE
    OBVIOUS
  <2>1. PICK i \in 0..(n - 1) : \E j \in 1..Len(c2[i]) : c2[i][j] = e
    BY DEF IsAhead
  <2>2. Threads(node', buckets', n, DOMAIN node', c2)
    BY <1>8 DEF MapOK, c2
  <2>3. e \in DOMAIN node'
    BY <2>1, <2>2 DEF Threads
  <2> QED
    BY <2>3, <1>8
<1>22. todo' = KeysAhead(node', c2, n, b, m - 1)
  <2> DEFINE A == {x \in DOMAIN node : IsAhead(x, ch, n, b, m)}
             B == {x \in DOMAIN node' : IsAhead(x, c2, n, b, m - 1)}
  <2>1. A = B /\ A \subseteq DOMAIN node \ {e}
    BY <1>8, <1>20, <1>21
  <2> HIDE DEF A, B
  <2>2. {node'[x].key : x \in B} = {node[x].key : x \in A}
    BY <2>1, <1>8
  <2> QED
    BY <2>2, <1>1, <1>2 DEF KeysAhead, A, B
<1>23. it' # NULL => \E b1, m1 \in Nat : /\ Cursor(it', c2, n, b1, m1)
                                         /\ Returned(it', c2, b1, m1)
                                         /\ todo' = KeysAhead(node', c2, n, b1, m1)
  BY <1>18, <1>19, <1>22
<1> QED
  BY <1>8, <1>11, <1>16, <1>23 DEF IterInv, c2

-----------------------------------------------------------------------------
(* Both invariants hold at the start and are kept by every step.           *)
LEMMA InitMap ==
    ASSUME Init
    PROVE  MapInv /\ IterInv
<1>1. NoArray \in [0..(0 - 1) -> Pointer] /\ 0..(0 - 1) = {}
  BY DEF NoArray
<1>2. Cardinality({}) = 0 /\ IsFiniteSet({})
  BY FS_EmptySet
<1>3. /\ buckets = NoArray /\ DOMAIN node = {} /\ Nodes(node) /\ count = 0 /\ tables = 0
      /\ it = NULL /\ DOMAIN dict = {} /\ todo = {}
  BY <1>2 DEF Init, Nodes
<1>4. bucketCount = 0
  BY <1>1, <1>3, CountIs DEF bucketCount
<1>5. Threads(node, buckets, 0, DOMAIN node, Chains(node, buckets))
  <2>1. Threads(node, buckets, 0, DOMAIN node, [i \in {} |-> <<>>])
    BY <1>1, <1>3 DEF Threads
  <2> QED
    BY <2>1, <1>3, TheChains
<1>6. 0 <= 0 \div 2 + 0 \div 4
  OBVIOUS
<1> QED
  BY <1>2, <1>3, <1>4, <1>5, <1>6 DEF MapInv, MapOK, Counted, Known, IterInv

LEMMA NextKeeps ==
    ASSUME MapInv, IterInv, [Next]_vars
    PROVE  MapInv' /\ IterInv'
<1>1. ASSUME Invalidated PROVE IterInv'
  BY <1>1 DEF Invalidated, IterInv
<1>2. ASSUME NEW k \in Keys, get(k) = NULL, add(k) PROVE MapInv' /\ IterInv'
  <2>1. CASE addElem(k)
    BY <2>1, <1>1, <1>2, AddKeeps DEF add
  <2>2. CASE addElemRefused
    BY <2>2, <1>1, <1>2, AddRefusedKeeps DEF add
  <2> QED
    BY <2>1, <2>2, <1>2 DEF add
<1>3. ASSUME NEW k \in Keys, set(k) PROVE MapInv' /\ IterInv'
  <2>1. CASE replaceMoved(k)
    BY <2>1, <1>1, ReplaceKeeps DEF replaceMoved
  <2>2. CASE get(k) = NULL /\ add(k)
    BY <2>2, <1>2
  <2> QED
    BY <2>1, <2>2, <1>3 DEF set
<1>4. ASSUME NEW k \in Keys, getOrAdd(k) PROVE MapInv' /\ IterInv'
  BY <1>4, <1>2 DEF getOrAdd
<1>5. ASSUME NEW k \in Keys, remove(k) PROVE MapInv' /\ IterInv'
  BY <1>5, <1>1, RemoveKeeps DEF remove
<1>6. CASE Unchanged
  BY <1>6, <1>1, SameMap DEF Unchanged, Invalidated
<1>7. CASE clear
  BY <1>7, <1>1, ClearKeeps DEF clear
<1>8. CASE getAll
  BY <1>8, GetAllKeeps
<1>9. CASE iterAll_next
  BY <1>9, IterNextKeeps
<1>10. CASE iterAll_end
  BY <1>10, IterEndKeeps
<1>11. CASE iterAll_removeElem
  BY <1>11, IterRemoveKeeps
<1>12. CASE UNCHANGED vars
  <2>1. UNCHANGED mapVars /\ it' = it /\ todo' = todo
    BY <1>12 DEF vars, mapVars
  <2>2. MapInv'
    BY <2>1, SameMap DEF MapInv
  <2>3. node' = node /\ bucketCount' = bucketCount /\ Chains(node', buckets') = Chains(node, buckets)
    BY <2>1 DEF mapVars, bucketCount
  <2> QED
    BY <2>1, <2>2, <2>3 DEF IterInv
<1> QED
  BY <1>3, <1>4, <1>5, <1>6, <1>7, <1>8, <1>9, <1>10, <1>11, <1>12 DEF Next

(* The map is always a table of sound chains with room for its elements,   *)
(* and its client's dictionary is the inverse of the keys they hold.       *)
THEOREM MapInvHolds == Spec => [](MapInv /\ IterInv)
<1>1. Init => MapInv /\ IterInv
  BY InitMap
<1>2. (MapInv /\ IterInv) /\ [Next]_vars => (MapInv /\ IterInv)'
  BY NextKeeps
<1> QED
  BY <1>1, <1>2, PTL DEF Spec

(* rmap never follows a pointer to an element that it has given back: all  *)
(* its pointers are to elements in use, or NULL, after any history.        *)
THEOREM TypeOKHolds == Spec => []TypeOK
<1>1. ASSUME MapInv PROVE TypeOK
  <2>1. MapOK /\ Counted /\ Known(dict, node) /\ todo \subseteq Keys
    BY <1>1 DEF MapInv
  <2> DEFINE D == DOMAIN node
  <2>2. Nodes(node) /\ Threads(node, buckets, bucketCount, D, Chains(node, buckets))
        /\ bucketCount \in Nat
    BY <2>1 DEF MapOK
  <2>3. D \subseteq Blocks /\ \A e \in D : node[e].key \in Keys
    BY <2>2 DEF Nodes, Elem
  <2>4. ASSUME NEW s, NEW p, Linked(node, p, s)
        PROVE  /\ p \in D \cup {NULL}
               /\ \A j \in 1..Len(s) : node[s[j]].next \in D \cup {NULL}
    <3>1. Len(s) \in Nat /\ \A j \in 1..Len(s) : s[j] \in D
      BY <2>2, <2>4, LinkedFacts
    <3>2. \A j \in Nat \ {0} : At(s, j) \in D \cup {NULL}
      BY <3>1 DEF At
    <3>3. 1 \in Nat \ {0} /\ \A j \in 1..Len(s) : j + 1 \in Nat \ {0}
      BY <3>1
    <3> QED
      BY <3>2, <3>3, <2>4 DEF Linked
  <2>5. ASSUME NEW e \in D PROVE node[e].next \in D \cup {NULL}
    <3>1. PICK i \in 0..(bucketCount - 1) : \E j \in 1..Len(Chains(node, buckets)[i]) :
              Chains(node, buckets)[i][j] = e
      BY <2>1, PlaceIs
    <3>2. Linked(node, buckets[i], Chains(node, buckets)[i])
      BY <3>1, <2>2 DEF Threads
    <3> QED
      BY <3>1, <3>2, <2>4
  <2>6. DOMAIN buckets = 0..(bucketCount - 1)
    BY <2>2 DEF Threads
  <2>7. ASSUME NEW i \in DOMAIN buckets PROVE buckets[i] \in D \cup {NULL}
    <3>1. Linked(node, buckets[i], Chains(node, buckets)[i])
      BY <2>2, <2>6 DEF Threads
    <3> QED
      BY <3>1, <2>4
  <2>8. count \in Nat /\ tables \in Nat
    BY <2>1, <2>2, FS_CardinalityType DEF Counted, Nodes
  <2> QED
    BY <2>1, <2>2, <2>3, <2>5, <2>6, <2>7, <2>8 DEF TypeOK, Known
<1> QED
  BY <1>1, MapInvHolds, PTL

(* rmap_get always finds the element that the map gave the client for a    *)
(* key, and nothing for a key that was not set or was removed.             *)
THEOREM LookupsAgreeHolds == Spec => []LookupsAgree
<1>1. ASSUME MapInv PROVE LookupsAgree
  BY <1>1, GetIs DEF MapInv, LookupsAgree
<1> QED
  BY <1>1, MapInvHolds, PTL

(* Each element is in the chain of its own bucket, once, all are counted,  *)
(* and the array is never over three quarters full.                        *)
THEOREM ChainsOKHolds == Spec => []ChainsOK
<1>1. ASSUME MapInv PROVE ChainsOK
  <2> DEFINE ch == Chains(node, buckets)
             n == bucketCount
  <2>1. MapOK /\ Counted
    BY <1>1 DEF MapInv
  <2>2. ASSUME NEW i \in DOMAIN buckets
        PROVE  /\ IsInjective(Chain(node, buckets[i]))
               /\ \A e \in Elements(buckets[i]) : BucketIndex(node[e].key, n) = i
    <3>1. i \in 0..(n - 1)
      BY <2>1, MapFacts
    <3>2. Chain(node, buckets[i]) = ch[i]
      BY <2>1, <3>1, MapFacts
    <3>3. Linked(node, buckets[i], ch[i]) /\ Nodes(node)
          /\ \A j \in 1..Len(ch[i]) : BucketIndex(node[ch[i][j]].key, n) = i
      BY <2>1, <3>1 DEF MapOK, Threads
    <3> HIDE DEF ch, n
    <3>4. DOMAIN ch[i] = 1..Len(ch[i])
      BY <3>3, LinkedFacts
    <3> QED
      BY <3>2, <3>3, <3>4 DEF Linked, IsInjective, Elements, ToSet
  <2>3. count = Cardinality(Chained)
    BY <2>1, ChainedIsAll DEF Counted
  <2> QED
    BY <2>1, <2>2, <2>3 DEF ChainsOK, Counted
<1> QED
  BY <1>1, MapInvHolds, PTL

(* What the map has borrowed is one element for each key of the client and *)
(* one bucket array: nothing leaks, whichever allocations are refused.     *)
THEOREM BlocksLentHolds == Spec => []BlocksLent
<1>1. ASSUME MapInv PROVE BlocksLent
  <2>1. Known(dict, node) /\ IsFiniteSet(DOMAIN node) /\ Counted
    BY <1>1 DEF MapInv, MapOK, Nodes
  <2>2. DOMAIN node = {dict[k] : k \in DOMAIN dict}
    BY <2>1 DEF Known
  <2> DEFINE g == [e \in DOMAIN node |-> node[e].key]
  <2>3. g \in Bijection(DOMAIN node, DOMAIN dict)
    <3>1. g \in [DOMAIN node -> DOMAIN dict]
      BY <2>1 DEF Known
    <3>2. \A a, b \in DOMAIN node : g[a] = g[b] => a = b
      BY <2>1 DEF Known
    <3>3. \A k \in DOMAIN dict : \E e \in DOMAIN node : g[e] = k
      BY <2>1 DEF Known
    <3> HIDE DEF g
    <3> QED
      BY <3>1, <3>2, <3>3 DEF Bijection, Injection, Surjection, IsInjective
  <2>4. Cardinality(DOMAIN node) = Cardinality(DOMAIN dict)
    BY <2>1, <2>3, FS_Bijection DEF ExistsBijection
  <2> QED
    BY <2>1, <2>2, <2>4 DEF BlocksLent, Counted
<1> QED
  BY <1>1, MapInvHolds, PTL

-----------------------------------------------------------------------------
(* What the iterator has still to return.                                  *)

(* The elements from a pointer into the middle of a chain.                 *)
LEMMA RestIs ==
    ASSUME NEW nd, Nodes(nd), NEW p, NEW s, Linked(nd, p, s), NEW m \in 0..Len(s)
    PROVE  Linked(nd, At(s, m + 1), [j \in 1..(Len(s) - m) |-> s[m + j]])
<1> DEFINE t == [j \in 1..(Len(s) - m) |-> s[m + j]]
<1>1. Len(s) \in Nat /\ \A j \in 1..Len(s) : s[j] \in DOMAIN nd
  BY LinkedFacts
<1>2. \A j \in 1..(Len(s) - m) : m + j \in 1..Len(s) /\ t[j] = s[m + j]
  BY <1>1
<1>3. t \in Seq(DOMAIN nd) /\ Len(t) = Len(s) - m
  <2>1. Len(s) - m \in Nat
    BY <1>1
  <2>2. t \in [1..(Len(s) - m) -> DOMAIN nd]
    BY <1>1, <1>2
  <2> HIDE DEF t
  <2> QED
    BY <2>1, <2>2, LenProperties, SeqDef
<1> HIDE DEF t
<1>4. ASSUME NEW i \in 1..Len(t), NEW j \in 1..Len(t), t[i] = t[j] PROVE i = j
  <2>1. m + i \in 1..Len(s) /\ m + j \in 1..Len(s) /\ s[m + i] = s[m + j]
    BY <1>2, <1>3, <1>4
  <2>2. m + i = m + j
    BY <2>1 DEF Linked
  <2> QED
    BY <2>2, <1>1
<1>5. \A j \in 1..(Len(t) + 1) : At(t, j) = At(s, m + j)
  <2> SUFFICES ASSUME NEW j \in 1..(Len(t) + 1) PROVE At(t, j) = At(s, m + j)
    OBVIOUS
  <2>1. CASE j <= Len(t)
    <3>1. j \in 1..(Len(s) - m) /\ m + j <= Len(s)
      BY <2>1, <1>1, <1>3
    <3> QED
      BY <2>1, <3>1, <1>2 DEF At
  <2>2. CASE ~ (j <= Len(t))
    <3>1. ~ (m + j <= Len(s))
      BY <2>2, <1>1, <1>3
    <3> QED
      BY <2>2, <3>1 DEF At
  <2> QED
    BY <2>1, <2>2
<1>6. 1 \in 1..(Len(t) + 1) /\ \A j \in 1..Len(t) : /\ j + 1 \in 1..(Len(t) + 1)
                                                   /\ m + (j + 1) = (m + j) + 1
                                                   /\ j \in 1..(Len(s) - m)
  BY <1>1, <1>3
<1>7. \A j \in 1..Len(t) : nd[t[j]].next = At(t, j + 1)
  <2> SUFFICES ASSUME NEW j \in 1..Len(t) PROVE nd[t[j]].next = At(t, j + 1)
    OBVIOUS
  <2>1. t[j] = s[m + j] /\ m + j \in 1..Len(s)
    BY <1>2, <1>6
  <2>2. nd[s[m + j]].next = At(s, (m + j) + 1)
    BY <2>1 DEF Linked
  <2>3. At(t, j + 1) = At(s, m + (j + 1))
    BY <1>5, <1>6
  <2>4. m + (j + 1) = (m + j) + 1
    BY <1>6
  <2> QED
    BY <2>1, <2>2, <2>3, <2>4
<1>8. At(s, m + 1) = At(t, 1)
  BY <1>5, <1>6
<1>9. Linked(nd, At(s, m + 1), t)
  BY <1>3, <1>4, <1>7, <1>8 DEF Linked
<1> QED
  BY <1>9 DEF t

LEMMA AheadIs ==
    ASSUME MapOK, NEW b \in Nat, NEW m \in Nat,
           Cursor(it, Chains(node, buckets), bucketCount, b, m)
    PROVE  Ahead = {x \in DOMAIN node : IsAhead(x, Chains(node, buckets), bucketCount, b, m)}
<1> DEFINE ch == Chains(node, buckets)
           n == bucketCount
<1>1. n \in Nat /\ Nodes(node) /\ DOMAIN buckets = 0..(n - 1)
  BY MapFacts DEF MapOK
<1>2. \A i \in 0..(n - 1) : /\ Chain(node, buckets[i]) = ch[i]
                            /\ \A j \in 1..Len(ch[i]) : ch[i][j] \in DOMAIN node
  BY MapFacts
<1>3. \A i \in 0..(n - 1) : Linked(node, buckets[i], ch[i])
  BY DEF MapOK, Threads
<1>4. /\ it.bucketIndex = b /\ b <= n
      /\ b = 0 => it.next = NULL
      /\ b > 0 => b - 1 \in 0..(n - 1) /\ m <= Len(ch[b - 1]) /\ it.next = At(ch[b - 1], m + 1)
  <2>1. it.bucketIndex = b /\ b <= n
    BY CursorFacts
  <2>2. b = 0 => it.next = NULL
    BY CursorFacts
  <2>3. b > 0 => b - 1 \in 0..(n - 1) /\ m <= Len(ch[b - 1]) /\ it.next = At(ch[b - 1], m + 1)
    BY CursorFacts
  <2> QED
    BY <2>1, <2>2, <2>3
<1> HIDE DEF ch, n
<1>5. \A i \in 0..(n - 1) : Len(ch[i]) \in Nat /\ DOMAIN ch[i] = 1..Len(ch[i])
  BY <1>1, <1>3, LinkedFacts
<1>6. \A i \in 0..(n - 1) : Elements(buckets[i]) = {ch[i][j] : j \in 1..Len(ch[i])}
  BY <1>2, <1>5 DEF Elements, ToSet
<1>7. ASSUME NEW x
      PROVE  x \in Elements(it.next)
                <=> b > 0 /\ \E j \in 1..Len(ch[b - 1]) : ch[b - 1][j] = x /\ j > m
  <2>1. CASE b = 0
    <3>1. <<>> \in Seq(DOMAIN node) /\ Len(<<>>) = 0 /\ ~ (1 <= 0) /\ 1..0 = {}
      OBVIOUS
    <3>2. Linked(node, NULL, <<>>)
      BY <3>1 DEF Linked, At
    <3>3. Chain(node, NULL) = <<>>
      BY <3>2, <1>1, ChainIs
    <3>4. ToSet(<<>>) = {}
      BY DEF ToSet
    <3>5. Elements(it.next) = {}
      <4>1. Chain(node, it.next) = <<>>
        BY <2>1, <3>3, <1>4
      <4> QED
        BY <4>1, <3>4 DEF Elements
    <3> QED
      BY <2>1, <3>5
  <2>2. CASE b # 0
    <3> DEFINE s == ch[b - 1]
               t == [j \in 1..(Len(s) - m) |-> s[m + j]]
    <3>1. b > 0 /\ b - 1 \in 0..(n - 1) /\ m \in 0..Len(s) /\ it.next = At(s, m + 1)
      BY <2>2, <1>4, <1>5
    <3>2. Linked(node, buckets[b - 1], s) /\ Len(s) \in Nat
      BY <3>1, <1>3, <1>5
    <3> HIDE DEF s
    <3>3. Linked(node, At(s, m + 1), t)
      BY <3>1, <3>2, <1>1, RestIs
    <3>4. Chain(node, it.next) = t
      BY <3>1, <3>3, <1>1, ChainIs
    <3>5. Elements(it.next) = {s[m + j] : j \in 1..(Len(s) - m)}
      BY <3>4 DEF Elements, ToSet
    <3>6. ASSUME NEW j \in 1..(Len(s) - m) PROVE m + j \in 1..Len(s) /\ m + j > m
      BY <3>1, <3>2
    <3>7. ASSUME NEW j \in 1..Len(s), j > m
          PROVE  j - m \in 1..(Len(s) - m) /\ m + (j - m) = j
      BY <3>1, <3>2, <3>7
    <3>8. ASSUME x \in Elements(it.next) PROVE \E j \in 1..Len(s) : s[j] = x /\ j > m
      BY <3>5, <3>6, <3>8
    <3>9. ASSUME NEW j \in 1..Len(s), s[j] = x, j > m PROVE x \in Elements(it.next)
      <4>1. j - m \in 1..(Len(s) - m) /\ s[m + (j - m)] = x
        BY <3>7, <3>9
      <4> HIDE DEF t
      <4> QED
        BY <4>1, <3>5
    <3> QED
      BY <3>1, <3>8, <3>9 DEF s
  <2> QED
    BY <2>1, <2>2
<1>8. ASSUME NEW x
      PROVE  x \in Ahead <=> IsAhead(x, ch, n, b, m)
  <2>1. x \in Ahead <=> \/ x \in Elements(it.next)
                        \/ \E i \in 0..(n - 1) : i >= b /\ x \in Elements(buckets[i])
    <3>1. {j \in DOMAIN buckets : j >= it.bucketIndex} = {j \in 0..(n - 1) : j >= b}
      BY <1>1, <1>4
    <3>2. Ahead = Elements(it.next) \cup UNION {Elements(buckets[i]) : i \in {j \in 0..(n - 1) : j >= b}}
      BY <3>1 DEF Ahead
    <3> DEFINE T == UNION {Elements(buckets[i]) : i \in {j \in 0..(n - 1) : j >= b}}
    <3>3. x \in T <=> \E i \in 0..(n - 1) : i >= b /\ x \in Elements(buckets[i])
      OBVIOUS
    <3> HIDE DEF T
    <3>4. Ahead = Elements(it.next) \cup T
      BY <3>2 DEF T
    <3> QED
      BY <3>3, <3>4
  <2>2. ASSUME NEW i \in 0..(n - 1)
        PROVE  x \in Elements(buckets[i]) <=> \E j \in 1..Len(ch[i]) : ch[i][j] = x
    BY <1>6
  <2>3. IsAhead(x, ch, n, b, m) <=>
            \/ \E i \in 0..(n - 1) : i >= b /\ \E j \in 1..Len(ch[i]) : ch[i][j] = x
            \/ b > 0 /\ \E j \in 1..Len(ch[b - 1]) : ch[b - 1][j] = x /\ j > m
    <3>1. \A i \in 0..(n - 1) : i = b - 1 => b > 0
      OBVIOUS
    <3> QED
      BY <3>1, <1>4 DEF IsAhead
  <2> QED
    BY <2>1, <2>2, <2>3, <1>7
<1>9. ASSUME NEW x, IsAhead(x, ch, n, b, m) PROVE x \in DOMAIN node
  BY <1>9, <1>2 DEF IsAhead
<1>10. Ahead = {x \in DOMAIN node : IsAhead(x, ch, n, b, m)}
  BY <1>8, <1>9
<1> QED
  BY <1>10 DEF ch, n

(* The pointer to an element of a chain holds it.                          *)
LEMMA PtrHolds ==
    ASSUME MapOK, NEW i \in 0..(bucketCount - 1), NEW j \in Nat \ {0},
           j <= Len(Chains(node, buckets)[i]) + 1
    PROVE  Holds(Ptr(i, Chains(node, buckets)[i], j), At(Chains(node, buckets)[i], j))
<1> DEFINE s == Chains(node, buckets)[i]
<1>1. Nodes(node) /\ Linked(node, buckets[i], s) /\ DOMAIN buckets = 0..(bucketCount - 1)
  BY DEF MapOK, Threads
<1>2. j <= Len(s) + 1
  OBVIOUS
<1> HIDE DEF s
<1>3. Len(s) \in Nat /\ \A k \in 1..Len(s) : s[k] \in DOMAIN node
  BY <1>1, LinkedFacts
<1>4. ASSUME j = 1 PROVE Holds(Ptr(i, s, j), At(s, j))
  <2>1. i \in DOMAIN buckets /\ buckets[i] = At(s, 1)
    BY <1>1 DEF Linked
  <2>2. Holds(i, At(s, 1))
    BY <2>1 DEF Holds
  <2>3. Ptr(i, s, 1) = i
    BY DEF Ptr
  <2> QED
    BY <2>2, <2>3, <1>4
<1>5. ASSUME j # 1 PROVE Holds(Ptr(i, s, j), At(s, j))
  <2>1. j - 1 \in 1..Len(s) /\ (j - 1) + 1 = j
    BY <1>2, <1>3, <1>5
  <2>2. node[s[j - 1]].next = At(s, (j - 1) + 1)
    BY <2>1, <1>1 DEF Linked
  <2> QED
    <3>1. s[j - 1] \in DOMAIN node /\ node[s[j - 1]].next = At(s, j)
      BY <1>3, <2>1, <2>2
    <3>2. Holds(s[j - 1], At(s, j))
      BY <3>1 DEF Holds
    <3>3. Ptr(i, s, j) = s[j - 1]
      BY <1>5 DEF Ptr
    <3> QED
      BY <3>2, <3>3
<1>6. Holds(Ptr(i, s, j), At(s, j))
  BY <1>4, <1>5
<1> QED
  BY <1>6 DEF s

(* An iterator returns every key once, also when what it returned is       *)
(* removed on the way, and its pointers never lead into a freed element.   *)
THEOREM IterationCompleteHolds == Spec => []IterationComplete
<1>1. ASSUME MapInv, IterInv PROVE IterationComplete
  <2> SUFFICES ASSUME it # NULL
               PROVE  /\ {node[e].key : e \in Ahead} = todo
                      /\ it.last # NULL => Holds(it.lastPrevNext, it.last)
                      /\ it.prevNext # NULL => Holds(it.prevNext, it.next)
    BY DEF IterationComplete
  <2> DEFINE ch == Chains(node, buckets)
             n == bucketCount
  <2>1. MapOK
    BY <1>1 DEF MapInv
  <2>2. PICK b \in Nat, m \in Nat :
          Cursor(it, ch, n, b, m) /\ Returned(it, ch, b, m) /\ todo = KeysAhead(node, ch, n, b, m)
    BY <1>1 DEF IterInv
  <2>3. {node[e].key : e \in Ahead} = todo
    BY <2>1, <2>2, AheadIs DEF KeysAhead
  <2>4. ASSUME b > 0
        PROVE  /\ b - 1 \in 0..(n - 1) /\ m <= Len(ch[b - 1])
               /\ it.next = At(ch[b - 1], m + 1) /\ it.prevNext = Ptr(b - 1, ch[b - 1], m + 1)
               /\ Len(ch[b - 1]) \in Nat
    <3>1. /\ b - 1 \in 0..(n - 1) /\ m <= Len(ch[b - 1])
          /\ it.next = At(ch[b - 1], m + 1) /\ it.prevNext = Ptr(b - 1, ch[b - 1], m + 1)
      BY <2>1, <2>2, <2>4, CursorFacts
    <3> QED
      BY <3>1, <2>1, ThreadsFacts DEF MapOK
  <2>5. ASSUME it.last # NULL PROVE Holds(it.lastPrevNext, it.last)
    <3>1. b > 0 /\ m > 0 /\ it.last = ch[b - 1][m] /\ it.lastPrevNext = Ptr(b - 1, ch[b - 1], m)
      BY <2>2, <2>5 DEF Returned
    <3>2. b - 1 \in 0..(n - 1) /\ m <= Len(ch[b - 1]) /\ m <= Len(ch[b - 1]) + 1 /\ m \in Nat \ {0}
      BY <3>1, <2>4
    <3>3. Holds(Ptr(b - 1, ch[b - 1], m), At(ch[b - 1], m))
      BY <3>2, <2>1, PtrHolds
    <3> QED
      BY <3>1, <3>2, <3>3 DEF At
  <2>6. ASSUME it.prevNext # NULL PROVE Holds(it.prevNext, it.next)
    <3>1. b > 0
      BY <2>1, <2>2, <2>6, CursorFacts
    <3>2. m + 1 \in Nat \ {0} /\ m + 1 <= Len(ch[b - 1]) + 1
      BY <3>1, <2>4
    <3>3. Holds(Ptr(b - 1, ch[b - 1], m + 1), At(ch[b - 1], m + 1))
      BY <3>1, <3>2, <2>1, <2>4, PtrHolds
    <3> QED
      BY <3>1, <3>3, <2>4
  <2> QED
    BY <2>3, <2>5, <2>6
<1> QED
  BY <1>1, MapInvHolds, PTL

(* When an iterator reports its end, no key is left out.                   *)
THEOREM EndIsComplete == Spec => [][iterAll_end => todo = {}]_vars
<1>1. ASSUME MapInv, IterInv PROVE iterAll_end => todo = {}
  BY <1>1, IterEndFacts
<1> QED
  BY <1>1, MapInvHolds, PTL DEF Spec

=============================================================================
