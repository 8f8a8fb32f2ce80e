------------------------------- MODULE Lemmas -------------------------------
(***************************************************************************)
(* Facts the proofs of several components need, about numbers and about    *)
(* sums over finite sets.                                                  *)
(***************************************************************************)
EXTENDS Integers, FiniteSets, FiniteSetsExt, FiniteSetTheorems, WellFoundedInduction, TLAPS

(* A set of numbers that is not empty has a least one.                     *)
LEMMA LeastOf ==
    ASSUME NEW T \in SUBSET Nat, T # {}
    PROVE  \E x \in T : \A y \in T : x <= y
<1> DEFINE R == {ss \in Nat \X Nat : ss[1] < ss[2]}
<1>1. IsWellFoundedOn(R, Nat)
  BY NatLessThanWellFounded DEF OpToRel
<1>2. \A x, y \in Nat : y < x => <<y, x>> \in R
  OBVIOUS
<1> HIDE DEF R
<1>3. PICK x \in T : \A y \in T : ~ (<<y, x>> \in R)
  BY <1>1, WFMin
<1>4. \A y \in T : ~ (y < x)
  BY <1>2, <1>3
<1> QED
  BY <1>4

LEMMA LeastIs ==
    ASSUME NEW S \in SUBSET Nat, NEW k \in S, \A i \in S : k <= i
    PROVE  Min(S) = k
<1>1. \A i \in S : (\A j \in S : i =< j) => i = k
  BY SMT
<1> QED
  BY <1>1 DEF Min

LEMMA GreatestIs ==
    ASSUME NEW n \in Nat, NEW S \in SUBSET (1..n), S # {}
    PROVE  Max(S) \in S /\ \A i \in S : i <= Max(S)
<1> DEFINE T == {n - i : i \in S}
<1>1. T \in SUBSET Nat /\ T # {}
  OBVIOUS
<1> HIDE DEF T
<1>2. PICK d \in T : \A e \in T : d <= e
  BY <1>1, LeastOf
<1>3. PICK k \in S : d = n - k
  BY <1>2 DEF T
<1>4. \A i \in S : n - k <= n - i
  BY <1>2, <1>3 DEF T
<1>5. \A i \in S : k >= i
  BY <1>4
<1>6. Max(S) \in S /\ \A i \in S : Max(S) >= i
  BY <1>5, Zenon DEF Max
<1> QED
  BY <1>6

LEMMA DivMod ==
    ASSUME NEW n \in Nat, NEW w \in Nat \ {0}
    PROVE  n = (n \div w) * w + (n % w)
  OBVIOUS

LEMMA DivIs ==
    ASSUME NEW w \in Nat \ {0}, NEW q \in Nat, NEW r \in 0..(w - 1)
    PROVE  (q * w + r) \div w = q /\ (q * w + r) % w = r
<1>1. q * w \in Nat /\ q * w + r = w * q + r
  OBVIOUS
<1> QED
  BY <1>1

LEMMA CardUpTo ==
    ASSUME NEW n \in Nat
    PROVE  IsFiniteSet(1..n) /\ Cardinality(1..n) = n
<1>1. 1 \in Int /\ n \in Int
  OBVIOUS
<1>2. IsFiniteSet(1..n) /\ Cardinality(1..n) = IF 1 > n THEN 0 ELSE n - 1 + 1
  BY <1>1, FS_Interval
<1> QED
  BY <1>2

-----------------------------------------------------------------------------
(* The function that MapThenSumSet takes its result from, at S.            *)
IsSum(h, f, S) ==
    h = [s \in SUBSET S |->
            IF s = {} THEN 0 ELSE LET x == CHOOSE x \in s : TRUE IN f[x] + h[s \ {x}]]

(* The sum of f over S.                                                    *)
Total(f, S) == (CHOOSE h : IsSum(h, f, S))[S]

LEMMA TotalIs ==
    ASSUME NEW S, NEW f
    PROVE  MapThenSumSet(LAMBDA x : f[x], S) = Total(f, S)
  BY DEF MapThenSumSet, MapThenFoldSet, IsSum, Total

LEMMA RemoveOne ==
    ASSUME NEW S, IsFiniteSet(S), NEW x \in S
    PROVE  /\ IsFiniteSet(S \ {x}) /\ Cardinality(S) \in Nat
           /\ Cardinality(S \ {x}) = Cardinality(S) - 1 /\ Cardinality(S) - 1 \in Nat
<1>1. IsFiniteSet(S \ {x}) /\ Cardinality(S \ {x}) = Cardinality(S) - 1
  BY FS_RemoveElement
<1> QED
  BY <1>1, FS_CardinalityType

(* Some function satisfies the recursion: on the subsets of at most n      *)
(* elements there is one, for every n.                                     *)
LEMMA SumExists ==
    ASSUME NEW S, IsFiniteSet(S), NEW f
    PROVE  \E h : IsSum(h, f, S)
<1> DEFINE Some(s) == CHOOSE x \in s : TRUE
           Lev(n) == {s \in SUBSET S : Cardinality(s) <= n}
           Good(h, n) == h = [s \in Lev(n) |-> IF s = {} THEN 0 ELSE f[Some(s)] + h[s \ {Some(s)}]]
           N == Cardinality(S)
           T == {n \in Nat : ~ \E h : Good(h, n)}
<1>1. /\ N \in Nat
      /\ \A s \in SUBSET S : IsFiniteSet(s) /\ Cardinality(s) \in Nat /\ Cardinality(s) <= N
  BY FS_CardinalityType, FS_Subset
<1>2. \A s \in SUBSET S : s # {} => Some(s) \in s
  OBVIOUS
<1>3. ASSUME NEW s \in SUBSET S, s # {}
      PROVE  s \ {Some(s)} \in SUBSET S /\ Cardinality(s \ {Some(s)}) = Cardinality(s) - 1
  BY <1>1, <1>2, <1>3, FS_RemoveElement
<1>4. \A s \in SUBSET S : Cardinality(s) = 0 => s = {}
  BY <1>1, FS_EmptySet
<1>5. N \notin T
  <2> SUFFICES ASSUME N \in T PROVE FALSE
    OBVIOUS
  <2>1. PICK n \in T : \A m \in T : n <= m
    <3>1. T \in SUBSET Nat /\ T # {}
      OBVIOUS
    <3> HIDE DEF T
    <3> QED
      BY <3>1, LeastOf
  <2>2. CASE n = 0
    <3> DEFINE h == [s \in Lev(0) |-> 0]
    <3>1. \A s \in Lev(0) : s = {}
      BY <1>1, <1>4
    <3> HIDE DEF Some
    <3>2. Good(h, 0)
      BY <3>1
    <3> QED
      BY <2>1, <2>2, <3>2
  <2>3. CASE n # 0
    <3>1. n - 1 \in Nat /\ ~ (n <= n - 1)
      BY <2>1, <2>3
    <3>2. PICK h : Good(h, n - 1)
      BY <2>1, <3>1
    <3> DEFINE g == [s \in Lev(n) |-> IF s = {} THEN 0 ELSE f[Some(s)] + h[s \ {Some(s)}]]
    <3> HIDE DEF Some
    <3>3. \A s \in Lev(n - 1) : s \in Lev(n)
      BY <1>1, <3>1
    <3>4. \A s \in Lev(n - 1) : g[s] = h[s]
      BY <3>2, <3>3
    <3>5. ASSUME NEW s \in Lev(n), s # {} PROVE g[s \ {Some(s)}] = h[s \ {Some(s)}]
      <4>1. s \ {Some(s)} \in Lev(n - 1)
        BY <1>1, <1>3, <3>1, <3>5
      <4> QED
        BY <3>4, <4>1
    <3>6. Good(g, n)
      <4>1. \A s \in Lev(n) : g[s] = IF s = {} THEN 0 ELSE f[Some(s)] + g[s \ {Some(s)}]
        BY <3>5
      <4>2. g = [s \in Lev(n) |-> g[s]]
        OBVIOUS
      <4> HIDE DEF g, Lev
      <4> QED
        BY <4>1, <4>2
    <3> QED
      BY <2>1, <3>6
  <2> QED
    BY <2>2, <2>3
<1>6. PICK h : Good(h, N)
  BY <1>1, <1>5
<1>7. Lev(N) = SUBSET S
  BY <1>1
<1>8. IsSum(h, f, S)
  BY <1>6, <1>7 DEF IsSum
<1> QED
  BY <1>8

(* The recursion, with the subset it is at as the whole.                   *)
LEMMA TotalUnfolds ==
    ASSUME NEW S, IsFiniteSet(S), NEW f
    PROVE  Total(f, S) = IF S = {} THEN 0
                         ELSE LET x == CHOOSE x \in S : TRUE IN f[x] + Total(f, S \ {x})
<1> DEFINE Some(s) == CHOOSE x \in s : TRUE
           r(U) == CHOOSE h : IsSum(h, f, U)
<1>1. ASSUME NEW U \in SUBSET S PROVE IsSum(r(U), f, U)
  BY SumExists, FS_Subset
<1>2. ASSUME NEW U \in SUBSET S, NEW s \in SUBSET U
      PROVE  r(U)[s] = IF s = {} THEN 0 ELSE f[Some(s)] + r(U)[s \ {Some(s)}]
  <2>1. IsSum(r(U), f, U)
    BY <1>1
  <2> HIDE DEF r
  <2> QED
    BY <2>1 DEF IsSum
<1> HIDE DEF r
<1>3. ASSUME NEW U \in SUBSET S, NEW t \in SUBSET U PROVE r(S)[t] = r(U)[t]
  <2> DEFINE T == {n \in Nat : \E s \in SUBSET U : Cardinality(s) = n /\ r(S)[s] # r(U)[s]}
  <2>1. \A s \in SUBSET U : s \in SUBSET S /\ IsFiniteSet(s) /\ Cardinality(s) \in Nat
    BY FS_Subset, FS_CardinalityType
  <2> SUFFICES ASSUME r(S)[t] # r(U)[t] PROVE FALSE
    OBVIOUS
  <2>2. PICK n \in T : \A m \in T : n <= m
    <3>1. T \in SUBSET Nat /\ T # {}
      BY <2>1
    <3> HIDE DEF T
    <3> QED
      BY <3>1, LeastOf
  <2>3. PICK s \in SUBSET U : Cardinality(s) = n /\ r(S)[s] # r(U)[s]
    BY <2>2
  <2>4. s # {}
    BY <1>2, <2>1, <2>3
  <2>5. Some(s) \in s
    BY <2>4
  <2> HIDE DEF Some
  <2>6. s \ {Some(s)} \in SUBSET U /\ Cardinality(s \ {Some(s)}) = n - 1 /\ n - 1 \in Nat
    BY <2>1, <2>3, <2>5, RemoveOne
  <2>7. r(S)[s \ {Some(s)}] = r(U)[s \ {Some(s)}]
    <3>1. n - 1 \notin T
      BY <2>2, <2>6
    <3> QED
      BY <2>6, <3>1
  <2>8. s \in SUBSET S
    OBVIOUS
  <2>9. r(S)[s] = f[Some(s)] + r(S)[s \ {Some(s)}] /\ r(U)[s] = f[Some(s)] + r(U)[s \ {Some(s)}]
    BY <1>2, <2>4, <2>8
  <2> QED
    BY <2>3, <2>7, <2>9
<1>4. CASE S = {}
  BY <1>2, <1>4 DEF Total, r
<1>5. CASE S # {}
  <2>1. Total(f, S) = f[Some(S)] + r(S)[S \ {Some(S)}]
    BY <1>2, <1>5 DEF Total, r
  <2>2. r(S)[S \ {Some(S)}] = r(S \ {Some(S)})[S \ {Some(S)}]
    BY <1>3
  <2> QED
    BY <1>5, <2>1, <2>2 DEF Total, r
<1> QED
  BY <1>4, <1>5

LEMMA TotalEmpty == ASSUME NEW f PROVE Total(f, {}) = 0
  BY TotalUnfolds, FS_EmptySet

LEMMA TotalNat ==
    ASSUME NEW S, IsFiniteSet(S), NEW f, \A x \in S : f[x] \in Nat
    PROVE  Total(f, S) \in Nat
<1> DEFINE T == {n \in Nat : \E s \in SUBSET S : Cardinality(s) = n /\ Total(f, s) \notin Nat}
           Some(s) == CHOOSE x \in s : TRUE
<1>1. \A s \in SUBSET S : IsFiniteSet(s) /\ Cardinality(s) \in Nat
  BY FS_Subset, FS_CardinalityType
<1> SUFFICES ASSUME Total(f, S) \notin Nat PROVE FALSE
  OBVIOUS
<1>2. PICK n \in T : \A m \in T : n <= m
  <2>1. T \in SUBSET Nat /\ T # {}
    BY <1>1
  <2> HIDE DEF T
  <2> QED
    BY <2>1, LeastOf
<1>3. PICK s \in SUBSET S : Cardinality(s) = n /\ Total(f, s) \notin Nat
  BY <1>2
<1>4. s # {}
  BY <1>3, TotalEmpty
<1>5. Some(s) \in s /\ Total(f, s) = f[Some(s)] + Total(f, s \ {Some(s)})
  BY <1>1, <1>4, TotalUnfolds
<1> HIDE DEF Some
<1>6. s \ {Some(s)} \in SUBSET S /\ Cardinality(s \ {Some(s)}) = n - 1 /\ n - 1 \in Nat
  BY <1>1, <1>3, <1>5, FS_RemoveElement
<1>7. Total(f, s \ {Some(s)}) \in Nat
  <2>1. n - 1 \notin T
    BY <1>2, <1>6
  <2> QED
    BY <1>6, <2>1
<1> QED
  BY <1>3, <1>5, <1>7

(* Any element may be taken out.                                           *)
LEMMA TotalRemove ==
    ASSUME NEW S, IsFiniteSet(S), NEW f, \A x \in S : f[x] \in Nat, NEW y \in S
    PROVE  Total(f, S) = f[y] + Total(f, S \ {y})
<1> DEFINE Bad(s) == \E z \in s : Total(f, s) # f[z] + Total(f, s \ {z})
           T == {n \in Nat : \E s \in SUBSET S : Cardinality(s) = n /\ Bad(s)}
           Some(s) == CHOOSE x \in s : TRUE
<1>1. \A s \in SUBSET S : IsFiniteSet(s) /\ Cardinality(s) \in Nat /\ Total(f, s) \in Nat
  BY FS_Subset, FS_CardinalityType, TotalNat
<1> SUFFICES ASSUME Bad(S) PROVE FALSE
  OBVIOUS
<1>2. PICK n \in T : \A m \in T : n <= m
  <2>1. T \in SUBSET Nat /\ T # {}
    BY <1>1
  <2> HIDE DEF T
  <2> QED
    BY <2>1, LeastOf
<1>3. PICK s \in SUBSET S : Cardinality(s) = n /\ Bad(s)
  BY <1>2
<1>4. PICK z \in s : Total(f, s) # f[z] + Total(f, s \ {z})
  BY <1>3
<1> DEFINE x == Some(s)
<1>5. x \in s /\ Total(f, s) = f[x] + Total(f, s \ {x})
  BY <1>1, <1>4, TotalUnfolds
<1> HIDE DEF x, Some
<1>6. x # z
  BY <1>4, <1>5
<1>7. /\ s \ {x} \in SUBSET S /\ Cardinality(s \ {x}) = n - 1
      /\ s \ {z} \in SUBSET S /\ Cardinality(s \ {z}) = n - 1 /\ n - 1 \in Nat
  BY <1>1, <1>3, <1>4, <1>5, RemoveOne
<1>8. ~ Bad(s \ {x}) /\ ~ Bad(s \ {z})
  <2>1. n - 1 \notin T
    BY <1>2, <1>7
  <2> QED
    BY <1>7, <2>1
<1>9. Total(f, s \ {x}) = f[z] + Total(f, (s \ {x}) \ {z})
  BY <1>4, <1>6, <1>8
<1>10. Total(f, s \ {z}) = f[x] + Total(f, (s \ {z}) \ {x})
  BY <1>5, <1>6, <1>8
<1>11. (s \ {x}) \ {z} = (s \ {z}) \ {x} /\ (s \ {x}) \ {z} \in SUBSET S
  OBVIOUS
<1>12. f[x] \in Nat /\ f[z] \in Nat /\ Total(f, (s \ {x}) \ {z}) \in Nat
  BY <1>1, <1>4, <1>5, <1>11
<1>13. Total(f, s) = f[x] + (f[z] + Total(f, (s \ {x}) \ {z}))
  BY <1>5, <1>9
<1>14. f[z] + Total(f, s \ {z}) = f[z] + (f[x] + Total(f, (s \ {x}) \ {z}))
  BY <1>10, <1>11
<1> DEFINE a == f[x]
           b == f[z]
           c == Total(f, (s \ {x}) \ {z})
<1>15. a \in Nat /\ b \in Nat /\ c \in Nat
  BY <1>12
<1>16. a + (b + c) = b + (a + c)
  <2> HIDE DEF a, b, c
  <2> QED
    BY <1>15
<1> QED
  BY <1>4, <1>13, <1>14, <1>16

LEMMA TotalAdd ==
    ASSUME NEW S, IsFiniteSet(S), NEW y, y \notin S, NEW f, \A x \in S \cup {y} : f[x] \in Nat
    PROVE  Total(f, S \cup {y}) = Total(f, S) + f[y]
<1>1. IsFiniteSet(S \cup {y}) /\ (S \cup {y}) \ {y} = S
  BY FS_AddElement
<1>2. Total(f, S \cup {y}) = f[y] + Total(f, S)
  BY <1>1, TotalRemove
<1> QED
  BY <1>2, TotalNat

(* Only the values on S matter.                                            *)
LEMMA TotalSame ==
    ASSUME NEW S, NEW f, NEW g, \A x \in S : f[x] = g[x]
    PROVE  Total(f, S) = Total(g, S)
<1>1. ASSUME NEW h PROVE IsSum(h, f, S) <=> IsSum(h, g, S)
  <2>1. \A s \in SUBSET S : s # {} => (CHOOSE x \in s : TRUE) \in S
    OBVIOUS
  <2> QED
    BY <2>1 DEF IsSum
<1>2. (CHOOSE h : IsSum(h, f, S)) = CHOOSE h : IsSum(h, g, S)
  BY <1>1, Zenon
<1> QED
  BY <1>2 DEF Total

(* Induction over a finite set: what holds of the empty set and survives   *)
(* one more element holds of the whole; P is the set of subsets it holds   *)
(* of.                                                                     *)
LEMMA OneByOne ==
    ASSUME NEW S, IsFiniteSet(S), NEW P, {} \in P,
           \A s \in SUBSET S : \A x \in S \ s : s \in P => s \cup {x} \in P
    PROVE  S \in P
<1> DEFINE T == {n \in Nat : \E s \in SUBSET S : Cardinality(s) = n /\ s \notin P}
<1>1. \A s \in SUBSET S : IsFiniteSet(s) /\ Cardinality(s) \in Nat
  BY FS_Subset, FS_CardinalityType
<1> SUFFICES ASSUME S \notin P PROVE FALSE
  OBVIOUS
<1>2. PICK n \in T : \A m \in T : n <= m
  <2>1. T \in SUBSET Nat /\ T # {}
    BY <1>1
  <2> HIDE DEF T
  <2> QED
    BY <2>1, LeastOf
<1>3. PICK s \in SUBSET S : Cardinality(s) = n /\ s \notin P
  BY <1>2
<1>4. PICK x \in s : TRUE
  BY <1>3
<1>5. s \ {x} \in SUBSET S /\ Cardinality(s \ {x}) = n - 1 /\ n - 1 \in Nat
  BY <1>1, <1>3, RemoveOne
<1>6. s \ {x} \in P
  <2>1. n - 1 \notin T
    BY <1>2, <1>5
  <2> QED
    BY <1>5, <2>1
<1>7. x \in S \ (s \ {x}) /\ (s \ {x}) \cup {x} = s
  OBVIOUS
<1> QED
  BY <1>3, <1>5, <1>6, <1>7

(* One more element, with all the proofs below need of it.                 *)
Counts(f, S) == \A x \in S : f[x] \in Nat
Grows(f, s, x) ==
    /\ Cardinality(s) \in Nat /\ Cardinality(s \cup {x}) = Cardinality(s) + 1
    /\ Total(f, s) \in Nat /\ f[x] \in Nat
    /\ Total(f, s \cup {x}) = Total(f, s) + f[x]

LEMMA TotalGrows ==
    ASSUME NEW S, IsFiniteSet(S), NEW f, Counts(f, S), NEW s, s \subseteq S,
           NEW x \in S, x \notin s
    PROVE  Grows(f, s, x)
<1> USE DEF Counts
<1>1. IsFiniteSet(s) /\ Cardinality(s) \in Nat
  BY FS_Subset, FS_CardinalityType
<1>2. Cardinality(s \cup {x}) = Cardinality(s) + 1
  BY <1>1, FS_AddElement
<1>3. Total(f, s) \in Nat /\ Total(f, s \cup {x}) = Total(f, s) + f[x]
  BY <1>1, TotalNat, TotalAdd
<1> QED
  BY <1>1, <1>2, <1>3 DEF Grows

LEMMA TotalPlus ==
    ASSUME NEW S, IsFiniteSet(S), NEW f, NEW g, NEW h,
           \A x \in S : f[x] \in Nat /\ g[x] \in Nat /\ h[x] = f[x] + g[x]
    PROVE  Total(h, S) = Total(f, S) + Total(g, S)
<1> DEFINE P == {s \in SUBSET S : Total(h, s) = Total(f, s) + Total(g, s)}
<1>1. {} \in P
  BY TotalEmpty
<1>2. Counts(f, S) /\ Counts(g, S) /\ Counts(h, S)
  BY DEF Counts
<1>3. ASSUME NEW s \in SUBSET S, NEW x \in S \ s, s \in P PROVE s \cup {x} \in P
  <2>1. Grows(f, s, x) /\ Grows(g, s, x) /\ Grows(h, s, x)
    BY <1>2, TotalGrows
  <2>2. Total(h, s) = Total(f, s) + Total(g, s) /\ h[x] = f[x] + g[x]
    BY <1>3
  <2>3. Total(h, s \cup {x}) = Total(f, s \cup {x}) + Total(g, s \cup {x})
    BY <2>1, <2>2 DEF Grows
  <2> QED
    BY <2>3
<1> HIDE DEF P
<1>4. S \in P
  BY <1>1, <1>3, OneByOne
<1> QED
  BY <1>4 DEF P

LEMMA TotalTimes ==
    ASSUME NEW S, IsFiniteSet(S), NEW k \in Nat, NEW f, NEW g,
           \A x \in S : f[x] \in Nat /\ g[x] = f[x] * k
    PROVE  Total(g, S) = Total(f, S) * k
<1> DEFINE P == {s \in SUBSET S : Total(g, s) = Total(f, s) * k}
<1>1. {} \in P
  BY TotalEmpty
<1>2. Counts(f, S) /\ Counts(g, S)
  BY DEF Counts
<1>3. ASSUME NEW s \in SUBSET S, NEW x \in S \ s, s \in P PROVE s \cup {x} \in P
  <2> DEFINE a == Total(f, s)
             b == f[x]
  <2>0. Grows(f, s, x) /\ Grows(g, s, x)
    BY <1>2, TotalGrows
  <2>1. /\ Total(g, s \cup {x}) = Total(g, s) + g[x]
        /\ Total(f, s \cup {x}) = a + b /\ a \in Nat /\ b \in Nat
    BY <2>0 DEF Grows
  <2>2. Total(g, s) = a * k /\ g[x] = b * k
    BY <1>3
  <2>3. (a + b) * k = a * k + b * k
    <3> HIDE DEF a, b
    <3> QED
      BY <2>1
  <2>4. Total(g, s \cup {x}) = Total(f, s \cup {x}) * k
    BY <2>1, <2>2, <2>3
  <2> QED
    BY <2>4
<1> HIDE DEF P
<1>4. S \in P
  BY <1>1, <1>3, OneByOne
<1> QED
  BY <1>4 DEF P

(* As many equal terms as S has elements.                                  *)
LEMMA TotalSteady ==
    ASSUME NEW S, IsFiniteSet(S), NEW k \in Nat, NEW f, \A x \in S : f[x] = k
    PROVE  Total(f, S) = Cardinality(S) * k
<1> DEFINE P == {s \in SUBSET S : Total(f, s) = Cardinality(s) * k}
<1>1. {} \in P
  BY TotalEmpty, FS_EmptySet
<1>2. Counts(f, S)
  BY DEF Counts
<1>3. ASSUME NEW s \in SUBSET S, NEW x \in S \ s, s \in P PROVE s \cup {x} \in P
  <2> DEFINE c == Cardinality(s)
  <2>1. Grows(f, s, x)
    BY <1>2, TotalGrows
  <2>2. Total(f, s) = c * k /\ f[x] = k
    BY <1>3
  <2>3. c \in Nat /\ Cardinality(s \cup {x}) = c + 1
    BY <2>1 DEF Grows
  <2>4. (c + 1) * k = c * k + k
    <3> HIDE DEF c
    <3> QED
      BY <2>3
  <2>5. Total(f, s \cup {x}) = Cardinality(s \cup {x}) * k
    BY <2>1, <2>2, <2>3, <2>4 DEF Grows
  <2> QED
    BY <2>5
<1> HIDE DEF P
<1>4. S \in P
  BY <1>1, <1>3, OneByOne
<1> QED
  BY <1>4 DEF P

(* The terms may be counted in another index set, of as many elements.     *)
Recount(f, S, g, R) ==
    IsFiniteSet(R) /\ Cardinality(R) = Cardinality(S) /\ Total(g, R) = Total(f, S)

LEMMA TotalReindex ==
    ASSUME NEW S, IsFiniteSet(S), NEW m, NEW f, NEW g, NEW R,
           \A x \in S : m[x] \in R /\ f[x] = g[m[x]], \A z \in R : \E x \in S : z = m[x],
           Counts(f, S),
           \A x \in S : \A y \in S : m[x] = m[y] => x = y
    PROVE  Recount(f, S, g, R)
<1> DEFINE Of(s) == {m[x] : x \in s}
           P == {s \in SUBSET S : Recount(f, s, g, Of(s))}
<1>1. {} \in P
  <2>1. Of({}) = {}
    OBVIOUS
  <2>2. Recount(f, {}, g, {})
    BY TotalEmpty, FS_EmptySet DEF Recount
  <2> QED
    BY <2>1, <2>2
<1>2. ASSUME NEW s \in SUBSET S, NEW x \in S \ s, s \in P PROVE s \cup {x} \in P
  <2>1. Grows(f, s, x)
    BY TotalGrows
  <2>2. m[x] \notin Of(s) /\ Of(s \cup {x}) = Of(s) \cup {m[x]}
    OBVIOUS
  <2>3. \A z \in Of(s) \cup {m[x]} : g[z] \in Nat
    BY DEF Counts
  <2>4. Recount(f, s, g, Of(s)) /\ f[x] = g[m[x]]
    BY <1>2
  <2>5. ASSUME NEW q, NEW z, z \notin q, \A y \in q \cup {z} : g[y] \in Nat,
               Recount(f, s, g, q), f[x] = g[z]
        PROVE  Recount(f, s \cup {x}, g, q \cup {z})
    <3>1. Total(g, q \cup {z}) = Total(g, q) + g[z]
      BY <2>5, TotalAdd DEF Recount
    <3>2. IsFiniteSet(q \cup {z}) /\ Cardinality(q \cup {z}) = Cardinality(q) + 1
      BY <2>5, FS_AddElement DEF Recount
    <3> QED
      BY <2>1, <2>5, <3>1, <3>2 DEF Grows, Recount
  <2> HIDE DEF Of
  <2>6. Recount(f, s \cup {x}, g, Of(s) \cup {m[x]})
    BY <2>2, <2>3, <2>4, <2>5
  <2> QED
    BY <2>2, <2>6
<1> HIDE DEF P
<1>3. S \in P
  BY <1>1, <1>2, OneByOne
<1>4. Recount(f, S, g, Of(S))
  BY <1>3 DEF P
<1>5. R = Of(S)
  OBVIOUS
<1> HIDE DEF Of
<1> QED
  BY <1>4, <1>5

(* Terms that are zero may be left out.                                    *)
LEMMA TotalZeros ==
    ASSUME NEW S, IsFiniteSet(S), NEW f, Counts(f, S), NEW T, T \subseteq S,
           \A x \in S \ T : f[x] = 0
    PROVE  Total(f, S) = Total(f, T)
<1> DEFINE Z == S \ T
           P == {u \in SUBSET Z : Total(f, T \cup u) = Total(f, T)}
<1>1. {} \in P
  <2>1. T \cup {} = T
    OBVIOUS
  <2> QED
    BY <2>1
<1>2. ASSUME NEW u \in SUBSET Z, NEW x \in Z \ u, u \in P PROVE u \cup {x} \in P
  <2> DEFINE v == T \cup u
  <2>1. v \subseteq S /\ x \in S /\ x \notin v /\ T \cup (u \cup {x}) = v \cup {x} /\ f[x] = 0
    OBVIOUS
  <2>2. Total(f, v) = Total(f, T)
    BY <1>2
  <2> HIDE DEF v
  <2>3. Grows(f, v, x)
    BY <2>1, TotalGrows
  <2>4. Total(f, v \cup {x}) = Total(f, v)
    BY <2>1, <2>3 DEF Grows
  <2> QED
    BY <2>1, <2>2, <2>4
<1>3. IsFiniteSet(Z) /\ T \cup Z = S
  BY FS_Subset
<1> HIDE DEF P
<1>4. Z \in P
  BY <1>1, <1>2, <1>3, OneByOne
<1> QED
  BY <1>3, <1>4 DEF P

(* A running sum from the end.                                             *)
LEMMA TotalRuns ==
    ASSUME NEW n \in Nat, NEW g, Counts(g, 1..n), NEW f,
           f[n + 1] = 0, \A i \in 1..n : f[i] = f[i + 1] + g[i]
    PROVE  Total(g, 1..n) = f[1]
<1> DEFINE T == {k \in 0..n : Total(g, (n + 1 - k)..n) # f[n + 1 - k]}
<1>1. T = {}
  <2> SUFFICES ASSUME T # {} PROVE FALSE
    OBVIOUS
  <2>1. PICK k \in T : \A j \in T : k <= j
    <3>1. T \in SUBSET Nat
      OBVIOUS
    <3> HIDE DEF T
    <3> QED
      BY <3>1, LeastOf
  <2>2. k # 0
    <3>1. (n + 1 - 0)..n = {}
      OBVIOUS
    <3>2. n + 1 - 0 = n + 1
      OBVIOUS
    <3> QED
      BY <3>1, <3>2, TotalEmpty
  <2> DEFINE i == n + 1 - k
             s == (i + 1)..n
  <2>3. k - 1 \in 0..n /\ ~ (k <= k - 1) /\ i \in 1..n /\ n + 1 - (k - 1) = i + 1
    BY <2>2
  <2>4. Total(g, (n + 1 - (k - 1))..n) = f[n + 1 - (k - 1)]
    BY <2>1, <2>3
  <2>5. Total(g, s) = f[i + 1]
    BY <2>3, <2>4
  <2>6. s \subseteq 1..n /\ i \notin s /\ i..n = s \cup {i}
    BY <2>3
  <2>7. f[i] = f[i + 1] + g[i]
    BY <2>3
  <2>8. Total(g, i..n) # f[i]
    BY <2>1
  <2> HIDE DEF i, s
  <2>9. IsFiniteSet(1..n)
    BY CardUpTo
  <2>10. Grows(g, s, i)
    BY <2>3, <2>6, <2>9, TotalGrows
  <2> QED
    BY <2>5, <2>6, <2>7, <2>8, <2>10 DEF Grows
<1>2. n \in 0..n /\ n + 1 - n = 1
  OBVIOUS
<1>3. n \notin T
  BY <1>1
<1> QED
  BY <1>2, <1>3

(* A set in two parts.                                                     *)
LEMMA TotalParts ==
    ASSUME NEW S, IsFiniteSet(S), NEW f, Counts(f, S), NEW T, T \subseteq S
    PROVE  Total(f, S) = Total(f, T) + Total(f, S \ T)
<1> DEFINE Z == S \ T
           P == {u \in SUBSET Z : Total(f, T \cup u) = Total(f, T) + Total(f, u)}
<1>0. Total(f, T) \in Nat
  BY FS_Subset, TotalNat DEF Counts
<1>1. {} \in P
  <2>1. T \cup {} = T
    OBVIOUS
  <2> QED
    BY <1>0, <2>1, TotalEmpty
<1>2. ASSUME NEW u \in SUBSET Z, NEW x \in Z \ u, u \in P PROVE u \cup {x} \in P
  <2> DEFINE v == T \cup u
  <2>1. /\ v \subseteq S /\ u \subseteq S /\ x \in S /\ x \notin v /\ x \notin u
        /\ T \cup (u \cup {x}) = v \cup {x} /\ u \cup {x} \in SUBSET Z
    OBVIOUS
  <2>2. Total(f, v) = Total(f, T) + Total(f, u)
    BY <1>2
  <2> HIDE DEF v
  <2>3. Grows(f, v, x)
    BY <2>1, TotalGrows
  <2>4. Grows(f, u, x)
    BY <2>1, TotalGrows
  <2>5. Total(f, v \cup {x}) = Total(f, T) + Total(f, u \cup {x})
    BY <1>0, <2>2, <2>3, <2>4 DEF Grows
  <2> QED
    BY <2>1, <2>5
<1>3. IsFiniteSet(Z) /\ T \cup Z = S
  BY FS_Subset
<1> HIDE DEF P
<1>4. Z \in P
  BY <1>1, <1>2, <1>3, OneByOne
<1> QED
  BY <1>3, <1>4 DEF P

=============================================================================
