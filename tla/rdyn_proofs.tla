---------------------------- MODULE rdyn_proofs -----------------------------
(***************************************************************************)
(* The dynamic array keeps its elements and its one buffer, for every      *)
(* parent, set of values and bound on the number of elements.              *)
(***************************************************************************)
EXTENDS rdynSearch, SequenceTheorems, TLAPS

Stored == Values \cup {Junk}
Kept == Values \cup {Lost}

DynInv == TypeOK /\ ContentsKept /\ BufferLent

(***************************************************************************)
(* The memory of a new buffer: the entries of the old one, then junk.      *)
(***************************************************************************)
LEMMA CopiedSeq ==
    ASSUME NEW a \in Seq(Stored), NEW n \in 0..Len(a), NEW size \in Nat
    PROVE  /\ Copied(a, n, size) \in Seq(Stored)
           /\ Len(Copied(a, n, size)) = size
           /\ \A i \in 1..size : i <= n => Copied(a, n, size)[i] = a[i]
<1>1. \A i \in 1..size : (IF i <= n THEN a[i] ELSE Junk) \in Stored
  BY DEF Stored
<1>2. Copied(a, n, size) \in [1..size -> Stored]
  BY <1>1 DEF Copied
<1> QED
  BY <1>2 DEF Copied

(***************************************************************************)
(* Whatever reallocBuf comes back with is a block of the parent with room  *)
(* for newCap elements, the first copyCount of which are the old ones.     *)
(***************************************************************************)
LEMMA NewBuffer ==
    ASSUME TypeOK,
           NEW a \in Seq(Stored), Len(a) = cap,
           NEW newCap \in Nat,
           NEW copyCount \in 0..count, copyCount <= newCap,
           NEW new \in reallocBuf(a, newCap, copyCount)
    PROVE  /\ new.at \in Blocks
           /\ new.mem \in Seq(Stored) /\ Len(new.mem) \in Nat /\ Len(new.mem) >= newCap
           /\ \A i \in 1..copyCount : new.mem[i] = a[i]
<1>1. cap \in Nat /\ copyCount \in 0..cap /\ copyCount \in 0..Len(a)
  BY DEF TypeOK, cap
<1>2. PICK more \in Extra :
          new \in Resized(a, newCap + more) \cup Moved(a, newCap + more, copyCount)
  BY DEF reallocBuf
<1>3. newCap + more \in Nat /\ newCap + more >= newCap
  BY DynAssumption
<1>4. CASE new \in Resized(a, newCap + more)
  <2> DEFINE n == Least(cap, newCap + more)
  <2>1. PICK p \in ((Blocks \ lent) \cup {buf}) \ {NULL} :
            new = [at |-> p, mem |-> Copied(a, n, newCap + more)]
    BY <1>4 DEF Resized
  <2>2. p \in Blocks
    BY <2>1 DEF TypeOK
  <2>3. n \in 0..Len(a) /\ copyCount <= n
    BY <1>1, <1>3 DEF Least
  <2>4. new.at = p /\ new.mem = Copied(a, n, newCap + more)
    BY <2>1
  <2> HIDE DEF n
  <2>5. /\ new.mem \in Seq(Stored) /\ Len(new.mem) = newCap + more
        /\ \A i \in 1..(newCap + more) : i <= n => new.mem[i] = a[i]
    <3> DEFINE size == newCap + more
               m == Copied(a, n, size)
    <3>1. size \in Nat /\ n \in 0..Len(a)
      BY <2>3, <1>3
    <3> HIDE DEF size
    <3>2. m \in Seq(Stored) /\ Len(m) = size /\ \A i \in 1..size : i <= n => m[i] = a[i]
      BY <3>1, CopiedSeq
    <3>3. new.mem = m
      BY <2>4 DEF size
    <3> QED
      BY <3>2, <3>3 DEF size
  <2>6. \A i \in 1..copyCount : i \in 1..(newCap + more) /\ i <= n
    BY <2>3, <1>1, <1>3
  <2> QED
    BY <2>2, <2>4, <2>5, <2>6, <1>3
<1>5. CASE new \in Moved(a, newCap + more, copyCount)
  <2>1. PICK p \in Blocks \ lent :
            new = [at |-> p, mem |-> Copied(a, copyCount, newCap + more)]
    BY <1>5 DEF Moved
  <2>2. new.at = p /\ new.mem = Copied(a, copyCount, newCap + more)
    BY <2>1
  <2>3. /\ new.mem \in Seq(Stored) /\ Len(new.mem) = newCap + more
        /\ \A i \in 1..(newCap + more) : i <= copyCount => new.mem[i] = a[i]
    <3> DEFINE size == newCap + more
               m == Copied(a, copyCount, size)
    <3>1. size \in Nat /\ copyCount \in 0..Len(a)
      BY <1>1, <1>3
    <3> HIDE DEF size
    <3>2. m \in Seq(Stored) /\ Len(m) = size /\ \A i \in 1..size : i <= copyCount => m[i] = a[i]
      BY <3>1, CopiedSeq
    <3>3. new.mem = m
      BY <2>2 DEF size
    <3> QED
      BY <3>2, <3>3 DEF size
  <2>4. \A i \in 1..copyCount : i \in 1..(newCap + more) /\ i <= copyCount
    BY <1>1, <1>3
  <2> QED
    BY <2>1, <2>2, <2>3, <2>4, <1>3
<1> QED
  BY <1>2, <1>4, <1>5

(* The old buffer is given back, and a buffer with room is the one lent.   *)
LEMMA AdoptLends ==
    ASSUME BufferLent, NEW new, new.at \in Blocks, Adopt(new)
    PROVE  buf' \in Blocks /\ lent' = {buf'}
  BY DEF BufferLent, Adopt

(***************************************************************************)
(* The memmoves, and the elements the client writes.                       *)
(***************************************************************************)
LEMMA InsertedSeq ==
    ASSUME NEW a \in Seq(Stored), NEW len \in 0..Len(a), NEW i \in Nat,
           NEW vs \in Seq(Values), i + Len(vs) <= len
    PROVE  LET b == Written(rarr_insert(a, len, i, Len(vs)), i, vs) IN
           /\ b \in Seq(Stored) /\ Len(b) = Len(a)
           /\ \A j \in 1..i : b[j] = a[j]
           /\ \A j \in 1..Len(vs) : b[i + j] = vs[j]
           /\ \A j \in (i + Len(vs) + 1)..len : b[j] = a[j - Len(vs)]
<1> DEFINE n == Len(vs)
           c == rarr_insert(a, len, i, n)
           b == Written(c, i, vs)
<1>1. n \in Nat /\ DOMAIN a = 1..Len(a) /\ Len(a) \in Nat
  OBVIOUS
<1>2. c = [j \in 1..Len(a) |-> IF i + n < j /\ j <= len THEN a[j - n] ELSE a[j]]
  BY <1>1 DEF rarr_insert
<1>3. b = [j \in 1..Len(a) |-> IF j \in (i + 1)..(i + n) THEN vs[j - i] ELSE c[j]]
  BY <1>1, <1>2 DEF Written
<1>4. \A j \in 1..Len(a) : c[j] \in Stored
  BY <1>1, <1>2
<1>5. \A j \in (i + 1)..(i + n) : vs[j - i] \in Values
  BY <1>1
<1>6. b \in [1..Len(a) -> Stored]
  <2>1. \A j \in 1..Len(a) :
            (IF j \in (i + 1)..(i + n) THEN vs[j - i] ELSE c[j]) \in Stored
    BY <1>4, <1>5 DEF Stored
  <2> HIDE DEF c
  <2> QED
    BY <1>3, <2>1
<1>7. \A j \in 1..i : b[j] = a[j]
  BY <1>1, <1>2, <1>3
<1>8. \A j \in 1..n : b[i + j] = vs[j]
  BY <1>1, <1>3
<1>9. \A j \in (i + n + 1)..len : b[j] = a[j - n]
  <2> SUFFICES ASSUME NEW j \in (i + n + 1)..len PROVE b[j] = a[j - n]
    OBVIOUS
  <2>1. j \in 1..Len(a) /\ i + n < j /\ j <= len /\ j \notin (i + 1)..(i + n)
    BY <1>1
  <2>2. c[j] = a[j - n]
    BY <2>1, <1>2
  <2> HIDE DEF c
  <2> QED
    BY <2>1, <2>2, <1>3
<1>10. b \in Seq(Stored) /\ Len(b) = Len(a)
  <2> HIDE DEF b
  <2> QED
    BY <1>1, <1>6
<1> QED
  BY <1>7, <1>8, <1>9, <1>10

LEMMA RemovedSeq ==
    ASSUME NEW a \in Seq(Stored), NEW len \in 0..Len(a), NEW i \in Nat, NEW n \in Nat,
           i + n <= len
    PROVE  LET b == rarr_remove(a, len, i, n) IN
           /\ b \in Seq(Stored) /\ Len(b) = Len(a)
           /\ \A j \in 1..i : b[j] = a[j]
           /\ \A j \in (i + 1)..(len - n) : b[j] = a[j + n]
<1> DEFINE b == rarr_remove(a, len, i, n)
<1>1. DOMAIN a = 1..Len(a) /\ Len(a) \in Nat
  OBVIOUS
<1>2. b = [j \in 1..Len(a) |-> IF i < j /\ j <= len - n THEN a[j + n] ELSE a[j]]
  BY <1>1 DEF rarr_remove
<1>3. \A j \in 1..Len(a) : b[j] \in Stored
  BY <1>1, <1>2
<1>4. b \in [1..Len(a) -> Stored]
  BY <1>2, <1>3
<1>5. \A j \in 1..i : b[j] = a[j]
  BY <1>1, <1>2
<1>6. \A j \in (i + 1)..(len - n) : b[j] = a[j + n]
  BY <1>1, <1>2
<1>7. b \in Seq(Stored) /\ Len(b) = Len(a)
  <2> HIDE DEF b
  <2> QED
    BY <1>1, <1>4
<1> QED
  BY <1>5, <1>6, <1>7

(***************************************************************************)
(* The client's view: what is between i and k gives way to vs.             *)
(***************************************************************************)
LEMMA SplicedSeq ==
    ASSUME NEW s \in Seq(Kept), NEW i \in 0..Len(s), NEW vs \in Seq(Values)
    PROVE  LET t == SubSeq(s, 1, i) \o vs \o SubSeq(s, i + 1, Len(s)) IN
           /\ t \in Seq(Kept) /\ Len(t) = Len(s) + Len(vs)
           /\ \A j \in 1..i : t[j] = s[j]
           /\ \A j \in 1..Len(vs) : t[i + j] = vs[j]
           /\ \A j \in (i + Len(vs) + 1)..(Len(s) + Len(vs)) : t[j] = s[j - Len(vs)]
<1> DEFINE n == Len(vs)
           u == SubSeq(s, 1, i)
           w == SubSeq(s, i + 1, Len(s))
           t == (u \o vs) \o w
<1>1. n \in Nat /\ Len(s) \in Nat /\ vs \in Seq(Kept)
  BY DEF Kept
<1>2. u \in Seq(Kept) /\ Len(u) = i /\ \A j \in 1..i : u[j] = s[j]
  BY <1>1
<1>3. /\ w \in Seq(Kept) /\ Len(w) = Len(s) - i
      /\ \A j \in 1..(Len(s) - i) : w[j] = s[i + j]
  BY <1>1
<1> HIDE DEF u, w
<1>4. u \o vs \in Seq(Kept) /\ Len(u \o vs) = i + n
  BY <1>1, <1>2
<1>5. \A j \in 1..(i + n) : (u \o vs)[j] = IF j <= i THEN u[j] ELSE vs[j - i]
  BY <1>1, <1>2
<1>6. t \in Seq(Kept) /\ Len(t) = Len(s) + n
  <2>1. t \in Seq(Kept) /\ Len(t) = Len(u \o vs) + Len(w)
    BY <1>3, <1>4, ConcatProperties
  <2> QED
    BY <2>1, <1>1, <1>3, <1>4
<1>7. \A j \in 1..(Len(s) + n) : t[j] = IF j <= i + n THEN (u \o vs)[j] ELSE w[j - (i + n)]
  BY <1>1, <1>3, <1>4
<1> HIDE DEF t
<1>8. \A j \in 1..i : t[j] = s[j]
  BY <1>1, <1>2, <1>5, <1>7
<1>9. \A j \in 1..n : t[i + j] = vs[j]
  <2> SUFFICES ASSUME NEW j \in 1..n PROVE t[i + j] = vs[j]
    OBVIOUS
  <2> DEFINE k == i + j
  <2>1. k \in 1..(i + n) /\ k \in 1..(Len(s) + n) /\ k <= i + n /\ ~ (k <= i) /\ k - i = j
    BY <1>1
  <2> HIDE DEF k
  <2>2. t[k] = (u \o vs)[k]
    BY <2>1, <1>7
  <2>3. (u \o vs)[k] = vs[k - i]
    BY <2>1, <1>5
  <2> QED
    BY <2>1, <2>2, <2>3 DEF k
<1>10. \A j \in (i + n + 1)..(Len(s) + n) : t[j] = s[j - n]
  <2> SUFFICES ASSUME NEW j \in (i + n + 1)..(Len(s) + n) PROVE t[j] = s[j - n]
    OBVIOUS
  <2>1. t[j] = w[j - (i + n)]
    BY <1>1, <1>7
  <2>2. j - (i + n) \in 1..(Len(s) - i) /\ i + (j - (i + n)) = j - n
    BY <1>1
  <2> QED
    BY <2>1, <2>2, <1>3
<1> QED
  BY <1>6, <1>8, <1>9, <1>10 DEF t, u, w

LEMMA CutSeq ==
    ASSUME NEW s \in Seq(Kept), NEW i \in Nat, NEW n \in Nat, i + n <= Len(s)
    PROVE  LET t == SubSeq(s, 1, i) \o SubSeq(s, i + n + 1, Len(s)) IN
           /\ t \in Seq(Kept) /\ Len(t) = Len(s) - n
           /\ \A j \in 1..i : t[j] = s[j]
           /\ \A j \in (i + 1)..(Len(s) - n) : t[j] = s[j + n]
<1> DEFINE u == SubSeq(s, 1, i)
           w == SubSeq(s, i + n + 1, Len(s))
           t == u \o w
<1>1. Len(s) \in Nat
  OBVIOUS
<1>2. u \in Seq(Kept) /\ Len(u) = i /\ \A j \in 1..i : u[j] = s[j]
  BY <1>1
<1>3. /\ w \in Seq(Kept) /\ Len(w) = Len(s) - (i + n)
      /\ \A j \in 1..(Len(s) - (i + n)) : w[j] = s[i + n + j]
  BY <1>1
<1> HIDE DEF u, w
<1>4. t \in Seq(Kept) /\ Len(t) = Len(s) - n
  <2>1. t \in Seq(Kept) /\ Len(t) = Len(u) + Len(w)
    BY <1>2, <1>3, ConcatProperties
  <2> QED
    BY <2>1, <1>1, <1>2, <1>3
<1>5. \A j \in 1..(Len(s) - n) : t[j] = IF j <= i THEN u[j] ELSE w[j - i]
  BY <1>1, <1>2, <1>3
<1> HIDE DEF t
<1>6. \A j \in 1..i : t[j] = s[j]
  BY <1>1, <1>2, <1>5
<1>7. \A j \in (i + 1)..(Len(s) - n) : t[j] = s[j + n]
  <2> SUFFICES ASSUME NEW j \in (i + 1)..(Len(s) - n) PROVE t[j] = s[j + n]
    OBVIOUS
  <2>1. t[j] = w[j - i]
    BY <1>1, <1>5
  <2>2. j - i \in 1..(Len(s) - (i + n)) /\ i + n + (j - i) = j + n
    BY <1>1
  <2> QED
    BY <2>1, <2>2, <1>3
<1> QED
  BY <1>4, <1>6, <1>7 DEF t, u, w

(***************************************************************************)
(* An insertion into a memory that holds the elements and has room for the *)
(* new ones.                                                               *)
(***************************************************************************)
LEMMA OpenedKeeps ==
    ASSUME NEW a \in Seq(Stored), items \in Seq(Kept), Len(items) = count,
           \A j \in 1..count : items[j] = Lost \/ a[j] = items[j],
           NEW i \in 0..count, NEW vs \in Seq(Values), count + Len(vs) <= Len(a),
           Opened(a, i, vs)
    PROVE  /\ arr' \in Seq(Stored) /\ Len(arr') = Len(a)
           /\ count' \in 0..Len(a) /\ items' \in Seq(Kept)
           /\ ContentsKept'
<1> DEFINE n == Len(vs)
           len == count + n
<1>1. n \in Nat /\ count \in Nat /\ Len(a) \in Nat /\ len \in 0..Len(a) /\ i \in Nat /\ i + n <= len
  OBVIOUS
<1>2. count' = len
  BY DEF Opened
<1>3. /\ arr' \in Seq(Stored) /\ Len(arr') = Len(a)
      /\ \A j \in 1..i : arr'[j] = a[j]
      /\ \A j \in 1..n : arr'[i + j] = vs[j]
      /\ \A j \in (i + n + 1)..len : arr'[j] = a[j - n]
  <2> DEFINE b == Written(rarr_insert(a, len, i, n), i, vs)
  <2> HIDE DEF len
  <2>1. arr' = b
    BY DEF Opened, len
  <2> QED
    BY <2>1, <1>1, InsertedSeq
<1>4. /\ items' \in Seq(Kept) /\ Len(items') = len
      /\ \A j \in 1..i : items'[j] = items[j]
      /\ \A j \in 1..n : items'[i + j] = vs[j]
      /\ \A j \in (i + n + 1)..len : items'[j] = items[j - n]
  <2> DEFINE t == SubSeq(items, 1, i) \o vs \o SubSeq(items, i + 1, Len(items))
  <2>1. items' = t
    BY DEF Opened
  <2>2. i \in 0..Len(items)
    OBVIOUS
  <2> QED
    BY <2>1, <2>2, <1>1, SplicedSeq
<1>5. ASSUME NEW j \in 1..len PROVE items'[j] = Lost \/ arr'[j] = items'[j]
  <2>1. CASE j \in 1..i
    BY <2>1, <1>1, <1>3, <1>4
  <2>2. CASE j \in (i + 1)..(i + n)
    <3>1. j - i \in 1..n /\ i + (j - i) = j
      BY <2>2, <1>1
    <3> QED
      BY <3>1, <1>3, <1>4
  <2>3. CASE j \in (i + n + 1)..len
    <3>1. j - n \in 1..count
      BY <2>3, <1>1
    <3> QED
      BY <2>3, <3>1, <1>3, <1>4
  <2> QED
    BY <2>1, <2>2, <2>3, <1>1
<1> QED
  BY <1>1, <1>2, <1>3, <1>4, <1>5 DEF ContentsKept

(***************************************************************************)
(* A removal, for a memory a that holds what Closed holds up to the new    *)
(* number of elements.                                                     *)
(***************************************************************************)
LEMMA DroppedKeeps ==
    ASSUME TypeOK, ContentsKept, NEW i \in 0..count, NEW n \in 0..(count - i), Dropped(i, n),
           \A j \in 1..(count - n) : arr'[j] = Closed(i, n)[j]
    PROVE  /\ Closed(i, n) \in Seq(Stored) /\ Len(Closed(i, n)) = cap
           /\ count' = count - n /\ count' \in 0..count
           /\ items' \in Seq(Kept)
           /\ ContentsKept'
<1> DEFINE b == Closed(i, n)
<1>1. /\ arr \in Seq(Stored) /\ count \in 0..Len(arr) /\ Len(arr) \in Nat
      /\ i \in Nat /\ n \in Nat /\ i + n <= count
      /\ items \in Seq(Kept) /\ Len(items) = count
  BY DEF TypeOK, ContentsKept, cap, Stored, Kept
<1>2. /\ b \in Seq(Stored) /\ Len(b) = Len(arr)
      /\ \A j \in 1..i : b[j] = arr[j]
      /\ \A j \in (i + 1)..(count - n) : b[j] = arr[j + n]
  BY <1>1, RemovedSeq DEF Closed
<1>3. count' = count - n
  BY DEF Dropped
<1>4. /\ items' \in Seq(Kept) /\ Len(items') = count - n
      /\ \A j \in 1..i : items'[j] = items[j]
      /\ \A j \in (i + 1)..(count - n) : items'[j] = items[j + n]
  BY <1>1, CutSeq DEF Dropped
<1> HIDE DEF b
<1>5. ASSUME NEW j \in 1..(count - n) PROVE items'[j] = Lost \/ arr'[j] = items'[j]
  <2>1. arr'[j] = b[j]
    BY DEF b
  <2>2. CASE j \in 1..i
    BY <2>1, <2>2, <1>1, <1>2, <1>4 DEF ContentsKept
  <2>3. CASE j \in (i + 1)..(count - n)
    <3>1. j + n \in 1..count
      BY <2>3, <1>1
    <3> QED
      BY <2>1, <2>3, <3>1, <1>2, <1>4 DEF ContentsKept
  <2> QED
    BY <2>2, <2>3, <1>1
<1> QED
  BY <1>1, <1>2, <1>3, <1>4, <1>5 DEF ContentsKept, b, cap

-----------------------------------------------------------------------------
(***************************************************************************)
(* One lemma for each operation.                                           *)
(***************************************************************************)
LEMMA RunsAreSeqs ==
    ASSUME NEW vs \in Runs
    PROVE  vs \in Seq(Values) /\ Len(vs) \in {1, 2}
<1>1. CASE \E v \in Values : vs = <<v>>
  BY <1>1
<1>2. CASE vs \in Values \X Values
  <2>1. PICK v \in Values, w \in Values : vs = <<v, w>>
    BY <1>2
  <2> QED
    BY <2>1
<1> QED
  BY <1>1, <1>2 DEF Runs

LEMMA insertFitsKeeps ==
    ASSUME DynInv, NEW i \in 0..count, NEW vs \in Runs, insertFits(i, vs)
    PROVE  DynInv'
<1>1. /\ arr \in Seq(Stored) /\ items \in Seq(Kept) /\ Len(items) = count
      /\ count + Len(vs) <= Len(arr)
      /\ Opened(arr, i, vs)
      /\ \A j \in 1..count : items[j] = Lost \/ arr[j] = items[j]
      /\ buf' = buf /\ allowShrink' = allowShrink /\ lent' = lent
  BY DEF DynInv, TypeOK, ContentsKept, insertFits, cap, Stored, Kept
<1>2. /\ arr' \in Seq(Stored) /\ Len(arr') = Len(arr)
      /\ count' \in 0..Len(arr) /\ items' \in Seq(Kept)
      /\ ContentsKept'
  BY <1>1, RunsAreSeqs, OpenedKeeps
<1>3. TypeOK'
  BY <1>1, <1>2 DEF DynInv, TypeOK, cap, Stored, Kept
<1>4. BufferLent'
  BY <1>1, <1>2 DEF DynInv, BufferLent, cap
<1> QED
  BY <1>2, <1>3, <1>4 DEF DynInv

LEMMA insertGrowsKeeps ==
    ASSUME DynInv, NEW i \in 0..count, NEW vs \in Runs, insertGrows(i, vs)
    PROVE  DynInv'
<1> DEFINE newCount == count + Len(vs)
<1>1. /\ TypeOK /\ ContentsKept /\ BufferLent
      /\ arr \in Seq(Stored) /\ Len(arr) = cap /\ cap \in Nat /\ count \in Nat
      /\ items \in Seq(Kept) /\ Len(items) = count
      /\ vs \in Seq(Values) /\ Len(vs) \in Nat
      /\ newCount \in Nat /\ newCount > cap /\ allowShrink' = allowShrink
  BY RunsAreSeqs DEF DynInv, TypeOK, ContentsKept, insertGrows, cap, Stored, Kept
<1>a. PICK newCap \in GrowCaps(newCount) :
          \E new \in reallocBuf(arr, newCap, count) : Adopt(new) /\ Opened(new.mem, i, vs)
  BY DEF insertGrows
<1>2. PICK new \in reallocBuf(arr, newCap, count) : Adopt(new) /\ Opened(new.mem, i, vs)
  BY <1>a
<1>3. newCap \in Nat /\ newCap >= newCount
  BY <1>1 DEF GrowCaps
<1>4. count \in 0..count /\ count <= newCap
  BY <1>1, <1>3
<1>5. /\ new.at \in Blocks
      /\ new.mem \in Seq(Stored) /\ Len(new.mem) \in Nat /\ Len(new.mem) >= newCap
      /\ \A j \in 1..count : new.mem[j] = arr[j]
  BY <1>1, <1>3, <1>4, NewBuffer
<1>6. \A j \in 1..count : items[j] = Lost \/ new.mem[j] = items[j]
  BY <1>1, <1>5 DEF ContentsKept
<1>7. newCount <= Len(new.mem)
  BY <1>1, <1>3, <1>5
<1>8. /\ arr' \in Seq(Stored) /\ Len(arr') = Len(new.mem)
      /\ count' \in 0..Len(new.mem) /\ items' \in Seq(Kept)
      /\ ContentsKept'
  BY <1>1, <1>2, <1>5, <1>6, <1>7, OpenedKeeps
<1>9. buf' \in Blocks /\ lent' = {buf'}
  BY <1>1, <1>2, <1>5, AdoptLends
<1>10. TypeOK'
  BY <1>1, <1>8, <1>9 DEF TypeOK, cap, Stored, Kept
<1>11. BufferLent'
  BY <1>1, <1>7, <1>8, <1>9 DEF BufferLent, cap
<1> QED
  BY <1>8, <1>10, <1>11 DEF DynInv

LEMMA clearKeeps ==
    ASSUME DynInv, clear
    PROVE  DynInv'
<1>1. /\ buf' = NULL /\ arr' = <<>> /\ count' = 0 /\ items' = <<>>
      /\ lent' = {} /\ allowShrink' \in BOOLEAN
  BY DEF DynInv, TypeOK, BufferLent, clear
<1>2. TypeOK'
  BY <1>1 DEF TypeOK, cap
<1> QED
  BY <1>1, <1>2 DEF DynInv, ContentsKept, BufferLent, cap

LEMMA removeKeepsKeeps ==
    ASSUME DynInv, NEW i \in 0..count, NEW n \in 0..(count - i), removeKeeps(i, n)
    PROVE  DynInv'
<1>1. /\ TypeOK /\ ContentsKept /\ BufferLent /\ Dropped(i, n) /\ arr' = Closed(i, n)
      /\ buf' = buf /\ lent' = lent /\ allowShrink' = allowShrink
  BY DEF DynInv, removeKeeps, Dropped
<1>2. /\ arr' \in Seq(Stored) /\ Len(arr') = cap
      /\ count' \in 0..count /\ items' \in Seq(Kept)
      /\ ContentsKept'
  BY <1>1, DroppedKeeps
<1>3. count' \in 0..cap
  BY <1>1, <1>2 DEF TypeOK, cap
<1>4. TypeOK'
  BY <1>1, <1>2, <1>3 DEF TypeOK, cap, Stored, Kept
<1> QED
  BY <1>1, <1>2, <1>4 DEF DynInv, BufferLent, cap

LEMMA removeShrinksKeeps ==
    ASSUME DynInv, NEW i \in 0..count, NEW n \in 0..(count - i), removeShrinks(i, n)
    PROVE  DynInv'
<1> DEFINE newCount == count - n
           newCap == newCount + newCount \div 3
<1>1. /\ TypeOK /\ ContentsKept /\ BufferLent /\ Dropped(i, n)
      /\ count \in Nat /\ newCount \in 1..count /\ allowShrink' = allowShrink
  BY DEF DynInv, TypeOK, removeShrinks, ShrinkWanted, Dropped, cap
<1>2. PICK new \in reallocBuf(Closed(i, n), newCap, newCount) : Adopt(new) /\ arr' = new.mem
  BY DEF removeShrinks
<1>3. newCap \in Nat /\ newCount \in 0..count /\ newCount <= newCap /\ newCap >= 1
  BY <1>1
<1> HIDE DEF newCap
<1>4. Closed(i, n) \in Seq(Stored) /\ Len(Closed(i, n)) = cap
  <2>1. /\ arr \in Seq(Stored) /\ count \in 0..Len(arr)
        /\ i \in Nat /\ n \in Nat /\ i + n <= count /\ Len(arr) = cap
    BY <1>1 DEF TypeOK, cap, Stored
  <2> QED
    BY <2>1, RemovedSeq DEF Closed
<1>5. /\ new.at \in Blocks
      /\ new.mem \in Seq(Stored) /\ Len(new.mem) \in Nat /\ Len(new.mem) >= newCap
      /\ \A j \in 1..newCount : new.mem[j] = Closed(i, n)[j]
  BY <1>1, <1>2, <1>3, <1>4, NewBuffer
<1>6. \A j \in 1..(count - n) : arr'[j] = Closed(i, n)[j]
  BY <1>2, <1>5
<1>7. count' = newCount /\ items' \in Seq(Kept) /\ ContentsKept'
  BY <1>1, <1>6, DroppedKeeps
<1>8. buf' \in Blocks /\ lent' = {buf'}
  BY <1>1, <1>2, <1>5, AdoptLends
<1>9. count' \in 0..Len(arr') /\ Len(arr') # 0
  BY <1>1, <1>2, <1>3, <1>5, <1>7
<1>10. TypeOK'
  BY <1>1, <1>2, <1>5, <1>7, <1>8, <1>9 DEF TypeOK, cap, Stored, Kept
<1> QED
  BY <1>7, <1>8, <1>9, <1>10 DEF DynInv, BufferLent, cap

LEMMA setCapKeeps ==
    ASSUME DynInv, NEW n \in Nat \ {0}, setCap(n)
    PROVE  DynInv'
<1> DEFINE kept == Least(count, n)
<1>1. /\ TypeOK /\ ContentsKept /\ BufferLent
      /\ arr \in Seq(Stored) /\ Len(arr) = cap /\ count \in Nat
      /\ items \in Seq(Kept) /\ Len(items) = count
  BY DEF DynInv, TypeOK, ContentsKept, cap, Stored, Kept
<1>2. PICK new \in reallocBuf(arr, n, kept) :
          /\ Adopt(new)
          /\ arr' = new.mem
          /\ count' = Least(count, Len(new.mem))
          /\ items' = [i \in 1..count' |-> IF i <= n THEN items[i] ELSE Lost]
          /\ allowShrink' = allowShrink
  BY DEF setCap
<1>3. kept \in 0..count /\ kept <= n /\ \A j \in 1..count : j <= n => j \in 1..kept
  BY <1>1 DEF Least
<1> HIDE DEF kept
<1>4. /\ new.at \in Blocks
      /\ new.mem \in Seq(Stored) /\ Len(new.mem) \in Nat /\ Len(new.mem) >= n
      /\ \A j \in 1..kept : new.mem[j] = arr[j]
  BY <1>1, <1>2, <1>3, NewBuffer
<1>5. count' \in 0..Len(arr') /\ count' <= count /\ count' \in Nat /\ Len(arr') # 0
  BY <1>1, <1>2, <1>4 DEF Least
<1>6. items' \in Seq(Kept) /\ Len(items') = count'
  <2>1. \A i \in 1..count' : (IF i <= n THEN items[i] ELSE Lost) \in Kept
    BY <1>1, <1>5 DEF Kept
  <2>2. items' \in [1..count' -> Kept]
    BY <1>2, <2>1
  <2> QED
    BY <2>2, <1>5
<1>7. ASSUME NEW j \in 1..count' PROVE items'[j] = Lost \/ arr'[j] = items'[j]
  <2>1. items'[j] = IF j <= n THEN items[j] ELSE Lost
    BY <1>2
  <2>2. CASE j <= n
    <3>1. j \in 1..count
      BY <1>1, <1>5
    <3>2. j \in 1..kept
      BY <2>2, <3>1, <1>3
    <3> QED
      BY <2>1, <2>2, <3>1, <3>2, <1>1, <1>2, <1>4 DEF ContentsKept
  <2> QED
    BY <2>1, <2>2
<1>8. buf' \in Blocks /\ lent' = {buf'}
  BY <1>1, <1>2, <1>4, AdoptLends
<1>9. TypeOK'
  BY <1>1, <1>2, <1>4, <1>5, <1>6, <1>8 DEF TypeOK, cap, Stored, Kept
<1> QED
  BY <1>5, <1>6, <1>7, <1>8, <1>9 DEF DynInv, ContentsKept, BufferLent, cap

-----------------------------------------------------------------------------
(***************************************************************************)
(* Every operation keeps the invariant.                                    *)
(***************************************************************************)
LEMMA InitDynInv ==
    ASSUME Init
    PROVE  DynInv
<1>1. TypeOK
  <2>1. allowShrink \in BOOLEAN
    BY DEF Init
  <2>2. buf = NULL /\ arr = <<>> /\ count = 0 /\ lent = {} /\ items = <<>>
    BY DEF Init
  <2> QED
    BY <2>1, <2>2 DEF TypeOK, cap
<1> QED
  BY <1>1 DEF Init, DynInv, ContentsKept, BufferLent, cap

LEMMA StutterKeeps ==
    ASSUME DynInv, UNCHANGED vars
    PROVE  DynInv'
BY DEF DynInv, TypeOK, ContentsKept, BufferLent, cap, vars

LEMMA NextKeeps ==
    ASSUME DynInv, Next
    PROVE  DynInv'
<1>1. CASE \E i \in 0..count, vs \in Runs : insertFits(i, vs) \/ insertGrows(i, vs)
  BY <1>1, insertFitsKeeps, insertGrowsKeeps
<1>2. CASE Refused
  BY <1>2, StutterKeeps DEF Refused
<1>3. ASSUME NEW i \in 0..count, NEW n \in 0..(count - i),
             removeKeeps(i, n) \/ removeShrinks(i, n) \/ removeAll(n)
      PROVE  DynInv'
  BY <1>3, removeKeepsKeeps, removeShrinksKeeps, clearKeeps DEF removeAll
<1>4. ASSUME NEW n \in 1..MaxCount, setCap(n)
      PROVE  DynInv'
  <2>1. n \in Nat \ {0}
    BY DynAssumption
  <2> QED
    BY <2>1, <1>4, setCapKeeps
<1>5. CASE clear
  BY <1>5, clearKeeps
<1>6. CASE allow
  <2>1. UNCHANGED <<buf, arr, count, lent, items>> /\ allowShrink' \in BOOLEAN
    BY <1>6 DEF DynInv, TypeOK, allow
  <2> QED
    BY <2>1 DEF DynInv, TypeOK, ContentsKept, BufferLent, cap
<1> QED
  BY <1>1, <1>2, <1>3, <1>4, <1>5, <1>6 DEF Next

(***************************************************************************)
(* The conjunction of the three properties is inductive, and holds of      *)
(* every behaviour.                                                        *)
(***************************************************************************)
THEOREM DynInvHolds == Spec => []DynInv
<1>1. DynInv /\ [Next]_vars => DynInv'
  BY NextKeeps, StutterKeeps
<1> QED
  BY InitDynInv, <1>1, PTL DEF Spec

(* The elements are inside the buffer: p->count never passes p->cap.       *)
THEOREM TypeOKHolds == Spec => []TypeOK
<1>1. DynInv => TypeOK
  BY DEF DynInv
<1> QED
  BY DynInvHolds, <1>1, PTL

(***************************************************************************)
(* Through growing, shrinking and moving, by realloc or by allocating,     *)
(* copying and freeing, every element the client wrote is where its        *)
(* insertions and removals put it.                                         *)
(***************************************************************************)
THEOREM ContentsKeptHolds == Spec => []ContentsKept
<1>1. DynInv => ContentsKept
  BY DEF DynInv
<1> QED
  BY DynInvHolds, <1>1, PTL

(* The array borrows its one buffer of the parent, and gives each back.    *)
THEOREM BufferLentHolds == Spec => []BufferLent
<1>1. DynInv => BufferLent
  BY DEF DynInv
<1> QED
  BY DynInvHolds, <1>1, PTL

-----------------------------------------------------------------------------
(***************************************************************************)
(* The binary searches of a dynamic array are right for every array, every *)
(* order and every target: the loop keeps what it has passed apart from    *)
(* what it has not.                                                        *)
(***************************************************************************)
(* The elements that the search leaves to the left.                        *)
Passed(x) == IF desc THEN x >= target ELSE x < target

LoopInv ==
    /\ Sorted(desc)
    /\ left \in Nat /\ right \in Nat /\ left <= right /\ right <= count
    /\ \A i \in 1..left : Passed(arr[i])
    /\ \A i \in (right + 1)..count : ~ Passed(arr[i])

SearchInv ==
    /\ DynInv
    /\ desc \in BOOLEAN /\ target \in Int
    /\ pc = "loop" => LoopInv
    /\ SearchFinds

LEMMA cmpSign ==
    ASSUME NEW x \in Int, NEW y \in Int
    PROVE  /\ cmp(x, y) < 0 <=> x < y
           /\ cmp(x, y) > 0 <=> x > y
           /\ cmp(x, y) >= 0 <=> x >= y
           /\ cmp(x, y) = 0 <=> x = y
BY DEF cmp

LEMMA SortedInts ==
    ASSUME DynInv, LoopInv
    PROVE  count \in Nat /\ \A i \in 1..count : arr[i] \in Int
<1>1. \A i \in 1..count : arr[i] \in Values
  BY DEF LoopInv, Sorted
<1>2. count \in Nat
  BY DEF DynInv, TypeOK, cap
<1> QED
  BY <1>1, <1>2, SearchAssumption

-----------------------------------------------------------------------------
LEMMA InitSearchInv ==
    ASSUME SearchInit
    PROVE  SearchInv
<1>1. DynInv
  BY InitDynInv DEF SearchInit
<1>2. desc \in BOOLEAN
  BY DEF SearchInit
<1>3. target \in Int /\ pc = "idle"
  BY DEF SearchInit
<1> QED
  BY <1>1, <1>2, <1>3 DEF SearchInv, SearchFinds

LEMMA BeginKeeps ==
    ASSUME SearchInv, NEW d \in BOOLEAN, NEW t \in Targets, Begin(d, t)
    PROVE  SearchInv'
<1>1. DynInv'
  BY StutterKeeps DEF SearchInv, Begin
<1>2. /\ desc' = d /\ target' = t /\ pc' = "loop" /\ left' = 0 /\ right' = count
      /\ arr' = arr /\ count' = count /\ Sorted(d)
  BY DEF Begin, vars
<1>3. desc' \in BOOLEAN /\ target' \in Int
  BY <1>2, SearchAssumption
<1>4. count \in Nat
  BY DEF SearchInv, DynInv, TypeOK, cap
<1>5. Sorted(desc)'
  BY <1>2 DEF Sorted
<1>6. LoopInv'
  BY <1>2, <1>4, <1>5 DEF LoopInv
<1> QED
  BY <1>1, <1>2, <1>3, <1>6 DEF SearchInv, SearchFinds

(***************************************************************************)
(* A turn of the loop: what the middle element says goes for all elements  *)
(* on its side.                                                            *)
(***************************************************************************)
LEMMA MidSplits ==
    ASSUME SearchInv, pc = "loop", left < right
    PROVE  /\ mid \in Nat /\ left <= mid /\ mid < right
           /\ GoesRight => \A i \in 1..(mid + 1) : Passed(arr[i])
           /\ ~ GoesRight => \A i \in (mid + 1)..count : ~ Passed(arr[i])
<1>1. LoopInv /\ DynInv /\ desc \in BOOLEAN /\ target \in Int
  BY DEF SearchInv
<1>2. count \in Nat /\ \A i \in 1..count : arr[i] \in Int
  BY <1>1, SortedInts
<1>3. mid \in Nat /\ left <= mid /\ mid < right /\ mid + 1 \in 1..count
  BY <1>1, <1>2 DEF LoopInv, mid
<1> DEFINE m == mid + 1
<1>4. m \in 1..count /\ m \in Nat
  BY <1>3
<1> HIDE DEF m
<1>5. GoesRight <=> Passed(arr[m])
  <2>1. arr[m] \in Int
    BY <1>2, <1>4
  <2> QED
    BY <2>1, <1>1, cmpSign DEF GoesRight, Passed, m
<1>6. ASSUME NEW i \in 1..count, NEW j \in 1..count, i <= j, Passed(arr[j])
      PROVE  Passed(arr[i])
  <2>1. arr[i] \in Int /\ arr[j] \in Int
    BY <1>2
  <2>2. IF desc THEN arr[i] >= arr[j] ELSE arr[i] <= arr[j]
    BY <2>1, <1>1, <1>6 DEF LoopInv, Sorted
  <2> QED
    BY <2>1, <2>2, <1>1, <1>6 DEF Passed
<1>7. ASSUME GoesRight, NEW i \in 1..m PROVE Passed(arr[i])
  <2>1. i \in 1..count /\ i <= m
    BY <1>2, <1>4
  <2> QED
    BY <2>1, <1>4, <1>5, <1>6, <1>7
<1>8. ASSUME ~ GoesRight, NEW i \in m..count PROVE ~ Passed(arr[i])
  <2>1. i \in 1..count /\ m <= i
    BY <1>2, <1>4
  <2> QED
    BY <2>1, <1>4, <1>5, <1>6, <1>8
<1> QED
  BY <1>3, <1>7, <1>8 DEF m

LEMMA LoopKeeps ==
    ASSUME SearchInv, Loop
    PROVE  SearchInv'
<1>1. /\ LoopInv /\ pc = "loop" /\ left < right
      /\ pc' = "loop" /\ desc' = desc /\ target' = target
      /\ arr' = arr /\ count' = count
      /\ left' = Narrowed[1] /\ right' = Narrowed[2]
  BY DEF SearchInv, Loop, vars
<1>2. DynInv'
  BY StutterKeeps DEF SearchInv, Loop
<1>3. /\ mid \in Nat /\ left <= mid /\ mid < right
      /\ GoesRight => \A i \in 1..(mid + 1) : Passed(arr[i])
      /\ ~ GoesRight => \A i \in (mid + 1)..count : ~ Passed(arr[i])
  BY <1>1, MidSplits
<1>4. Sorted(desc)'
  BY <1>1 DEF LoopInv, Sorted
<1>6. CASE GoesRight
  <2>1. left' = mid + 1 /\ right' = right
    BY <1>1, <1>6 DEF Narrowed
  <2>2. left' \in Nat /\ right' \in Nat /\ left' <= right' /\ right' <= count'
    BY <1>1, <1>3, <2>1 DEF LoopInv
  <2>3. (\A i \in 1..left : Passed(arr[i]))'
    BY <1>1, <1>3, <1>6, <2>1 DEF Passed
  <2>4. (\A i \in (right + 1)..count : ~ Passed(arr[i]))'
    BY <1>1, <2>1 DEF LoopInv, Passed
  <2> QED
    BY <1>4, <2>2, <2>3, <2>4, <1>1, <1>2 DEF LoopInv, SearchInv, SearchFinds
<1>7. CASE ~ GoesRight
  <2>1. left' = left /\ right' = mid
    BY <1>1, <1>7 DEF Narrowed
  <2>2. left' \in Nat /\ right' \in Nat /\ left' <= right' /\ right' <= count'
    <3>1. count \in Nat
      BY DEF SearchInv, DynInv, TypeOK, cap
    <3> QED
      BY <1>1, <1>3, <2>1, <3>1 DEF LoopInv
  <2>3. (\A i \in 1..left : Passed(arr[i]))'
    BY <1>1, <2>1 DEF LoopInv, Passed
  <2>4. (\A i \in (right + 1)..count : ~ Passed(arr[i]))'
    BY <1>1, <1>3, <1>7, <2>1 DEF Passed
  <2> QED
    BY <1>4, <2>2, <2>3, <2>4, <1>1, <1>2 DEF LoopInv, SearchInv, SearchFinds
<1> QED
  BY <1>6, <1>7

(***************************************************************************)
(* The loop ends where the passed elements do.                             *)
(***************************************************************************)
LEMMA PassedAreLeft ==
    ASSUME SearchInv, pc = "loop", ~ (left < right)
    PROVE  /\ count \in Nat /\ left \in 0..count
           /\ \A i \in 1..count : arr[i] \in Int
           /\ \A i \in 1..count : i <= left => Passed(arr[i])
           /\ \A i \in 1..count : ~ (i <= left) => ~ Passed(arr[i])
<1>1. LoopInv /\ DynInv
  BY DEF SearchInv
<1>2. count \in Nat /\ \A i \in 1..count : arr[i] \in Int
  BY <1>1, SortedInts
<1>3. left \in 0..count /\ right = left
  BY <1>1, <1>2 DEF LoopInv
<1>4. ASSUME NEW i \in 1..count, i <= left PROVE Passed(arr[i])
  BY <1>1, <1>2, <1>3, <1>4 DEF LoopInv
<1>5. ASSUME NEW i \in 1..count, ~ (i <= left) PROVE ~ Passed(arr[i])
  <2>1. i \in (right + 1)..count
    BY <1>2, <1>3, <1>5
  <2> QED
    BY <2>1, <1>1 DEF LoopInv
<1> QED
  BY <1>2, <1>3, <1>4, <1>5

LEMMA ReturnKeeps ==
    ASSUME SearchInv, Return
    PROVE  SearchInv'
<1>1. /\ pc = "loop" /\ ~ (left < right) /\ pc' = "done"
      /\ desc' = desc /\ target' = target /\ arr' = arr /\ count' = count
  BY DEF Return, vars
<1>2. DynInv' /\ desc \in BOOLEAN /\ target \in Int /\ LoopInv
  BY <1>1, StutterKeeps DEF SearchInv, Return
<1>3. /\ count \in Nat /\ left \in 0..count
      /\ \A i \in 1..count : arr[i] \in Int
      /\ \A i \in 1..count : i <= left => Passed(arr[i])
      /\ \A i \in 1..count : ~ (i <= left) => ~ Passed(arr[i])
  BY <1>1, PassedAreLeft
<1>4. \A i, j \in 1..count : i < j => IF desc THEN arr[i] >= arr[j] ELSE arr[i] <= arr[j]
  BY <1>2 DEF LoopInv, Sorted
<1>5. CASE ~ desc
  <2>1. /\ found' <=> left < count /\ Matches(left)
        /\ out_index' = left
    BY <1>5 DEF Return
  <2>2. /\ \A i \in 1..count : i <= left => arr[i] < target
        /\ \A i \in 1..count : ~ (i <= left) => arr[i] >= target
    BY <1>2, <1>3, <1>5 DEF Passed
  <2>3. found' <=> left < count /\ arr[left + 1] = target
    <3>1. left < count => left + 1 \in 1..count
      BY <1>3
    <3> QED
      BY <2>1, <3>1, <1>2, <1>3, cmpSign DEF Matches
  <2>4. ASSUME NEW i \in 1..count, arr[i] = target
        PROVE  left < count /\ arr[left + 1] = target /\ left + 1 <= i
    <3>1. ~ (i <= left)
      BY <2>2, <2>4, <1>2
    <3>2. left + 1 \in 1..count /\ left + 1 <= i /\ left < count
      BY <3>1, <1>3
    <3>3. arr[left + 1] >= target
      BY <2>2, <3>2, <1>3
    <3>4. arr[left + 1] <= arr[i]
      BY <3>2, <1>3, <1>4, <1>5
    <3> QED
      BY <2>4, <3>2, <3>3, <3>4, <1>2, <1>3
  <2>5. found' <=> \E i \in 1..count : arr[i] = target
    <3>1. left < count => left + 1 \in 1..count
      BY <1>3
    <3> QED
      BY <2>3, <2>4, <3>1
  <2>6. found' => /\ left \in 0..(count - 1) /\ arr[left + 1] = target
                  /\ \A i \in 1..count : arr[i] = target => i >= left + 1
    BY <2>3, <2>4, <1>3
  <2>7. ~ found' => \A i \in 1..count : cmp(arr[i], target) < 0 <=> i <= left
    BY <2>2, <1>2, <1>3, cmpSign
  <2> QED
    BY <2>1, <2>5, <2>6, <2>7, <1>1, <1>2, <1>3, <1>5 DEF SearchInv, SearchFinds, Ahead
<1>6. CASE desc
  <2>1. /\ found' <=> left > 0 /\ Matches(left - 1)
        /\ out_index' = IF found' THEN left - 1 ELSE left
    BY <1>6 DEF Return
  <2>2. /\ \A i \in 1..count : i <= left => arr[i] >= target
        /\ \A i \in 1..count : ~ (i <= left) => arr[i] < target
    BY <1>2, <1>3, <1>6 DEF Passed
  <2>3. found' <=> left > 0 /\ arr[left] = target
    <3>1. (left - 1) + 1 = left /\ (left > 0 => left \in 1..count)
      BY <1>3
    <3> QED
      BY <2>1, <3>1, <1>2, <1>3, cmpSign DEF Matches
  <2>4. ASSUME NEW i \in 1..count, arr[i] = target
        PROVE  left > 0 /\ arr[left] = target /\ i <= left
    <3>1. i <= left
      BY <2>2, <2>4, <1>2
    <3>2. left \in 1..count /\ left > 0
      BY <3>1, <1>3
    <3>3. arr[left] >= target
      BY <2>2, <3>2, <1>3
    <3>4. arr[left] <= arr[i]
      BY <3>1, <3>2, <1>3, <1>4, <1>6
    <3> QED
      BY <2>4, <3>1, <3>2, <3>3, <3>4, <1>2, <1>3
  <2>5. found' <=> \E i \in 1..count : arr[i] = target
    <3>1. left > 0 => left \in 1..count
      BY <1>3
    <3> QED
      BY <2>3, <2>4, <3>1
  <2>6. found' => /\ left - 1 \in 0..(count - 1) /\ arr[(left - 1) + 1] = target
                  /\ \A i \in 1..count : arr[i] = target => i <= (left - 1) + 1
    BY <2>3, <2>4, <1>3
  <2>7. ~ found' => \A i \in 1..count : cmp(arr[i], target) > 0 <=> i <= left
    <3> SUFFICES ASSUME ~ found', NEW i \in 1..count
                 PROVE  cmp(arr[i], target) > 0 <=> i <= left
      OBVIOUS
    <3>1. arr[i] # target /\ arr[i] \in Int
      BY <2>5, <1>3
    <3>2. arr[i] > target <=> i <= left
      BY <3>1, <2>2, <1>2, <1>3
    <3> QED
      BY <3>1, <3>2, <1>2, cmpSign
  <2> QED
    BY <2>1, <2>5, <2>6, <2>7, <1>1, <1>2, <1>3, <1>6 DEF SearchInv, SearchFinds, Ahead
<1> QED
  BY <1>2, <1>5, <1>6

LEMMA CallKeeps ==
    ASSUME SearchInv, Call
    PROVE  SearchInv'
<1>1. DynInv'
  BY NextKeeps DEF SearchInv, Call
<1>2. desc' \in BOOLEAN
  BY DEF Call
<1>3. target' \in Int /\ pc' = "idle"
  BY DEF Call
<1> QED
  BY <1>1, <1>2, <1>3 DEF SearchInv, SearchFinds

-----------------------------------------------------------------------------
(***************************************************************************)
(* The invariant of array and search together.                             *)
(***************************************************************************)
THEOREM SearchInvHolds == SearchSpec => []SearchInv
<1>1. SearchInit => SearchInv
  BY InitSearchInv
<1>2. SearchInv /\ [SearchNext]_allVars => SearchInv'
  <2> SUFFICES ASSUME SearchInv, [SearchNext]_allVars PROVE SearchInv'
    OBVIOUS
  <2>1. ASSUME NEW d \in BOOLEAN, NEW t \in Targets, Begin(d, t) PROVE SearchInv'
    BY <2>1, BeginKeeps
  <2>2. CASE Loop
    BY <2>2, LoopKeeps
  <2>3. CASE Return
    BY <2>3, ReturnKeeps
  <2>4. CASE Call
    BY <2>4, CallKeeps
  <2>5. CASE UNCHANGED allVars
    <3>1. DynInv'
      BY <2>5, StutterKeeps DEF SearchInv, allVars
    <3>2. UNCHANGED <<buf, arr, count, pc, desc, target, left, right, out_index, found>>
      BY <2>5 DEF allVars, vars, searchVars
    <3>3. (pc = "loop" => LoopInv)'
      BY <3>2 DEF SearchInv, LoopInv, Sorted, Passed
    <3>4. SearchFinds'
      BY <3>2 DEF SearchInv, SearchFinds, Ahead, cmp
    <3> QED
      BY <3>1, <3>2, <3>3, <3>4 DEF SearchInv
  <2> QED
    BY <2>1, <2>2, <2>3, <2>4, <2>5 DEF SearchNext
<1> QED
  BY <1>1, <1>2, PTL DEF SearchSpec

(***************************************************************************)
(* A search that returns found the target if it is there, at its first or  *)
(* last match as the order asks, or else where it can be inserted.         *)
(***************************************************************************)
THEOREM SearchFindsHolds == SearchSpec => []SearchFinds
<1>1. SearchInv => SearchFinds
  BY DEF SearchInv
<1> QED
  BY SearchInvHolds, <1>1, PTL

(* The array is as sound between searches as without them.                 *)
THEOREM ArrayStaysSound == SearchSpec => [](TypeOK /\ ContentsKept /\ BufferLent)
<1>1. SearchInv => TypeOK /\ ContentsKept /\ BufferLent
  BY DEF SearchInv, DynInv
<1> QED
  BY SearchInvHolds, <1>1, PTL

=============================================================================
