-------------------------- MODULE ralcArena_proofs --------------------------
(***************************************************************************)
(* A mark of the arena is a byte count, and rewinding to it brings back    *)
(* the chunks there were when it was taken; the objects older than it stay *)
(* where they are, and no block of the parent is leaked or freed twice.    *)
(***************************************************************************)
EXTENDS ralcArena, FiniteSetTheorems, SequenceTheorems, Lemmas, TLAPS

Chunk == [block : Blocks, cap : Nat, size : Nat]
Obj   == [block : Blocks, at : Nat, len : Nat \ {0}]
Mark  == [size : Nat, chunks : Seq(Chunk), count : Nat]

-----------------------------------------------------------------------------
(* Arithmetic.                                                             *)
LEMMA PushSizeIs ==
    ASSUME NEW n \in Requests
    PROVE  PushSize(n) \in Nat \ {0}
<1> DEFINE k == IF n = 0 THEN 1 ELSE n
<1>1. k \in Nat \ {0} /\ Alignment \in Nat \ {0}
  BY SizesAssumption
<1> HIDE DEF k
<1>2. Align(k) \in Nat /\ Align(k) >= k
  BY <1>1 DEF Align
<1> QED
  BY <1>1, <1>2 DEF PushSize, k

LEMMA NewChunkIs ==
    ASSUME NEW blk \in Blocks, NEW more \in Extra, NEW n \in Nat \ {0}
    PROVE  LET bytes == NewChunkSize(n) + more
               c == NewChunk(blk, bytes, n)
           IN  /\ c \in Chunk /\ c.block = blk /\ c.size = n /\ n <= c.cap
               /\ bytes = Header + c.cap
<1> DEFINE room == (IF ChunkCap > n THEN ChunkCap ELSE 2 * n) + more
<1>1. room \in Nat /\ room >= n /\ Header \in Nat
  BY SizesAssumption
<1>2. NewChunkSize(n) + more = Header + room
  BY <1>1, SizesAssumption DEF NewChunkSize, chunkAllocSize
<1> HIDE DEF room
<1>3. (Header + room) - Header = room
  BY <1>1
<1>4. NewChunk(blk, NewChunkSize(n) + more, n) = [block |-> blk, cap |-> room, size |-> n]
  BY <1>2, <1>3 DEF NewChunk
<1> QED
  BY <1>1, <1>2, <1>4 DEF Chunk

-----------------------------------------------------------------------------
(***************************************************************************)
(* Chunk lists.  Tops(cs, f): the first i - 1 chunks of cs hold f[1] - f[i]*)
(* bytes, and those from the i-th on f[i].                                 *)
(***************************************************************************)
Tops(cs, f) ==
    /\ f \in [1..(Len(cs) + 1) -> Nat]
    /\ f[Len(cs) + 1] = 0
    /\ \A i \in 1..Len(cs) : f[i] = f[i + 1] + cs[i].size

(* cs is a list of chunks, none of them empty or overfull, of sz bytes.    *)
Stack(cs, sz) ==
    /\ cs \in Seq(Chunk)
    /\ \A i \in 1..Len(cs) : cs[i].size \in 1..cs[i].cap
    /\ \A i, j \in 1..Len(cs) : cs[i].block = cs[j].block => i = j
    /\ \E f : Tops(cs, f) /\ sz = f[1]

(* cs is what became of ms by pushes: chunks on top, and more in the one   *)
(* that was the top.                                                       *)
Under(ms, cs) ==
    /\ Len(ms) <= Len(cs)
    /\ \A j \in 2..Len(ms) : ms[j] = cs[Len(cs) - Len(ms) + j]
    /\ Len(ms) >= 1 =>
          /\ ms[1].block = cs[Len(cs) - Len(ms) + 1].block
          /\ ms[1].cap = cs[Len(cs) - Len(ms) + 1].cap
          /\ ms[1].size <= cs[Len(cs) - Len(ms) + 1].size

LEMMA StackFacts ==
    ASSUME NEW cs, NEW sz, Stack(cs, sz)
    PROVE  /\ cs \in Seq(Chunk) /\ Len(cs) \in Nat /\ DOMAIN cs = 1..Len(cs)
           /\ \A i \in 1..Len(cs) :
                 /\ cs[i] \in Chunk /\ cs[i].block \in Blocks
                 /\ cs[i].cap \in Nat /\ cs[i].size \in Nat
                 /\ cs[i].size >= 1 /\ cs[i].size <= cs[i].cap
           /\ sz \in Nat
<1>1. cs \in Seq(Chunk) /\ Len(cs) \in Nat /\ DOMAIN cs = 1..Len(cs)
  BY LenProperties DEF Stack
<1>2. ASSUME NEW i \in 1..Len(cs)
      PROVE  /\ cs[i] \in Chunk /\ cs[i].block \in Blocks
             /\ cs[i].cap \in Nat /\ cs[i].size \in Nat
             /\ cs[i].size >= 1 /\ cs[i].size <= cs[i].cap
  <2>1. cs[i] \in Chunk
    BY <1>1, ElementOfSeq
  <2>2. cs[i].size \in 1..cs[i].cap
    BY DEF Stack
  <2> QED
    BY <2>1, <2>2 DEF Chunk
<1>3. sz \in Nat
  <2>1. PICK f : Tops(cs, f) /\ sz = f[1]
    BY DEF Stack
  <2>2. 1 \in 1..(Len(cs) + 1)
    BY <1>1
  <2> QED
    BY <2>1, <2>2 DEF Tops
<1> QED
  BY <1>1, <1>2, <1>3

(* Lower chunks hold no more bytes.                                        *)
LEMMA TopsFall ==
    ASSUME NEW cs, NEW sz, Stack(cs, sz), NEW f, Tops(cs, f),
           NEW i \in 1..(Len(cs) + 1), NEW j \in i..(Len(cs) + 1)
    PROVE  f[j] <= f[i]
<1>1. /\ Len(cs) \in Nat /\ \A h \in 1..(Len(cs) + 1) : f[h] \in Nat
      /\ \A h \in 1..Len(cs) : f[h] = f[h + 1] + cs[h].size /\ cs[h].size \in Nat
  BY StackFacts DEF Tops
<1> SUFFICES ASSUME ~ (f[j] <= f[i]) PROVE FALSE
  OBVIOUS
<1> DEFINE T == {h \in i..(Len(cs) + 1) : ~ (f[h] <= f[i])}
<1>2. T \in SUBSET Nat /\ j \in T
  BY <1>1
<1>3. PICK h \in T : \A g \in T : h <= g
  BY <1>2, LeastOf
<1>4. h # i /\ h \in i..(Len(cs) + 1)
  BY <1>1, <1>3
<1>5. h - 1 \in i..(Len(cs) + 1) /\ h - 1 \in 1..Len(cs) /\ ~ (h <= h - 1)
  BY <1>1, <1>4
<1>6. f[h - 1] <= f[i]
  BY <1>3, <1>5
<1>7. f[h - 1] = f[h] + cs[h - 1].size /\ cs[h - 1].size \in Nat
  BY <1>1, <1>4, <1>5
<1>8. f[h] \in Nat /\ f[i] \in Nat /\ ~ (f[h] <= f[i])
  BY <1>1, <1>3, <1>4
<1> QED
  BY <1>6, <1>7, <1>8

(* Equal chunks at the bottom hold as many bytes.                          *)
LEMMA TopsAgree ==
    ASSUME NEW cs, NEW sz, Stack(cs, sz), NEW f, Tops(cs, f),
           NEW ms, NEW msz, Stack(ms, msz), NEW g, Tops(ms, g),
           Under(ms, cs), NEW j \in 2..(Len(ms) + 1)
    PROVE  g[j] = f[Len(cs) - Len(ms) + j]
<1> DEFINE k == Len(cs) - Len(ms)
           n == Len(ms) + 1
<1>1. /\ Len(cs) \in Nat /\ Len(ms) \in Nat /\ k \in Nat
  BY StackFacts DEF Under
<1>2. f[k + n] = 0 /\ g[n] = 0
  <2>1. k + n = Len(cs) + 1
    BY <1>1
  <2> QED
    BY <2>1 DEF Tops
<1>3. \A h \in 2..Len(ms) : /\ g[h] = g[h + 1] + ms[h].size
                            /\ f[k + h] = f[k + (h + 1)] + ms[h].size
  <2> SUFFICES ASSUME NEW h \in 2..Len(ms)
               PROVE  /\ g[h] = g[h + 1] + ms[h].size
                      /\ f[k + h] = f[k + (h + 1)] + ms[h].size
    OBVIOUS
  <2>1. h \in 1..Len(ms) /\ k + h \in 1..Len(cs) /\ (k + h) + 1 = k + (h + 1)
    BY <1>1
  <2>2. ms[h] = cs[k + h]
    BY DEF Under
  <2> QED
    BY <2>1, <2>2 DEF Tops
<1> SUFFICES ASSUME g[j] # f[k + j] PROVE FALSE
  OBVIOUS
<1> HIDE DEF k
<1> DEFINE T == {h \in 0..(n - 2) : g[n - h] # f[k + (n - h)]}
<1>4. T \in SUBSET Nat /\ n - j \in T
  <2>1. n - j \in 0..(n - 2) /\ n - (n - j) = j
    BY <1>1
  <2> QED
    BY <2>1
<1>5. PICK h \in T : \A x \in T : h <= x
  BY <1>4, LeastOf
<1>6. h # 0
  BY <1>1, <1>2, <1>5
<1>7. h - 1 \in 0..(n - 2) /\ ~ (h <= h - 1) /\ n - h \in 2..Len(ms) /\ (n - h) + 1 = n - (h - 1)
  BY <1>1, <1>5, <1>6
<1>8. g[n - (h - 1)] = f[k + (n - (h - 1))]
  BY <1>5, <1>7
<1>9. g[n - h] = f[k + (n - h)]
  BY <1>3, <1>7, <1>8
<1> QED
  BY <1>5, <1>9

(* What the loop of ralcArena_rewind has left after each chunk it frees.   *)
LEMMA LeftIs ==
    ASSUME Stack(chunks, size), NEW f, Tops(chunks, f), NEW d \in Int
    PROVE  \A i \in 0..Len(chunks) : Left(d)[i] = d - (f[1] - f[i + 1])
<1> DEFINE n == Len(chunks)
           g == [i \in 0..n |-> d - (f[1] - f[i + 1])]
           r == Left(d)
<1>1. /\ n \in Nat
      /\ \A i \in 1..(n + 1) : f[i] \in Nat
      /\ \A i \in 1..n : f[i] = f[i + 1] + chunks[i].size /\ chunks[i].size \in Nat
  BY StackFacts DEF Tops
<1>2. \A i \in 1..n : d - (f[1] - f[i + 1]) = (d - (f[1] - f[(i - 1) + 1])) - chunks[i].size
  <2> SUFFICES ASSUME NEW i \in 1..n
               PROVE  d - (f[1] - f[i + 1]) = (d - (f[1] - f[(i - 1) + 1])) - chunks[i].size
    OBVIOUS
  <2>1. (i - 1) + 1 = i /\ i \in 1..(n + 1) /\ i + 1 \in 1..(n + 1) /\ 1 \in 1..(n + 1)
    BY <1>1
  <2>2. f[i] \in Nat /\ f[i + 1] \in Nat /\ f[1] \in Nat
    BY <1>1, <2>1
  <2>3. f[i] = f[i + 1] + chunks[i].size /\ chunks[i].size \in Nat
    BY <1>1
  <2> QED
    BY <2>1, <2>2, <2>3
<1>3. d - (f[1] - f[0 + 1]) = d
  <2>1. f[1] \in Nat
    <3>1. 1 \in 1..(n + 1)
      BY <1>1
    <3> QED
      BY <1>1, <3>1
  <2> QED
    BY <2>1
<1> HIDE DEF n
<1>4. \A i \in 1..n : i - 1 \in 0..n
  BY <1>1
<1>5. g = [i \in 0..n |-> IF i = 0 THEN d ELSE g[i - 1] - chunks[i].size]
  <2>1. \A i \in 0..n : g[i] = IF i = 0 THEN d ELSE g[i - 1] - chunks[i].size
    <3> SUFFICES ASSUME NEW i \in 0..n
                 PROVE  g[i] = IF i = 0 THEN d ELSE g[i - 1] - chunks[i].size
      OBVIOUS
    <3>1. CASE i = 0
      BY <3>1, <1>3
    <3>2. CASE i # 0
      <4>1. i \in 1..n
        BY <3>2, <1>1
      <4> QED
        BY <3>2, <4>1, <1>2, <1>4
    <3> QED
      BY <3>1, <3>2
  <2>2. g = [i \in 0..n |-> g[i]]
    OBVIOUS
  <2> HIDE DEF g
  <2> QED
    BY <2>1, <2>2
<1>6. \E h : h = [i \in 0..n |-> IF i = 0 THEN d ELSE h[i - 1] - chunks[i].size]
  BY <1>5
<1>7. r = CHOOSE h : h = [i \in 0..n |-> IF i = 0 THEN d ELSE h[i - 1] - chunks[i].size]
  BY DEF Left, n
<1> HIDE DEF r, g
<1>8. r = [i \in 0..n |-> IF i = 0 THEN d ELSE r[i - 1] - chunks[i].size]
  BY <1>6, <1>7
<1>9. \A i \in 0..n : r[i] = IF i = 0 THEN d ELSE r[i - 1] - chunks[i].size
  BY <1>8
<1>10. ASSUME NEW m \in 0..n, r[m] # d - (f[1] - f[m + 1]) PROVE FALSE
  <2> DEFINE T == {i \in 0..n : r[i] # d - (f[1] - f[i + 1])}
  <2>1. T \in SUBSET Nat /\ m \in T
    BY <1>1, <1>10
  <2>2. PICK i \in T : \A j \in T : i <= j
    BY <2>1, LeastOf
  <2>3. CASE i = 0
    BY <2>2, <2>3, <1>3, <1>9
  <2>4. CASE i # 0
    <3>1. i \in 1..n /\ i - 1 \in 0..n /\ ~ (i <= i - 1)
      BY <2>2, <2>4, <1>1
    <3>2. r[i - 1] = d - (f[1] - f[(i - 1) + 1])
      BY <2>2, <3>1
    <3>3. r[i] = d - (f[1] - f[i + 1])
      BY <2>4, <3>1, <3>2, <1>2, <1>9
    <3> QED
      BY <2>2, <3>3
  <2> QED
    BY <2>3, <2>4
<1> QED
  BY <1>10 DEF r, n


(***************************************************************************)
(* Popping the bytes pushed since brings the chunks of then back: as many  *)
(* whole chunks go as there are more now, and what is left is what has     *)
(* been pushed into the chunk that was the top.                            *)
(***************************************************************************)
LEMMA RewoundIs ==
    ASSUME Stack(chunks, size), NEW ms, NEW msz, Stack(ms, msz), Under(ms, chunks)
    PROVE  Rewound(size - msz) = ms /\ msz <= size
<1> DEFINE n == Len(chunks)
           k == n - Len(ms)
           d == size - msz
           left == Left(d)
           stops == {i \in 0..n : left[i] = 0 \/ (i < n /\ chunks[i + 1].size > left[i])}
<1>1. PICK f : Tops(chunks, f) /\ size = f[1]
  BY DEF Stack
<1>2. PICK g : Tops(ms, g) /\ msz = g[1]
  BY DEF Stack
<1>3. /\ n \in Nat /\ Len(ms) \in Nat /\ k \in 0..n
      /\ size \in Nat /\ msz \in Nat /\ d \in Int
      /\ \A i \in 1..(n + 1) : f[i] \in Nat
      /\ \A i \in 1..n : /\ f[i] = f[i + 1] + chunks[i].size
                         /\ chunks[i].size \in Nat /\ chunks[i].size >= 1
  <2>1. n \in Nat /\ Len(ms) \in Nat /\ size \in Nat /\ msz \in Nat
    BY StackFacts
  <2>2. Len(ms) <= n
    BY DEF Under
  <2>3. \A i \in 1..n : chunks[i].size \in Nat /\ chunks[i].size >= 1
    BY StackFacts
  <2>4. /\ \A i \in 1..(n + 1) : f[i] \in Nat
        /\ \A i \in 1..n : f[i] = f[i + 1] + chunks[i].size
    BY <1>1 DEF Tops
  <2> QED
    BY <2>1, <2>2, <2>3, <2>4
<1>4. \A i \in 0..n : left[i] = f[i + 1] - msz
  <2> SUFFICES ASSUME NEW i \in 0..n PROVE left[i] = f[i + 1] - msz
    OBVIOUS
  <2>1. left[i] = d - (f[1] - f[i + 1])
    BY <1>1, <1>3, LeftIs
  <2>2. f[1] = size /\ f[i + 1] \in Nat
    <3>1. i + 1 \in 1..(n + 1)
      BY <1>3
    <3> QED
      BY <1>1, <1>3, <3>1
  <2> QED
    BY <2>1, <2>2, <1>3
<1>5. /\ msz <= f[k + 1]
      /\ Len(ms) = 0 => f[k + 1] = msz
      /\ Len(ms) > 0 => /\ f[k + 1] - msz = chunks[k + 1].size - ms[1].size
                        /\ ms[1].size \in Nat /\ ms[1].size >= 1
  <2>1. CASE Len(ms) = 0
    <3>1. k + 1 = n + 1 /\ f[n + 1] = 0 /\ g[1] = 0
      BY <2>1, <1>1, <1>2, <1>3 DEF Tops
    <3> QED
      BY <2>1, <3>1, <1>2
  <2>2. CASE Len(ms) > 0
    <3>1. 1 \in 1..Len(ms) /\ 2 \in 2..(Len(ms) + 1) /\ k + 1 \in 1..n
      BY <2>2, <1>3
    <3>2. g[2] = f[k + 2]
      BY <3>1, <1>1, <1>2, TopsAgree
    <3>3. g[1] = g[1 + 1] + ms[1].size
      BY <3>1, <1>2 DEF Tops
    <3>4. f[k + 1] = f[(k + 1) + 1] + chunks[k + 1].size /\ f[(k + 1) + 1] \in Nat
      <4>1. (k + 1) + 1 \in 1..(n + 1)
        BY <3>1, <1>3
      <4> QED
        BY <3>1, <4>1, <1>3
    <3>5. ms[1].size \in Nat /\ ms[1].size >= 1 /\ ms[1].size <= chunks[k + 1].size
      BY <3>1, StackFacts DEF Under
    <3>6. chunks[k + 1].size \in Nat
      BY <3>1, <1>3
    <3>7. (k + 1) + 1 = k + 2 /\ 1 + 1 = 2
      BY <1>3
    <3> HIDE DEF k
    <3> QED
      BY <2>2, <3>2, <3>3, <3>4, <3>5, <3>6, <3>7, <1>2
  <2> QED
    BY <2>1, <2>2, <1>3
<1>6. k \in stops
  <2>1. CASE Len(ms) = 0
    BY <2>1, <1>3, <1>4, <1>5
  <2>2. CASE Len(ms) > 0
    <3>1. left[k] = chunks[k + 1].size - ms[1].size /\ k < n
      BY <2>2, <1>3, <1>4, <1>5
    <3>2. chunks[k + 1].size \in Nat /\ ms[1].size \in Nat /\ ms[1].size >= 1
      <4>1. k + 1 \in 1..n
        BY <3>1, <1>3
      <4> QED
        BY <2>2, <4>1, <1>3, <1>5
    <3> HIDE DEF left
    <3>3. chunks[k + 1].size > left[k]
      BY <3>1, <3>2
    <3> QED
      BY <3>1, <3>3, <1>3
  <2> QED
    BY <2>1, <2>2, <1>3
<1>7. ASSUME NEW i \in stops PROVE k <= i
  <2> SUFFICES ASSUME i < k PROVE FALSE
    BY <1>3
  <2>1. i \in 0..n /\ i + 1 \in 1..n /\ i < n
    BY <1>3
  <2>2. f[i + 1] = f[(i + 1) + 1] + chunks[i + 1].size
    BY <2>1, <1>3
  <2>3. f[k + 1] <= f[(i + 1) + 1]
    <3>1. (i + 1) + 1 \in 1..(Len(chunks) + 1) /\ k + 1 \in ((i + 1) + 1)..(Len(chunks) + 1)
      BY <2>1, <1>3
    <3> QED
      BY <3>1, <1>1, TopsFall
  <2>4. left[i] = f[i + 1] - msz
    BY <2>1, <1>4
  <2>5. /\ f[i + 1] \in Nat /\ f[(i + 1) + 1] \in Nat /\ f[k + 1] \in Nat
        /\ chunks[i + 1].size \in Nat /\ chunks[i + 1].size >= 1
    <3>1. i + 1 \in 1..(n + 1) /\ (i + 1) + 1 \in 1..(n + 1) /\ k + 1 \in 1..(n + 1)
      BY <2>1, <1>3
    <3> QED
      BY <3>1, <2>1, <1>3
  <2>6. left[i] # 0 /\ ~ (chunks[i + 1].size > left[i])
    <3> DEFINE a == f[i + 1]
               b == f[(i + 1) + 1]
               c == f[k + 1]
               s == chunks[i + 1].size
               l == left[i]
    <3>1. a \in Nat /\ b \in Nat /\ c \in Nat /\ s \in Nat /\ s >= 1 /\ msz \in Nat
      BY <2>5, <1>3
    <3>2. a = b + s /\ c <= b /\ msz <= c /\ l = a - msz
      BY <2>2, <2>3, <2>4, <1>5
    <3> HIDE DEF a, b, c, s, l
    <3>3. l # 0 /\ ~ (s > l)
      BY <3>1, <3>2
    <3> QED
      BY <3>3 DEF s, l
  <2> QED
    BY <2>6
<1>8. Min(stops) = k
  <2>1. stops \in SUBSET Nat
    BY <1>3
  <2> HIDE DEF stops, k
  <2> QED
    BY <2>1, <1>6, <1>7, LeastIs
<1>9. Rewound(d) = Popped(k, left[k])
  BY <1>8 DEF Rewound
<1> HIDE DEF left, stops
<1> DEFINE rest == SubSeq(chunks, k + 1, Len(chunks))
<1>10. /\ rest \in Seq(Chunk) /\ Len(rest) = Len(ms)
       /\ \A j \in 1..Len(ms) : rest[j] = chunks[k + j]
  <2>1. \A i \in (k + 1)..n : chunks[i] \in Chunk
    BY <1>3, StackFacts
  <2>2. k + 1 \in Int /\ n \in Int
    BY <1>3
  <2>3. /\ rest \in Seq(Chunk)
        /\ Len(rest) = IF k + 1 <= n THEN n - (k + 1) + 1 ELSE 0
        /\ \A j \in 1..(n - (k + 1) + 1) : rest[j] = chunks[(k + 1) + j - 1]
    BY <2>1, <2>2, SubSeqProperties
  <2>4. n - (k + 1) + 1 = Len(ms) /\ \A j \in 1..Len(ms) : (k + 1) + j - 1 = k + j
    BY <1>3
  <2>5. Len(rest) = Len(ms)
    BY <2>3, <2>4, <1>3
  <2> HIDE DEF rest
  <2> QED
    BY <2>3, <2>4, <2>5
<1> HIDE DEF rest
<1>11. ms \in Seq(Chunk) /\ \A j \in 1..Len(ms) : ms[j] \in Chunk
  BY StackFacts
<1>12. \A j \in 2..Len(ms) : rest[j] = ms[j]
  <2> SUFFICES ASSUME NEW j \in 2..Len(ms) PROVE rest[j] = ms[j]
    OBVIOUS
  <2>1. j \in 1..Len(ms) /\ ms[j] = chunks[Len(chunks) - Len(ms) + j]
    BY DEF Under
  <2> QED
    BY <2>1, <1>10
<1>13. msz <= size
  <2>1. 1 \in 1..(Len(chunks) + 1) /\ k + 1 \in 1..(Len(chunks) + 1)
    BY <1>3
  <2>2. f[k + 1] <= f[1]
    BY <2>1, <1>1, TopsFall
  <2>3. f[k + 1] \in Nat /\ f[1] \in Nat
    BY <2>1, <1>3
  <2> QED
    BY <2>2, <2>3, <1>1, <1>3, <1>5
<1>14. CASE Len(ms) = 0
  <2>1. left[k] = 0
    BY <1>14, <1>3, <1>4, <1>5
  <2>2. rest = ms
    BY <1>10, <1>11, <1>14, SeqEqual
  <2>3. Rewound(d) = rest
    BY <2>1, <1>9 DEF Popped, rest
  <2> QED
    BY <2>2, <2>3, <1>13
<1>15. CASE Len(ms) > 0
  <2>1. /\ 1 \in 1..Len(ms) /\ k + 1 \in 1..n
        /\ rest[1] = chunks[k + 1] /\ ms[1] \in Chunk /\ chunks[k + 1] \in Chunk
    <3>1. 1 \in 1..Len(ms) /\ k + 1 \in 1..n
      BY <1>15, <1>3
    <3>2. rest[1] = chunks[k + 1]
      BY <3>1, <1>10
    <3>3. chunks[k + 1] \in Chunk
      BY <3>1, StackFacts
    <3> QED
      BY <3>1, <3>2, <3>3, <1>11
  <2>2. /\ ms[1].block = chunks[k + 1].block /\ ms[1].cap = chunks[k + 1].cap
        /\ left[k] = chunks[k + 1].size - ms[1].size
    BY <1>15, <1>3, <1>4, <1>5 DEF Under
  <2>3. CASE left[k] = 0
    <3>1. ms[1] = rest[1]
      BY <2>1, <2>2, <2>3 DEF Chunk
    <3>2. \A j \in 1..Len(ms) : rest[j] = ms[j]
      BY <3>1, <1>12
    <3>3. rest = ms
      BY <3>2, <1>10, <1>11, SeqEqual
    <3>4. Rewound(d) = rest
      BY <2>3, <1>9 DEF Popped, rest
    <3> QED
      BY <3>3, <3>4, <1>13
  <2>4. CASE left[k] # 0
    <3> DEFINE h == [rest[1] EXCEPT !.size = @ - left[k]]
               cut == [rest EXCEPT ![1] = h]
    <3>1. h = ms[1]
      <4>1. h = [chunks[k + 1] EXCEPT !.size = chunks[k + 1].size - left[k]]
        BY <2>1
      <4>2. chunks[k + 1].size - left[k] = ms[1].size
        BY <2>1, <2>2 DEF Chunk
      <4>3. h = [chunks[k + 1] EXCEPT !.size = ms[1].size]
        BY <4>1, <4>2
      <4> HIDE DEF h
      <4> QED
        BY <4>3, <2>1, <2>2 DEF Chunk
    <3>2. Rewound(d) = cut
      BY <2>4, <1>9 DEF Popped, rest
    <3> HIDE DEF h
    <3>3. h \in Chunk /\ 1 \in 1..Len(rest)
      BY <3>1, <2>1, <1>10
    <3>4. /\ cut \in Seq(Chunk) /\ Len(cut) = Len(rest)
          /\ \A j \in 1..Len(rest) : cut[j] = IF j = 1 THEN h ELSE rest[j]
      BY <3>3, <1>10, ExceptSeq
    <3> HIDE DEF cut
    <3>5. \A j \in 1..Len(ms) : cut[j] = ms[j]
      BY <3>1, <3>4, <1>10, <1>12
    <3>6. cut = ms
      BY <3>4, <3>5, <1>10, <1>11, SeqEqual
    <3> QED
      BY <3>2, <3>6, <1>13
  <2> QED
    BY <2>3, <2>4
<1> QED
  BY <1>3, <1>14, <1>15

-----------------------------------------------------------------------------
(* What a push does to the chunks: n more bytes in the top one, or a new   *)
(* one on top.                                                             *)
Grown(r, cs, n) ==
    /\ Len(r) = Len(cs) /\ Len(cs) >= 1
    /\ r[1].block = cs[1].block /\ r[1].cap = cs[1].cap
    /\ r[1].size = cs[1].size + n
    /\ \A j \in 2..Len(cs) : r[j] = cs[j]

Covered(r, cs, c) ==
    /\ Len(r) = Len(cs) + 1
    /\ r[1] = c
    /\ \A j \in 1..Len(cs) : r[j + 1] = cs[j]

LEMMA GrownIs ==
    ASSUME NEW cs, NEW sz, Stack(cs, sz), cs # <<>>, NEW n \in Nat \ {0},
           cs[1].cap - cs[1].size >= n
    PROVE  LET r == [cs EXCEPT ![1].size = @ + n]
           IN  Stack(r, sz + n) /\ Grown(r, cs, n)
<1> DEFINE h == [cs[1] EXCEPT !.size = @ + n]
           r == [cs EXCEPT ![1] = h]
<1>1. /\ cs \in Seq(Chunk) /\ Len(cs) \in Nat /\ sz \in Nat
      /\ \A i \in 1..Len(cs) : /\ cs[i] \in Chunk /\ cs[i].size \in Nat /\ cs[i].cap \in Nat
                               /\ cs[i].size >= 1 /\ cs[i].size <= cs[i].cap
  BY StackFacts
<1>2. 1 \in 1..Len(cs) /\ Len(cs) >= 1
  BY <1>1, EmptySeq
<1>3. h \in Chunk /\ h.block = cs[1].block /\ h.cap = cs[1].cap /\ h.size = cs[1].size + n
  <2>1. cs[1] \in Chunk
    BY <1>1, <1>2
  <2> DEFINE a == cs[1]
  <2> HIDE DEF a
  <2>2. /\ [a EXCEPT !.size = @ + n] \in Chunk
        /\ [a EXCEPT !.size = @ + n].block = a.block
        /\ [a EXCEPT !.size = @ + n].cap = a.cap
        /\ [a EXCEPT !.size = @ + n].size = a.size + n
    <3>1. a \in Chunk
      BY <2>1 DEF a
    <3> QED
      BY ONLY <3>1, n \in Nat \ {0} DEF Chunk
  <2> QED
    BY <2>2 DEF a
<1> HIDE DEF h
<1>4. /\ r \in Seq(Chunk) /\ Len(r) = Len(cs)
      /\ \A j \in 1..Len(cs) : r[j] = IF j = 1 THEN h ELSE cs[j]
  BY <1>1, <1>2, <1>3, ExceptSeq
<1> HIDE DEF r
<1>5. r[1] = h /\ \A j \in 2..Len(cs) : r[j] = cs[j]
  BY <1>1, <1>2, <1>4
<1>6. Grown(r, cs, n)
  BY <1>2, <1>3, <1>4, <1>5 DEF Grown
<1>7. \A i \in 1..Len(r) : r[i].size \in 1..r[i].cap
  <2> SUFFICES ASSUME NEW i \in 1..Len(cs) PROVE r[i].size \in 1..r[i].cap
    BY <1>4
  <2>1. CASE i = 1
    BY <2>1, <1>1, <1>2, <1>3, <1>5
  <2>2. CASE i # 1
    BY <2>2, <1>1, <1>4
  <2> QED
    BY <2>1, <2>2
<1>8. \A i, j \in 1..Len(r) : r[i].block = r[j].block => i = j
  <2>1. \A i \in 1..Len(cs) : r[i].block = cs[i].block
    BY <1>3, <1>4
  <2> QED
    BY <2>1, <1>4 DEF Stack
<1>9. \E f : Tops(r, f) /\ sz + n = f[1]
  <2>1. PICK f : Tops(cs, f) /\ sz = f[1]
    BY DEF Stack
  <2> DEFINE g == [i \in 1..(Len(cs) + 1) |-> IF i = 1 THEN sz + n ELSE f[i]]
  <2>2. g \in [1..(Len(cs) + 1) -> Nat] /\ g[1] = sz + n
    BY <2>1, <1>1 DEF Tops
  <2>3. g[Len(cs) + 1] = 0
    BY <2>1, <1>1, <1>2 DEF Tops
  <2>4. ASSUME NEW i \in 1..Len(cs) PROVE g[i] = g[i + 1] + r[i].size
    <3>1. /\ i + 1 \in 1..(Len(cs) + 1) /\ i + 1 # 1 /\ i \in 1..(Len(cs) + 1)
          /\ g[i + 1] = f[i + 1] /\ f[i + 1] \in Nat
          /\ f[i] = f[i + 1] + cs[i].size
      BY <2>1, <1>1 DEF Tops
    <3>2. CASE i = 1
      <4>1. g[i] = sz + n /\ r[i].size = cs[1].size + n /\ sz = f[i + 1] + cs[1].size
        BY <3>1, <3>2, <2>1, <2>2, <1>3, <1>5
      <4>2. cs[1].size \in Nat
        BY <1>1, <1>2
      <4> HIDE DEF g
      <4> QED
        BY <3>1, <4>1, <4>2
    <3>3. CASE i # 1
      BY <3>1, <3>3, <1>4
    <3> QED
      BY <3>2, <3>3
  <2> HIDE DEF g
  <2>5. Tops(r, g)
    BY <2>2, <2>3, <2>4, <1>4 DEF Tops
  <2> QED
    BY <2>2, <2>5
<1>10. Stack(r, sz + n)
  BY <1>4, <1>7, <1>8, <1>9 DEF Stack
<1>11. r = [cs EXCEPT ![1].size = @ + n]
  BY DEF r, h
<1> QED
  BY <1>6, <1>10, <1>11

LEMMA CoveredIs ==
    ASSUME NEW cs, NEW sz, Stack(cs, sz), NEW c \in Chunk,
           c.size >= 1, c.size <= c.cap,
           \A i \in 1..Len(cs) : cs[i].block # c.block
    PROVE  LET r == <<c>> \o cs
           IN  Stack(r, sz + c.size) /\ Covered(r, cs, c)
<1> DEFINE d == <<c>>
           r == d \o cs
<1>1. /\ cs \in Seq(Chunk) /\ Len(cs) \in Nat /\ sz \in Nat
      /\ \A i \in 1..Len(cs) : /\ cs[i] \in Chunk /\ cs[i].size \in Nat /\ cs[i].cap \in Nat
                               /\ cs[i].size >= 1 /\ cs[i].size <= cs[i].cap
  BY StackFacts
<1>2. d \in Seq(Chunk) /\ Len(d) = 1 /\ d[1] = c
  OBVIOUS
<1> HIDE DEF d
<1>3. /\ r \in Seq(Chunk) /\ Len(r) = Len(d) + Len(cs)
      /\ \A i \in 1..(Len(d) + Len(cs)) : r[i] = IF i <= Len(d) THEN d[i] ELSE cs[i - Len(d)]
  BY <1>1, <1>2, ConcatProperties
<1> HIDE DEF r
<1>4. /\ Len(r) = Len(cs) + 1
      /\ \A i \in 1..(Len(cs) + 1) : r[i] = IF i <= 1 THEN d[i] ELSE cs[i - 1]
  BY <1>1, <1>2, <1>3
<1>5. r[1] = c
  BY <1>1, <1>2, <1>4
<1>6. \A j \in 1..Len(cs) : r[j + 1] = cs[j]
  <2> SUFFICES ASSUME NEW j \in 1..Len(cs) PROVE r[j + 1] = cs[j]
    OBVIOUS
  <2>1. j + 1 \in 1..(Len(cs) + 1) /\ ~ (j + 1 <= 1) /\ (j + 1) - 1 = j
    BY <1>1
  <2> QED
    BY <2>1, <1>4
<1>7. Covered(r, cs, c)
  BY <1>4, <1>5, <1>6 DEF Covered
<1>8. ASSUME NEW i \in 1..(Len(cs) + 1)
      PROVE  i = 1 \/ (i - 1 \in 1..Len(cs) /\ r[i] = cs[i - 1])
  <2>1. i = 1 \/ (i - 1 \in 1..Len(cs) /\ (i - 1) + 1 = i)
    BY <1>1
  <2> QED
    BY <2>1, <1>6
<1>9. \A i \in 1..Len(r) : r[i].size \in 1..r[i].cap
  <2> SUFFICES ASSUME NEW i \in 1..(Len(cs) + 1) PROVE r[i].size \in 1..r[i].cap
    BY <1>4
  <2>1. CASE i = 1
    BY <2>1, <1>5 DEF Chunk
  <2>2. CASE i # 1
    BY <2>2, <1>1, <1>8
  <2> QED
    BY <2>1, <2>2
<1>10. \A i, j \in 1..Len(r) : r[i].block = r[j].block => i = j
  <2> SUFFICES ASSUME NEW i \in 1..(Len(cs) + 1), NEW j \in 1..(Len(cs) + 1),
                      r[i].block = r[j].block
               PROVE  i = j
    BY <1>4
  <2>1. CASE i = 1 /\ j # 1
    BY <2>1, <1>5, <1>8
  <2>2. CASE i # 1 /\ j = 1
    BY <2>2, <1>5, <1>8
  <2>3. CASE i # 1 /\ j # 1
    <3>1. i - 1 = j - 1
      BY <2>3, <1>8 DEF Stack
    <3> QED
      BY <3>1
  <2> QED
    BY <2>1, <2>2, <2>3
<1>11. \E f : Tops(r, f) /\ sz + c.size = f[1]
  <2>1. PICK f : Tops(cs, f) /\ sz = f[1]
    BY DEF Stack
  <2> DEFINE s == c.size
             g == [i \in 1..(Len(cs) + 2) |-> IF i = 1 THEN sz + s ELSE f[i - 1]]
  <2>2. s \in Nat
    BY DEF Chunk
  <2> HIDE DEF s
  <2>3. g \in [1..(Len(cs) + 2) -> Nat] /\ g[1] = sz + s
    <3>1. \A i \in 1..(Len(cs) + 2) : i # 1 => f[i - 1] \in Nat
      BY <2>1, <1>1 DEF Tops
    <3> QED
      BY <3>1, <2>2, <1>1
  <2>4. \A i \in 1..(Len(cs) + 1) : g[i + 1] = f[i]
    BY <1>1
  <2>5. g[(Len(cs) + 1) + 1] = 0
    BY <2>1, <2>4, <1>1 DEF Tops
  <2> HIDE DEF g
  <2>6. ASSUME NEW i \in 1..(Len(cs) + 1) PROVE g[i] = g[i + 1] + r[i].size
    <3>1. CASE i = 1
      <4>1. g[1 + 1] = f[1] /\ r[1].size = s /\ f[1] = sz
        BY <2>1, <2>4, <1>1, <1>5 DEF s
      <4> QED
        BY <3>1, <4>1, <2>2, <2>3, <1>1
    <3>2. CASE i # 1
      <4>1. i - 1 \in 1..Len(cs) /\ (i - 1) + 1 = i /\ r[i] = cs[i - 1]
        BY <3>2, <1>1, <1>8
      <4>2. f[i - 1] = f[(i - 1) + 1] + cs[i - 1].size
        BY <4>1, <2>1 DEF Tops
      <4>3. g[(i - 1) + 1] = f[i - 1] /\ g[i + 1] = f[i]
        BY <4>1, <2>4, <1>1
      <4> QED
        BY <4>1, <4>2, <4>3
    <3> QED
      BY <3>1, <3>2
  <2>7. Len(r) + 1 = Len(cs) + 2 /\ Len(r) + 1 = (Len(cs) + 1) + 1
    BY <1>1, <1>4
  <2>8. Tops(r, g)
    BY <2>3, <2>5, <2>6, <2>7, <1>4 DEF Tops
  <2> QED
    BY <2>3, <2>8 DEF s
<1>12. Stack(r, sz + c.size)
  BY <1>3, <1>9, <1>10, <1>11 DEF Stack
<1>13. r = <<c>> \o cs
  BY DEF r, d
<1> QED
  BY <1>7, <1>12, <1>13

LEMMA UnderGrown ==
    ASSUME NEW ms \in Seq(Chunk), NEW cs \in Seq(Chunk), Under(ms, cs),
           NEW r, NEW n \in Nat, Grown(r, cs, n)
    PROVE  Under(ms, r)
<1>1. Len(ms) \in Nat /\ Len(cs) \in Nat /\ Len(ms) <= Len(cs) /\ Len(r) = Len(cs)
  BY LenProperties DEF Under, Grown
<1> DEFINE k == Len(cs) - Len(ms)
<1>2. \A j \in 2..Len(ms) : ms[j] = r[k + j]
  <2> SUFFICES ASSUME NEW j \in 2..Len(ms) PROVE ms[j] = r[k + j]
    OBVIOUS
  <2>1. k + j \in 2..Len(cs)
    BY <1>1
  <2> QED
    BY <2>1 DEF Under, Grown
<1>3. ASSUME Len(ms) >= 1
      PROVE  /\ ms[1].block = r[k + 1].block /\ ms[1].cap = r[k + 1].cap
             /\ ms[1].size <= r[k + 1].size
  <2>1. CASE k = 0
    <3>1. cs[1].size \in Nat /\ ms[1].size \in Nat
      <4>1. cs[1] \in Chunk /\ ms[1] \in Chunk
        BY <1>1, <1>3, ElementOfSeq
      <4> QED
        BY <4>1 DEF Chunk
    <3>2. k + 1 = 1
      BY <2>1
    <3>3. ms[1].size <= cs[1].size /\ ms[1].block = cs[1].block /\ ms[1].cap = cs[1].cap
      BY <3>2, <1>3 DEF Under
    <3>4. r[1].block = cs[1].block /\ r[1].cap = cs[1].cap /\ r[1].size = cs[1].size + n
      BY DEF Grown
    <3> QED
      BY <3>1, <3>2, <3>3, <3>4
  <2>2. CASE k # 0
    <3>1. k + 1 \in 2..Len(cs)
      BY <2>2, <1>1, <1>3
    <3>2. r[k + 1] = cs[k + 1]
      BY <3>1 DEF Grown
    <3> QED
      BY <3>2, <1>3 DEF Under
  <2> QED
    BY <2>1, <2>2
<1>4. Len(r) - Len(ms) = k
  BY <1>1
<1> QED
  BY <1>1, <1>2, <1>3, <1>4 DEF Under

LEMMA UnderCovered ==
    ASSUME NEW ms \in Seq(Chunk), NEW cs \in Seq(Chunk), Under(ms, cs),
           NEW r, NEW c, Covered(r, cs, c)
    PROVE  Under(ms, r)
<1>1. /\ Len(ms) \in Nat /\ Len(cs) \in Nat /\ Len(ms) <= Len(cs)
      /\ Len(r) = Len(cs) + 1
  BY LenProperties DEF Under, Covered
<1> DEFINE k == Len(cs) - Len(ms)
<1>2. \A j \in 1..Len(ms) : r[(k + 1) + j] = cs[k + j]
  <2> SUFFICES ASSUME NEW j \in 1..Len(ms) PROVE r[(k + 1) + j] = cs[k + j]
    OBVIOUS
  <2>1. k + j \in 1..Len(cs) /\ (k + 1) + j = (k + j) + 1
    BY <1>1
  <2> QED
    BY <2>1 DEF Covered
<1>3. Len(r) - Len(ms) = k + 1
  BY <1>1
<1>4. \A j \in 2..Len(ms) : j \in 1..Len(ms)
  OBVIOUS
<1>5. Len(ms) >= 1 => 1 \in 1..Len(ms)
  BY <1>1
<1> HIDE DEF k
<1>6. \A j \in 2..Len(ms) : ms[j] = r[(k + 1) + j]
  BY <1>2, <1>4 DEF Under, k
<1>7. Len(ms) >= 1 => r[(k + 1) + 1] = cs[k + 1]
  BY <1>2, <1>5
<1>8. Len(ms) <= Len(r)
  BY <1>1
<1> QED
  BY <1>3, <1>6, <1>7, <1>8 DEF Under, k

LEMMA UnderSelf == ASSUME NEW cs \in Seq(Chunk) PROVE Under(cs, cs)
<1>1. Len(cs) \in Nat /\ Len(cs) - Len(cs) = 0
  BY LenProperties
<1>2. \A j \in 1..Len(cs) : 0 + j = j /\ cs[j].size \in Nat
  <2> SUFFICES ASSUME NEW j \in 1..Len(cs) PROVE 0 + j = j /\ cs[j].size \in Nat
    OBVIOUS
  <2>1. cs[j] \in Chunk
    BY ElementOfSeq
  <2>2. j \in Nat
    BY <1>1
  <2> QED
    BY <2>1, <2>2 DEF Chunk
<1>3. Len(cs) >= 1 => 1 \in 1..Len(cs)
  BY <1>1
<1>4. \A j \in 2..Len(cs) : cs[j] = cs[Len(cs) - Len(cs) + j]
  BY <1>1, <1>2
<1>5. \A a \in Nat : a <= a
  OBVIOUS
<1> QED
  BY <1>1, <1>2, <1>3, <1>4, <1>5 DEF Under

-----------------------------------------------------------------------------
(***************************************************************************)
(* The inductive invariant.  A mark is compared with the chunks and the    *)
(* number of objects there are, and with every mark taken since: whatever  *)
(* came later was pushed on top of it.                                     *)
(***************************************************************************)

(* The first c objects lie in the used part of the chunks cs.              *)
ObjsIn(cs, os, c) ==
    \A i \in 1..c : \E d \in 1..Len(cs) :
        cs[d].block = os[i].block /\ os[i].at + os[i].len <= cs[d].size

(* In each block the objects lie in the order they were pushed.            *)
Apart(os) ==
    /\ os \in Seq(Obj)
    /\ \A i, j \in 1..Len(os) : i < j /\ os[i].block = os[j].block =>
          os[i].at + os[i].len <= os[j].at

LentFor(cs, ln) ==
    /\ DOMAIN ln = {cs[i].block : i \in 1..Len(cs)}
    /\ \A i \in 1..Len(cs) : ln[cs[i].block] = Header + cs[i].cap

(* The mark k was taken before there were sz bytes and c objects in cs.    *)
Older(k, sz, cs, c) ==
    /\ k.size <= sz /\ k.count <= c
    /\ Under(k.chunks, cs)
    /\ k.size = sz => k.chunks = cs /\ k.count = c

Snap(m, os) ==
    m \in Mark /\ Stack(m.chunks, m.size) /\ ObjsIn(m.chunks, os, m.count)

ArenaInv ==
    /\ Stack(chunks, size)
    /\ LentFor(chunks, lent)
    /\ Apart(objs) /\ ObjsIn(chunks, objs, Len(objs))
    /\ IsFiniteSet(marks) /\ Cardinality(marks) <= MaxMarks
    /\ \A m \in marks : Snap(m, objs) /\ Older(m, size, chunks, Len(objs))
    /\ \A k, m \in marks : k.size <= m.size => Older(k, m.size, m.chunks, m.count)

LEMMA ArenaInvInit == Init => ArenaInv
<1> SUFFICES ASSUME Init PROVE ArenaInv
  OBVIOUS
<1>1. chunks = <<>> /\ size = 0 /\ objs = <<>> /\ marks = {} /\ DOMAIN lent = {}
  BY DEF Init
<1>2. Stack(chunks, size)
  <2> DEFINE f == [i \in 1..1 |-> 0]
  <2>1. f \in [1..1 -> Nat] /\ f[1] = 0
    OBVIOUS
  <2> HIDE DEF f
  <2>2. Tops(chunks, f)
    BY <1>1, <2>1 DEF Tops
  <2>3. \E h : Tops(chunks, h) /\ size = h[1]
    BY <1>1, <2>1, <2>2
  <2> QED
    BY <1>1, <2>3 DEF Stack
<1>3. IsFiniteSet(marks) /\ Cardinality(marks) <= MaxMarks
  BY <1>1, FS_EmptySet, SizesAssumption
<1>4. LentFor(chunks, lent)
  BY <1>1 DEF LentFor
<1>5. Apart(objs) /\ ObjsIn(chunks, objs, Len(objs))
  BY <1>1 DEF Apart, ObjsIn
<1> QED
  BY <1>1, <1>2, <1>3, <1>4, <1>5 DEF ArenaInv

(* What both ways to push keep, once the new object is known to lie after  *)
(* the older ones and the chunks to have grown on top.                     *)
LEMMA PushKeeps ==
    ASSUME ArenaInv, NEW n \in Nat \ {0}, NEW e \in Obj,
           Stack(chunks', size'), LentFor(chunks', lent'), size' = size + n,
           objs' = Append(objs, e), marks' = marks,
           ObjsIn(chunks', objs, Len(objs)),
           \A m \in marks : Under(m.chunks, chunks'),
           \A i \in 1..Len(objs) : objs[i].block = e.block =>
               objs[i].at + objs[i].len <= e.at,
           \E d \in 1..Len(chunks') :
               chunks'[d].block = e.block /\ e.at + e.len <= chunks'[d].size
    PROVE  ArenaInv'
<1>1. /\ objs \in Seq(Obj) /\ Len(objs) \in Nat
      /\ objs' \in Seq(Obj) /\ Len(objs') = Len(objs) + 1
      /\ \A i \in 1..Len(objs) : objs'[i] = objs[i]
      /\ objs'[Len(objs) + 1] = e
  BY AppendProperties, LenProperties DEF ArenaInv, Apart
<1>2. ObjsIn(chunks', objs', Len(objs'))
  <2> SUFFICES ASSUME NEW i \in 1..(Len(objs) + 1)
               PROVE  \E d \in 1..Len(chunks') :
                         /\ chunks'[d].block = objs'[i].block
                         /\ objs'[i].at + objs'[i].len <= chunks'[d].size
    BY <1>1 DEF ObjsIn
  <2>1. CASE i = Len(objs) + 1
    BY <2>1, <1>1
  <2>2. CASE i # Len(objs) + 1
    <3>1. i \in 1..Len(objs)
      BY <2>2, <1>1
    <3> QED
      BY <3>1, <1>1 DEF ObjsIn
  <2> QED
    BY <2>1, <2>2
<1>3. Apart(objs')
  <2> SUFFICES ASSUME NEW i \in 1..(Len(objs) + 1), NEW j \in 1..(Len(objs) + 1),
                      i < j, objs'[i].block = objs'[j].block
               PROVE  objs'[i].at + objs'[i].len <= objs'[j].at
    BY <1>1 DEF Apart
  <2> DEFINE l == Len(objs)
  <2>0. l \in Nat
    BY <1>1
  <2>1. i \in 1..l
    BY ONLY <2>0, i \in 1..(l + 1), j \in 1..(l + 1), i < j
  <2>2. CASE j = Len(objs) + 1
    BY <2>1, <2>2, <1>1
  <2>3. CASE j # Len(objs) + 1
    <3>1. j \in 1..l
      BY ONLY <2>0, <2>3, j \in 1..(l + 1)
    <3> QED
      BY <2>1, <3>1, <1>1 DEF ArenaInv, Apart
  <2> QED
    BY <2>2, <2>3
<1>4. ASSUME NEW m \in marks
      PROVE  Snap(m, objs') /\ Older(m, size', chunks', Len(objs'))
  <2>1. /\ m \in Mark /\ Stack(m.chunks, m.size) /\ ObjsIn(m.chunks, objs, m.count)
        /\ m.size <= size /\ m.count <= Len(objs)
    BY DEF ArenaInv, Snap, Older
  <2>2. m.size \in Nat /\ m.count \in Nat /\ size \in Nat
    BY <2>1, StackFacts DEF Mark, ArenaInv
  <2>3. \A i \in 1..m.count : i \in 1..Len(objs)
    BY <2>1, <2>2, <1>1
  <2>4. ObjsIn(m.chunks, objs', m.count)
    BY <2>1, <2>3, <1>1 DEF ObjsIn
  <2>5. m.size <= size' /\ m.size # size' /\ m.count <= Len(objs')
    BY <2>1, <2>2, <1>1
  <2> QED
    BY <2>1, <2>4, <2>5 DEF Snap, Older
<1>5. IsFiniteSet(marks') /\ Cardinality(marks') <= MaxMarks
  BY DEF ArenaInv
<1>6. \A k, m \in marks' : k.size <= m.size => Older(k, m.size, m.chunks, m.count)
  BY DEF ArenaInv
<1> QED
  BY <1>2, <1>3, <1>4, <1>5, <1>6 DEF ArenaInv

LEMMA PushTopKeeps ==
    ASSUME ArenaInv, NEW n \in Requests, PushTop(n)
    PROVE  ArenaInv'
<1> DEFINE b == PushSize(n)
           e == [block |-> chunks[1].block, at |-> chunks[1].size, len |-> b]
           l == Len(chunks)
<1>1. b \in Nat \ {0}
  BY PushSizeIs
<1>2. /\ chunks # <<>> /\ chunks[1].cap - chunks[1].size >= b
      /\ chunks' = [chunks EXCEPT ![1].size = @ + b]
      /\ size' = size + b /\ objs' = Append(objs, e)
      /\ marks' = marks /\ lent' = lent
  BY DEF PushTop, Fits, Pushed
<1> HIDE DEF b
<1>3. /\ chunks \in Seq(Chunk) /\ l \in Nat
      /\ \A i \in 1..l : /\ chunks[i].block \in Blocks /\ chunks[i].size \in Nat
      /\ size \in Nat
  BY StackFacts DEF ArenaInv
<1>4. 1 \in 1..l
  BY <1>2, <1>3, EmptySeq
<1>5. Stack(chunks', size') /\ Grown(chunks', chunks, b)
  BY <1>1, <1>2, GrownIs DEF ArenaInv
<1>6. e \in Obj /\ e.block = chunks[1].block /\ e.at = chunks[1].size /\ e.len = b
  BY <1>1, <1>3, <1>4 DEF Obj
<1> HIDE DEF e
<1>7. /\ Len(chunks') = l
      /\ \A i \in 1..l : /\ chunks'[i].block = chunks[i].block
                         /\ chunks'[i].cap = chunks[i].cap
                         /\ chunks[i].size <= chunks'[i].size
                         /\ chunks'[i].size \in Nat
      /\ chunks'[1].size = chunks[1].size + b
  <2>1. ASSUME NEW i \in 1..l
        PROVE  /\ chunks'[i].block = chunks[i].block
               /\ chunks'[i].cap = chunks[i].cap
               /\ chunks[i].size <= chunks'[i].size
               /\ chunks'[i].size \in Nat
    <3>1. CASE i = 1
      BY <3>1, <1>1, <1>3, <1>5 DEF Grown
    <3>2. CASE i # 1
      <4>1. i \in 2..l /\ chunks[i].size \in Nat
        BY <3>2, <1>3
      <4>2. chunks'[i] = chunks[i]
        BY <4>1, <1>5 DEF Grown
      <4> QED
        BY <4>1, <4>2
    <3> QED
      BY <3>1, <3>2
  <2> QED
    BY <2>1, <1>5 DEF Grown
<1>8. LentFor(chunks', lent')
  <2>1. LentFor(chunks, lent)
    BY DEF ArenaInv
  <2> QED
    BY <2>1, <1>2, <1>7 DEF LentFor
<1>9. ObjsIn(chunks', objs, Len(objs))
  <2> SUFFICES ASSUME NEW i \in 1..Len(objs)
               PROVE  \E d \in 1..Len(chunks') :
                         /\ chunks'[d].block = objs[i].block
                         /\ objs[i].at + objs[i].len <= chunks'[d].size
    BY DEF ObjsIn
  <2>1. PICK d \in 1..l : /\ chunks[d].block = objs[i].block
                          /\ objs[i].at + objs[i].len <= chunks[d].size
    BY DEF ArenaInv, ObjsIn
  <2>2. objs[i].at \in Nat /\ objs[i].len \in Nat
    <3>1. objs \in Seq(Obj)
      BY DEF ArenaInv, Apart
    <3>2. objs[i] \in Obj
      BY <3>1, ElementOfSeq
    <3> QED
      BY <3>2 DEF Obj
  <2>3. objs[i].at + objs[i].len <= chunks'[d].size
    BY <2>1, <2>2, <1>3, <1>7
  <2> QED
    BY <2>1, <2>3, <1>7
<1>10. ASSUME NEW m \in marks PROVE Under(m.chunks, chunks')
  <2>1. m.chunks \in Seq(Chunk) /\ Under(m.chunks, chunks)
    BY DEF ArenaInv, Snap, Older, Stack
  <2> QED
    BY <2>1, <1>1, <1>3, <1>5, UnderGrown
<1>11. ASSUME NEW i \in 1..Len(objs), objs[i].block = e.block
       PROVE  objs[i].at + objs[i].len <= e.at
  <2>1. PICK d \in 1..l : /\ chunks[d].block = objs[i].block
                          /\ objs[i].at + objs[i].len <= chunks[d].size
    BY DEF ArenaInv, ObjsIn
  <2>2. d = 1
    BY <2>1, <1>4, <1>6, <1>11 DEF ArenaInv, Stack
  <2> QED
    BY <2>1, <2>2, <1>6
<1>12. \E d \in 1..Len(chunks') :
          chunks'[d].block = e.block /\ e.at + e.len <= chunks'[d].size
  <2>1. e.at + e.len <= chunks'[1].size
    BY <1>1, <1>3, <1>4, <1>6, <1>7
  <2> QED
    BY <2>1, <1>4, <1>6, <1>7
<1> QED
  BY <1>1, <1>2, <1>5, <1>6, <1>8, <1>9, <1>10, <1>11, <1>12, PushKeeps

LEMMA PushChunkKeeps ==
    ASSUME ArenaInv, NEW n \in Requests, PushChunk(n)
    PROVE  ArenaInv'
<1> DEFINE b == PushSize(n)
           l == Len(chunks)
<1>1. b \in Nat \ {0}
  BY PushSizeIs
<1>2. PICK blk \in Blocks \ DOMAIN lent, more \in Extra :
         LET bytes == NewChunkSize(b) + more IN
         /\ lent' = [c \in DOMAIN lent \cup {blk} |->
                        IF c = blk THEN bytes ELSE lent[c]]
         /\ chunks' = <<NewChunk(blk, bytes, b)>> \o chunks
         /\ Pushed(blk, 0, b)
  BY DEF PushChunk
<1> HIDE DEF b
<1> DEFINE bytes == NewChunkSize(b) + more
           c == NewChunk(blk, bytes, b)
           e == [block |-> blk, at |-> 0, len |-> b]
<1>3. /\ size' = size + b /\ objs' = Append(objs, e) /\ marks' = marks
      /\ lent' = [x \in DOMAIN lent \cup {blk} |-> IF x = blk THEN bytes ELSE lent[x]]
      /\ chunks' = <<c>> \o chunks
  BY <1>2 DEF Pushed
<1>4. /\ c \in Chunk /\ c.block = blk /\ c.size = b /\ b <= c.cap
      /\ bytes = Header + c.cap
  BY <1>1, NewChunkIs
<1>5. e \in Obj /\ e.block = blk /\ e.at = 0 /\ e.len = b
  BY <1>1 DEF Obj
<1> HIDE DEF c, bytes, e
<1>6. /\ chunks \in Seq(Chunk) /\ l \in Nat /\ Stack(chunks, size)
      /\ LentFor(chunks, lent) /\ objs \in Seq(Obj)
  BY StackFacts DEF ArenaInv, Apart
<1>7. \A i \in 1..l : chunks[i].block # blk
  <2>1. \A i \in 1..l : chunks[i].block \in DOMAIN lent
    BY <1>6 DEF LentFor
  <2> QED
    BY <2>1
<1>8. c.size >= 1 /\ c.size <= c.cap
  BY <1>1, <1>4
<1>9. Stack(chunks', size') /\ Covered(chunks', chunks, c)
  <2>1. Stack(<<c>> \o chunks, size + c.size) /\ Covered(<<c>> \o chunks, chunks, c)
    BY <1>4, <1>6, <1>7, <1>8, CoveredIs
  <2> QED
    BY <2>1, <1>3, <1>4
<1>10. /\ Len(chunks') = l + 1 /\ chunks'[1] = c
       /\ \A i \in 1..l : i + 1 \in 1..(l + 1) /\ chunks'[i + 1] = chunks[i]
       /\ \A i \in 1..(l + 1) : i = 1 \/ (i - 1 \in 1..l /\ chunks'[i] = chunks[i - 1])
       /\ 1 \in 1..(l + 1)
  <2>1. Len(chunks') = l + 1 /\ chunks'[1] = c /\ \A i \in 1..l : chunks'[i + 1] = chunks[i]
    BY <1>9 DEF Covered
  <2>2. \A i \in 1..(l + 1) : i = 1 \/ (i - 1 \in 1..l /\ (i - 1) + 1 = i)
    BY <1>6
  <2>3. /\ \A i \in 1..l : i + 1 \in 1..(l + 1)
        /\ 1 \in 1..(l + 1)
    BY <1>6
  <2> HIDE DEF l
  <2> QED
    BY <2>1, <2>2, <2>3
<1>11. LentFor(chunks', lent')
  <2>1. DOMAIN lent = {chunks[i].block : i \in 1..l}
    BY <1>6 DEF LentFor
  <2>2. DOMAIN lent' = {chunks'[i].block : i \in 1..(l + 1)}
    <3>1. DOMAIN lent' = DOMAIN lent \cup {blk}
      BY <1>3
    <3>2. ASSUME NEW x \in DOMAIN lent'
          PROVE  x \in {chunks'[i].block : i \in 1..(l + 1)}
      <4>1. CASE x = blk
        BY <4>1, <1>4, <1>10
      <4>2. CASE x # blk
        <5>1. PICK i \in 1..l : x = chunks[i].block
          BY <4>2, <3>1, <2>1
        <5>2. x = chunks'[i + 1].block /\ i + 1 \in 1..(l + 1)
          BY <5>1, <1>10
        <5> QED
          BY <5>2
      <4> QED
        BY <4>1, <4>2
    <3>3. ASSUME NEW i \in 1..(l + 1) PROVE chunks'[i].block \in DOMAIN lent'
      <4>1. CASE i = 1
        BY <4>1, <3>1, <1>4, <1>10
      <4>2. CASE i # 1
        <5>1. i - 1 \in 1..l /\ chunks'[i] = chunks[i - 1]
          BY <4>2, <1>10
        <5> QED
          BY <5>1, <3>1, <2>1
      <4> QED
        BY <4>1, <4>2
    <3> QED
      BY <3>2, <3>3
  <2>3. ASSUME NEW i \in 1..(l + 1) PROVE lent'[chunks'[i].block] = Header + chunks'[i].cap
    <3>1. CASE i = 1
      <4>1. chunks'[i].block = blk /\ chunks'[i].cap = c.cap
        BY <3>1, <1>4, <1>10
      <4>2. lent'[blk] = bytes
        BY <1>3
      <4> QED
        BY <4>1, <4>2, <1>4
    <3>2. CASE i # 1
      <4>1. i - 1 \in 1..l /\ chunks'[i] = chunks[i - 1]
        BY <3>2, <1>10
      <4>2. chunks[i - 1].block # blk /\ chunks[i - 1].block \in DOMAIN lent
        BY <4>1, <2>1, <1>7
      <4>3. lent'[chunks[i - 1].block] = lent[chunks[i - 1].block]
        BY <4>2, <1>3
      <4> QED
        BY <4>1, <4>3, <1>6 DEF LentFor
    <3> QED
      BY <3>1, <3>2
  <2> QED
    BY <2>2, <2>3, <1>10 DEF LentFor
<1>12. ObjsIn(chunks', objs, Len(objs))
  <2> SUFFICES ASSUME NEW i \in 1..Len(objs)
               PROVE  \E d \in 1..Len(chunks') :
                         /\ chunks'[d].block = objs[i].block
                         /\ objs[i].at + objs[i].len <= chunks'[d].size
    BY DEF ObjsIn
  <2>1. PICK d \in 1..l : /\ chunks[d].block = objs[i].block
                          /\ objs[i].at + objs[i].len <= chunks[d].size
    BY DEF ArenaInv, ObjsIn
  <2>2. d + 1 \in 1..Len(chunks') /\ chunks'[d + 1] = chunks[d]
    BY <2>1, <1>10
  <2> QED
    BY <2>1, <2>2
<1>13. ASSUME NEW m \in marks PROVE Under(m.chunks, chunks')
  <2>1. m.chunks \in Seq(Chunk) /\ Under(m.chunks, chunks)
    BY DEF ArenaInv, Snap, Older, Stack
  <2> QED
    BY <2>1, <1>6, <1>9, UnderCovered
<1>14. ASSUME NEW i \in 1..Len(objs) PROVE objs[i].block # e.block
  <2>1. PICK d \in 1..l : chunks[d].block = objs[i].block
    BY DEF ArenaInv, ObjsIn
  <2> QED
    BY <2>1, <1>5, <1>7
<1>15. \E d \in 1..Len(chunks') :
          chunks'[d].block = e.block /\ e.at + e.len <= chunks'[d].size
  <2>1. e.at + e.len <= chunks'[1].size
    BY <1>1, <1>4, <1>5, <1>10
  <2> QED
    BY <2>1, <1>4, <1>5, <1>10
<1> QED
  BY <1>1, <1>3, <1>5, <1>9, <1>11, <1>12, <1>13, <1>14, <1>15, PushKeeps

LEMMA MarkKeeps ==
    ASSUME ArenaInv, mark
    PROVE  ArenaInv'
<1> DEFINE now == [size |-> size, chunks |-> chunks, count |-> Len(objs)]
<1>1. /\ Cardinality(marks) < MaxMarks /\ marks' = marks \cup {now}
      /\ chunks' = chunks /\ size' = size /\ lent' = lent /\ objs' = objs
  BY DEF mark
<1>2. now.size = size /\ now.chunks = chunks /\ now.count = Len(objs)
  OBVIOUS
<1>3. now \in Mark
  BY StackFacts, LenProperties DEF ArenaInv, Apart, Mark
<1> HIDE DEF now
<1>4. Snap(now, objs)
  BY <1>2, <1>3 DEF ArenaInv, Snap
<1>5. size \in Nat /\ Len(objs) \in Nat /\ chunks \in Seq(Chunk)
  BY StackFacts, LenProperties DEF ArenaInv, Apart
<1>6. Older(now, size, chunks, Len(objs))
  <2>1. Under(chunks, chunks)
    BY <1>5, UnderSelf
  <2>2. size <= size /\ Len(objs) <= Len(objs)
    BY <1>5
  <2> QED
    BY <1>2, <2>1, <2>2 DEF Older
<1>7. IsFiniteSet(marks') /\ Cardinality(marks') <= MaxMarks
  <2>1. /\ IsFiniteSet(marks) /\ Cardinality(marks) \in Nat /\ IsFiniteSet(marks')
        /\ Cardinality(marks') = Cardinality(marks) \/ Cardinality(marks') = Cardinality(marks) + 1
    BY <1>1, FS_CardinalityType, FS_AddElement DEF ArenaInv
  <2>2. MaxMarks \in Nat
    BY SizesAssumption
  <2> QED
    BY <1>1, <2>1, <2>2
<1>8. \A m \in marks' : Snap(m, objs) /\ Older(m, size, chunks, Len(objs))
  BY <1>1, <1>4, <1>6 DEF ArenaInv
<1>9. ASSUME NEW k \in marks', NEW m \in marks', k.size <= m.size
      PROVE  Older(k, m.size, m.chunks, m.count)
  <2>1. k.size \in Nat /\ m.size \in Nat
    BY <1>8 DEF Snap, Mark
  <2>2. CASE m = now
    BY <2>2, <1>2, <1>8
  <2>3. CASE m # now /\ k = now
    <3>1. Older(m, size, chunks, Len(objs)) /\ size <= m.size /\ m.size <= size
      BY <2>3, <1>1, <1>2, <1>8, <1>9 DEF Older
    <3>2. m.size = size
      BY <3>1, <2>1, <1>5
    <3>3. m.chunks = chunks /\ m.count = Len(objs)
      BY <3>1, <3>2 DEF Older
    <3> QED
      BY <3>2, <3>3, <2>3, <1>6
  <2>4. CASE m # now /\ k # now
    BY <2>4, <1>1, <1>9 DEF ArenaInv
  <2> QED
    BY <2>2, <2>3, <2>4
<1> QED
  BY <1>1, <1>7, <1>8, <1>9 DEF ArenaInv

LEMMA RewindKeeps ==
    ASSUME ArenaInv, NEW m \in marks, rewind(m)
    PROVE  ArenaInv'
<1> DEFINE ms == m.chunks
           n == Len(chunks)
           k == n - Len(ms)
<1>1. /\ m \in Mark /\ Stack(ms, m.size) /\ ObjsIn(ms, objs, m.count)
      /\ Under(ms, chunks) /\ m.count <= Len(objs)
      /\ Stack(chunks, size) /\ LentFor(chunks, lent)
  BY DEF ArenaInv, Snap, Older
<1>2. chunks' = ms
  BY <1>1, RewoundIs DEF rewind
<1>3. /\ size' = m.size /\ objs' = SubSeq(objs, 1, m.count)
      /\ marks' = {x \in marks : x.size <= m.size}
      /\ lent' = [b \in DOMAIN lent \ Freed(k) |-> lent[b]]
  BY <1>2 DEF rewind
<1>4. /\ n \in Nat /\ Len(ms) \in Nat /\ k \in Nat
      /\ \A j \in 1..Len(ms) : k + j \in 1..n
      /\ \A i \in 1..n : i \in 1..k \/ (i - k \in 1..Len(ms) /\ k + (i - k) = i)
      /\ \A j \in 1..Len(ms) : \A i \in 1..k : i # k + j /\ i \in 1..n
  <2>1. n \in Nat /\ Len(ms) \in Nat /\ Len(ms) <= n
    BY <1>1, StackFacts DEF Under
  <2> DEFINE l == Len(ms)
  <2> HIDE DEF l, n
  <2>2. n \in Nat /\ l \in Nat /\ l <= n
    BY <2>1 DEF l
  <2>3. /\ n \in Nat /\ l \in Nat /\ n - l \in Nat
        /\ \A j \in 1..l : (n - l) + j \in 1..n
        /\ \A i \in 1..n : i \in 1..(n - l) \/ (i - (n - l) \in 1..l /\ (n - l) + (i - (n - l)) = i)
        /\ \A j \in 1..l : \A i \in 1..(n - l) : i # (n - l) + j /\ i \in 1..n
    BY ONLY <2>2
  <2> QED
    BY <2>3 DEF l
<1>5. \A j \in 1..Len(ms) : /\ ms[j].block = chunks[k + j].block
                            /\ ms[j].cap = chunks[k + j].cap
  <2> SUFFICES ASSUME NEW j \in 1..Len(ms)
               PROVE  ms[j].block = chunks[k + j].block /\ ms[j].cap = chunks[k + j].cap
    OBVIOUS
  <2>1. CASE j = 1
    <3>1. Len(ms) >= 1
      BY <1>4
    <3>2. Under(ms, chunks)
      BY <1>1
    <3>3. ms[1].block = chunks[k + 1].block /\ ms[1].cap = chunks[k + 1].cap
      BY ONLY <3>1, <3>2 DEF Under
    <3> QED
      BY <2>1, <3>3
  <2>2. CASE j # 1
    <3>1. j \in 2..Len(ms)
      BY <2>2, <1>4
    <3>2. ms[j] = chunks[k + j]
      BY <3>1, <1>1 DEF Under
    <3> QED
      BY <3>2
  <2> QED
    BY <2>1, <2>2
<1> HIDE DEF n, k
<1>6. Freed(k) = {chunks[i].block : i \in 1..k}
  BY DEF Freed
<1>7. /\ \A i, j \in 1..n : chunks[i].block = chunks[j].block => i = j
      /\ DOMAIN lent = {chunks[i].block : i \in 1..n}
      /\ \A i \in 1..n : lent[chunks[i].block] = Header + chunks[i].cap
  BY <1>1 DEF Stack, LentFor, n
<1>8. \A j \in 1..Len(ms) : ms[j].block \in DOMAIN lent \ Freed(k)
  BY <1>4, <1>5, <1>6, <1>7
<1>9. LentFor(chunks', lent')
  <2>1. ASSUME NEW b \in DOMAIN lent \ Freed(k)
        PROVE  b \in {ms[j].block : j \in 1..Len(ms)}
    <3>1. PICK i \in 1..n : b = chunks[i].block
      BY <1>7
    <3>2. i - k \in 1..Len(ms) /\ k + (i - k) = i
      BY <3>1, <1>4, <1>6
    <3>3. ms[i - k].block = b
      BY <3>1, <3>2, <1>5
    <3> QED
      BY <3>2, <3>3
  <2>2. DOMAIN lent' = {ms[j].block : j \in 1..Len(ms)}
    BY <2>1, <1>3, <1>8
  <2>3. \A j \in 1..Len(ms) : lent'[ms[j].block] = Header + ms[j].cap
    <3> SUFFICES ASSUME NEW j \in 1..Len(ms)
                 PROVE  lent'[ms[j].block] = Header + ms[j].cap
      OBVIOUS
    <3>1. lent'[ms[j].block] = lent[ms[j].block]
      BY <1>3, <1>8
    <3>2. k + j \in 1..n
      BY <1>4
    <3>3. lent[chunks[k + j].block] = Header + chunks[k + j].cap
      BY <3>2, <1>7
    <3>4. ms[j].block = chunks[k + j].block /\ ms[j].cap = chunks[k + j].cap
      BY <1>5
    <3> QED
      BY <3>1, <3>3, <3>4
  <2> QED
    BY <2>2, <2>3, <1>2 DEF LentFor
<1>10. /\ objs \in Seq(Obj) /\ Len(objs) \in Nat /\ m.count \in Nat /\ m.size \in Nat
  BY <1>1, LenProperties DEF ArenaInv, Apart, Mark
<1>11. /\ objs' \in Seq(Obj) /\ Len(objs') = m.count
       /\ \A i \in 1..m.count : objs'[i] = objs[i] /\ i \in 1..Len(objs)
  <2> DEFINE c == m.count
  <2> HIDE DEF c
  <2>1. c \in Nat /\ c <= Len(objs)
    BY <1>1, <1>10 DEF c
  <2>2. \A i \in 1..c : i \in 1..Len(objs)
    BY <2>1, <1>10
  <2>3. \A i \in 1..c : objs[i] \in Obj
    BY <2>2, <1>10, ElementOfSeq
  <2>4. SubSeq(objs, 1, c) = [i \in 1..c |-> objs[i]]
    <3>1. (1 + c) - 1 = c /\ \A i \in 1..c : (1 + i) - 1 = i
      BY <2>1
    <3> QED
      BY <3>1, <2>1, <1>10, SMT
  <2>5. [i \in 1..c |-> objs[i]] \in Seq(Obj) /\ Len([i \in 1..c |-> objs[i]]) = c
    BY <2>1, <2>3
  <2> QED
    BY <1>3, <2>2, <2>4, <2>5 DEF c
<1>12. Apart(objs')
  BY <1>11 DEF ArenaInv, Apart
<1>13. ObjsIn(chunks', objs', Len(objs'))
  BY <1>1, <1>2, <1>11 DEF ObjsIn
<1>14. IsFiniteSet(marks') /\ Cardinality(marks') <= MaxMarks
  <2>1. marks' \subseteq marks /\ IsFiniteSet(marks) /\ Cardinality(marks) <= MaxMarks
    BY <1>3 DEF ArenaInv
  <2>2. /\ IsFiniteSet(marks') /\ Cardinality(marks') <= Cardinality(marks)
        /\ Cardinality(marks') \in Nat /\ Cardinality(marks) \in Nat
    BY <2>1, FS_Subset, FS_CardinalityType
  <2>3. MaxMarks \in Nat
    BY SizesAssumption
  <2> QED
    BY <2>1, <2>2, <2>3
<1>15. ASSUME NEW x \in marks'
       PROVE  Snap(x, objs') /\ Older(x, size', chunks', Len(objs'))
  <2>1. x \in marks /\ x.size <= m.size
    BY <1>3
  <2>2. Older(x, m.size, ms, m.count)
    BY <2>1 DEF ArenaInv
  <2>3. /\ x \in Mark /\ Stack(x.chunks, x.size) /\ ObjsIn(x.chunks, objs, x.count)
        /\ x.count <= m.count
    BY <2>1, <2>2 DEF ArenaInv, Snap, Older
  <2>4. \A i \in 1..x.count : i \in 1..m.count
    <3>1. x.count \in Nat
      BY <2>3 DEF Mark
    <3> QED
      BY <3>1, <2>3, <1>10
  <2>5. ObjsIn(x.chunks, objs', x.count)
    BY <2>3, <2>4, <1>11 DEF ObjsIn
  <2> QED
    BY <2>2, <2>3, <2>5, <1>2, <1>3, <1>11 DEF Snap
<1>16. \A x, y \in marks' : x.size <= y.size => Older(x, y.size, y.chunks, y.count)
  BY <1>3 DEF ArenaInv
<1>17. Stack(chunks', size')
  BY <1>1, <1>2, <1>3
<1> QED
  BY <1>9, <1>12, <1>13, <1>14, <1>15, <1>16, <1>17 DEF ArenaInv

LEMMA ClearKeeps ==
    ASSUME ArenaInv, clear
    PROVE  ArenaInv'
<1>1. chunks' = <<>> /\ size' = 0 /\ objs' = <<>> /\ marks' = {}
  BY DEF clear
<1>2. DOMAIN lent' = {}
  <2>1. DOMAIN lent = {chunks[i].block : i \in 1..Len(chunks)}
    BY DEF ArenaInv, LentFor
  <2>2. DOMAIN lent' = DOMAIN lent \ {chunks[i].block : i \in 1..Len(chunks)}
    BY DEF clear, Freed
  <2> QED
    BY <2>1, <2>2
<1>3. Stack(chunks', size')
  <2> DEFINE f == [i \in 1..1 |-> 0]
  <2>1. f \in [1..1 -> Nat] /\ f[1] = 0
    OBVIOUS
  <2> HIDE DEF f
  <2>2. Tops(chunks', f)
    BY <1>1, <2>1 DEF Tops
  <2>3. \E h : Tops(chunks', h) /\ size' = h[1]
    BY <1>1, <2>1, <2>2
  <2> QED
    BY <1>1, <2>3 DEF Stack
<1>4. IsFiniteSet(marks') /\ Cardinality(marks') <= MaxMarks
  BY <1>1, FS_EmptySet, SizesAssumption
<1>5. LentFor(chunks', lent')
  BY <1>1, <1>2 DEF LentFor
<1>6. Apart(objs') /\ ObjsIn(chunks', objs', Len(objs'))
  BY <1>1 DEF Apart, ObjsIn
<1> QED
  BY <1>1, <1>3, <1>4, <1>5, <1>6 DEF ArenaInv

LEMMA ArenaInvNext == ArenaInv /\ [Next]_vars => ArenaInv'
<1> SUFFICES ASSUME ArenaInv, [Next]_vars PROVE ArenaInv'
  OBVIOUS
<1>1. ASSUME NEW n \in Requests, PushTop(n) PROVE ArenaInv'
  BY <1>1, PushTopKeeps
<1>2. ASSUME NEW n \in Requests, PushChunk(n) PROVE ArenaInv'
  BY <1>2, PushChunkKeeps
<1>3. CASE mark
  BY <1>3, MarkKeeps
<1>4. ASSUME NEW m \in marks, rewind(m) PROVE ArenaInv'
  BY <1>4, RewindKeeps
<1>5. CASE clear
  BY <1>5, ClearKeeps
<1>6. CASE UNCHANGED vars
  BY <1>6 DEF ArenaInv, vars
<1>7. ASSUME NEW n \in Requests, PushNull(n) PROVE ArenaInv'
  BY <1>6, <1>7 DEF PushNull
<1> QED
  BY <1>1, <1>2, <1>3, <1>4, <1>5, <1>6, <1>7 DEF Next

THEOREM ArenaInvHolds == Spec => []ArenaInv
<1> QED
  BY ArenaInvInit, ArenaInvNext, PTL DEF Spec

(***************************************************************************)
(* The invariants of the run, for every parent and any number of chunks.   *)
(***************************************************************************)

(* Type correctness; ralcArena.c never has an empty or overfull chunk.     *)
THEOREM TypeOKHolds == Spec => []TypeOK
<1>1. ArenaInv => TypeOK
  <2> SUFFICES ASSUME ArenaInv PROVE TypeOK
    OBVIOUS
  <2>1. /\ size \in Nat /\ DOMAIN chunks = 1..Len(chunks)
        /\ \A i \in 1..Len(chunks) : chunks[i].block \in Blocks /\ chunks[i].cap \in Nat
    BY StackFacts DEF ArenaInv
  <2>2. \A i \in 1..Len(chunks) : chunks[i].size \in 1..chunks[i].cap
    BY DEF ArenaInv, Stack
  <2>3. DOMAIN lent \subseteq Blocks
    BY <2>1 DEF ArenaInv, LentFor
  <2> QED
    BY <2>1, <2>2, <2>3 DEF TypeOK, ArenaInv
<1> QED
  BY <1>1, ArenaInvHolds, PTL

(* No block of the parent is leaked or freed twice by any mix of pushes,   *)
(* rewinds and clears.                                                     *)
THEOREM ChunksLentHolds == Spec => []ChunksLent
<1>1. ArenaInv => ChunksLent
  <2> SUFFICES ASSUME ArenaInv PROVE ChunksLent
    OBVIOUS
  <2>1. DOMAIN chunks = 1..Len(chunks)
    BY StackFacts DEF ArenaInv
  <2> QED
    BY <2>1 DEF ArenaInv, LentFor, Stack, ChunksLent
<1> QED
  BY <1>1, ArenaInvHolds, PTL

(* Objects the client still has lie in lent memory and never overlap.      *)
THEOREM ObjectsOKHolds == Spec => []ObjectsOK
<1>1. ArenaInv => ObjectsOK
  <2> SUFFICES ASSUME ArenaInv PROVE ObjectsOK
    OBVIOUS
  <2>1. /\ DOMAIN chunks = 1..Len(chunks)
        /\ \A i \in 1..Len(chunks) : /\ chunks[i].cap \in Nat /\ chunks[i].size \in Nat
                                     /\ chunks[i].size <= chunks[i].cap
    BY StackFacts DEF ArenaInv
  <2>2. DOMAIN objs = 1..Len(objs) /\ \A i \in 1..Len(objs) : objs[i] \in Obj
    BY LenProperties, ElementOfSeq DEF ArenaInv, Apart
  <2>3. ASSUME NEW i \in 1..Len(objs)
        PROVE  /\ objs[i].block \in DOMAIN lent
               /\ Header + objs[i].at + objs[i].len <= lent[objs[i].block]
               /\ \E c \in 1..Len(chunks) :
                     chunks[c].block = objs[i].block /\ objs[i].at + objs[i].len <= chunks[c].size
    <3>1. PICK c \in 1..Len(chunks) :
             chunks[c].block = objs[i].block /\ objs[i].at + objs[i].len <= chunks[c].size
      BY DEF ArenaInv, ObjsIn
    <3>2. objs[i].block \in DOMAIN lent /\ lent[objs[i].block] = Header + chunks[c].cap
      BY <3>1 DEF ArenaInv, LentFor
    <3>3. objs[i].at \in Nat /\ objs[i].len \in Nat /\ Header \in Nat
      BY <2>2, SizesAssumption DEF Obj
    <3>4. /\ chunks[c].cap \in Nat /\ chunks[c].size \in Nat
          /\ chunks[c].size <= chunks[c].cap
      BY <2>1
    <3>5. Header + objs[i].at + objs[i].len <= Header + chunks[c].cap
      <4> DEFINE at == objs[i].at
                 len == objs[i].len
                 cap == chunks[c].cap
                 used == chunks[c].size
      <4>1. /\ at \in Nat /\ len \in Nat /\ Header \in Nat /\ cap \in Nat /\ used \in Nat
            /\ used <= cap /\ at + len <= used
        BY <3>1, <3>3, <3>4
      <4> HIDE DEF at, len, cap, used
      <4>2. Header + at + len <= Header + cap
        BY ONLY <4>1
      <4> QED
        BY <4>2 DEF at, len, cap
    <3> QED
      BY <3>1, <3>2, <3>5
  <2>4. \A i, j \in 1..Len(objs) : i < j /\ objs[i].block = objs[j].block =>
           objs[i].len > 0 /\ objs[i].at + objs[i].len <= objs[j].at
    BY <2>2 DEF ArenaInv, Apart, Obj
  <2> QED
    BY <2>1, <2>2, <2>3, <2>4 DEF ObjectsOK
<1> QED
  BY <1>1, ArenaInvHolds, PTL

(* Rewinding to any valid mark restores the chunks of when it was taken.   *)
THEOREM MarksRestoreHolds == Spec => []MarksRestore
<1>1. ArenaInv => MarksRestore
  BY RewoundIs DEF ArenaInv, Snap, Older, MarksRestore
<1> QED
  BY <1>1, ArenaInvHolds, PTL

-----------------------------------------------------------------------------
(***************************************************************************)
(* The account.  The bytes of the first c objects are counted from objs    *)
(* alone; that they are p->size, and were those of a mark when it was      *)
(* taken, is an invariant of its own, which stands on ArenaInv.            *)
(***************************************************************************)
Lens(os)    == [i \in DOMAIN os |-> os[i].len]
Held(os, c) == Total(Lens(os), 1..c)

SizesInv ==
    /\ size = Held(objs, Len(objs))
    /\ \A m \in marks : m.size = Held(objs, m.count)

(* The objects at the bottom are as many bytes in a longer stack.          *)
LEMMA HeldSame ==
    ASSUME NEW os, NEW pt, NEW c,
           \A i \in 1..c : i \in DOMAIN os /\ i \in DOMAIN pt /\ pt[i] = os[i]
    PROVE  Held(pt, c) = Held(os, c)
<1>1. \A i \in 1..c : Lens(pt)[i] = Lens(os)[i]
  BY DEF Lens
<1> QED
  BY <1>1, TotalSame DEF Held

LEMMA HeldPushed ==
    ASSUME NEW os \in Seq(Obj), NEW e \in Obj
    PROVE  Held(Append(os, e), Len(os) + 1) = Held(os, Len(os)) + e.len
<1> DEFINE n == Len(os)
           pt == Append(os, e)
<1>1. /\ n \in Nat /\ DOMAIN os = 1..n /\ pt \in Seq(Obj) /\ Len(pt) = n + 1
      /\ DOMAIN pt = 1..(n + 1) /\ pt[n + 1] = e /\ \A i \in 1..n : pt[i] = os[i]
  BY AppendProperties, LenProperties
<1>2. \A i \in 1..(n + 1) : pt[i] \in Obj
  BY <1>1, ElementOfSeq
<1> HIDE DEF n, pt
<1>3. Counts(Lens(pt), 1..(n + 1)) /\ Lens(pt)[n + 1] = e.len
  BY <1>1, <1>2 DEF Counts, Lens, Obj
<1>4. 1..n \subseteq 1..(n + 1) /\ n + 1 \in 1..(n + 1) /\ n + 1 \notin 1..n
      /\ 1..(n + 1) = 1..n \cup {n + 1}
  BY <1>1
<1>5. Grows(Lens(pt), 1..n, n + 1)
  <2>1. IsFiniteSet(1..(n + 1))
    BY <1>1, CardUpTo
  <2> QED
    BY <1>3, <1>4, <2>1, TotalGrows
<1>6. Held(pt, n) = Held(os, n)
  BY <1>1, <1>4, HeldSame
<1> QED
  BY <1>3, <1>4, <1>5, <1>6 DEF Grows, Held, n, pt

LEMMA PushedKeepsSizes ==
    ASSUME ArenaInv, SizesInv, NEW blk, NEW at, NEW n, Pushed(blk, at, n), Apart(objs')
    PROVE  SizesInv'
<1> DEFINE e == [block |-> blk, at |-> at, len |-> n]
           c == Len(objs)
<1>1. /\ size' = size + n /\ objs' = Append(objs, e) /\ marks' = marks
      /\ objs \in Seq(Obj) /\ c \in Nat /\ DOMAIN objs = 1..c
  BY LenProperties DEF Pushed, ArenaInv, Apart
<1>2. e \in Obj
  <2>1. objs' \in Seq(Obj)
    BY DEF Apart
  <2> DEFINE d == e
  <2> HIDE DEF e
  <2>2. Len(Append(objs, e)) = c + 1 /\ Append(objs, e)[c + 1] = e /\ c + 1 \in 1..(c + 1)
    BY <1>1
  <2> QED
    BY <2>1, <2>2, <1>1, ElementOfSeq
<1>3. e.len = n
  OBVIOUS
<1> HIDE DEF e
<1>4. /\ Len(objs') = c + 1 /\ DOMAIN objs' = 1..(c + 1)
      /\ \A i \in 1..c : objs'[i] = objs[i] /\ i \in 1..(c + 1)
  BY <1>1, <1>2, AppendProperties
<1>5. size' = Held(objs', Len(objs'))
  BY <1>1, <1>2, <1>3, <1>4, HeldPushed DEF SizesInv
<1>6. ASSUME NEW m \in marks PROVE m.size = Held(objs', m.count)
  <2>1. m.count \in Nat /\ m.count <= c
    BY DEF ArenaInv, Snap, Older, Mark
  <2>2. \A i \in 1..m.count : i \in 1..c
    BY <1>1, <2>1
  <2> HIDE DEF c
  <2>3. Held(objs', m.count) = Held(objs, m.count)
    BY <1>1, <1>4, <2>2, HeldSame
  <2> QED
    BY <2>3 DEF SizesInv
<1> QED
  BY <1>1, <1>5, <1>6 DEF SizesInv

LEMMA RewindKeepsSizes ==
    ASSUME ArenaInv, SizesInv, NEW m \in marks, rewind(m)
    PROVE  SizesInv'
<1> DEFINE c == m.count
<1>1. /\ size' = m.size /\ objs' = SubSeq(objs, 1, c)
      /\ marks' = {x \in marks : x.size <= m.size}
      /\ objs \in Seq(Obj) /\ Len(objs) \in Nat /\ DOMAIN objs = 1..Len(objs)
  BY LenProperties DEF rewind, ArenaInv, Apart
<1>2. c \in Nat /\ c <= Len(objs)
  BY DEF ArenaInv, Snap, Older, Mark
<1>3. \A i \in 1..c : i \in 1..Len(objs)
  <2> HIDE DEF c
  <2> QED
    BY <1>1, <1>2
<1>4. Len(objs') = c /\ DOMAIN objs' = 1..c /\ \A i \in 1..c : objs'[i] = objs[i]
  <2> HIDE DEF c
  <2> QED
    BY <1>1, <1>2, <1>3
<1>5. ASSUME NEW x \in marks, x.size <= m.size PROVE x.size = Held(objs', x.count)
  <2>1. x.count \in Nat /\ x.count <= c
    BY <1>5 DEF ArenaInv, Snap, Older, Mark
  <2>2. \A i \in 1..x.count : i \in 1..c
    <3> HIDE DEF c
    <3> QED
      BY <1>2, <2>1
  <2>3. \A i \in 1..x.count : i \in DOMAIN objs /\ i \in DOMAIN objs' /\ objs'[i] = objs[i]
    BY <1>1, <1>3, <1>4, <2>2
  <2>4. Held(objs', x.count) = Held(objs, x.count)
    BY <2>3, HeldSame
  <2> QED
    BY <2>4 DEF SizesInv
<1>6. m.size <= m.size
  BY DEF ArenaInv, Snap, Mark
<1>7. size' = Held(objs', Len(objs'))
  BY <1>1, <1>4, <1>5, <1>6
<1> QED
  BY <1>1, <1>5, <1>7 DEF SizesInv

LEMMA SizesInvInit == Init => SizesInv
<1> SUFFICES ASSUME Init PROVE SizesInv
  OBVIOUS
<1>1. size = 0 /\ Len(objs) = 0 /\ marks = {}
  BY DEF Init
<1>2. 1..0 = {}
  OBVIOUS
<1> QED
  BY <1>1, <1>2, TotalEmpty DEF SizesInv, Held

LEMMA SizesInvNext == ArenaInv /\ SizesInv /\ [Next]_vars => SizesInv'
<1> SUFFICES ASSUME ArenaInv, SizesInv, [Next]_vars PROVE SizesInv'
  OBVIOUS
<1>1. ArenaInv'
  BY ArenaInvNext
<1>2. Apart(objs')
  BY <1>1 DEF ArenaInv
<1>3. ASSUME NEW n \in Requests, PushTop(n) PROVE SizesInv'
  BY <1>2, <1>3, PushedKeepsSizes DEF PushTop
<1>4. ASSUME NEW n \in Requests, PushChunk(n) PROVE SizesInv'
  BY <1>2, <1>4, PushedKeepsSizes DEF PushChunk
<1>5. CASE mark
  BY <1>5 DEF mark, SizesInv
<1>6. ASSUME NEW m \in marks, rewind(m) PROVE SizesInv'
  BY <1>6, RewindKeepsSizes
<1>7. CASE clear
  <2>1. size' = 0 /\ Len(objs') = 0 /\ marks' = {}
    BY <1>7 DEF clear
  <2>2. 1..0 = {}
    OBVIOUS
  <2> QED
    BY <2>1, <2>2, TotalEmpty DEF SizesInv, Held
<1>8. CASE UNCHANGED vars
  BY <1>8 DEF SizesInv, vars
<1>9. ASSUME NEW n \in Requests, PushNull(n) PROVE SizesInv'
  BY <1>8, <1>9 DEF PushNull
<1> QED
  BY <1>3, <1>4, <1>5, <1>6, <1>7, <1>8, <1>9 DEF Next

(***************************************************************************)
(* The chunks.  All bytes of a list of chunks are in use or in a tail, and *)
(* the blocks they live in have a header each besides.                     *)
(***************************************************************************)
Used  == [i \in DOMAIN chunks |-> chunks[i].size]
Gaps  == [i \in DOMAIN chunks |-> chunks[i].cap - chunks[i].size]
Caps  == [i \in DOMAIN chunks |-> chunks[i].cap]
Heads == [i \in DOMAIN chunks |-> Header]
Bytes == [i \in DOMAIN chunks |-> Header + chunks[i].cap]

LEMMA HoleSizeIs == Holes \subseteq DOMAIN chunks => HoleSize = Total(Gaps, Holes)
<1> SUFFICES ASSUME Holes \subseteq DOMAIN chunks PROVE HoleSize = Total(Gaps, Holes)
  OBVIOUS
<1> DEFINE S == Holes
           It(h) == h = [s \in SUBSET S |->
                            IF s = {} THEN 0
                            ELSE LET x == CHOOSE x \in s : TRUE
                                 IN  (chunks[x].cap - chunks[x].size) + h[s \ {x}]]
<1>1. HoleSize = (CHOOSE h : It(h))[S]
  BY DEF HoleSize, MapThenSumSet, MapThenFoldSet
<1>2. S \subseteq DOMAIN chunks
  OBVIOUS
<1> HIDE DEF S
<1>3. ASSUME NEW h PROVE It(h) <=> IsSum(h, Gaps, S)
  <2>1. \A s \in SUBSET S : s # {} => (CHOOSE x \in s : TRUE) \in DOMAIN chunks
    BY <1>2
  <2> QED
    BY <2>1 DEF IsSum, Gaps
<1> HIDE DEF It
<1>4. (CHOOSE h : It(h)) = CHOOSE h : IsSum(h, Gaps, S)
  BY <1>3, Zenon
<1> QED
  BY <1>1, <1>4 DEF Total, S

LEMMA LensSum ==
    MapThenSumSet(LAMBDA i : objs[i].len, DOMAIN objs) = Total(Lens(objs), DOMAIN objs)
<1> DEFINE S == DOMAIN objs
           f == Lens(objs)
           It(h) == h = [s \in SUBSET S |->
                            IF s = {} THEN 0
                            ELSE LET x == CHOOSE x \in s : TRUE IN objs[x].len + h[s \ {x}]]
<1>1. ASSUME NEW h PROVE It(h) <=> IsSum(h, f, S)
  <2>1. \A s \in SUBSET S : s # {} => (CHOOSE x \in s : TRUE) \in S
    OBVIOUS
  <2> QED
    BY <2>1 DEF IsSum, Lens
<1>2. MapThenSumSet(LAMBDA i : objs[i].len, DOMAIN objs) = (CHOOSE h : It(h))[S]
  BY DEF MapThenSumSet, MapThenFoldSet
<1> HIDE DEF It
<1>3. (CHOOSE h : It(h)) = CHOOSE h : IsSum(h, f, S)
  BY <1>1, Zenon
<1> QED
  BY <1>2, <1>3 DEF Total

LEMMA UsedSum ==
    ASSUME ArenaInv
    PROVE  Total(Used, DOMAIN chunks) = size
<1> DEFINE n == Len(chunks)
<1>1. /\ n \in Nat /\ DOMAIN chunks = 1..n
      /\ \A i \in 1..n : chunks[i].size \in Nat
  BY StackFacts DEF ArenaInv
<1>2. PICK f : Tops(chunks, f) /\ size = f[1]
  BY DEF ArenaInv, Stack
<1>3. f[n + 1] = 0 /\ \A i \in 1..n : f[i] = f[i + 1] + Used[i]
  BY <1>1, <1>2 DEF Tops, Used
<1>4. Counts(Used, 1..n)
  BY <1>1 DEF Counts, Used
<1> HIDE DEF n
<1> QED
  BY <1>1, <1>2, <1>3, <1>4, TotalRuns

LEMMA LentSum ==
    ASSUME ArenaInv
    PROVE  ParentUsage.blockSize = Total(Bytes, DOMAIN chunks)
<1> DEFINE S == DOMAIN chunks
           R == DOMAIN lent
           m == [i \in S |-> chunks[i].block]
<1>1. /\ S = 1..Len(chunks) /\ Len(chunks) \in Nat /\ Header \in Nat
      /\ \A i \in S : chunks[i].cap \in Nat
  BY StackFacts, SizesAssumption DEF ArenaInv
<1>2. \A i \in S : Bytes[i] \in Nat /\ m[i] \in R /\ Bytes[i] = lent[m[i]]
  BY <1>1 DEF ArenaInv, LentFor, Bytes
<1>3. \A b \in R : \E i \in S : b = m[i]
  BY <1>1 DEF ArenaInv, LentFor
<1>4. \A i \in S : \A j \in S : m[i] = m[j] => i = j
  BY <1>1 DEF ArenaInv, Stack
<1>5. Counts(Bytes, S) /\ IsFiniteSet(S)
  BY <1>1, <1>2, CardUpTo DEF Counts
<1> HIDE DEF S, R, m
<1>6. Recount(Bytes, S, lent, R)
  BY <1>2, <1>3, <1>4, <1>5, TotalReindex
<1>7. MapThenSumSet(LAMBDA b : lent[b], DOMAIN lent) = Total(lent, DOMAIN lent)
  BY TotalIs
<1> QED
  BY <1>6, <1>7 DEF ParentUsage, Recount, S, R

(***************************************************************************)
(* What getUsage reports as blocks is p->size and what the client holds.   *)
(***************************************************************************)
LEMMA AccountIsSize ==
    ASSUME ArenaInv
    PROVE  Usage.blockSize = size
<1> DEFINE S == DOMAIN chunks
           n == Len(chunks)
<1>1. /\ n \in Nat /\ S = 1..n /\ Header \in Nat
      /\ \A i \in S : /\ chunks[i].cap \in Nat /\ chunks[i].size \in Nat
                      /\ chunks[i].size <= chunks[i].cap
  BY StackFacts, SizesAssumption DEF ArenaInv
<1>2. IsFiniteSet(S) /\ Cardinality(S) = n
  BY <1>1, CardUpTo
<1>3. ASSUME NEW i \in S
      PROVE  /\ Used[i] \in Nat /\ Gaps[i] \in Nat /\ Caps[i] \in Nat /\ Heads[i] \in Nat
             /\ Caps[i] = Used[i] + Gaps[i] /\ Bytes[i] = Heads[i] + Caps[i]
             /\ Heads[i] = Header
  BY <1>1 DEF Used, Gaps, Caps, Heads, Bytes
<1>4. Holes \subseteq S /\ \A i \in S \ Holes : Gaps[i] = 0
  BY <1>1 DEF Holes, Gaps
<1> HIDE DEF S, n
<1>5. Total(Gaps, S) = Total(Gaps, Holes)
  <2>1. Counts(Gaps, S)
    BY <1>3 DEF Counts
  <2> QED
    BY <1>2, <1>4, <2>1, TotalZeros
<1>6. Total(Caps, S) = Total(Used, S) + Total(Gaps, S)
  BY <1>2, <1>3, TotalPlus
<1>7. Total(Bytes, S) = Total(Heads, S) + Total(Caps, S)
  BY <1>2, <1>3, TotalPlus
<1>8. Total(Heads, S) = n * Header
  <2>1. \A i \in S : Heads[i] = Header
    BY <1>3
  <2>2. Total(Heads, S) = Cardinality(S) * Header
    BY <1>1, <1>2, <2>1, TotalSteady
  <2> QED
    BY <1>2, <2>2
<1>9. Total(Used, S) \in Nat /\ Total(Gaps, S) \in Nat
  BY <1>2, <1>3, TotalNat
<1>10. Usage.blockSize = Total(Bytes, S) - (n * Header + Total(Gaps, S))
  BY <1>4, <1>5, HoleSizeIs, LentSum DEF Usage, S, n
<1>11. Total(Used, S) = size
  BY UsedSum DEF S
<1>12. n * Header \in Nat
  BY <1>1
<1> DEFINE h == n * Header
<1>13. Usage.blockSize = (h + (size + Total(Gaps, S))) - (h + Total(Gaps, S))
  BY <1>6, <1>7, <1>8, <1>10, <1>11
<1> HIDE DEF h
<1>14. h \in Nat
  BY <1>12 DEF h
<1> QED
  BY <1>9, <1>11, <1>13, <1>14

(* Together with the invariant of the marks: each of them is as many bytes *)
(* as the objects that were there when it was taken.                       *)
THEOREM SizesInvHolds == Spec => []SizesInv
<1> QED
  BY ArenaInvHolds, SizesInvInit, SizesInvNext, PTL DEF Spec

THEOREM UsageIsLiveHolds == Spec => []UsageIsLive
<1>1. ArenaInv /\ SizesInv => UsageIsLive
  <2> SUFFICES ASSUME ArenaInv, SizesInv PROVE UsageIsLive
    OBVIOUS
  <2>1. DOMAIN objs = 1..Len(objs)
    BY LenProperties DEF ArenaInv, Apart
  <2>2. size = Total(Lens(objs), DOMAIN objs)
    BY <2>1 DEF SizesInv, Held
  <2> QED
    BY <2>2, AccountIsSize, LensSum DEF UsageIsLive
<1> QED
  BY <1>1, ArenaInvHolds, SizesInvHolds, PTL

=============================================================================
