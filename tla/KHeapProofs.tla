---------------------------- MODULE KHeapProofs ----------------------------
(***************************************************************************)
(* The kernel heap, for every size of the heap and of its pages, and any   *)
(* sequence of calls: the blocks tile it, the free list is exact, no       *)
(* header is read past the last block until krealloc has given back its    *)
(* end, and the heap implements the allocator its callers rely on.         *)
(***************************************************************************)
EXTENDS KHeap, SequenceTheorems, WellFoundedInduction, TLAPS

Header == [size : Int, free : BOOLEAN]
HeapType ==
  [hd : [Cells -> Header], ft : [Cells -> Int], data : [Cells -> Nat],
   head : Int, tail : Int, freeList : Seq(Cells), curr : Int, end : Int]

Placed(H) == {c \in Cells : H.hd[c] # Virgin}
Frees(H) == {c \in Placed(H) : H.hd[c].free}
After(H, b) == b + 1 + H.hd[b].size

Used(H) == Placed(H) \ Frees(H)

Tiled(H) ==
  /\ H.curr \in Cells
  /\ H.curr > 0 => 0 \in Placed(H)
  /\ \A b \in Placed(H) : H.hd[b].size \in Nat /\ After(H, b) <= H.curr
  /\ \A b \in Placed(H) : After(H, b) = H.curr \/ After(H, b) \in Placed(H)
  /\ \A b \in Placed(H) : H.ft[After(H, b)] = H.hd[b].size
  /\ \A b, c \in Placed(H) : b < c => After(H, b) <= c
  /\ \A c \in (Placed(H) \cup {H.curr}) \ {0} : \E b \in Placed(H) : After(H, b) = c
Ends(H) ==
  /\ H.head = IF H.curr = 0 THEN NULL ELSE 0
  /\ IF H.curr = 0 THEN H.tail = NULL ELSE H.tail \in Placed(H)
  /\ H.curr <= H.end /\ H.end \in 0 .. (HeapMax + PageUnits)
Listed(H) == IsInjective(H.freeList) /\ ToSet(H.freeList) = Frees(H)
Exact(H) ==
  /\ H.tail # NULL => After(H, H.tail) = H.curr
  /\ \A b \in Frees(H) : After(H, b) \notin Frees(H)
Good(H) == H \in HeapType /\ Tiled(H) /\ Ends(H) /\ Listed(H)

Held(H, lv) ==
  /\ DOMAIN lv = Used(H)
  /\ \A b \in DOMAIN lv :
       /\ lv[b] \in [at : Nat, len : Nat \ {0}, aligned : BOOLEAN]
       /\ b < lv[b].at /\ lv[b].at + lv[b].len <= After(H, b)
       /\ ~lv[b].aligned => lv[b].at = b + 1
       /\ \A c \in Region(lv[b]) : H.data[c] = c - lv[b].at + 1

IInv ==
  /\ Good(heap) /\ Held(heap, live)
  /\ shrunk \in BOOLEAN
  /\ ~shrunk => Exact(heap) /\ status # "wild"

-----------------------------------------------------------------------------
(* What one tag does to a tiling. *)

\* K is H with a block of n units at b, everything in the block forgotten.
Tagged(H, K, b, n, f) ==
  /\ K.curr = H.curr
  /\ \A c \in Cells : K.hd[c] = IF c = b THEN [size |-> n, free |-> f]
                                ELSE IF c \in (b + 1) .. (b + n) THEN Virgin ELSE H.hd[c]
  /\ \A c \in Cells : K.ft[c] = IF c = b + 1 + n THEN n
                                ELSE IF c \in (b + 1) .. (b + n) THEN NoTag ELSE H.ft[c]

LEMMA CellsAreNat == Cells \subseteq Nat /\ Cells = 0 .. (HeapMax + PageUnits) /\ HeapMax + PageUnits \in Nat
  BY SizeAssumption DEF Cells

LEMMA TagFields ==
  ASSUME NEW H \in HeapType, NEW b \in Cells, NEW n \in Int, NEW f \in BOOLEAN
  PROVE  /\ Tag(H, b, n, f) \in HeapType /\ Tagged(H, Tag(H, b, n, f), b, n, f)
         /\ Tag(H, b, n, f).head = H.head /\ Tag(H, b, n, f).tail = H.tail
         /\ Tag(H, b, n, f).freeList = H.freeList /\ Tag(H, b, n, f).end = H.end
         /\ \A c \in Cells : Tag(H, b, n, f).data[c] = IF c \in {b, b + 1 + n} THEN 0 ELSE H.data[c]
<1> DEFINE hd == [c \in Cells |-> IF c = b THEN [size |-> n, free |-> f]
                                 ELSE IF c \in (b + 1) .. (b + n) THEN Virgin ELSE H.hd[c]]
           ft == [c \in Cells |-> IF c = b + 1 + n THEN n
                                 ELSE IF c \in (b + 1) .. (b + n) THEN NoTag ELSE H.ft[c]]
           data == [c \in Cells |-> IF c \in {b, b + 1 + n} THEN 0 ELSE H.data[c]]
           K == Tag(H, b, n, f)
<1>1. hd \in [Cells -> Header] /\ ft \in [Cells -> Int] /\ data \in [Cells -> Nat]
  BY DEF HeapType, Header, Virgin, NoTag
<1>2. K = [H EXCEPT !.hd = hd, !.ft = ft, !.data = data]
  BY DEF Tag
<1> HIDE DEF hd, ft, data, K
<1>3. /\ K \in HeapType /\ K.hd = hd /\ K.ft = ft /\ K.data = data
      /\ K.head = H.head /\ K.tail = H.tail /\ K.freeList = H.freeList /\ K.end = H.end /\ K.curr = H.curr
  BY <1>1, <1>2 DEF HeapType
<1>4. Tagged(H, K, b, n, f)
  BY <1>3 DEF Tagged, hd, ft
<1> QED BY <1>3, <1>4 DEF data, K

\* the same for the constants the code passes, by name
Written(H, K, b, n, f) ==
  /\ K \in HeapType /\ Tagged(H, K, b, n, f)
  /\ K.head = H.head /\ K.tail = H.tail /\ K.freeList = H.freeList /\ K.end = H.end /\ K.curr = H.curr
  /\ \A c \in Cells : K.data[c] = IF c \in {b, b + 1 + n} THEN 0 ELSE H.data[c]

LEMMA TagWrites ==
  ASSUME NEW H \in HeapType, NEW b \in Cells, NEW n \in Int, NEW K, NEW f \in BOOLEAN, K = Tag(H, b, n, f)
  PROVE  Written(H, K, b, n, f)
  BY TagFields DEF Written, Tagged

LEMMA TagUsed ==
  ASSUME NEW H \in HeapType, NEW b \in Cells, NEW n \in Int, NEW K, NEW f \in BOOLEAN, f = FALSE, K = Tag(H, b, n, FALSE)
  PROVE  Written(H, K, b, n, f)
<1>1. K = Tag(H, b, n, f)
  BY Zenon
<1> QED BY <1>1, TagWrites

LEMMA TagFree ==
  ASSUME NEW H \in HeapType, NEW b \in Cells, NEW n \in Int, NEW K, NEW f \in BOOLEAN, f = TRUE, K = Tag(H, b, n, TRUE)
  PROVE  Written(H, K, b, n, f)
<1>1. K = Tag(H, b, n, f)
  BY Zenon
<1> QED BY <1>1, TagWrites

\* a tag whose block ends where a block begins, or at the end, makes one block of the ones it covers
LEMMA OneBlock ==
  ASSUME NEW H, NEW K, Tiled(H), NEW b \in Placed(H), NEW n \in Nat, NEW f \in BOOLEAN,
         b + 1 + n = H.curr \/ b + 1 + n \in Placed(H), Tagged(H, K, b, n, f)
  PROVE  /\ Tiled(K) /\ Placed(K) = {c \in Placed(H) : c <= b \/ b + 1 + n <= c}
         /\ K.hd[b] = [size |-> n, free |-> f] /\ \A c \in Placed(K) \ {b} : K.hd[c] = H.hd[c]
<1> DEFINE e == b + 1 + n
<1>1. /\ b \in Nat /\ e \in Nat /\ b < e /\ e <= H.curr /\ H.curr \in Cells /\ Placed(H) \subseteq Cells /\ Cells \subseteq Nat /\ e \in Cells
      /\ (e = H.curr \/ e \in Placed(H))
  BY CellsAreNat DEF Tiled, Placed, After
<1>2. [size |-> n, free |-> f] # Virgin
  BY DEF Virgin, NoTag
<1>3. Placed(K) = {c \in Placed(H) : c <= b \/ e <= c}
  <2>1. \A c \in Cells : K.hd[c] # Virgin <=> (c = b \/ (H.hd[c] # Virgin /\ (c < b \/ e <= c)))
    <3>1. SUFFICES ASSUME NEW c \in Cells PROVE K.hd[c] # Virgin <=> (c = b \/ (H.hd[c] # Virgin /\ (c < b \/ e <= c)))
      OBVIOUS
    <3>2. c \in (b + 1) .. (b + n) <=> b < c /\ c < e
      BY <1>1
    <3>3. c \in Nat
      BY CellsAreNat
    <3> HIDE DEF e
    <3> QED BY <1>1, <1>2, <3>2, <3>3 DEF Tagged
  <2> HIDE DEF e
  <2>2. \A c \in Cells : c \in Placed(K) <=> c \in Placed(H) /\ (c <= b \/ e <= c)
    BY <1>1, <2>1 DEF Placed
  <2> QED BY <2>2 DEF Placed
<1>4. K.hd[b] = [size |-> n, free |-> f] /\ After(K, b) = e
  BY <1>1 DEF Tagged, After
<1>5. \A c \in Placed(K) \ {b} : K.hd[c] = H.hd[c] /\ After(K, c) = After(H, c)
  <2>1. SUFFICES ASSUME NEW c \in Placed(K) \ {b} PROVE K.hd[c] = H.hd[c]
    BY DEF After
  <2>2. c \in Cells /\ c \notin (b + 1) .. (b + n)
    BY <1>1, <1>3
  <2> QED BY <2>2 DEF Tagged
<1>6. \A c \in Placed(H) : c < b => After(H, c) <= b
  BY DEF Tiled
<1>7. \A c \in Placed(K) : K.hd[c].size \in Nat /\ After(K, c) <= H.curr
  BY <1>1, <1>3, <1>4, <1>5 DEF Tiled
<1>8. \A c \in Placed(K) : After(K, c) = H.curr \/ After(K, c) \in Placed(K)
  <2>1. \A c \in Placed(H) : After(H, c) = H.curr \/ After(H, c) \in Placed(H)
    BY DEF Tiled
  <2>2. \A c \in Placed(H) : c < e => After(H, c) <= e
    BY <1>1 DEF Tiled
  <2>3. \A c \in Placed(H) : After(H, c) > c
    BY <1>1 DEF Tiled, After
  <2>4. SUFFICES ASSUME NEW c \in Placed(K) PROVE After(K, c) = H.curr \/ After(K, c) \in Placed(K)
    OBVIOUS
  <2> HIDE DEF e
  <2>5. CASE c = b
    BY <1>1, <1>3, <1>4, <2>5
  <2>6. CASE c < b
    <3>1. c \in Placed(H) /\ After(K, c) = After(H, c) /\ After(H, c) <= b
      BY <1>1, <1>3, <1>5, <1>6, <2>4, <2>6
    <3>2. After(H, c) # H.curr => After(H, c) \in Placed(H)
      BY <2>1, <3>1
    <3> QED BY <1>1, <1>3, <3>1, <3>2
  <2>7. CASE c >= e
    <3>1. c \in Placed(H) /\ After(K, c) = After(H, c) /\ After(H, c) > c /\ c \in Nat
      BY <1>1, <1>3, <1>5, <2>3, <2>4, <2>7
    <3>2. After(H, c) # H.curr => After(H, c) \in Placed(H) /\ After(H, c) \in Nat
      BY <1>1, <2>1, <3>1
    <3>3. After(H, c) # H.curr => e <= After(H, c)
      BY <1>1, <2>7, <3>1, <3>2
    <3> QED BY <1>3, <3>1, <3>2, <3>3
  <2> QED BY <1>1, <1>3, <2>5, <2>6, <2>7
<1>9. \A c \in Placed(K) : K.ft[After(K, c)] = K.hd[c].size
  <2>1. SUFFICES ASSUME NEW c \in Placed(K) PROVE K.ft[After(K, c)] = K.hd[c].size
    OBVIOUS
  <2>2. CASE c = b
    <3>1. K.ft[e] = n
      BY <1>1 DEF Tagged
    <3> QED BY <1>4, <2>2, <3>1
  <2>3. CASE c # b
    <3>1. After(H, c) \in Cells /\ H.ft[After(H, c)] = H.hd[c].size
      BY <1>1, <1>3, CellsAreNat DEF Tiled, After
    <3>2. After(H, c) <= b \/ After(H, c) > e
      BY <1>1, <1>3, <1>6, <2>3 DEF Tiled, After
    <3>3. After(H, c) \notin (b + 1) .. (b + n) /\ After(H, c) # b + 1 + n
      BY <1>1, <3>1, <3>2, CellsAreNat
    <3>4. K.ft[After(H, c)] = H.ft[After(H, c)]
      BY <3>1, <3>3 DEF Tagged
    <3> QED BY <1>5, <2>3, <3>1, <3>4
  <2> QED BY <2>2, <2>3
<1>10. \A c, d \in Placed(K) : c < d => After(K, c) <= d
  BY <1>1, <1>3, <1>4, <1>5 DEF Tiled
<1>11. \A d \in (Placed(K) \cup {H.curr}) \ {0} : \E c \in Placed(K) : After(K, c) = d
  <2>1. SUFFICES ASSUME NEW d \in (Placed(K) \cup {H.curr}) \ {0} PROVE \E c \in Placed(K) : After(K, c) = d
    OBVIOUS
  <2>2. PICK c \in Placed(H) : After(H, c) = d
    BY <1>3 DEF Tiled
  <2>3. c < d /\ c \in Nat /\ d \in Nat
    <3>1. H.hd[c].size \in Nat /\ c \in Nat
      BY <1>1, <2>2 DEF Tiled
    <3> QED BY <2>2, <3>1 DEF After
  <2>4. CASE d = e
    BY <1>1, <1>3, <1>4, <2>4
  <2>5. CASE d # e
    <3>1. d <= b \/ d > e
      BY <1>1, <1>3, <2>5
    <3>2. c < b \/ c >= e
      <4>1. c < e => After(H, c) <= e
        BY <1>1, <2>2 DEF Tiled
      <4>2. c # b \/ b >= e \/ d < e
        BY <1>1, <2>2, <4>1, <2>5
      <4>3. d > e => c >= e
        BY <1>1, <2>2, <2>3, <4>1
      <4> QED BY <1>1, <2>3, <3>1, <4>3
    <3>3. c \in Placed(K) \ {b}
      BY <1>1, <1>3, <2>2, <2>3, <3>2
    <3> QED BY <1>5, <2>2, <3>3
  <2> QED BY <2>4, <2>5
<1>12. Tiled(K)
  <2>1. K.curr = H.curr
    BY DEF Tagged
  <2>2. H.curr > 0 => 0 \in Placed(K)
    BY <1>1, <1>3 DEF Tiled
  <2> QED BY <1>1, <1>7, <1>8, <1>9, <1>10, <1>11, <2>1, <2>2 DEF Tiled
<1> QED BY <1>1, <1>3, <1>4, <1>5, <1>12

\* b's block is cut in two, the second from t on
Cut(H, K, b, n, m, f, g) ==
  LET t == b + 1 + n
      e == t + 1 + m
  IN  /\ K.curr = H.curr
      /\ K.hd[b] = [size |-> n, free |-> f] /\ K.hd[t] = [size |-> m, free |-> g]
      /\ K.ft[t] = n /\ K.ft[e] = m
      /\ \A c \in Cells \ {b, t} : K.hd[c] = IF b < c /\ c < e THEN Virgin ELSE H.hd[c]
      /\ \A c \in Cells : c <= b \/ e < c => K.ft[c] = H.ft[c]

LEMMA TwoBlocks ==
  ASSUME NEW H, NEW K, Tiled(H), NEW b \in Placed(H), NEW n \in Nat, NEW m \in Nat, NEW f \in BOOLEAN, NEW g \in BOOLEAN,
         H.hd[b].size = n + 1 + m, Cut(H, K, b, n, m, f, g)
  PROVE  /\ Tiled(K) /\ Placed(K) = Placed(H) \cup {b + 1 + n} /\ b + 1 + n \notin Placed(H)
         /\ \A c \in Placed(H) \ {b} : K.hd[c] = H.hd[c]
<1> DEFINE t == b + 1 + n
           e == t + 1 + m
<1>1. /\ b \in Nat /\ t \in Nat /\ e \in Nat /\ b < t /\ t < e /\ e <= H.curr /\ H.curr \in Cells
      /\ Placed(H) \subseteq Cells /\ Cells \subseteq Nat /\ t \in Cells /\ e \in Cells
      /\ (e = H.curr \/ e \in Placed(H)) /\ After(H, b) = e
  BY CellsAreNat DEF Tiled, Placed, After
<1>2. [size |-> n, free |-> f] # Virgin /\ [size |-> m, free |-> g] # Virgin
  BY DEF Virgin, NoTag
<1>3. /\ K.curr = H.curr
      /\ K.hd[b] = [size |-> n, free |-> f] /\ K.hd[t] = [size |-> m, free |-> g]
      /\ K.ft[t] = n /\ K.ft[e] = m
      /\ \A c \in Cells \ {b, t} : K.hd[c] = IF b < c /\ c < e THEN Virgin ELSE H.hd[c]
      /\ \A c \in Cells : c <= b \/ e < c => K.ft[c] = H.ft[c]
  BY DEF Cut
<1> HIDE DEF t, e
<1>4. After(K, b) = t /\ After(K, t) = e
  BY <1>3 DEF After, t, e
<1>5. \A c \in Placed(H) \ {b} : (c < b /\ After(H, c) <= b /\ c < After(H, c)) \/ (e <= c /\ c < After(H, c))
  <2>1. SUFFICES ASSUME NEW c \in Placed(H) \ {b}
                 PROVE  (c < b /\ After(H, c) <= b /\ c < After(H, c)) \/ (e <= c /\ c < After(H, c))
    OBVIOUS
  <2>2. c \in Nat /\ c < After(H, c) /\ After(H, c) \in Nat
    BY <1>1 DEF Tiled, After
  <2>3. CASE c < b
    BY <2>2, <2>3 DEF Tiled
  <2>4. CASE b < c
    BY <1>1, <2>2, <2>4 DEF Tiled
  <2> QED BY <1>1, <2>2, <2>3, <2>4
<1>6. \A c \in Placed(H) \ {b} : c # t /\ K.hd[c] = H.hd[c] /\ After(K, c) = After(H, c)
  <2>1. SUFFICES ASSUME NEW c \in Placed(H) \ {b} PROVE c # t /\ K.hd[c] = H.hd[c]
    BY DEF After
  <2>2. c \in Nat /\ c \in Cells /\ (c < b \/ e <= c)
    BY <1>1, <1>5
  <2> QED BY <1>1, <1>3, <2>2
<1>7. Placed(K) = Placed(H) \cup {t} /\ t \notin Placed(H)
  <2>1. ASSUME NEW c \in Cells PROVE c \in Placed(K) <=> c \in Placed(H) \/ c = t
    <3>1. CASE c \in {b, t}
      BY <1>2, <1>3, <3>1 DEF Placed
    <3>2. CASE c \notin {b, t} /\ b < c /\ c < e
      <4>1. c \notin Placed(H)
        BY <1>1, <1>5, <3>2
      <4> QED BY <1>3, <3>2, <4>1 DEF Placed
    <3>3. CASE c \notin {b, t} /\ ~(b < c /\ c < e)
      BY <1>3, <3>3 DEF Placed
    <3> QED BY <3>1, <3>2, <3>3
  <2>2. t \notin Placed(H)
    BY <1>1, <1>6
  <2>3. Placed(K) \subseteq Cells
    BY DEF Placed
  <2> QED BY <1>1, <2>1, <2>2, <2>3
<1>8. K.hd[b].size = n /\ K.hd[t].size = m
  BY <1>3
<1>9. \A c \in Placed(K) : K.hd[c].size \in Nat /\ After(K, c) <= H.curr
  BY <1>1, <1>4, <1>6, <1>7, <1>8 DEF Tiled
<1>10. \A c \in Placed(K) : After(K, c) = H.curr \/ After(K, c) \in Placed(K)
  <2>1. \A c \in Placed(H) : After(H, c) = H.curr \/ After(H, c) \in Placed(H)
    BY DEF Tiled
  <2> QED BY <1>1, <1>4, <1>6, <1>7, <2>1
<1>11. \A c \in Placed(K) : K.ft[After(K, c)] = K.hd[c].size
  <2>1. ASSUME NEW c \in Placed(H) \ {b} PROVE K.ft[After(K, c)] = K.hd[c].size
    <3>1. After(H, c) \in Cells /\ H.ft[After(H, c)] = H.hd[c].size /\ (After(H, c) <= b \/ e < After(H, c))
      <4>1. After(H, c) \in Nat /\ After(H, c) <= H.curr /\ H.ft[After(H, c)] = H.hd[c].size
        BY <1>1 DEF Tiled, After
      <4>2. After(H, c) <= b \/ e < After(H, c)
        <5>1. c \in Nat
          BY <1>1
        <5> QED BY <1>1, <1>5, <4>1, <5>1
      <4> QED BY <1>1, <4>1, <4>2, CellsAreNat
    <3> QED BY <1>3, <1>6, <3>1
  <2> QED BY <1>3, <1>4, <1>7, <1>8, <2>1
<1>12. \A c, d \in Placed(K) : c < d => After(K, c) <= d
  <2>1. ASSUME NEW c \in Placed(K), NEW d \in Placed(K), c < d PROVE After(K, c) <= d
    <3>1. CASE c = b
      <4>1. d = t \/ (d \in Placed(H) \ {b} /\ d \in Nat)
        <5>1. d # b /\ (d \in Placed(H) \/ d = t)
          BY <1>1, <1>7, <2>1, <3>1
        <5> QED BY <1>1, <5>1
      <4>2. After(K, c) = t /\ t \in Nat /\ b \in Nat /\ e \in Nat /\ t < e /\ b < d
        BY <1>1, <1>4, <2>1, <3>1
      <4>3. CASE d = t
        BY <4>2, <4>3
      <4>4. CASE d \in Placed(H) \ {b} /\ d \in Nat
        <5>1. e <= d
          BY <1>5, <4>2, <4>4
        <5> QED BY <4>2, <4>4, <5>1
      <4> QED BY <4>1, <4>3, <4>4
    <3>2. CASE c = t
      BY <1>1, <1>4, <1>5, <1>7, <2>1, <3>2
    <3>3. CASE c \in Placed(H) \ {b} /\ d = t
      <4>1. After(K, c) = After(H, c) /\ c \in Nat /\ c < t
        BY <1>1, <1>6, <2>1, <3>3
      <4>2. c < b /\ After(H, c) <= b
        BY <1>1, <1>5, <3>3, <4>1
      <4>3. After(H, c) \in Nat
        BY <1>1, <3>3 DEF Tiled, After
      <4> QED BY <1>1, <3>3, <4>1, <4>2, <4>3
    <3>4. CASE c \in Placed(H) \ {b} /\ d \in Placed(H)
      BY <1>6, <2>1, <3>4 DEF Tiled
    <3> QED BY <1>7, <3>1, <3>2, <3>3, <3>4
  <2> QED BY <2>1
<1>13. \A d \in (Placed(K) \cup {K.curr}) \ {0} : \E c \in Placed(K) : After(K, c) = d
  <2>1. SUFFICES ASSUME NEW d \in (Placed(K) \cup {K.curr}) \ {0} PROVE \E c \in Placed(K) : After(K, c) = d
    OBVIOUS
  <2>2. CASE d = t
    BY <1>4, <1>7, <2>2
  <2>3. CASE d \in Placed(H) \cup {H.curr}
    <3>1. PICK c \in Placed(H) : After(H, c) = d
      BY <2>3 DEF Tiled
    <3>2. CASE c = b
      BY <1>1, <1>4, <1>7, <3>1, <3>2
    <3>3. CASE c # b
      BY <1>6, <1>7, <3>1, <3>3
    <3> QED BY <3>2, <3>3
  <2> QED BY <1>3, <1>7, <2>2, <2>3
<1>14. Tiled(K)
  <2>1. H.curr \in Cells /\ (H.curr > 0 => 0 \in Placed(K))
    BY <1>1, <1>7 DEF Tiled
  <2> QED BY <1>3, <1>9, <1>10, <1>11, <1>12, <1>13, <2>1 DEF Tiled
<1> QED BY <1>6, <1>7, <1>14 DEF t

\* a block is added at the end
LEMMA NewBlock ==
  ASSUME NEW H, NEW G, NEW K, Tiled(H), NEW n \in Nat, NEW f \in BOOLEAN,
         G.hd = H.hd, G.ft = H.ft, G.curr = H.curr + 1 + n, G.curr \in Cells, Tagged(G, K, H.curr, n, f)
  PROVE  /\ Tiled(K) /\ Placed(K) = Placed(H) \cup {H.curr} /\ H.curr \notin Placed(H)
         /\ K.hd[H.curr] = [size |-> n, free |-> f] /\ \A c \in Placed(H) : K.hd[c] = H.hd[c]
<1> DEFINE b == H.curr
           e == b + 1 + n
<1>1. /\ b \in Nat /\ e \in Nat /\ b < e /\ b \in Cells /\ e \in Cells
      /\ Placed(H) \subseteq Cells /\ Cells \subseteq Nat
  BY CellsAreNat DEF Tiled, Placed
<1>2. [size |-> n, free |-> f] # Virgin
  BY DEF Virgin, NoTag
<1>3. /\ K.curr = e /\ K.hd[b] = [size |-> n, free |-> f] /\ K.ft[e] = n
      /\ \A c \in Cells \ {b} : K.hd[c] = IF b < c /\ c < e THEN Virgin ELSE H.hd[c]
      /\ \A c \in Cells : c <= b => K.ft[c] = H.ft[c]
  <2>1. \A c \in Cells : c \in (b + 1) .. (b + n) <=> b < c /\ c < e
    BY <1>1
  <2>2. K.hd[b] = [size |-> n, free |-> f] /\ K.ft[e] = n /\ K.curr = e
    BY <1>1 DEF Tagged
  <2>3. \A c \in Cells \ {b} : K.hd[c] = IF b < c /\ c < e THEN Virgin ELSE H.hd[c]
    BY <2>1 DEF Tagged
  <2>4. ASSUME NEW c \in Cells, c <= b PROVE K.ft[c] = H.ft[c]
    <3>1. c \notin (b + 1) .. (b + n) /\ c # b + 1 + n
      BY <1>1, <2>4
    <3> QED BY <3>1 DEF Tagged
  <2> QED BY <2>2, <2>3, <2>4
<1>4. \A c \in Placed(H) : c < b /\ After(H, c) <= b /\ c < After(H, c) /\ After(H, c) \in Nat
  <2>1. SUFFICES ASSUME NEW c \in Placed(H)
                 PROVE  c < b /\ After(H, c) <= b /\ c < After(H, c) /\ After(H, c) \in Nat
    OBVIOUS
  <2>2. c \in Nat /\ H.hd[c].size \in Nat /\ After(H, c) <= b
    BY <1>1 DEF Tiled
  <2> QED BY <1>1, <2>2 DEF After
<1> HIDE DEF e
<1>5. b \notin Placed(H)
  BY <1>1, <1>4
<1>6. \A c \in Placed(H) : K.hd[c] = H.hd[c] /\ After(K, c) = After(H, c)
  <2>1. SUFFICES ASSUME NEW c \in Placed(H) PROVE K.hd[c] = H.hd[c]
    BY DEF After
  <2>2. c \in Cells \ {b} /\ c \in Nat /\ c < b
    BY <1>1, <1>4, <1>5
  <2> QED BY <1>1, <1>3, <2>2
<1>7. Placed(K) = Placed(H) \cup {b}
  <2>1. ASSUME NEW c \in Cells PROVE c \in Placed(K) <=> c \in Placed(H) \/ c = b
    <3>1. CASE c = b
      BY <1>2, <1>3, <3>1 DEF Placed
    <3>2. CASE c # b /\ b < c /\ c < e
      BY <1>1, <1>3, <1>4, <3>2 DEF Placed
    <3>3. CASE c # b /\ ~(b < c /\ c < e)
      BY <1>3, <3>3 DEF Placed
    <3> QED BY <3>1, <3>2, <3>3
  <2>2. Placed(K) \subseteq Cells
    BY DEF Placed
  <2> QED BY <1>1, <2>1, <2>2
<1>8. After(K, b) = e /\ K.hd[b].size = n
  BY <1>3 DEF After, e
<1>9. \A c \in Placed(K) : K.hd[c].size \in Nat /\ After(K, c) <= e
  BY <1>1, <1>4, <1>6, <1>7, <1>8 DEF Tiled
<1>10. \A c \in Placed(K) : After(K, c) = e \/ After(K, c) \in Placed(K)
  BY <1>6, <1>7, <1>8 DEF Tiled
<1>11. \A c \in Placed(K) : K.ft[After(K, c)] = K.hd[c].size
  <2>1. ASSUME NEW c \in Placed(H) PROVE K.ft[After(K, c)] = K.hd[c].size
    <3>1. After(H, c) \in Cells /\ After(H, c) <= b
      BY <1>1, <1>4, CellsAreNat
    <3>2. H.ft[After(H, c)] = H.hd[c].size
      BY DEF Tiled
    <3> QED BY <1>3, <1>6, <3>1, <3>2
  <2> QED BY <1>3, <1>7, <1>8, <2>1
<1>12. \A c, d \in Placed(K) : c < d => After(K, c) <= d
  <2>1. ASSUME NEW c \in Placed(K), NEW d \in Placed(K), c < d PROVE After(K, c) <= d
    <3>1. c \in Placed(H)
      BY <1>1, <1>4, <1>7, <2>1
    <3> QED BY <1>4, <1>6, <1>7, <2>1, <3>1 DEF Tiled
  <2> QED BY <2>1
<1>13. \A d \in (Placed(K) \cup {K.curr}) \ {0} : \E c \in Placed(K) : After(K, c) = d
  <2>1. ASSUME NEW d \in (Placed(H) \cup {b}) \ {0} PROVE \E c \in Placed(K) : After(K, c) = d
    BY <1>6, <1>7 DEF Tiled
  <2> QED BY <1>3, <1>7, <1>8, <2>1
<1>14. Tiled(K)
  <2>1. e > 0 => 0 \in Placed(K)
    BY <1>1, <1>7 DEF Tiled
  <2> QED BY <1>1, <1>3, <1>9, <1>10, <1>11, <1>12, <1>13, <2>1 DEF Tiled
<1> QED BY <1>3, <1>5, <1>6, <1>7, <1>14

\* where the blocks are
LEMMA Order ==
  ASSUME NEW H, Tiled(H), NEW b \in Placed(H)
  PROVE  /\ b \in Nat /\ b \in Cells /\ H.hd[b].size \in Nat /\ After(H, b) \in Nat /\ After(H, b) \in Cells
         /\ b < After(H, b) /\ After(H, b) <= H.curr /\ H.curr \in Nat
         /\ \A c \in Placed(H) : (c < b /\ After(H, c) <= b) \/ c = b \/ (b < c /\ After(H, b) <= c)
         /\ \A x \in Cells : b < x /\ x < After(H, b) => x \notin Placed(H) /\ x # H.curr
<1>1. /\ b \in Nat /\ b \in Cells /\ H.hd[b].size \in Nat /\ After(H, b) <= H.curr /\ H.curr \in Cells /\ H.curr \in Nat
      /\ \A c \in Placed(H) : c \in Nat
  BY CellsAreNat DEF Tiled, Placed
<1>2. After(H, b) \in Nat /\ b < After(H, b) /\ After(H, b) \in Cells
  BY <1>1, CellsAreNat DEF After
<1>3. \A c \in Placed(H) : (c < b /\ After(H, c) <= b) \/ c = b \/ (b < c /\ After(H, b) <= c)
  BY <1>1 DEF Tiled
<1>4. \A x \in Cells : b < x /\ x < After(H, b) => x \notin Placed(H) /\ x # H.curr
  BY <1>1, <1>2, <1>3, CellsAreNat
<1> QED BY <1>1, <1>2, <1>3, <1>4

LEMMA MergeTwo ==
  ASSUME NEW H, NEW K, Tiled(H), NEW b \in Placed(H), NEW d \in Placed(H), After(H, b) = d, NEW f \in BOOLEAN,
         Tagged(H, K, b, H.hd[b].size + 1 + H.hd[d].size, f)
  PROVE  /\ Tiled(K) /\ Placed(K) = Placed(H) \ {d} /\ After(K, b) = After(H, d) /\ b # d
         /\ K.hd[b] = [size |-> H.hd[b].size + 1 + H.hd[d].size, free |-> f]
         /\ \A c \in Placed(K) \ {b} : K.hd[c] = H.hd[c]
<1> DEFINE n == H.hd[b].size + 1 + H.hd[d].size
<1>1. n \in Nat /\ b + 1 + n = After(H, d) /\ b < d
  BY Order DEF After
<1>2. b + 1 + n = H.curr \/ b + 1 + n \in Placed(H)
  BY <1>1 DEF Tiled
<1>3. Tagged(H, K, b, n, f)
  OBVIOUS
<1> HIDE DEF n
<1>4. /\ Tiled(K) /\ Placed(K) = {c \in Placed(H) : c <= b \/ b + 1 + n <= c}
      /\ K.hd[b] = [size |-> n, free |-> f] /\ \A c \in Placed(K) \ {b} : K.hd[c] = H.hd[c]
  BY <1>1, <1>2, <1>3, OneBlock
<1>5. ASSUME NEW c \in Placed(H) PROVE (c <= b \/ b + 1 + n <= c) <=> c # d
  <2>1. c \in Nat /\ b \in Nat /\ d \in Nat /\ d < After(H, d) /\ After(H, d) \in Nat
    BY Order
  <2>2. c < b \/ c = b \/ d <= c
    BY Order
  <2>3. c < d \/ c = d \/ After(H, d) <= c
    BY Order
  <2> QED BY <1>1, <2>1, <2>2, <2>3
<1>6. Placed(K) = Placed(H) \ {d}
  BY <1>4, <1>5
<1>7. After(K, b) = After(H, d)
  BY <1>1, <1>4 DEF After
<1> QED BY <1>1, <1>4, <1>6, <1>7, Order DEF n

LEMMA MergeThree ==
  ASSUME NEW H, NEW K, Tiled(H), NEW a \in Placed(H), NEW b \in Placed(H), NEW d \in Placed(H),
         After(H, a) = b, After(H, b) = d, NEW f \in BOOLEAN,
         Tagged(H, K, a, H.hd[a].size + 2 + H.hd[b].size + H.hd[d].size, f)
  PROVE  /\ Tiled(K) /\ Placed(K) = Placed(H) \ {b, d} /\ After(K, a) = After(H, d) /\ a # b /\ a # d /\ b # d
         /\ K.hd[a] = [size |-> H.hd[a].size + 2 + H.hd[b].size + H.hd[d].size, free |-> f]
         /\ \A c \in Placed(K) \ {a} : K.hd[c] = H.hd[c]
<1> DEFINE n == H.hd[a].size + 2 + H.hd[b].size + H.hd[d].size
<1>1. n \in Nat /\ a + 1 + n = After(H, d) /\ a < b /\ b < d /\ a \in Nat /\ b \in Nat /\ d \in Nat
  BY Order DEF After
<1>2. a + 1 + n = H.curr \/ a + 1 + n \in Placed(H)
  BY <1>1 DEF Tiled
<1>3. Tagged(H, K, a, n, f)
  OBVIOUS
<1> HIDE DEF n
<1>4. /\ Tiled(K) /\ Placed(K) = {c \in Placed(H) : c <= a \/ a + 1 + n <= c}
      /\ K.hd[a] = [size |-> n, free |-> f] /\ \A c \in Placed(K) \ {a} : K.hd[c] = H.hd[c]
  BY <1>1, <1>2, <1>3, OneBlock
<1>5. ASSUME NEW c \in Placed(H) PROVE (c <= a \/ a + 1 + n <= c) <=> c \notin {b, d}
  <2>1. c \in Nat /\ d < After(H, d) /\ After(H, d) \in Nat
    BY Order
  <2>2. c < a \/ c = a \/ b <= c
    BY Order
  <2>3. c < b \/ c = b \/ d <= c
    BY Order
  <2>4. c < d \/ c = d \/ After(H, d) <= c
    BY Order
  <2> QED BY <1>1, <2>1, <2>2, <2>3, <2>4
<1>6. Placed(K) = Placed(H) \ {b, d}
  BY <1>4, <1>5
<1>7. After(K, a) = After(H, d)
  BY <1>1, <1>4 DEF After
<1> QED BY <1>1, <1>4, <1>6, <1>7 DEF n

LEMMA SameBlock ==
  ASSUME NEW H, NEW K, Tiled(H), NEW b \in Placed(H), NEW f \in BOOLEAN, Tagged(H, K, b, H.hd[b].size, f)
  PROVE  /\ Tiled(K) /\ Placed(K) = Placed(H)
         /\ K.hd[b] = [size |-> H.hd[b].size, free |-> f] /\ \A c \in Placed(K) \ {b} : K.hd[c] = H.hd[c]
<1>1. H.hd[b].size \in Nat /\ b + 1 + H.hd[b].size = After(H, b)
  BY Order DEF After
<1>2. After(H, b) = H.curr \/ After(H, b) \in Placed(H)
  BY DEF Tiled
<1>3. /\ Tiled(K) /\ Placed(K) = {c \in Placed(H) : c <= b \/ After(H, b) <= c}
      /\ K.hd[b] = [size |-> H.hd[b].size, free |-> f] /\ \A c \in Placed(K) \ {b} : K.hd[c] = H.hd[c]
  BY <1>1, <1>2, OneBlock
<1>4. \A c \in Placed(H) : c <= b \/ After(H, b) <= c
  BY Order
<1> QED BY <1>3, <1>4

\* the two tags of a split: b ends before t, the rest goes on to where a block begins or to the end
Split(H, b, n, t, m, e) == t = b + 1 + n /\ e = t + 1 + m /\ (e = H.curr \/ e \in Placed(H))

LEMMA SplitTiling ==
  ASSUME NEW H \in HeapType, NEW H1, NEW G, NEW K, Tiled(H), NEW b \in Placed(H), NEW n \in Nat, NEW m \in Nat,
         NEW f \in BOOLEAN, NEW g \in BOOLEAN, NEW t, NEW e, Split(H, b, n, t, m, e),
         Tagged(H, H1, b, n, f), G.hd = H1.hd, G.ft = H1.ft, G.curr = H1.curr, Tagged(G, K, t, m, g)
  PROVE  /\ Tiled(K) /\ Placed(K) = {c \in Placed(H) : c <= b \/ e <= c} \cup {t}
         /\ K.hd[b] = [size |-> n, free |-> f] /\ K.hd[t] = [size |-> m, free |-> g]
         /\ \A c \in Placed(K) \ {b, t} : K.hd[c] = H.hd[c]
<1>1. /\ b \in Nat /\ b \in Cells /\ t \in Nat /\ e \in Nat /\ b < t /\ t < e /\ e <= H.curr
      /\ t \in Cells /\ e \in Cells /\ Cells \subseteq Nat
  BY Order, CellsAreNat DEF Tiled, Placed, Split
<1>2. PICK k \in Nat : k = n + 1 + m
  OBVIOUS
<1>3. b + 1 + k = e
  BY <1>1, <1>2 DEF Split
<1>4. PICK M : Tagged(H, M, b, k, f)
  <2>1. k \in Int
    BY <1>2
  <2>2. Tagged(H, Tag(H, b, k, f), b, k, f)
    BY <1>1, <2>1, TagFields
  <2> QED BY <2>2
<1>5. /\ Tiled(M) /\ Placed(M) = {c \in Placed(H) : c <= b \/ e <= c}
      /\ M.hd[b] = [size |-> k, free |-> f] /\ \A c \in Placed(M) \ {b} : M.hd[c] = H.hd[c]
  <2>1. b + 1 + k = H.curr \/ b + 1 + k \in Placed(H)
    BY <1>3 DEF Split
  <2>2. k \in Nat
    BY <1>2
  <2>3. /\ Tiled(M) /\ Placed(M) = {c \in Placed(H) : c <= b \/ b + 1 + k <= c}
        /\ M.hd[b] = [size |-> k, free |-> f] /\ \A c \in Placed(M) \ {b} : M.hd[c] = H.hd[c]
    BY <1>4, <2>1, <2>2, OneBlock
  <2> QED BY <1>3, <2>3
<1>6. Cut(M, K, b, n, m, f, g)
  <2>1. K.curr = M.curr
    BY <1>4 DEF Tagged
  <2>2. \A c \in Cells : /\ c \in (b + 1) .. (b + n) <=> b < c /\ c < t
                         /\ c \in (t + 1) .. (t + m) <=> t < c /\ c < e
                         /\ c \in (b + 1) .. (b + k) <=> b < c /\ c < e
    <3>1. b + n + 1 = t /\ t + m + 1 = e /\ b + k + 1 = e
      BY <1>1, <1>2, <1>3 DEF Split
    <3>2. \A c \in Nat : c \in (b + 1) .. (b + n) <=> b < c /\ c < b + n + 1
      BY <1>1
    <3>3. \A c \in Nat : c \in (t + 1) .. (t + m) <=> t < c /\ c < t + m + 1
      BY <1>1
    <3>4. \A c \in Nat : c \in (b + 1) .. (b + k) <=> b < c /\ c < b + k + 1
      BY <1>1, <1>2
    <3> QED BY <1>1, <3>1, <3>2, <3>3, <3>4
  <2>3. /\ \A c \in Cells : H1.hd[c] = IF c = b THEN [size |-> n, free |-> f]
                                       ELSE IF b < c /\ c < t THEN Virgin ELSE H.hd[c]
        /\ \A c \in Cells : H1.ft[c] = IF c = t THEN n ELSE IF b < c /\ c < t THEN NoTag ELSE H.ft[c]
    BY <2>2 DEF Tagged, Split
  <2>4. /\ \A c \in Cells : K.hd[c] = IF c = t THEN [size |-> m, free |-> g]
                                       ELSE IF t < c /\ c < e THEN Virgin ELSE H1.hd[c]
        /\ \A c \in Cells : K.ft[c] = IF c = e THEN m ELSE IF t < c /\ c < e THEN NoTag ELSE H1.ft[c]
    BY <2>2 DEF Tagged, Split
  <2>5. /\ \A c \in Cells : M.hd[c] = IF c = b THEN [size |-> k, free |-> f]
                                       ELSE IF b < c /\ c < e THEN Virgin ELSE H.hd[c]
        /\ \A c \in Cells : c # e /\ ~(b < c /\ c < e) => M.ft[c] = H.ft[c]
    BY <1>3, <1>4, <2>2 DEF Tagged
  <2>6. \A c \in Cells \ {b, t} : K.hd[c] = IF b < c /\ c < e THEN Virgin ELSE M.hd[c]
    <3>1. SUFFICES ASSUME NEW c \in Cells \ {b, t} PROVE K.hd[c] = IF b < c /\ c < e THEN Virgin ELSE M.hd[c]
      OBVIOUS
    <3>2. c \in Nat /\ c # b /\ c # t /\ c \in Cells
      BY <1>1
    <3> QED BY <1>1, <2>3, <2>4, <2>5, <3>2
  <2>7. \A c \in Cells : c <= b \/ e < c => K.ft[c] = M.ft[c]
    <3>1. SUFFICES ASSUME NEW c \in Cells, c <= b \/ e < c PROVE K.ft[c] = M.ft[c]
      OBVIOUS
    <3>2. c \in Nat /\ c # t /\ c # e /\ ~(b < c /\ c < e) /\ ~(b < c /\ c < t) /\ ~(t < c /\ c < e)
      BY <1>1, <3>1
    <3> QED BY <2>3, <2>4, <2>5, <3>2
  <2>8. K.hd[b] = [size |-> n, free |-> f] /\ K.hd[t] = [size |-> m, free |-> g]
    <3>1. b # t /\ ~(t < b)
      BY <1>1
    <3>2. K.hd[b] = H1.hd[b] /\ H1.hd[b] = [size |-> n, free |-> f]
      BY <1>1, <2>3, <2>4, <3>1
    <3>3. K.hd[t] = [size |-> m, free |-> g]
      BY <1>1, <2>4
    <3> QED BY <3>2, <3>3
  <2>9. K.ft[t] = n /\ K.ft[e] = m
    BY <1>1, <2>3, <2>4
  <2> QED BY <2>1, <2>6, <2>7, <2>8, <2>9 DEF Cut, Split
<1>7. /\ Tiled(K) /\ Placed(K) = Placed(M) \cup {t} /\ t \notin Placed(M)
      /\ \A c \in Placed(M) \ {b} : K.hd[c] = M.hd[c]
  <2>1. b \in Placed(M) /\ M.hd[b].size = n + 1 + m
    BY <1>1, <1>2, <1>5
  <2>2. Tiled(M)
    BY <1>5
  <2> QED BY <1>6, <2>1, <2>2, TwoBlocks, SMTT(60) DEF Split
<1>8. K.hd[b] = [size |-> n, free |-> f] /\ K.hd[t] = [size |-> m, free |-> g]
  BY <1>6 DEF Cut, Split
<1> QED BY <1>5, <1>7, <1>8

-----------------------------------------------------------------------------
(* The free list. *)

LEMMA Smallest ==
  ASSUME NEW S \in SUBSET Nat, S # {}
  PROVE  Min(S) \in S
<1>1. PICK x \in S : \A y \in S : ~(<<y, x>> \in OpToRel(<, Nat))
  BY NatLessThanWellFounded, WFMin
<1>2. \A y \in S : x <= y
  <2>1. SUFFICES ASSUME NEW y \in S, ~(x <= y) PROVE FALSE
    OBVIOUS
  <2>2. <<y, x>> \in OpToRel(<, Nat)
    BY <2>1 DEF OpToRel
  <2> QED BY <1>1, <2>2
<1> QED BY <1>2 DEF Min

\* bestFit finds a free block that is large enough, if it finds one
LEMMA BestFits ==
  ASSUME NEW H \in HeapType, ToSet(H.freeList) = Frees(H), NEW n \in Nat, BestFit(H, n) # NULL
  PROVE  BestFit(H, n) \in Frees(H) /\ H.hd[BestFit(H, n)].size >= n
<1> DEFINE size(i) == H.hd[H.freeList[i]].size
           best == {i \in Fits(H, n) : \A j \in Fits(H, n) : size(i) <= size(j)}
<1>1. BestFit(H, n) = IF best = {} THEN NULL ELSE H.freeList[Min(best)]
  BY DEF BestFit
<1>2. best \in SUBSET Fits(H, n) /\ Fits(H, n) \subseteq DOMAIN H.freeList
  BY DEF Fits
<1>3. DOMAIN H.freeList \subseteq Nat
  BY DEF HeapType
<1> HIDE DEF best
<1>4. best # {} /\ Min(best) \in best
  BY <1>1, <1>2, <1>3, Smallest
<1>5. Min(best) \in DOMAIN H.freeList /\ H.hd[H.freeList[Min(best)]].size >= n
  BY <1>2, <1>4 DEF Fits
<1>6. H.freeList[Min(best)] \in ToSet(H.freeList)
  BY <1>5 DEF ToSet
<1> QED BY <1>1, <1>4, <1>5, <1>6

LEMMA Linked ==
  ASSUME NEW s \in Seq(Cells), IsInjective(s), NEW b \in Cells, b \notin ToSet(s)
  PROVE  <<b>> \o s \in Seq(Cells) /\ IsInjective(<<b>> \o s) /\ ToSet(<<b>> \o s) = ToSet(s) \cup {b}
<1> DEFINE q == <<b>> \o s
<1>1. /\ q \in Seq(Cells) /\ Len(q) = Len(s) + 1 /\ DOMAIN q = 1 .. Len(q) /\ q[1] = b
      /\ DOMAIN s = 1 .. Len(s) /\ Len(s) \in Nat
      /\ \A i \in 2 .. Len(q) : q[i] = s[i - 1]
  OBVIOUS
<1> HIDE DEF q
<1>2. \A i \in 1 .. Len(s) : q[i + 1] = s[i]
  BY <1>1
<1>3. \A i \in 2 .. Len(q) : q[i] \in ToSet(s) /\ i - 1 \in DOMAIN s /\ q[i] = s[i - 1]
  BY <1>1 DEF ToSet
<1>4. ToSet(q) = ToSet(s) \cup {b}
  <2>1. ASSUME NEW x \in ToSet(q) PROVE x \in ToSet(s) \cup {b}
    BY <1>1, <1>3 DEF ToSet
  <2>2. ASSUME NEW x \in ToSet(s) PROVE x \in ToSet(q)
    <3>1. PICK i \in 1 .. Len(s) : x = s[i]
      BY <1>1 DEF ToSet
    <3>2. i + 1 \in DOMAIN q /\ q[i + 1] = x
      BY <1>1, <1>2, <3>1
    <3> QED BY <3>2 DEF ToSet
  <2>3. b \in ToSet(q)
    BY <1>1 DEF ToSet
  <2> QED BY <2>1, <2>2, <2>3
<1>5. IsInjective(q)
  <2>1. SUFFICES ASSUME NEW i \in DOMAIN q, NEW j \in DOMAIN q, q[i] = q[j] PROVE i = j
    BY DEF IsInjective
  <2>2. CASE i = 1 \/ j = 1
    BY <1>1, <1>3, <2>1, <2>2
  <2>3. CASE i # 1 /\ j # 1
    <3>1. i \in 2 .. Len(q) /\ j \in 2 .. Len(q)
      BY <1>1, <2>3
    <3>2. i - 1 = j - 1
      BY <1>3, <2>1, <3>1 DEF IsInjective
    <3> QED BY <3>1, <3>2
  <2> QED BY <2>2, <2>3
<1> QED BY <1>1, <1>4, <1>5 DEF q

LEMMA Removed ==
  ASSUME NEW s \in Seq(Cells), IsInjective(s), NEW i \in DOMAIN s
  PROVE  RemoveAt(s, i) \in Seq(Cells) /\ IsInjective(RemoveAt(s, i)) /\ ToSet(RemoveAt(s, i)) = ToSet(s) \ {s[i]}
<1> DEFINE l == SubSeq(s, 1, i - 1)
           r == SubSeq(s, i + 1, Len(s))
           q == RemoveAt(s, i)
<1>1. DOMAIN s = 1 .. Len(s) /\ Len(s) \in Nat /\ i \in Nat /\ 1 <= i /\ i <= Len(s) /\ \A j \in 1 .. Len(s) : s[j] \in Cells
  OBVIOUS
<1>2. l \in Seq(Cells) /\ Len(l) = i - 1 /\ \A j \in 1 .. i - 1 : l[j] = s[j]
  <2>1. \A j \in 1 .. i - 1 : s[j] \in Cells
    BY <1>1
  <2>2. /\ l \in Seq(Cells) /\ Len(l) = (IF 1 <= i - 1 THEN i - 1 - 1 + 1 ELSE 0)
        /\ \A j \in 1 .. i - 1 - 1 + 1 : l[j] = s[1 + j - 1]
    BY <1>1, <2>1, SubSeqProperties
  <2> HIDE DEF l
  <2> QED BY <1>1, <2>2
<1>3. r \in Seq(Cells) /\ Len(r) = Len(s) - i /\ \A j \in 1 .. Len(s) - i : r[j] = s[i + j]
  <2>1. \A j \in i + 1 .. Len(s) : s[j] \in Cells
    BY <1>1
  <2>2. /\ r \in Seq(Cells) /\ Len(r) = (IF i + 1 <= Len(s) THEN Len(s) - (i + 1) + 1 ELSE 0)
        /\ \A j \in 1 .. Len(s) - (i + 1) + 1 : r[j] = s[i + 1 + j - 1]
    BY <1>1, <2>1, SubSeqProperties
  <2> HIDE DEF r
  <2>3. Len(s) - (i + 1) + 1 = Len(s) - i /\ Len(r) = Len(s) - i
    BY <1>1, <2>2
  <2>4. ASSUME NEW j \in 1 .. Len(s) - i PROVE r[j] = s[i + j]
    <3>1. j \in 1 .. Len(s) - (i + 1) + 1 /\ i + 1 + j - 1 = i + j
      BY <1>1, <2>3
    <3> QED BY <2>2, <3>1
  <2> QED BY <2>2, <2>3, <2>4
<1>4. q = l \o r
  BY DEF RemoveAt
<1> HIDE DEF l, r, q
<1>5. /\ q \in Seq(Cells) /\ Len(q) = Len(s) - 1 /\ DOMAIN q = 1 .. Len(s) - 1
      /\ \A j \in 1 .. Len(s) - 1 : q[j] = IF j < i THEN s[j] ELSE s[j + 1]
  <2>1. /\ q \in Seq(Cells) /\ Len(q) = Len(l) + Len(r)
        /\ \A j \in 1 .. Len(l) + Len(r) : q[j] = IF j <= Len(l) THEN l[j] ELSE r[j - Len(l)]
    BY <1>2, <1>3, <1>4, ConcatProperties
  <2>2. Len(l) + Len(r) = Len(s) - 1
    BY <1>1, <1>2, <1>3
  <2>3. DOMAIN q = 1 .. Len(q)
    BY <2>1
  <2>4. ASSUME NEW j \in 1 .. Len(s) - 1 PROVE q[j] = IF j < i THEN s[j] ELSE s[j + 1]
    <3>1. CASE j < i
      BY <1>1, <1>2, <2>1, <2>2, <3>1
    <3>2. CASE ~(j < i)
      <4>1. PICK k \in 1 .. Len(s) - i : k = j - (i - 1) /\ i + k = j + 1
        BY <1>1, <3>2
      <4>2. q[j] = r[k]
        <5>1. j \in 1 .. Len(l) + Len(r) /\ ~(j <= Len(l)) /\ j - Len(l) = k
          BY <1>1, <1>2, <2>2, <3>2, <4>1, SMTT(60)
        <5> QED BY <2>1, <5>1
      <4> QED BY <1>3, <3>2, <4>1, <4>2
    <3> QED BY <3>1, <3>2
  <2> QED BY <2>1, <2>2, <2>3, <2>4
<1>6. \A j \in DOMAIN q : \E k \in DOMAIN s : k # i /\ q[j] = s[k] /\ k = IF j < i THEN j ELSE j + 1
  BY <1>1, <1>5
<1>7. ToSet(q) = ToSet(s) \ {s[i]}
  <2>1. ASSUME NEW x \in ToSet(q) PROVE x \in ToSet(s) \ {s[i]}
    <3>1. PICK k \in DOMAIN s : k # i /\ x = s[k]
      BY <1>6 DEF ToSet
    <3> QED BY <3>1 DEF ToSet, IsInjective
  <2>2. ASSUME NEW x \in ToSet(s) \ {s[i]} PROVE x \in ToSet(q)
    <3>1. PICK k \in DOMAIN s : x = s[k]
      BY DEF ToSet
    <3>2. k # i /\ k \in Nat /\ 1 <= k /\ k <= Len(s)
      BY <1>1, <3>1
    <3>3. PICK j \in 1 .. Len(s) - 1 : k = IF j < i THEN j ELSE j + 1
      <4>1. CASE k < i
        BY <1>1, <3>2, <4>1
      <4>2. CASE k > i
        <5>1. k - 1 \in 1 .. Len(s) - 1 /\ ~(k - 1 < i) /\ k = (k - 1) + 1
          BY <1>1, <3>2, <4>2
        <5> QED BY <5>1
      <4> QED BY <1>1, <3>2, <4>1, <4>2
    <3>4. q[j] = x
      BY <1>5, <3>1, <3>3
    <3> QED BY <1>5, <3>4 DEF ToSet
  <2> QED BY <2>1, <2>2
<1>8. IsInjective(q)
  <2>1. SUFFICES ASSUME NEW j \in DOMAIN q, NEW k \in DOMAIN q, q[j] = q[k] PROVE j = k
    BY DEF IsInjective
  <2>2. (IF j < i THEN j ELSE j + 1) = (IF k < i THEN k ELSE k + 1)
    BY <1>6, <2>1 DEF IsInjective
  <2> QED BY <1>1, <1>5, <2>2
<1> QED BY <1>5, <1>7, <1>8 DEF q

LEMMA RemoveFields ==
  ASSUME NEW H \in HeapType, IsInjective(H.freeList), NEW b
  PROVE  /\ RemoveFromList(H, b) \in HeapType /\ IsInjective(RemoveFromList(H, b).freeList)
         /\ ToSet(RemoveFromList(H, b).freeList) = ToSet(H.freeList) \ {b}
         /\ RemoveFromList(H, b).hd = H.hd /\ RemoveFromList(H, b).ft = H.ft /\ RemoveFromList(H, b).data = H.data
         /\ RemoveFromList(H, b).head = H.head /\ RemoveFromList(H, b).tail = H.tail
         /\ RemoveFromList(H, b).curr = H.curr /\ RemoveFromList(H, b).end = H.end
<1> DEFINE i == CHOOSE i \in DOMAIN H.freeList : H.freeList[i] = b
           s == IF b \in ToSet(H.freeList) THEN RemoveAt(H.freeList, i) ELSE H.freeList
<1>1. s \in Seq(Cells) /\ IsInjective(s) /\ ToSet(s) = ToSet(H.freeList) \ {b}
  <2>1. H.freeList \in Seq(Cells)
    BY DEF HeapType
  <2>2. CASE b \in ToSet(H.freeList)
    <3>1. i \in DOMAIN H.freeList /\ H.freeList[i] = b
      BY <2>2 DEF ToSet
    <3> HIDE DEF i
    <3> QED BY <2>1, <2>2, <3>1, Removed
  <2>3. CASE b \notin ToSet(H.freeList)
    BY <2>1, <2>3
  <2> QED BY <2>2, <2>3
<1>2. RemoveFromList(H, b) = [H EXCEPT !.freeList = s]
  BY DEF RemoveFromList
<1> HIDE DEF s
<1> QED BY <1>1, <1>2 DEF HeapType

LEMMA AddFields ==
  ASSUME NEW H \in HeapType, IsInjective(H.freeList), NEW b \in Cells, b \notin ToSet(H.freeList)
  PROVE  /\ AddToList(H, b) \in HeapType /\ IsInjective(AddToList(H, b).freeList)
         /\ ToSet(AddToList(H, b).freeList) = ToSet(H.freeList) \cup {b}
         /\ AddToList(H, b).hd = H.hd /\ AddToList(H, b).ft = H.ft /\ AddToList(H, b).data = H.data
         /\ AddToList(H, b).head = H.head /\ AddToList(H, b).tail = H.tail
         /\ AddToList(H, b).curr = H.curr /\ AddToList(H, b).end = H.end
<1> DEFINE s == <<b>> \o H.freeList
<1>1. s \in Seq(Cells) /\ IsInjective(s) /\ ToSet(s) = ToSet(H.freeList) \cup {b}
  <2>1. H.freeList \in Seq(Cells)
    BY DEF HeapType
  <2> QED BY <2>1, Linked
<1>2. AddToList(H, b) = [H EXCEPT !.freeList = s]
  BY DEF AddToList
<1> HIDE DEF s
<1> QED BY <1>1, <1>2 DEF HeapType

LEMMA RetailFields ==
  ASSUME NEW H \in HeapType, NEW x, NEW y \in Int
  PROVE  /\ Retail(H, x, y) \in HeapType /\ Retail(H, x, y).tail = IF H.tail = x THEN y ELSE H.tail
         /\ Retail(H, x, y).freeList = H.freeList
         /\ Retail(H, x, y).hd = H.hd /\ Retail(H, x, y).ft = H.ft /\ Retail(H, x, y).data = H.data
         /\ Retail(H, x, y).head = H.head /\ Retail(H, x, y).curr = H.curr /\ Retail(H, x, y).end = H.end
  BY DEF Retail, HeapType

-----------------------------------------------------------------------------
(* The operations. *)

LEMMA FreeIs ==
  ASSUME NEW H, NEW x
  PROVE  IsFree(H, x) <=> x \in Frees(H)
  BY CellsAreNat DEF IsFree, Frees, Placed, Virgin, NULL

LEMMA PrevIs ==
  ASSUME NEW H, Tiled(H), Ends(H), NEW b \in Placed(H)
  PROVE  /\ H.curr > 0 /\ H.head = 0 /\ H.tail \in Placed(H)
         /\ b = 0 => GetPrev(H, b) = NULL
         /\ b # 0 => GetPrev(H, b) \in Placed(H) /\ After(H, GetPrev(H, b)) = b
<1>1. b \in Nat /\ b < After(H, b) /\ After(H, b) \in Nat /\ After(H, b) <= H.curr /\ H.curr \in Nat
  BY Order
<1>2. H.curr > 0 /\ H.head = 0 /\ H.tail \in Placed(H)
  BY <1>1 DEF Ends
<1>3. ASSUME b # 0 PROVE GetPrev(H, b) \in Placed(H) /\ After(H, GetPrev(H, b)) = b
  <2>1. PICK a \in Placed(H) : After(H, a) = b
    BY <1>3 DEF Tiled
  <2>2. H.ft[b] = H.hd[a].size /\ a \in Nat /\ H.hd[a].size \in Nat
    BY <2>1, Order DEF Tiled
  <2>3. GetPrev(H, b) = a
    BY <1>1, <1>2, <1>3, <2>1, <2>2 DEF GetPrev, After
  <2> QED BY <2>1, <2>3
<1> QED BY <1>2, <1>3 DEF GetPrev

\* the block that ends at b is the one getPrevBlock finds
LEMMA FreedBefore ==
  ASSUME NEW H, Tiled(H), Ends(H), NEW b \in Placed(H), GetPrev(H, b) \notin Frees(H)
  PROVE  \A c \in Frees(H) : After(H, c) # b
<1> SUFFICES ASSUME NEW c \in Frees(H), After(H, c) = b PROVE FALSE
  OBVIOUS
<1>1. c \in Placed(H) /\ c \in Nat /\ c < b /\ b \in Nat
  BY Order DEF Frees
<1>2. GetPrev(H, b) \in Placed(H) /\ After(H, GetPrev(H, b)) = b
  BY <1>1, PrevIs
<1>3. (c < GetPrev(H, b) /\ b <= GetPrev(H, b)) \/ c = GetPrev(H, b) \/ (GetPrev(H, b) < c /\ b <= c)
  BY <1>1, <1>2, Order
<1>4. GetPrev(H, b) < b /\ GetPrev(H, b) \in Nat
  BY <1>2, Order
<1> QED BY <1>1, <1>3, <1>4

\* only headers and trailing sizes were written
Intact(H, K) == \A c \in Cells \ (Placed(K) \cup {K.curr}) : K.data[c] = H.data[c]

\* splitRest of block b: what is split off joins the block after b when that is free
Halved(H, b, n, K, t, next, gone) ==
  /\ K = SplitRest(H, b, n) /\ t = b + 1 + n /\ next = After(H, b)
  /\ gone = IF b # H.tail /\ next \in Frees(H) THEN {next} ELSE {}

LEMMA SplitRestMakes ==
  ASSUME NEW H, Good(H), NEW b \in Placed(H), NEW n \in Nat, Splits(H, b, n),
         NEW K, NEW t, NEW next, NEW gone, Halved(H, b, n, K, t, next, gone)
  PROVE  /\ K \in HeapType /\ Tiled(K)
         /\ IsInjective(K.freeList) /\ ToSet(K.freeList) = (ToSet(H.freeList) \ gone) \cup {t}
         /\ t \notin Placed(H) /\ Placed(K) = (Placed(H) \ gone) \cup {t} /\ b < t /\ t < next
         /\ K.hd[b].size = n /\ ~K.hd[b].free /\ K.hd[t].free
         /\ \A c \in Placed(K) \ {b, t} : K.hd[c] = H.hd[c]
         /\ After(K, t) = IF gone = {} THEN next ELSE After(H, next)
         /\ K.tail = IF H.tail \in gone THEN t ELSE H.tail
         /\ K.head = H.head /\ K.curr = H.curr /\ K.end = H.end
         /\ Intact(H, K)
<1> DEFINE rest == H.hd[b].size - n
           H1 == Tag(H, b, n, FALSE)
<1> USE DEF Halved
<1>0. H \in HeapType /\ Tiled(H) /\ Ends(H) /\ Listed(H)
  BY DEF Good
<1>1. /\ b \in Cells /\ b \in Nat /\ H.hd[b].size \in Nat /\ next \in Nat /\ next \in Cells /\ b < next /\ next <= H.curr
      /\ next = b + 1 + H.hd[b].size /\ (next = H.curr \/ next \in Placed(H)) /\ H.curr \in Cells /\ H.curr \in Nat
  BY <1>0, Order DEF After, Tiled
<1>2. rest \in Nat /\ rest >= 2 /\ t \in Nat /\ t \in Cells /\ b < t /\ t < next /\ t + rest = next
  <2>1. H.hd[b].size - n >= 2
    BY DEF Splits
  <2>2. t \in Nat /\ b < t /\ t < next /\ t + rest = next
    BY <1>1, <2>1
  <2>3. t \in Cells
    BY <1>1, <2>2, CellsAreNat
  <2> QED BY <1>1, <2>1, <2>2, <2>3
<1>3. t \notin Placed(H) /\ t # H.curr
  <2>1. \A x \in Cells : b < x /\ x < next => x \notin Placed(H) /\ x # H.curr
    BY <1>0, Order
  <2> QED BY <1>2, <2>1
<1>4. t \notin ToSet(H.freeList)
  BY <1>0, <1>3 DEF Listed, Frees
<1>f. PICK f \in BOOLEAN : f = FALSE
  OBVIOUS
<1>g. PICK g \in BOOLEAN : g = TRUE
  OBVIOUS
<1>h. f \in BOOLEAN /\ g \in BOOLEAN
  BY <1>f, <1>g
<1>w. Written(H, H1, b, n, f)
  <2>1. n \in Int
    OBVIOUS
  <2> QED BY <1>0, <1>1, <1>f, <2>1, TagUsed
<1>5. /\ H1 \in HeapType /\ Tagged(H, H1, b, n, f) /\ H1.freeList = H.freeList
      /\ H1.head = H.head /\ H1.tail = H.tail /\ H1.end = H.end /\ H1.curr = H.curr
      /\ \A c \in Cells : H1.data[c] = IF c \in {b, t} THEN 0 ELSE H.data[c]
  BY <1>w DEF Written
<1> HIDE DEF H1
<1>6. CASE b # H.tail /\ next \in Frees(H)
  <2> DEFINE m == rest + H.hd[next].size
             e == After(H, next)
             R == RemoveFromList(H1, next)
             H2 == Tag(R, t, m, TRUE)
             H3 == Retail(H2, next, t)
  <2>1. /\ next \in Placed(H) /\ H.hd[next].size \in Nat /\ e \in Nat /\ e \in Cells /\ next < e /\ e <= H.curr
        /\ (e = H.curr \/ e \in Placed(H)) /\ gone = {next}
    BY <1>0, <1>6, Order DEF Frees, Tiled
  <2>2. m \in Nat /\ e = t + 1 + m
    BY <1>2, <2>1 DEF After
  <2>3. K = AddToList(H3, t)
    <3>1. next # NULL /\ GetNext(H, b) = next
      BY <1>1, <1>6 DEF NULL, GetNext, After
    <3>2. IsFree(H, next)
      BY <1>6, FreeIs
    <3> QED BY <1>6, <3>1, <3>2 DEF SplitRest, H1
  <2>4. /\ R \in HeapType /\ IsInjective(R.freeList) /\ ToSet(R.freeList) = ToSet(H.freeList) \ {next}
        /\ R.hd = H1.hd /\ R.ft = H1.ft /\ R.data = H1.data /\ R.head = H.head /\ R.tail = H.tail
        /\ R.curr = H.curr /\ R.end = H.end
    BY <1>0, <1>5, RemoveFields DEF Listed
  <2> HIDE DEF R
  <2>w. Written(R, H2, t, m, g)
    <3>1. m \in Int
      BY <2>2
    <3> HIDE DEF m, e
    <3> QED BY <1>2, <1>g, <2>4, <3>1, TagFree
  <2>5. /\ H2 \in HeapType /\ Tagged(R, H2, t, m, g) /\ H2.freeList = R.freeList
        /\ H2.head = H.head /\ H2.tail = H.tail /\ H2.end = H.end /\ H2.curr = H.curr
        /\ \A c \in Cells : H2.data[c] = IF c \in {t, e} THEN 0 ELSE R.data[c]
    <3> HIDE DEF m, e
    <3> QED BY <2>2, <2>4, <2>w DEF Written
  <2> HIDE DEF H2
  <2>6. /\ Tiled(H2) /\ Placed(H2) = {c \in Placed(H) : c <= b \/ e <= c} \cup {t}
        /\ H2.hd[b] = [size |-> n, free |-> f] /\ H2.hd[t] = [size |-> m, free |-> g]
        /\ \A c \in Placed(H2) \ {b, t} : H2.hd[c] = H.hd[c]
    <3> HIDE DEF m, e
    <3>1. H1.curr = R.curr
      BY <1>5, <2>4
    <3>2. Split(H, b, n, t, m, e)
      BY <2>1, <2>2 DEF Split
    <3> QED BY <1>0, <1>5, <1>h, <2>2, <2>4, <2>5, <3>1, <3>2, SplitTiling, SMTT(40)
  <2>7. Placed(H2) = (Placed(H) \ {next}) \cup {t}
    <3>1. ASSUME NEW c \in Placed(H) PROVE (c <= b \/ e <= c) <=> c # next
      <4>1. c \in Nat /\ (c < b \/ c = b \/ next <= c) /\ (c < next \/ c = next \/ e <= c)
        BY <1>0, <2>1, Order
      <4> QED BY <1>1, <2>1, <4>1
    <3> QED BY <2>6, <3>1
  <2>8. /\ H3 \in HeapType /\ H3.tail = (IF H.tail = next THEN t ELSE H.tail) /\ H3.freeList = R.freeList
        /\ H3.hd = H2.hd /\ H3.ft = H2.ft /\ H3.data = H2.data /\ H3.head = H.head /\ H3.curr = H.curr /\ H3.end = H.end
    BY <1>2, <2>5, RetailFields
  <2> HIDE DEF H3
  <2>9. /\ K \in HeapType /\ IsInjective(K.freeList) /\ ToSet(K.freeList) = (ToSet(H.freeList) \ {next}) \cup {t}
        /\ K.hd = H2.hd /\ K.ft = H2.ft /\ K.data = H2.data /\ K.tail = (IF H.tail = next THEN t ELSE H.tail)
        /\ K.head = H.head /\ K.curr = H.curr /\ K.end = H.end
    BY <1>2, <1>4, <2>3, <2>4, <2>8, AddFields
  <2>10. Placed(K) = Placed(H2) /\ Tiled(K)
    BY <2>5, <2>6, <2>9, SMTT(40) DEF Placed, Tiled, After
  <2>11. After(K, t) = e
    BY <2>2, <2>6, <2>9 DEF After
  <2>12. Intact(H, K)
    <3> HIDE DEF e, m
    <3>1. SUFFICES ASSUME NEW c \in Cells, c \notin Placed(K), c # K.curr PROVE K.data[c] = H.data[c]
      BY DEF Intact
    <3>2. c # b /\ c # t
      BY <1>2, <2>6, <2>7, <2>10, <3>1
    <3>3. c # e
      BY <2>1, <2>7, <2>9, <2>10, <3>1
    <3> QED BY <1>5, <2>4, <2>5, <2>9, <3>2, <3>3
  <2>13. K.hd[b].size = n /\ ~K.hd[b].free /\ K.hd[t].free
    <3>1. K.hd[b].size = n /\ K.hd[b].free = f /\ K.hd[t].free = g
      BY <2>6, <2>9
    <3> QED BY <1>f, <1>g, <3>1, Zenon
  <2>14. \A c \in Placed(K) \ {b, t} : K.hd[c] = H.hd[c]
    BY <2>6, <2>9, <2>10
  <2> QED BY <1>2, <1>3, <2>1, <2>7, <2>9, <2>10, <2>11, <2>12, <2>13, <2>14
<1>7. CASE ~(b # H.tail /\ next \in Frees(H))
  <2> DEFINE m == rest - 1
             H2 == Tag(H1, t, m, TRUE)
  <2>1. gone = {}
    BY <1>7
  <2>2. m \in Nat /\ next = t + 1 + m
    BY <1>2
  <2>3. K = AddToList(H2, t)
    <3>1. b # H.tail => ~IsFree(H, GetNext(H, b))
      BY <1>1, <1>7, FreeIs DEF GetNext, After
    <3> QED BY <3>1 DEF SplitRest, H1
  <2>w. Written(H1, H2, t, m, g)
    <3>1. m \in Int
      BY <2>2
    <3> HIDE DEF m
    <3> QED BY <1>2, <1>5, <1>g, <3>1, TagFree
  <2>4. /\ H2 \in HeapType /\ Tagged(H1, H2, t, m, g) /\ H2.freeList = H.freeList
        /\ H2.head = H.head /\ H2.tail = H.tail /\ H2.end = H.end /\ H2.curr = H.curr
        /\ \A c \in Cells : H2.data[c] = IF c \in {t, next} THEN 0 ELSE H1.data[c]
    <3> HIDE DEF m
    <3> QED BY <1>5, <2>2, <2>w DEF Written
  <2> HIDE DEF H2
  <2>5. /\ Tiled(H2) /\ Placed(H2) = {c \in Placed(H) : c <= b \/ next <= c} \cup {t}
        /\ H2.hd[b] = [size |-> n, free |-> f] /\ H2.hd[t] = [size |-> m, free |-> g]
        /\ \A c \in Placed(H2) \ {b, t} : H2.hd[c] = H.hd[c]
    <3> HIDE DEF m
    <3>1. Split(H, b, n, t, m, next)
      BY <1>1, <2>2 DEF Split
    <3> QED BY <1>0, <1>5, <1>h, <2>2, <2>4, <3>1, SplitTiling, SMTT(40)
  <2>6. Placed(H2) = Placed(H) \cup {t}
    <3>1. ASSUME NEW c \in Placed(H) PROVE c <= b \/ next <= c
      BY <1>0, Order
    <3> QED BY <2>5, <3>1
  <2>7. /\ K \in HeapType /\ IsInjective(K.freeList) /\ ToSet(K.freeList) = ToSet(H.freeList) \cup {t}
        /\ K.hd = H2.hd /\ K.ft = H2.ft /\ K.data = H2.data /\ K.tail = H.tail
        /\ K.head = H.head /\ K.curr = H.curr /\ K.end = H.end
    BY <1>0, <1>2, <1>4, <2>3, <2>4, AddFields DEF Listed
  <2>8. Placed(K) = Placed(H2) /\ Tiled(K)
    BY <2>4, <2>5, <2>7 DEF Placed, Tiled, After
  <2>9. After(K, t) = next
    BY <2>2, <2>5, <2>7 DEF After
  <2>10. Intact(H, K)
    <3> HIDE DEF m
    <3>1. SUFFICES ASSUME NEW c \in Cells, c \notin Placed(K), c # K.curr PROVE K.data[c] = H.data[c]
      BY DEF Intact
    <3>2. c # b /\ c # t /\ c # next
      BY <1>1, <2>6, <2>7, <2>8, <3>1
    <3> QED BY <1>5, <2>4, <2>7, <3>2
  <2>11. K.hd[b].size = n /\ ~K.hd[b].free /\ K.hd[t].free
    <3>1. K.hd[b].size = n /\ K.hd[b].free = f /\ K.hd[t].free = g
      BY <2>5, <2>7
    <3> QED BY <1>f, <1>g, <3>1, Zenon
  <2>12. \A c \in Placed(K) \ {b, t} : K.hd[c] = H.hd[c]
    BY <2>5, <2>7, <2>8
  <2> QED BY <1>2, <1>3, <2>1, <2>6, <2>7, <2>8, <2>9, <2>10, <2>11, <2>12
<1> QED BY <1>6, <1>7

\* K is H with one block at a, and the blocks in gone a part of it
Joins(H, K, a, gone) ==
  /\ K \in HeapType /\ Tiled(K) /\ Intact(H, K)
  /\ K.head = H.head /\ K.curr = H.curr /\ K.end = H.end
  /\ K.tail = IF H.tail \in gone THEN a ELSE H.tail
  /\ a \in Placed(H) \ gone /\ Placed(K) = Placed(H) \ gone
  /\ \A c \in Placed(K) \ {a} : K.hd[c] = H.hd[c]

Rewritten(H, K, b, n, f) ==
  /\ K \in HeapType /\ Tagged(H, K, b, n, f) /\ K.head = H.head /\ K.end = H.end
  /\ \A c \in Cells \ {b, b + 1 + n} : K.data[c] = H.data[c]

Adjoin(H, b, d, n) == After(H, b) = d /\ n = H.hd[b].size + 1 + H.hd[d].size

LEMMA JoinTwo ==
  ASSUME NEW H, Good(H), NEW b \in Placed(H), NEW d \in Placed(H), NEW f \in BOOLEAN,
         NEW n, Adjoin(H, b, d, n), NEW K, Rewritten(H, K, b, n, f),
         K.tail = IF H.tail = d THEN b ELSE H.tail
  PROVE  Joins(H, K, b, {d}) /\ After(K, b) = After(H, d) /\ K.hd[b].free = f /\ K.hd[b].size = n
<1>1. Tiled(H)
  BY DEF Good
<1>2. K \in HeapType /\ Tagged(H, K, b, n, f) /\ K.head = H.head /\ K.end = H.end /\ K.curr = H.curr
  BY DEF Rewritten, Tagged
<1>3. /\ Tiled(K) /\ Placed(K) = Placed(H) \ {d} /\ After(K, b) = After(H, d) /\ b # d
      /\ K.hd[b] = [size |-> n, free |-> f] /\ \A c \in Placed(K) \ {b} : K.hd[c] = H.hd[c]
  BY <1>1, <1>2, MergeTwo DEF Adjoin
<1>4. b + 1 + n = After(H, d)
  BY <1>1, Order DEF After, Adjoin
<1>5. After(H, d) \in Placed(K) \cup {K.curr} /\ b \in Placed(K)
  <2>1. After(H, d) \in Placed(H) \cup {H.curr} /\ After(H, d) # d
    BY <1>1, Order DEF Tiled
  <2> QED BY <1>2, <1>3, <2>1
<1>6. Intact(H, K)
  BY <1>4, <1>5 DEF Intact, Rewritten
<1>7. K.hd[b].free = f /\ K.hd[b].size = n
  BY <1>3
<1> QED BY <1>2, <1>3, <1>6, <1>7 DEF Joins

LEMMA JoinThree ==
  ASSUME NEW H, Good(H), NEW a \in Placed(H), NEW b \in Placed(H), NEW d \in Placed(H),
         After(H, a) = b, After(H, b) = d, NEW f \in BOOLEAN,
         NEW n, n = H.hd[a].size + 2 + H.hd[b].size + H.hd[d].size, NEW K, Rewritten(H, K, a, n, f),
         K.tail = IF H.tail \in {b, d} THEN a ELSE H.tail
  PROVE  Joins(H, K, a, {b, d}) /\ After(K, a) = After(H, d) /\ K.hd[a].free = f /\ K.hd[a].size = n
<1>1. Tiled(H)
  BY DEF Good
<1>2. K \in HeapType /\ Tagged(H, K, a, n, f) /\ K.head = H.head /\ K.end = H.end /\ K.curr = H.curr
  BY DEF Rewritten, Tagged
<1>3. /\ Tiled(K) /\ Placed(K) = Placed(H) \ {b, d} /\ After(K, a) = After(H, d) /\ a # b /\ a # d
      /\ K.hd[a] = [size |-> n, free |-> f] /\ \A c \in Placed(K) \ {a} : K.hd[c] = H.hd[c]
  BY <1>1, <1>2, MergeThree
<1>4. a + 1 + n = After(H, d)
  BY <1>1, Order DEF After
<1>5. After(H, d) \in Placed(K) \cup {K.curr} /\ a \in Placed(K)
  <2>1. After(H, d) \in Placed(H) \cup {H.curr} /\ After(H, d) # d /\ After(H, d) # b
    BY <1>1, Order DEF Tiled
  <2> QED BY <1>2, <1>3, <2>1
<1>6. Intact(H, K)
  BY <1>4, <1>5 DEF Intact, Rewritten
<1>7. K.hd[a].free = f /\ K.hd[a].size = n
  BY <1>3
<1> QED BY <1>2, <1>3, <1>6, <1>7 DEF Joins

LEMMA JoinOne ==
  ASSUME NEW H, Good(H), NEW b \in Placed(H), NEW f \in BOOLEAN,
         NEW n, n = H.hd[b].size, NEW K, Rewritten(H, K, b, n, f), K.tail = H.tail
  PROVE  Joins(H, K, b, {}) /\ After(K, b) = After(H, b) /\ K.hd[b].free = f /\ K.hd[b].size = n
<1>1. Tiled(H)
  BY DEF Good
<1>2. K \in HeapType /\ Tagged(H, K, b, n, f) /\ K.head = H.head /\ K.end = H.end /\ K.curr = H.curr
  BY DEF Rewritten, Tagged
<1>3. /\ Tiled(K) /\ Placed(K) = Placed(H)
      /\ K.hd[b] = [size |-> n, free |-> f] /\ \A c \in Placed(K) \ {b} : K.hd[c] = H.hd[c]
  BY <1>1, <1>2, SameBlock
<1>4. b + 1 + n = After(H, b)
  BY DEF After
<1>5. After(H, b) \in Placed(K) \cup {K.curr} /\ b \in Placed(K)
  BY <1>1, <1>2, <1>3 DEF Tiled
<1>6. Intact(H, K)
  BY <1>4, <1>5 DEF Intact, Rewritten
<1>7. K.hd[b].free = f /\ K.hd[b].size = n
  BY <1>3
<1> QED BY <1>2, <1>3, <1>4, <1>6, <1>7 DEF Joins, After

LEMMA JoinsEnds ==
  ASSUME NEW H, Good(H), NEW K, NEW a, NEW gone, Joins(H, K, a, gone)
  PROVE  Ends(K)
<1>1. Ends(H) /\ Tiled(H) /\ a \in Placed(H)
  BY DEF Good, Joins
<1>2. H.curr > 0 /\ H.tail \in Placed(H) /\ H.head = 0
  BY <1>1, PrevIs
<1>3. /\ K.head = H.head /\ K.curr = H.curr /\ K.end = H.end
      /\ K.tail = IF H.tail \in gone THEN a ELSE H.tail
      /\ a \in Placed(K) /\ Placed(K) = Placed(H) \ gone
  BY DEF Joins
<1>4. K.tail \in Placed(K)
  BY <1>2, <1>3
<1>5. H.curr # 0
  BY <1>2
<1> QED BY <1>1, <1>2, <1>3, <1>4, <1>5 DEF Ends

\* what the operations leave: the blocks in use but b, where they were
LEMMA Freed ==
  ASSUME NEW H, Good(H), NEW b \in Used(H), NEW K, NEW a, NEW gone, Joins(H, K, a, gone), K.hd[a].free,
         b \in gone \cup {a}, (gone \cup {a}) \ {b} \subseteq Frees(H),
         IsInjective(K.freeList), ToSet(K.freeList) = (ToSet(H.freeList) \ gone) \cup {a}
  PROVE  /\ Good(K) /\ Used(K) = Used(H) \ {b} /\ \A c \in Used(K) : K.hd[c] = H.hd[c]
         /\ Frees(K) = (Frees(H) \ gone) \cup {a}
<1>1. a \in Placed(K) /\ Placed(K) = Placed(H) \ gone /\ \A c \in Placed(K) \ {a} : K.hd[c] = H.hd[c]
  BY DEF Joins
<1>2. Frees(K) = (Frees(H) \ gone) \cup {a}
  BY <1>1 DEF Frees
<1>3. Listed(K)
  BY <1>2 DEF Listed, Good
<1>4. Ends(K)
  BY <1>1, JoinsEnds
<1>5. Used(K) = Used(H) \ {b}
  BY <1>1, <1>2 DEF Used
<1>6. \A c \in Used(K) : K.hd[c] = H.hd[c]
  BY <1>1, <1>2 DEF Used
<1> QED BY <1>2, <1>3, <1>4, <1>5, <1>6 DEF Good, Joins

LEMMA JoinedExact ==
  ASSUME NEW H, Good(H), Exact(H), NEW K, NEW a, NEW gone, Joins(H, K, a, gone),
         Frees(K) \subseteq (Frees(H) \ gone) \cup {a},
         H.tail \in gone \cup {a} => After(K, a) = H.curr,
         a \in Frees(K) => After(K, a) \notin Frees(H) /\ \A c \in Frees(H) \ gone : After(H, c) # a
  PROVE  Exact(K)
<1>1. /\ a \in Placed(K) /\ Placed(K) = Placed(H) \ gone /\ \A c \in Placed(K) \ {a} : K.hd[c] = H.hd[c]
      /\ K.curr = H.curr /\ K.tail = IF H.tail \in gone THEN a ELSE H.tail
  BY DEF Joins
<1>2. \A c \in Placed(K) \ {a} : After(K, c) = After(H, c)
  BY <1>1 DEF After
<1>3. K.tail # NULL => After(K, K.tail) = K.curr
  <2>1. CASE H.tail \in gone \cup {a}
    BY <1>1, <2>1
  <2>2. CASE H.tail \notin gone \cup {a}
    <3>1. SUFFICES ASSUME H.tail # NULL PROVE After(K, H.tail) = K.curr
      BY <1>1, <2>2
    <3>2. H.tail \in Placed(K) \ {a}
      BY <1>1, <2>2, <3>1 DEF Good, Ends
    <3> QED BY <1>1, <1>2, <3>1, <3>2 DEF Exact
  <2> QED BY <2>1, <2>2
<1>4. After(K, a) # a
  BY <1>1, Order DEF Joins
<1>5. ASSUME NEW c \in Frees(K) PROVE After(K, c) \notin Frees(K)
  <2>1. CASE c = a
    BY <1>4, <1>5, <2>1
  <2>2. CASE c # a
    <3>1. c \in Frees(H) \ gone /\ c \in Placed(K) \ {a}
      BY <1>5, <2>2 DEF Frees
    <3>2. After(K, c) = After(H, c) /\ After(H, c) \notin Frees(H)
      BY <1>2, <3>1 DEF Exact
    <3> QED BY <3>1, <3>2
  <2> QED BY <2>1, <2>2
<1> QED BY <1>3, <1>5 DEF Exact

\* only the links and the tail differ
SameMemory(H, K) ==
  /\ K.hd = H.hd /\ K.ft = H.ft /\ K.data = H.data
  /\ K.head = H.head /\ K.curr = H.curr /\ K.end = H.end

LEMMA Rewrites ==
  ASSUME NEW H, NEW G, SameMemory(H, G), NEW T, NEW b, NEW n, NEW f, Written(G, T, b, n, f),
         NEW K \in HeapType, SameMemory(T, K)
  PROVE  Rewritten(H, K, b, n, f)
<1>1. /\ K.curr = T.curr /\ K.hd = T.hd /\ K.ft = T.ft /\ K.data = T.data /\ K.head = T.head /\ K.end = T.end
      /\ G.curr = H.curr /\ G.hd = H.hd /\ G.ft = H.ft /\ G.data = H.data /\ G.head = H.head /\ G.end = H.end
  BY DEF SameMemory
<1>2. Tagged(H, K, b, n, f)
  BY <1>1 DEF Written, Tagged
<1> QED BY <1>1, <1>2 DEF Rewritten, Written

LEMMA FreeMakes ==
  ASSUME NEW H, Good(H), NEW b \in Used(H), NEW K, K = Free(H, b)
  PROVE  /\ Good(K) /\ Used(K) = Used(H) \ {b} /\ \A c \in Used(K) : K.hd[c] = H.hd[c]
         /\ Intact(H, K) /\ K.curr = H.curr /\ (Exact(H) => Exact(K))
<1> DEFINE prev == GetPrev(H, b)
           next == GetNext(H, b)
           size == H.hd[b].size
           both == Tag(H, prev, H.hd[prev].size + 2 + size + H.hd[next].size, TRUE)
           left == Tag(H, prev, H.hd[prev].size + 1 + size, TRUE)
           right == Tag(H, b, size + 1 + H.hd[next].size, TRUE)
           same == Tag(H, b, size, TRUE)
<1>f. PICK g \in BOOLEAN : g = TRUE
  OBVIOUS
<1>g. g \in BOOLEAN
  BY <1>f
<1>0. H \in HeapType /\ Tiled(H) /\ Ends(H) /\ Listed(H) /\ b \in Placed(H) /\ b \notin Frees(H)
  BY DEF Good, Used
<1>1. /\ b \in Cells /\ size \in Nat /\ b < After(H, b) /\ b \in Nat /\ H.curr \in Nat
      /\ H.tail \in Placed(H) /\ H.curr \notin Placed(H)
  <2>1. \A c \in Placed(H) : c < H.curr /\ H.curr \in Nat
    BY <1>0, Order
  <2> QED BY <1>0, <2>1, Order, PrevIs
<1>2. prev \in Frees(H) => prev \in Placed(H) /\ prev \in Cells /\ After(H, prev) = b /\ H.hd[prev].size \in Nat
  BY <1>0, Order, PrevIs, CellsAreNat DEF NULL, Frees
<1>3. next \in Frees(H) => /\ next \in Placed(H) /\ next \in Cells /\ b # H.tail /\ After(H, b) = next
                           /\ H.hd[next].size \in Nat
  <2>1. ASSUME next \in Frees(H) PROVE b # H.tail /\ After(H, b) = next
    BY <2>1, <1>0, CellsAreNat DEF GetNext, After, NULL, Frees, Placed
  <2> QED BY <1>0, <2>1, Order DEF Frees
<1>4. Exact(H) /\ next \notin Frees(H) => After(H, b) \notin Frees(H) /\ (b # H.tail => After(H, b) = next)
  <2>1. b = H.tail /\ Exact(H) => After(H, b) = H.curr
    BY <1>1, CellsAreNat DEF Exact, NULL, Placed
  <2>2. b # H.tail => After(H, b) = next
    BY DEF GetNext, After
  <2> QED BY <1>1, <2>1, <2>2 DEF Frees
<1>5. K = CASE prev \in Frees(H) /\ next \in Frees(H) -> RemoveFromList(Retail(both, next, prev), next)
            [] prev \in Frees(H) /\ next \notin Frees(H) -> Retail(left, b, prev)
            [] prev \notin Frees(H) /\ next \in Frees(H) -> AddToList(RemoveFromList(Retail(right, next, b), next), b)
            [] OTHER -> AddToList(same, b)
  BY FreeIs DEF Free
<1>6. SameMemory(H, H)
  BY DEF SameMemory
<1> HIDE DEF prev, next, size, both, left, right, same
<1>7. CASE prev \in Frees(H) /\ next \in Frees(H)
  <2> DEFINE n == H.hd[prev].size + 2 + size + H.hd[next].size
             T == Retail(both, next, prev)
  <2>1. n \in Nat /\ n \in Int /\ prev \in Int /\ prev \in Cells
    <3>1. H.hd[prev].size \in Nat /\ H.hd[next].size \in Nat /\ size \in Nat /\ prev \in Cells
      BY <1>1, <1>2, <1>3, <1>7
    <3>2. \A x, y, z \in Nat : x + 2 + y + z \in Nat
      OBVIOUS
    <3>3. n \in Nat
      BY <3>1, <3>2, Zenon DEF n
    <3> HIDE DEF n
    <3> QED BY <3>1, <3>3, CellsAreNat
  <2>2. Written(H, both, prev, n, g)
    <3>1. both = Tag(H, prev, n, TRUE)
      BY DEF both
    <3> HIDE DEF n
    <3> QED BY <1>0, <1>f, <2>1, <3>1, TagFree
  <2> HIDE DEF n
  <2>3. T \in HeapType /\ SameMemory(both, T) /\ T.freeList = H.freeList /\ T.tail = IF H.tail = next THEN prev ELSE H.tail
    BY <2>1, <2>2, RetailFields DEF Written, SameMemory
  <2> HIDE DEF T
  <2>4. /\ K \in HeapType /\ SameMemory(both, K) /\ IsInjective(K.freeList)
        /\ ToSet(K.freeList) = ToSet(H.freeList) \ {next} /\ K.tail = IF H.tail = next THEN prev ELSE H.tail
    <3>1. K = RemoveFromList(T, next)
      BY <1>5, <1>7 DEF T
    <3> QED BY <1>0, <2>3, <3>1, RemoveFields DEF SameMemory, Listed
  <2>5. Rewritten(H, K, prev, n, g)
    BY <1>6, <2>2, <2>4, Rewrites
  <2>6. Joins(H, K, prev, {b, next}) /\ After(K, prev) = After(H, next) /\ K.hd[prev].free = g
    <3>1. K.tail = IF H.tail \in {b, next} THEN prev ELSE H.tail
      BY <1>3, <1>7, <2>4
    <3>2. n = H.hd[prev].size + 2 + H.hd[b].size + H.hd[next].size
      BY DEF n, size
    <3> QED BY <1>0, <1>2, <1>3, <1>7, <1>g, <2>5, <3>1, <3>2, JoinThree
  <2>7. K.hd[prev].free
    BY <1>f, <2>6, Zenon
  <2>8. ToSet(K.freeList) = (ToSet(H.freeList) \ {b, next}) \cup {prev}
    BY <1>0, <1>7, <2>4, <2>6 DEF Listed, Joins
  <2>9. /\ Good(K) /\ Used(K) = Used(H) \ {b} /\ \A c \in Used(K) : K.hd[c] = H.hd[c]
        /\ Frees(K) = (Frees(H) \ {b, next}) \cup {prev}
    BY <1>7, <2>4, <2>6, <2>7, <2>8, Freed
  <2>10. ASSUME Exact(H) PROVE Exact(K)
    <3>1. After(H, next) \notin Frees(H) /\ \A c \in Frees(H) : After(H, c) # prev
      BY <1>7, <2>10 DEF Exact
    <3>2. H.tail = next => After(H, next) = H.curr
      BY <1>1, <2>10, CellsAreNat DEF Exact, NULL, Placed
    <3>3. H.tail # prev
      <4>1. H.tail = prev => After(H, prev) = H.curr
        BY <1>1, <2>10, CellsAreNat DEF Exact, NULL, Placed
      <4> QED BY <1>0, <1>1, <1>2, <1>7, <4>1
    <3> QED BY <1>3, <1>7, <2>6, <2>9, <2>10, <3>1, <3>2, <3>3, JoinedExact
  <2> QED BY <2>6, <2>9, <2>10 DEF Joins
<1>8. CASE prev \in Frees(H) /\ next \notin Frees(H)
  <2> DEFINE n == H.hd[prev].size + 1 + size
  <2>1. n \in Nat /\ n \in Int /\ prev \in Int /\ prev \in Cells
    BY <1>1, <1>2, <1>8, CellsAreNat, SMTT(60)
  <2>2. Written(H, left, prev, n, g)
    <3>1. left = Tag(H, prev, n, TRUE)
      BY DEF left
    <3> HIDE DEF n
    <3> QED BY <1>0, <1>f, <2>1, <3>1, TagFree
  <2> HIDE DEF n
  <2>3. /\ K \in HeapType /\ SameMemory(left, K) /\ K.freeList = H.freeList /\ K.tail = IF H.tail = b THEN prev ELSE H.tail
    <3>1. K = Retail(left, b, prev)
      BY <1>5, <1>8
    <3> QED BY <2>1, <2>2, <3>1, RetailFields DEF Written, SameMemory
  <2>4. Rewritten(H, K, prev, n, g)
    BY <1>6, <2>2, <2>3, Rewrites
  <2>5. Joins(H, K, prev, {b}) /\ After(K, prev) = After(H, b) /\ K.hd[prev].free = g
    <3>1. Adjoin(H, prev, b, n)
      BY <1>2, <1>8 DEF n, size, Adjoin
    <3>2. b \in Placed(H) /\ prev \in Placed(H) /\ K.tail = IF H.tail = b THEN prev ELSE H.tail
      BY <1>0, <1>2, <1>8, <2>3
    <3>3. Joins(H, K, prev, {b}) /\ After(K, prev) = After(H, b)
      BY <1>g, <2>4, <3>1, <3>2, JoinTwo
    <3>4. K.hd[prev].free = g
      BY <2>1, <2>4 DEF Rewritten, Tagged
    <3> QED BY <3>3, <3>4
  <2>6. K.hd[prev].free
    BY <1>f, <2>5, Zenon
  <2>7. IsInjective(K.freeList) /\ ToSet(K.freeList) = (ToSet(H.freeList) \ {b}) \cup {prev}
    BY <1>0, <1>8, <2>3 DEF Listed
  <2>8. /\ Good(K) /\ Used(K) = Used(H) \ {b} /\ \A c \in Used(K) : K.hd[c] = H.hd[c]
        /\ Frees(K) = (Frees(H) \ {b}) \cup {prev}
    BY <1>8, <2>5, <2>6, <2>7, Freed
  <2>9. ASSUME Exact(H) PROVE Exact(K)
    <3>1. After(H, b) \notin Frees(H) /\ \A c \in Frees(H) : After(H, c) # prev
      BY <1>4, <1>8, <2>9 DEF Exact
    <3>2. H.tail = b => After(H, b) = H.curr
      BY <1>1, <2>9, CellsAreNat DEF Exact, NULL, Placed
    <3>3. H.tail # prev
      <4>1. H.tail = prev => After(H, prev) = H.curr
        BY <1>1, <2>9, CellsAreNat DEF Exact, NULL, Placed
      <4> QED BY <1>0, <1>1, <1>2, <1>8, <4>1
    <3> QED BY <1>8, <2>5, <2>8, <2>9, <3>1, <3>2, <3>3, JoinedExact
  <2> QED BY <2>5, <2>8, <2>9 DEF Joins
<1>9. CASE prev \notin Frees(H) /\ next \in Frees(H)
  <2> DEFINE n == size + 1 + H.hd[next].size
             T == Retail(right, next, b)
             R == RemoveFromList(T, next)
  <2>1. n \in Nat /\ n \in Int /\ b \in Int
    BY <1>1, <1>3, <1>9, CellsAreNat, SMTT(60)
  <2>2. Written(H, right, b, n, g)
    <3>1. right = Tag(H, b, n, TRUE)
      BY DEF right
    <3> HIDE DEF n
    <3> QED BY <1>0, <1>1, <1>f, <2>1, <3>1, TagFree
  <2> HIDE DEF n
  <2>3. T \in HeapType /\ SameMemory(right, T) /\ T.freeList = H.freeList /\ T.tail = IF H.tail = next THEN b ELSE H.tail
    BY <2>1, <2>2, RetailFields DEF Written, SameMemory
  <2> HIDE DEF T
  <2>4. /\ R \in HeapType /\ SameMemory(right, R) /\ IsInjective(R.freeList)
        /\ ToSet(R.freeList) = ToSet(H.freeList) \ {next} /\ R.tail = IF H.tail = next THEN b ELSE H.tail
    BY <1>0, <2>3, RemoveFields DEF SameMemory, Listed
  <2>5. /\ K \in HeapType /\ SameMemory(right, K) /\ IsInjective(K.freeList)
        /\ ToSet(K.freeList) = (ToSet(H.freeList) \ {next}) \cup {b} /\ K.tail = IF H.tail = next THEN b ELSE H.tail
    <3>1. K = AddToList(R, b)
      BY <1>5, <1>9 DEF T
    <3> HIDE DEF R
    <3>2. b \notin ToSet(R.freeList)
      BY <1>0, <2>4 DEF Listed
    <3> QED BY <1>1, <2>4, <3>1, <3>2, AddFields DEF SameMemory
  <2> HIDE DEF R
  <2>6. Rewritten(H, K, b, n, g)
    BY <1>6, <2>2, <2>5, Rewrites
  <2>7. Joins(H, K, b, {next}) /\ After(K, b) = After(H, next) /\ K.hd[b].free = g
    <3>1. Adjoin(H, b, next, n)
      BY <1>3, <1>9 DEF n, size, Adjoin
    <3> QED BY <1>0, <1>3, <1>9, <1>g, <2>5, <2>6, <3>1, JoinTwo
  <2>8. K.hd[b].free
    BY <1>f, <2>7, Zenon
  <2>9. /\ Good(K) /\ Used(K) = Used(H) \ {b} /\ \A c \in Used(K) : K.hd[c] = H.hd[c]
        /\ Frees(K) = (Frees(H) \ {next}) \cup {b}
    BY <1>9, <2>5, <2>7, <2>8, Freed
  <2>10. ASSUME Exact(H) PROVE Exact(K)
    <3>1. After(H, next) \notin Frees(H)
      BY <1>9, <2>10 DEF Exact
    <3>2. H.tail = next => After(H, next) = H.curr
      BY <1>1, <2>10, CellsAreNat DEF Exact, NULL, Placed
    <3>3. H.tail # b
      BY <1>3, <1>9
    <3>4. \A c \in Frees(H) : After(H, c) # b
      BY <1>0, <1>9, FreedBefore DEF prev
    <3> QED BY <1>9, <2>7, <2>9, <2>10, <3>1, <3>2, <3>3, <3>4, JoinedExact
  <2> QED BY <2>7, <2>9, <2>10 DEF Joins
<1>10. CASE prev \notin Frees(H) /\ next \notin Frees(H)
  <2>1. size \in Int
    BY <1>1
  <2>2. Written(H, same, b, size, g)
    BY <1>0, <1>1, <1>f, <2>1, TagFree DEF same
  <2>3. /\ K \in HeapType /\ SameMemory(same, K) /\ IsInjective(K.freeList)
        /\ ToSet(K.freeList) = ToSet(H.freeList) \cup {b} /\ K.tail = H.tail
    <3>1. K = AddToList(same, b)
      BY <1>5, <1>10
    <3>2. b \notin ToSet(same.freeList) /\ same.freeList = H.freeList /\ same \in HeapType
      BY <1>0, <2>2 DEF Listed, Written
    <3> QED BY <1>0, <1>1, <2>2, <3>1, <3>2, AddFields DEF SameMemory, Written, Listed
  <2>4. Rewritten(H, K, b, size, g)
    BY <1>6, <2>2, <2>3, Rewrites
  <2>5. Joins(H, K, b, {}) /\ After(K, b) = After(H, b) /\ K.hd[b].free = g
    <3>1. size = H.hd[b].size
      BY DEF size
    <3> QED BY <1>0, <1>g, <2>3, <2>4, <3>1, JoinOne
  <2>6. K.hd[b].free
    BY <1>f, <2>5, Zenon
  <2>7. /\ Good(K) /\ Used(K) = Used(H) \ {b} /\ \A c \in Used(K) : K.hd[c] = H.hd[c]
        /\ Frees(K) = (Frees(H) \ {}) \cup {b}
    BY <2>3, <2>5, <2>6, Freed
  <2>8. ASSUME Exact(H) PROVE Exact(K)
    <3>1. After(H, b) \notin Frees(H)
      BY <1>4, <1>10, <2>8
    <3>2. H.tail = b => After(H, b) = H.curr
      BY <1>1, <2>8, CellsAreNat DEF Exact, NULL, Placed
    <3>3. \A c \in Frees(H) : After(H, c) # b
      BY <1>0, <1>10, FreedBefore DEF prev
    <3> QED BY <2>5, <2>7, <2>8, <3>1, <3>2, <3>3, JoinedExact
  <2> QED BY <2>5, <2>7, <2>8 DEF Joins
<1> QED BY <1>7, <1>8, <1>9, <1>10

\* splitting keeps the free list exact: what is split off has no free neighbour
LEMMA SplitExact ==
  ASSUME NEW H, Good(H), Exact(H), NEW b \in Placed(H), NEW n \in Nat, Splits(H, b, n),
         NEW S, S = SplitRest(H, b, n), NEW t, t = b + 1 + n,
         NEW K, SameMemory(S, K), K.tail = IF S.tail = b THEN t ELSE S.tail,
         b \in Frees(H) => b \notin Frees(K), b \notin Frees(H) => H.tail # b
  PROVE  Exact(K)
<1> DEFINE next == After(H, b)
           gone == IF b # H.tail /\ next \in Frees(H) THEN {next} ELSE {}
<1>1. /\ Tiled(S)
      /\ t \notin Placed(H) /\ Placed(S) = (Placed(H) \ gone) \cup {t} /\ b < t /\ t < next
      /\ S.hd[b].size = n /\ ~S.hd[b].free /\ S.hd[t].free
      /\ \A c \in Placed(S) \ {b, t} : S.hd[c] = H.hd[c]
      /\ After(S, t) = IF gone = {} THEN next ELSE After(H, next)
      /\ S.tail = IF H.tail \in gone THEN t ELSE H.tail
      /\ S.curr = H.curr
  <2>1. Halved(H, b, n, S, t, next, gone)
    BY DEF Halved
  <2> HIDE DEF next, gone
  <2> QED BY <2>1, SplitRestMakes
<1>2. /\ Tiled(H) /\ Ends(H) /\ next \in Nat /\ next <= H.curr /\ H.curr \in Nat /\ b \in Nat
      /\ H.tail \in Placed(H) /\ H.tail # NULL /\ H.curr \notin Placed(H)
  <2>1. Tiled(H) /\ Ends(H)
    BY DEF Good
  <2>2. H.tail \in Placed(H)
    BY <2>1, PrevIs
  <2>3. \A c \in Placed(H) : c < H.curr /\ H.curr \in Nat /\ c # NULL
    BY <2>1, Order, CellsAreNat DEF NULL
  <2> QED BY <2>1, <2>2, <2>3, Order
<1>3. After(H, H.tail) = H.curr
  BY <1>2 DEF Exact
<1>4. After(S, t) \notin Frees(H)
  BY <1>1, <1>2, <1>3 DEF Exact, Frees
<1>5. t # b /\ t # H.curr /\ b \notin gone /\ H.curr \notin gone
  <2>1. t \in Nat /\ next # b
    BY <1>1, <1>2
  <2> QED BY <1>1, <1>2, <2>1 DEF Frees
<1> HIDE DEF next
<1>6. /\ Placed(K) = Placed(S) /\ K.curr = H.curr /\ \A c \in Placed(S) : K.hd[c] = S.hd[c] /\ After(K, c) = After(S, c)
  BY <1>1 DEF SameMemory, Placed, After
<1>7. \A c \in Placed(K) \ {b, t} : K.hd[c] = H.hd[c] /\ After(K, c) = After(H, c) /\ c \in Placed(H) \ gone
  BY <1>1, <1>6 DEF After
<1>8. Frees(K) \subseteq ((Frees(H) \ gone) \ {b}) \cup {t}
  <2>1. ~K.hd[b].free
    BY <1>1, <1>5, <1>6 DEF SameMemory
  <2> QED BY <1>7, <2>1 DEF Frees
<1>9. K.tail # NULL => After(K, K.tail) = K.curr
  <2>1. CASE H.tail \in gone
    <3>1. K.tail = t /\ gone = {next} /\ H.tail = next
      BY <1>1, <1>5, <2>1
    <3> QED BY <1>1, <1>3, <1>6, <3>1
  <2>2. CASE H.tail \notin gone /\ H.tail = b
    <3>1. K.tail = t /\ gone = {} /\ next = H.curr
      BY <1>1, <1>3, <2>2 DEF next
    <3> QED BY <1>1, <1>6, <3>1
  <2>3. CASE H.tail \notin gone /\ H.tail # b
    <3>1. K.tail = H.tail /\ H.tail \in Placed(K) \ {b, t}
      BY <1>1, <1>2, <1>6, <2>3
    <3> QED BY <1>3, <1>6, <1>7, <3>1
  <2> QED BY <2>1, <2>2, <2>3
<1>10. ASSUME NEW c \in Frees(K) PROVE After(K, c) \notin Frees(K)
  <2>1. CASE c = t
    <3>1. After(S, t) # t
      BY <1>1, Order
    <3> QED BY <1>1, <1>4, <1>6, <1>8, <2>1, <3>1
  <2>2. CASE c # t
    <3>1. c \in Frees(H) /\ c \in Placed(K) \ {b, t} /\ After(K, c) = After(H, c)
      BY <1>7, <1>8, <1>10, <2>2 DEF Frees
    <3>2. After(H, c) \notin Frees(H)
      BY <3>1 DEF Exact
    <3>3. After(H, c) # t
      BY <1>1, <1>2, <1>5, <3>1 DEF Tiled, Frees
    <3> QED BY <1>8, <3>1, <3>2, <3>3
  <2> QED BY <2>1, <2>2
<1> QED BY <1>9, <1>10 DEF Exact

\* K is H with the block p of at least n units in use as well
Allocates(H, K, p, n) ==
  /\ Good(K) /\ p \in Used(K) /\ p \notin Used(H) /\ Used(K) = Used(H) \cup {p}
  /\ K.hd[p].size >= n /\ \A c \in Used(H) : K.hd[c] = H.hd[c]
  /\ Intact(H, K) /\ (Exact(H) => Exact(K))

LEMMA MallocSplits ==
  ASSUME NEW H, Good(H), NEW n \in Nat, NEW b \in Frees(H), H.hd[b].size >= n, Splits(H, b, n),
         NEW K, K = RemoveFromList(Retail(SplitRest(H, b, n), b, b + 1 + n), b)
  PROVE  Allocates(H, K, b, n)
<1> DEFINE t == b + 1 + n
           next == After(H, b)
           gone == IF b # H.tail /\ next \in Frees(H) THEN {next} ELSE {}
           S == SplitRest(H, b, n)
           R == Retail(S, b, t)
<1>0. b \in Placed(H) /\ t \in Int
  BY CellsAreNat DEF Frees, Placed
<1>1. /\ S \in HeapType /\ Tiled(S)
      /\ IsInjective(S.freeList) /\ ToSet(S.freeList) = (ToSet(H.freeList) \ gone) \cup {t}
      /\ t \notin Placed(H) /\ Placed(S) = (Placed(H) \ gone) \cup {t} /\ b < t /\ t < next
      /\ S.hd[b].size = n /\ ~S.hd[b].free /\ S.hd[t].free
      /\ \A c \in Placed(S) \ {b, t} : S.hd[c] = H.hd[c]
      /\ S.tail = IF H.tail \in gone THEN t ELSE H.tail
      /\ S.head = H.head /\ S.curr = H.curr /\ S.end = H.end
      /\ Intact(H, S)
  <2>1. Halved(H, b, n, S, t, next, gone)
    BY DEF Halved
  <2> HIDE DEF t, next, gone, S
  <2> QED BY <1>0, <2>1, SplitRestMakes
<1>2. /\ next # b /\ Ends(H) /\ H.tail \in Placed(H) /\ H.curr > 0 /\ H.head = 0 /\ ToSet(H.freeList) = Frees(H) /\ b \notin gone
  <2>1. Tiled(H) /\ Ends(H) /\ Listed(H)
    BY DEF Good
  <2> QED BY <1>0, <2>1, Order, PrevIs DEF Listed
<1> HIDE DEF t, next, gone, S
<1>3. /\ R \in HeapType /\ SameMemory(S, R) /\ R.freeList = S.freeList /\ R.tail = IF S.tail = b THEN t ELSE S.tail
  BY <1>0, <1>1, RetailFields DEF SameMemory
<1> HIDE DEF R
<1>4. /\ K \in HeapType /\ SameMemory(S, K) /\ IsInjective(K.freeList) /\ ToSet(K.freeList) = ToSet(S.freeList) \ {b}
      /\ K.tail = IF S.tail = b THEN t ELSE S.tail
  <2>1. K = RemoveFromList(R, b)
    BY DEF R, S, t
  <2>2. IsInjective(R.freeList) /\ R \in HeapType
    BY <1>1, <1>3
  <2>3. /\ K \in HeapType /\ IsInjective(K.freeList) /\ ToSet(K.freeList) = ToSet(R.freeList) \ {b}
        /\ K.hd = R.hd /\ K.ft = R.ft /\ K.data = R.data /\ K.head = R.head /\ K.tail = R.tail
        /\ K.curr = R.curr /\ K.end = R.end
    BY <2>1, <2>2, RemoveFields
  <2> QED BY <1>3, <2>3 DEF SameMemory
<1>5. Placed(K) = Placed(S) /\ Tiled(K) /\ Intact(H, K)
  BY <1>1, <1>4 DEF SameMemory, Placed, Tiled, After, Intact
<1>6. K.hd[b].size = n /\ ~K.hd[b].free /\ K.hd[t].free /\ \A c \in Placed(S) \ {b, t} : K.hd[c] = H.hd[c]
  BY <1>1, <1>4 DEF SameMemory
<1>7. gone \subseteq Frees(H) /\ t # b
  BY <1>0, <1>1 DEF gone, Frees
<1>8. Frees(K) = ((Frees(H) \ gone) \ {b}) \cup {t}
  BY <1>0, <1>1, <1>2, <1>5, <1>6, <1>7 DEF Frees
<1>9. Used(K) = Used(H) \cup {b} /\ b \notin Used(H) /\ \A c \in Used(H) : K.hd[c] = H.hd[c]
  BY <1>0, <1>1, <1>2, <1>5, <1>6, <1>7, <1>8 DEF Used
<1>10. Good(K)
  <2>1. Listed(K)
    BY <1>1, <1>2, <1>4, <1>7, <1>8 DEF Listed
  <2>2. K.tail \in Placed(K) /\ K.head = H.head /\ K.curr = H.curr /\ K.end = H.end
    BY <1>1, <1>2, <1>4, <1>5 DEF SameMemory
  <2>3. Ends(K)
    BY <1>2, <2>2 DEF Ends
  <2> QED BY <1>4, <1>5, <2>1, <2>3 DEF Good
<1>11. Exact(H) => Exact(K)
  BY <1>0, <1>4, <1>8, <1>7, SplitExact DEF S, t
<1>12. K.hd[b].size >= n
  BY <1>6
<1> QED BY <1>5, <1>9, <1>10, <1>11, <1>12 DEF Allocates

TakesWhole(H, K, b) == K = RemoveFromList(Tag(H, b, H.hd[b].size, FALSE), b)

LEMMA MallocTakes ==
  ASSUME NEW H, Good(H), NEW n \in Nat, NEW b \in Frees(H), H.hd[b].size >= n,
         NEW K, TakesWhole(H, K, b)
  PROVE  Allocates(H, K, b, n)
<1> DEFINE m == H.hd[b].size
           T == Tag(H, b, m, FALSE)
<1>f. PICK f \in BOOLEAN : f = FALSE
  OBVIOUS
<1>g. f \in BOOLEAN
  BY <1>f
<1>0. H \in HeapType /\ Tiled(H) /\ Ends(H) /\ Listed(H) /\ b \in Placed(H) /\ b \in Cells /\ m \in Int
  BY Order DEF Good, Frees
<1>1. Written(H, T, b, m, f)
  <2> HIDE DEF m
  <2> QED BY <1>0, <1>f, TagUsed
<1> HIDE DEF T
<1>2. /\ K \in HeapType /\ SameMemory(T, K) /\ IsInjective(K.freeList) /\ ToSet(K.freeList) = ToSet(H.freeList) \ {b}
      /\ K.tail = H.tail
  <2>1. K = RemoveFromList(T, b)
    BY DEF T, TakesWhole
  <2>2. T \in HeapType /\ T.freeList = H.freeList /\ T.tail = H.tail
    BY <1>1 DEF Written
  <2> HIDE DEF m
  <2> QED BY <1>0, <2>1, <2>2, RemoveFields DEF SameMemory, Listed
<1>3. Rewritten(H, K, b, m, f)
  <2>1. SameMemory(H, H)
    BY DEF SameMemory
  <2> QED BY <1>1, <1>2, <2>1, Rewrites
<1>4. Joins(H, K, b, {}) /\ After(K, b) = After(H, b) /\ K.hd[b].free = f /\ K.hd[b].size = m
  <2>1. m = H.hd[b].size
    OBVIOUS
  <2> HIDE DEF m
  <2> QED BY <1>0, <1>2, <1>3, <1>g, <2>1, JoinOne
<1>5. ~K.hd[b].free
  BY <1>4, <1>f, Zenon
<1>6. Placed(K) = Placed(H) /\ \A c \in Placed(K) \ {b} : K.hd[c] = H.hd[c]
  BY <1>4 DEF Joins
<1>7. Frees(K) = Frees(H) \ {b}
  BY <1>5, <1>6 DEF Frees
<1>8. Good(K)
  BY <1>0, <1>2, <1>4, <1>7, JoinsEnds DEF Good, Listed, Joins
<1>9. Used(K) = Used(H) \cup {b} /\ b \notin Used(H) /\ \A c \in Used(H) : K.hd[c] = H.hd[c]
  BY <1>0, <1>6, <1>7 DEF Used
<1>10. ASSUME Exact(H) PROVE Exact(K)
  <2>1. H.tail = b => After(H, b) = H.curr
    BY <1>0, <1>10, CellsAreNat DEF Exact, NULL
  <2> QED BY <1>4, <1>7, <1>10, <2>1, JoinedExact
<1>11. K.hd[b].size >= n
  BY <1>4
<1> QED BY <1>4, <1>8, <1>9, <1>10, <1>11 DEF Allocates, Joins

\* ksbrk maps the pages up to the new end of the heap and no further
LEMMA Grows ==
  ASSUME NEW H \in HeapType, Tiled(H), Ends(H), NEW u \in Nat, ~Exhausted(H, u), NEW G, G = Grow(H, u)
  PROVE  /\ G \in HeapType /\ G.curr = H.curr + u /\ G.curr \in Cells /\ G.curr <= G.end
         /\ G.end \in 0 .. (HeapMax + PageUnits)
         /\ G.hd = H.hd /\ G.ft = H.ft /\ G.data = H.data /\ G.head = H.head /\ G.tail = H.tail /\ G.freeList = H.freeList
<1> DEFINE boundary == H.curr + u
           x == boundary - H.end + PageUnits - 1
           pages == x \div PageUnits
           end == IF boundary <= H.end THEN H.end ELSE H.end + pages * PageUnits
<1>1. /\ H.curr \in Nat /\ H.end \in Nat /\ H.end <= HeapMax + PageUnits /\ boundary \in Nat
      /\ HeapMax \in Nat /\ PageUnits \in Nat \ {0}
  BY SizeAssumption, CellsAreNat DEF Tiled, Ends
<1>2. G = [H EXCEPT !.curr = boundary, !.end = end]
  BY DEF Grow
<1>3. end \in Nat /\ boundary <= end /\ end <= HeapMax + PageUnits
  <2>1. CASE boundary <= H.end
    BY <1>1, <2>1
  <2>2. CASE ~(boundary <= H.end)
    <3>1. boundary <= HeapMax /\ x \in Nat
      BY <1>1, <2>2 DEF Exhausted
    <3> HIDE DEF x
    <3>2. pages \in Nat /\ pages * PageUnits <= x /\ x < pages * PageUnits + PageUnits
      BY <1>1, <3>1
    <3> HIDE DEF pages
    <3>3. PICK y \in Int : y = pages * PageUnits
      BY <1>1, <3>2
    <3>4. y <= x /\ x < y + PageUnits /\ end = H.end + y
      BY <2>2, <3>2, <3>3
    <3> HIDE DEF end
    <3> QED BY <1>1, <3>1, <3>3, <3>4 DEF x
  <2> QED BY <2>1, <2>2
<1>4. boundary \in Cells
  BY <1>1, <1>3, CellsAreNat
<1> HIDE DEF boundary, end
<1>5. /\ G \in HeapType /\ G.curr = boundary /\ G.end = end
      /\ G.hd = H.hd /\ G.ft = H.ft /\ G.data = H.data /\ G.head = H.head /\ G.tail = H.tail /\ G.freeList = H.freeList
  <2>1. boundary \in Int /\ end \in Int
    BY <1>1, <1>3
  <2> QED BY <1>2, <2>1 DEF HeapType
<1>6. G.curr = H.curr + u
  BY <1>5 DEF boundary
<1>7. G.end \in 0 .. (HeapMax + PageUnits)
  BY <1>1, <1>3, <1>5
<1> QED BY <1>3, <1>4, <1>5, <1>6, <1>7

Appends(H, K, n) ==
  LET tailed == [Grow(H, n + 1) EXCEPT !.tail = H.curr, !.head = IF @ = NULL THEN H.curr ELSE @]
  IN K = Tag(tailed, H.curr, n, FALSE)

LEMMA MallocAppends ==
  ASSUME NEW H, Good(H), NEW n \in Nat, ~Exhausted(H, n + 1), NEW K, Appends(H, K, n)
  PROVE  Allocates(H, K, H.curr, n)
<1> DEFINE b == H.curr
           G == Grow(H, n + 1)
           T == [G EXCEPT !.tail = b, !.head = IF @ = NULL THEN b ELSE @]
<1>f. PICK f \in BOOLEAN : f = FALSE
  OBVIOUS
<1>g. f \in BOOLEAN
  BY <1>f
<1>0. /\ H \in HeapType /\ Tiled(H) /\ Ends(H) /\ Listed(H) /\ b \in Nat /\ b \in Cells
      /\ H.head \in Int
  BY CellsAreNat DEF Good, Tiled, HeapType
<1>1. /\ G \in HeapType /\ G.curr = H.curr + (n + 1) /\ G.curr \in Cells /\ G.curr <= G.end
      /\ G.end \in 0 .. (HeapMax + PageUnits)
      /\ G.hd = H.hd /\ G.ft = H.ft /\ G.data = H.data /\ G.head = H.head /\ G.tail = H.tail /\ G.freeList = H.freeList
  <2>1. PICK u \in Nat : u = n + 1
    OBVIOUS
  <2>2. ~Exhausted(H, u) /\ G = Grow(H, u)
    BY <2>1
  <2> HIDE DEF G
  <2>3. /\ G \in HeapType /\ G.curr = H.curr + u /\ G.curr \in Cells /\ G.curr <= G.end
        /\ G.end \in 0 .. (HeapMax + PageUnits)
        /\ G.hd = H.hd /\ G.ft = H.ft /\ G.data = H.data /\ G.head = H.head /\ G.tail = H.tail /\ G.freeList = H.freeList
    BY <1>0, <2>2, Grows
  <2> QED BY <2>1, <2>3
<1>2. K = Tag(T, b, n, FALSE)
  BY DEF Appends
<1> HIDE DEF G
<1>3. /\ T \in HeapType /\ T.curr = G.curr /\ T.end = G.end /\ T.hd = H.hd /\ T.ft = H.ft /\ T.data = H.data
      /\ T.tail = b /\ T.head = (IF H.head = NULL THEN b ELSE H.head) /\ T.freeList = H.freeList
  BY <1>0, <1>1 DEF HeapType
<1> HIDE DEF T
<1>4. Written(T, K, b, n, f)
  <2>1. n \in Int
    OBVIOUS
  <2> QED BY <1>0, <1>2, <1>3, <1>f, <2>1, TagUsed
<1>5. /\ K \in HeapType /\ Tagged(T, K, b, n, f) /\ K.head = T.head /\ K.tail = b /\ K.end = G.end /\ K.curr = G.curr
      /\ K.freeList = H.freeList /\ \A c \in Cells \ {b, K.curr} : K.data[c] = H.data[c]
  <2>1. b + 1 + n = G.curr
    BY <1>0, <1>1
  <2> QED BY <1>3, <1>4, <2>1 DEF Written
<1>6. /\ Tiled(K) /\ Placed(K) = Placed(H) \cup {b} /\ b \notin Placed(H)
      /\ K.hd[b] = [size |-> n, free |-> f] /\ \A c \in Placed(H) : K.hd[c] = H.hd[c]
  <2>1. T.curr = H.curr + 1 + n /\ T.curr \in Cells /\ T.hd = H.hd /\ T.ft = H.ft
    BY <1>0, <1>1, <1>3
  <2>2. Tagged(T, K, H.curr, n, f)
    BY <1>5
  <2>3. Tiled(H)
    BY <1>0
  <2>4. /\ Tiled(K) /\ Placed(K) = Placed(H) \cup {H.curr} /\ H.curr \notin Placed(H)
        /\ K.hd[H.curr] = [size |-> n, free |-> f] /\ \A c \in Placed(H) : K.hd[c] = H.hd[c]
    BY <1>g, <2>1, <2>2, <2>3, NewBlock, SMTT(60)
  <2> QED BY <2>4
<1>7. K.hd[b].size = n /\ K.hd[b].free = f
  BY <1>6
<1>8. ~K.hd[b].free
  BY <1>7, <1>f, Zenon
<1>9. Frees(K) = Frees(H)
  BY <1>6, <1>8 DEF Frees
<1>10. Good(K)
  <2>1. Listed(K)
    BY <1>0, <1>5, <1>9 DEF Listed
  <2>2. K.head = 0 /\ K.curr # 0
    <3>1. T.head = 0
      BY <1>0, <1>3 DEF Ends, NULL
    <3> QED BY <1>0, <1>1, <1>5, <3>1
  <2>3. Ends(K)
    BY <1>1, <1>5, <1>6, <2>2 DEF Ends
  <2> QED BY <1>5, <1>6, <2>1, <2>3 DEF Good
<1>11. Used(K) = Used(H) \cup {b} /\ b \notin Used(H) /\ \A c \in Used(H) : K.hd[c] = H.hd[c]
  <2>1. b \notin Frees(H)
    BY <1>6 DEF Frees
  <2> QED BY <1>6, <1>9, <2>1 DEF Used
<1>12. ASSUME Exact(H) PROVE Exact(K)
  <2>1. After(K, b) = K.curr
    BY <1>0, <1>1, <1>5, <1>7 DEF After
  <2>2. \A c \in Frees(K) : After(K, c) = After(H, c)
    BY <1>6, <1>9 DEF After, Frees
  <2> QED BY <1>5, <1>9, <1>12, <2>1, <2>2 DEF Exact
<1>13. Intact(H, K)
  BY <1>5, <1>6 DEF Intact
<1>14. K.hd[b].size >= n
  BY <1>7
<1>15. b \in Used(K)
  BY <1>11
<1> QED BY <1>10, <1>11, <1>12, <1>13, <1>14, <1>15 DEF Allocates

LEMMA MallocMakes ==
  ASSUME NEW H, Good(H), NEW n \in Nat, NEW r, r = Malloc(H, n)
  PROVE  (r.blk = NULL /\ r.heap = H) \/ (r.blk # NULL /\ Allocates(H, r.heap, r.blk, n))
<1> DEFINE b == BestFit(H, n)
<1>0. H \in HeapType /\ Tiled(H) /\ ToSet(H.freeList) = Frees(H) /\ H.curr # NULL
  BY CellsAreNat DEF Good, Listed, Tiled, NULL
<1>1. CASE b # NULL /\ Splits(H, b, n)
  <2>1. r.blk = b /\ r.heap = RemoveFromList(Retail(SplitRest(H, b, n), b, b + 1 + n), b)
    BY <1>1 DEF Malloc
  <2>2. b \in Frees(H) /\ H.hd[b].size >= n
    BY <1>0, <1>1, BestFits
  <2> HIDE DEF b
  <2> QED BY <1>1, <2>1, <2>2, MallocSplits
<1>2. CASE b # NULL /\ ~Splits(H, b, n)
  <2>1. r.blk = b /\ TakesWhole(H, r.heap, b)
    BY <1>2 DEF Malloc, TakesWhole
  <2>2. b \in Frees(H) /\ H.hd[b].size >= n
    BY <1>0, <1>2, BestFits
  <2> HIDE DEF b
  <2> QED BY <1>2, <2>1, <2>2, MallocTakes
<1>3. CASE b = NULL /\ Exhausted(H, n + 1)
  BY <1>3 DEF Malloc
<1>4. CASE b = NULL /\ ~Exhausted(H, n + 1)
  <2>1. r.blk = H.curr /\ Appends(H, r.heap, n)
    BY <1>4 DEF Malloc, Appends
  <2> QED BY <1>0, <1>4, <2>1, MallocAppends
<1> QED BY <1>1, <1>2, <1>3, <1>4

LEMMA CopyFields ==
  ASSUME NEW H \in HeapType, NEW to \in Int, NEW from \in Int, NEW n \in Nat,
         \A i \in Nat : 0 < i /\ i <= n => from + i \in Cells,
         NEW K, K = Copy(H, to, from, n)
  PROVE  /\ K \in HeapType /\ K.hd = H.hd /\ K.ft = H.ft /\ K.head = H.head /\ K.tail = H.tail
         /\ K.freeList = H.freeList /\ K.curr = H.curr /\ K.end = H.end
         /\ \A i \in Nat : 0 < i /\ i <= n /\ to + i \in Cells => K.data[to + i] = H.data[from + i]
         /\ \A c \in Cells : c <= to \/ to + n < c => K.data[c] = H.data[c]
<1> DEFINE data == [c \in Cells |-> IF c \in (to + 1) .. (to + n) THEN H.data[c - to + from] ELSE H.data[c]]
<1>1. K = [H EXCEPT !.data = data]
  BY DEF Copy
<1>2. \A c \in Cells : c \in Int
  BY CellsAreNat
<1>3. ASSUME NEW c \in Cells, c \in (to + 1) .. (to + n) PROVE c - to + from \in Cells
  <2>1. PICK i \in Nat : i = c - to
    BY <1>2, <1>3
  <2>2. 0 < i /\ i <= n /\ c - to + from = from + i
    BY <1>2, <1>3, <2>1
  <2> QED BY <2>2
<1>4. data \in [Cells -> Nat]
  BY <1>3 DEF HeapType
<1>5. ASSUME NEW i \in Nat, 0 < i, i <= n, to + i \in Cells PROVE data[to + i] = H.data[from + i]
  <2>1. to + i \in (to + 1) .. (to + n) /\ (to + i) - to + from = from + i
    BY <1>5
  <2> QED BY <1>5, <2>1
<1>6. ASSUME NEW c \in Cells, c <= to \/ to + n < c PROVE data[c] = H.data[c]
  <2>1. c \notin (to + 1) .. (to + n)
    BY <1>2, <1>6
  <2> QED BY <2>1
<1> HIDE DEF data
<1>7. /\ K \in HeapType /\ K.data = data /\ K.hd = H.hd /\ K.ft = H.ft /\ K.head = H.head /\ K.tail = H.tail
      /\ K.freeList = H.freeList /\ K.curr = H.curr /\ K.end = H.end
  BY <1>1, <1>4 DEF HeapType
<1> QED BY <1>5, <1>6, <1>7

\* what is inside a block is no header, and every block lies in the memory
LEMMA Inside ==
  ASSUME NEW H, Tiled(H), NEW b \in Placed(H), NEW i \in Nat, 0 < i, i <= H.hd[b].size
  PROVE  b + i \in Cells /\ b + i \notin Placed(H) /\ b + i # H.curr /\ b < b + i /\ b + i < After(H, b)
<1>1. b \in Nat /\ H.hd[b].size \in Nat /\ After(H, b) \in Cells /\ After(H, b) = b + 1 + H.hd[b].size
  BY Order DEF After
<1>2. b < b + i /\ b + i < After(H, b) /\ b + i \in Nat
  BY <1>1
<1>3. b + i \in Cells
  BY <1>1, <1>2, CellsAreNat
<1> QED BY <1>2, <1>3, Order

\* H's blocks in use but b are where they were, and hold what they held
Keeps(H, K, b) ==
  \A c \in Used(H) \ {b} : /\ c \in Used(K) /\ K.hd[c] = H.hd[c]
                           /\ \A x \in Cells : c < x /\ x < After(H, c) => K.data[x] = H.data[x]

LEMMA IntactKeeps ==
  ASSUME NEW H, NEW K, Tiled(K), Intact(H, K), NEW b, Used(H) \ {b} \subseteq Used(K),
         \A c \in Used(H) \ {b} : K.hd[c] = H.hd[c]
  PROVE  Keeps(H, K, b)
<1> SUFFICES ASSUME NEW c \in Used(H) \ {b}, NEW x \in Cells, c < x, x < After(H, c) PROVE K.data[x] = H.data[x]
  BY DEF Keeps
<1>1. c \in Placed(K) /\ After(K, c) = After(H, c)
  BY DEF Used, After
<1>2. x \notin Placed(K) /\ x # K.curr
  BY <1>1, Order
<1> QED BY <1>2 DEF Intact

Reallocates(H, K, b, p, n) ==
  /\ Good(K) /\ p \in Used(K) /\ p \notin Used(H) \ {b} /\ Used(K) = (Used(H) \ {b}) \cup {p}
  /\ K.hd[p].size >= n /\ Keeps(H, K, b)
  /\ \A i \in Nat : 0 < i /\ i <= n /\ i <= H.hd[b].size => K.data[p + i] = H.data[b + i]

LEMMA Kept ==
  ASSUME NEW H, Good(H), NEW K, NEW a, NEW gone, Joins(H, K, a, gone), ~K.hd[a].free,
         IsInjective(K.freeList), ToSet(K.freeList) = ToSet(H.freeList) \ (gone \cup {a})
  PROVE  /\ Good(K) /\ Used(K) = (Used(H) \ gone) \cup {a} /\ \A c \in Used(K) \ {a} : K.hd[c] = H.hd[c]
         /\ Frees(K) = Frees(H) \ (gone \cup {a})
<1>1. a \in Placed(K) /\ Placed(K) = Placed(H) \ gone /\ \A c \in Placed(K) \ {a} : K.hd[c] = H.hd[c]
  BY DEF Joins
<1>2. Frees(K) = Frees(H) \ (gone \cup {a})
  BY <1>1 DEF Frees
<1>3. Listed(K)
  BY <1>2 DEF Listed, Good
<1>4. Ends(K)
  BY JoinsEnds
<1>5. Used(K) = (Used(H) \ gone) \cup {a}
  BY <1>1, <1>2 DEF Used
<1>6. \A c \in Used(K) \ {a} : K.hd[c] = H.hd[c]
  BY <1>1, <1>5 DEF Used
<1> QED BY <1>2, <1>3, <1>4, <1>5, <1>6 DEF Good, Joins

GrowsInto(H, K, b, next) ==
  K = Retail(Tag(RemoveFromList(H, next), b, H.hd[b].size + 1 + H.hd[next].size, FALSE), next, b)

LEMMA ReallocRight ==
  ASSUME NEW H, Good(H), NEW b \in Used(H), NEW n \in Nat, GrowsRight(H, b, n), NEW K, GrowsInto(H, K, b, GetNext(H, b))
  PROVE  Reallocates(H, K, b, b, n) /\ (Exact(H) => Exact(K))
<1> DEFINE next == GetNext(H, b)
           m == H.hd[b].size + 1 + H.hd[next].size
           R == RemoveFromList(H, next)
           T == Tag(R, b, m, FALSE)
<1>f. PICK f \in BOOLEAN : f = FALSE
  OBVIOUS
<1>g. f \in BOOLEAN
  BY <1>f
<1>0. H \in HeapType /\ Tiled(H) /\ Ends(H) /\ Listed(H) /\ b \in Placed(H) /\ b \in Cells /\ b \in Int /\ b \notin Frees(H)
  BY Order DEF Good, Used
<1>1. b # H.tail /\ next \in Frees(H) /\ m >= n
  BY FreeIs DEF GrowsRight
<1>2. next = After(H, b) /\ next \in Placed(H) /\ H.hd[next].size \in Nat /\ H.hd[b].size \in Nat
  <2>1. next = After(H, b)
    BY <1>1 DEF GetNext, After
  <2> QED BY <1>0, <1>1, <2>1, Order DEF Frees
<1> HIDE DEF next
<1>3. m \in Int
  BY <1>2
<1>4. K = Retail(T, next, b)
  BY DEF GrowsInto, next
<1>5. R \in HeapType /\ SameMemory(H, R) /\ IsInjective(R.freeList) /\ ToSet(R.freeList) = ToSet(H.freeList) \ {next} /\ R.tail = H.tail
  BY <1>0, RemoveFields DEF SameMemory, Listed
<1> HIDE DEF R
<1>6. Written(R, T, b, m, f)
  <2> HIDE DEF m
  <2> QED BY <1>0, <1>3, <1>5, <1>f, TagUsed
<1> HIDE DEF T
<1>7. /\ K \in HeapType /\ SameMemory(T, K) /\ K.tail = (IF H.tail = next THEN b ELSE H.tail)
      /\ IsInjective(K.freeList) /\ ToSet(K.freeList) = ToSet(H.freeList) \ {next}
  <2>1. T \in HeapType /\ T.freeList = R.freeList /\ T.tail = H.tail
    BY <1>5, <1>6 DEF Written
  <2> HIDE DEF m
  <2> QED BY <1>0, <1>4, <1>5, <2>1, RetailFields DEF SameMemory
<1>8. Rewritten(H, K, b, m, f)
  BY <1>5, <1>6, <1>7, Rewrites
<1>9. Joins(H, K, b, {next}) /\ After(K, b) = After(H, next) /\ K.hd[b].free = f /\ K.hd[b].size = m
  <2>1. Adjoin(H, b, next, m)
    BY <1>2 DEF Adjoin
  <2>2. b \in Placed(H) /\ next \in Placed(H) /\ K.tail = IF H.tail = next THEN b ELSE H.tail
    BY <1>0, <1>2, <1>7
  <2> HIDE DEF m
  <2>3. Joins(H, K, b, {next}) /\ After(K, b) = After(H, next)
    BY <1>8, <1>g, <2>1, <2>2, JoinTwo
  <2>4. K.hd[b].free = f /\ K.hd[b].size = m
    BY <1>0, <1>8 DEF Rewritten, Tagged
  <2> QED BY <2>3, <2>4
<1>10. ~K.hd[b].free
  BY <1>9, <1>f, Zenon
<1>11. ToSet(K.freeList) = ToSet(H.freeList) \ ({next} \cup {b})
  BY <1>0, <1>7 DEF Listed
<1>12. /\ Good(K) /\ Used(K) = (Used(H) \ {next}) \cup {b} /\ \A c \in Used(K) \ {b} : K.hd[c] = H.hd[c]
       /\ Frees(K) = Frees(H) \ ({next} \cup {b})
  BY <1>7, <1>9, <1>10, <1>11, Kept
<1>13. Used(K) = (Used(H) \ {b}) \cup {b} /\ Used(K) = Used(H)
  BY <1>1, <1>12 DEF Used
<1>14. Keeps(H, K, b)
  BY <1>9, <1>12, <1>13, IntactKeeps DEF Joins
<1>15. ASSUME NEW i \in Nat, 0 < i, i <= H.hd[b].size PROVE K.data[b + i] = H.data[b + i]
  <2>1. i <= K.hd[b].size /\ b \in Placed(K) /\ Tiled(K) /\ Intact(H, K)
    BY <1>2, <1>9, <1>15 DEF Joins
  <2>2. b + i \in Cells /\ b + i \notin Placed(K) /\ b + i # K.curr
    BY <1>15, <2>1, Inside
  <2> QED BY <2>1, <2>2 DEF Intact
<1>16. ASSUME Exact(H) PROVE Exact(K)
  <2>1. H.tail = next => After(H, next) = H.curr
    BY <1>1, <1>2, <1>16, CellsAreNat DEF Exact, NULL, Placed
  <2> QED BY <1>1, <1>9, <1>12, <1>16, <2>1, JoinedExact
<1>17. K.hd[b].size >= n
  BY <1>1, <1>9
<1>18. Reallocates(H, K, b, b, n)
  BY <1>12, <1>13, <1>14, <1>15, <1>17 DEF Reallocates
<1> QED BY <1>16, <1>18

\* the contents of the payloads are nothing to the blocks
LEMMA SameBlocks ==
  ASSUME NEW H, Good(H), NEW K \in HeapType, K.hd = H.hd, K.ft = H.ft, K.head = H.head, K.tail = H.tail,
         K.freeList = H.freeList, K.curr = H.curr, K.end = H.end
  PROVE  /\ Good(K) /\ Placed(K) = Placed(H) /\ Used(K) = Used(H) /\ Frees(K) = Frees(H) /\ (Exact(H) => Exact(K))
         /\ \A b : After(K, b) = After(H, b)
<1>1. Placed(K) = Placed(H) /\ \A b : After(K, b) = After(H, b)
  BY DEF Placed, After
<1>2. Frees(K) = Frees(H) /\ Used(K) = Used(H)
  BY <1>1 DEF Frees, Used
<1>3. Tiled(K)
  BY <1>1 DEF Good, Tiled
<1>4. Ends(K) /\ Listed(K)
  BY <1>1, <1>2 DEF Good, Ends, Listed
<1>5. Exact(H) => Exact(K)
  BY <1>1, <1>2 DEF Exact
<1> QED BY <1>1, <1>2, <1>3, <1>4, <1>5 DEF Good

GrowsBack(H, K, b, prev) ==
  K = Copy(Retail(Tag(RemoveFromList(H, prev), prev, H.hd[b].size + 1 + H.hd[prev].size, FALSE), b, prev),
           prev, b, H.hd[b].size)

LEMMA ReallocLeft ==
  ASSUME NEW H, Good(H), NEW b \in Used(H), NEW n \in Nat, GrowsLeft(H, b, n),
         NEW K, GrowsBack(H, K, b, GetPrev(H, b))
  PROVE  Reallocates(H, K, b, GetPrev(H, b), n) /\ (Exact(H) => Exact(K))
<1> DEFINE prev == GetPrev(H, b)
           s == H.hd[b].size
           m == s + 1 + H.hd[prev].size
           R == RemoveFromList(H, prev)
           T == Tag(R, prev, m, FALSE)
           J == Retail(T, b, prev)
<1>f. PICK f \in BOOLEAN : f = FALSE
  OBVIOUS
<1>g. f \in BOOLEAN
  BY <1>f
<1>0. H \in HeapType /\ Tiled(H) /\ Ends(H) /\ Listed(H) /\ b \in Placed(H) /\ b \in Cells /\ b \in Nat /\ b \notin Frees(H)
  BY Order DEF Good, Used
<1>1. b # H.head /\ prev \in Frees(H) /\ m >= n
  BY FreeIs DEF GrowsLeft
<1>2. After(H, prev) = b /\ prev \in Placed(H) /\ H.hd[prev].size \in Nat /\ s \in Nat /\ prev \in Cells /\ prev \in Nat /\ prev < b
  <2>1. prev \in Placed(H)
    BY <1>1 DEF Frees
  <2>2. b # 0
    BY <1>0, <1>1, PrevIs
  <2>3. After(H, prev) = b
    BY <1>0, <2>2, PrevIs
  <2>4. s \in Nat
    BY <1>0, Order
  <2> HIDE DEF prev, s
  <2> QED BY <1>0, <2>1, <2>3, <2>4, Order
<1> HIDE DEF prev
<1>3. m \in Int
  BY <1>2
<1>4. K = Copy(J, prev, b, s)
  BY DEF GrowsBack, prev
<1> HIDE DEF s
<1>5. R \in HeapType /\ SameMemory(H, R) /\ IsInjective(R.freeList) /\ ToSet(R.freeList) = ToSet(H.freeList) \ {prev} /\ R.tail = H.tail
  BY <1>0, RemoveFields DEF SameMemory, Listed
<1> HIDE DEF R
<1>6. Written(R, T, prev, m, f)
  <2> HIDE DEF m
  <2> QED BY <1>2, <1>3, <1>5, <1>f, TagUsed
<1> HIDE DEF T
<1>7. /\ J \in HeapType /\ SameMemory(T, J) /\ J.tail = (IF H.tail = b THEN prev ELSE H.tail)
      /\ IsInjective(J.freeList) /\ ToSet(J.freeList) = ToSet(H.freeList) \ {prev}
  <2>1. T \in HeapType /\ T.freeList = R.freeList /\ T.tail = H.tail /\ prev \in Int
    BY <1>2, <1>5, <1>6 DEF Written
  <2> HIDE DEF m
  <2> QED BY <1>5, <2>1, RetailFields DEF SameMemory
<1> HIDE DEF J
<1>8. Rewritten(H, J, prev, m, f)
  BY <1>5, <1>6, <1>7, Rewrites
<1>9. Joins(H, J, prev, {b}) /\ After(J, prev) = After(H, b) /\ J.hd[prev].free = f /\ J.hd[prev].size = m
  <2>1. Adjoin(H, prev, b, m)
    BY <1>2 DEF s, Adjoin
  <2>2. b \in Placed(H) /\ prev \in Placed(H) /\ J.tail = IF H.tail = b THEN prev ELSE H.tail
    BY <1>0, <1>2, <1>7
  <2> HIDE DEF m
  <2>3. Joins(H, J, prev, {b}) /\ After(J, prev) = After(H, b)
    BY <1>8, <1>g, <2>1, <2>2, JoinTwo
  <2>4. J.hd[prev].free = f /\ J.hd[prev].size = m
    BY <1>2, <1>8 DEF Rewritten, Tagged
  <2> QED BY <2>3, <2>4
<1>10. ~J.hd[prev].free
  BY <1>9, <1>f, Zenon
<1>11. ToSet(J.freeList) = ToSet(H.freeList) \ ({b} \cup {prev})
  BY <1>0, <1>7 DEF Listed
<1>12. /\ Good(J) /\ Used(J) = (Used(H) \ {b}) \cup {prev} /\ \A c \in Used(J) \ {prev} : J.hd[c] = H.hd[c]
       /\ Frees(J) = Frees(H) \ ({b} \cup {prev})
  BY <1>7, <1>9, <1>10, <1>11, Kept
<1>13. Used(H) \ {b} \subseteq Used(J) \ {prev} /\ prev \notin Used(H)
  BY <1>1, <1>12 DEF Used
<1>14. Keeps(H, J, b)
  BY <1>9, <1>12, <1>13, IntactKeeps DEF Joins
<1>15. /\ Tiled(J) /\ Intact(H, J) /\ prev \in Placed(J)
  BY <1>9, <1>12 DEF Joins
<1>16. ASSUME NEW i \in Nat, 0 < i, i <= s
       PROVE  b + i \in Cells /\ J.data[b + i] = H.data[b + i] /\ prev + i \in Cells
  <2>1. b + i \in Cells /\ b < b + i /\ b + i < After(H, b)
    BY <1>0, <1>16, Inside DEF s
  <2>2. prev < b + i /\ b + i < After(J, prev)
    BY <1>0, <1>2, <1>9, <1>16, <2>1
  <2>3. b + i \notin Placed(J) /\ b + i # J.curr
    BY <1>15, <2>1, <2>2, Order
  <2>4. prev + i \in Cells
    BY <1>0, <1>2, <1>16, <2>1, CellsAreNat
  <2> QED BY <1>15, <2>1, <2>3, <2>4 DEF Intact
<1>17. /\ K \in HeapType /\ K.hd = J.hd /\ K.ft = J.ft /\ K.head = J.head /\ K.tail = J.tail
       /\ K.freeList = J.freeList /\ K.curr = J.curr /\ K.end = J.end
       /\ \A i \in Nat : 0 < i /\ i <= s /\ prev + i \in Cells => K.data[prev + i] = J.data[b + i]
       /\ \A c \in Cells : c <= prev \/ prev + s < c => K.data[c] = J.data[c]
  <2>1. prev \in Int /\ b \in Int /\ \A i \in Nat : 0 < i /\ i <= s => b + i \in Cells
    BY <1>0, <1>2, <1>16
  <2> QED BY <1>2, <1>4, <1>7, <2>1, CopyFields
<1>18. Good(K) /\ Used(K) = Used(J) /\ (Exact(J) => Exact(K))
  BY <1>12, <1>17, SameBlocks
<1>19. Keeps(H, K, b)
  <2>1. SUFFICES ASSUME NEW c \in Used(H) \ {b}
                 PROVE  /\ c \in Used(K) /\ K.hd[c] = H.hd[c]
                        /\ \A x \in Cells : c < x /\ x < After(H, c) => K.data[x] = H.data[x]
    BY DEF Keeps
  <2>2. c \in Used(J) /\ J.hd[c] = H.hd[c] /\ c \in Placed(H) /\ c # prev
    BY <1>13, <1>14 DEF Keeps, Used
  <2>3. ASSUME NEW x \in Cells, c < x, x < After(H, c) PROVE K.data[x] = H.data[x]
    <3>1. c \in Nat /\ After(H, c) \in Nat /\ x \in Nat
      BY <1>0, <2>2, Order, CellsAreNat
    <3>2. After(H, c) <= prev \/ b <= c
      BY <1>0, <1>2, <2>2, Order
    <3>3. b <= c => b < c /\ After(H, b) <= c
      BY <1>0, <2>1, <2>2, Order
    <3>4. x <= prev \/ prev + s < x
      <4>1. After(H, b) = b + 1 + s
        BY DEF After, s
      <4>2. CASE After(H, c) <= prev
        BY <1>2, <2>3, <3>1, <4>2
      <4>3. CASE b <= c
        <5>1. b + 1 + s <= c
          BY <3>3, <4>1, <4>3
        <5> QED BY <1>0, <1>2, <2>3, <3>1, <5>1
      <4> QED BY <3>2, <4>2, <4>3
    <3>5. K.data[x] = J.data[x]
      BY <1>17, <3>4
    <3> QED BY <1>14, <2>3, <3>5 DEF Keeps
  <2> QED BY <1>17, <1>18, <2>2, <2>3
<1>20. ASSUME NEW i \in Nat, 0 < i, i <= s PROVE K.data[prev + i] = H.data[b + i]
  BY <1>16, <1>17, <1>20
<1>21. ASSUME Exact(H) PROVE Exact(J)
  <2>1. H.tail = b => After(H, b) = H.curr
    BY <1>0, <1>21, CellsAreNat DEF Exact, NULL
  <2>2. H.tail # prev
    <3>1. H.tail = prev => b = H.curr
      BY <1>2, <1>21, CellsAreNat DEF Exact, NULL
    <3>2. b < After(H, b) /\ After(H, b) <= H.curr /\ H.curr \in Nat /\ After(H, b) \in Nat
      BY <1>0, Order
    <3> QED BY <1>0, <3>1, <3>2
  <2> QED BY <1>9, <1>12, <1>21, <2>1, <2>2, JoinedExact
<1>22. K.hd[prev].size >= n
  BY <1>1, <1>9, <1>17
<1>23. Reallocates(H, K, b, prev, n)
  BY <1>12, <1>13, <1>18, <1>19, <1>20, <1>22 DEF Reallocates, s
<1> QED BY <1>18, <1>21, <1>23 DEF prev

LEMMA ReallocMoves ==
  ASSUME NEW H, Good(H), NEW b \in Used(H), NEW n \in Nat, H.hd[b].size < n,
         NEW M, NEW p, Allocates(H, M, p, n), NEW K, K = Free(Copy(M, p, b, H.hd[b].size), b)
  PROVE  Reallocates(H, K, b, p, n) /\ (Exact(H) => Exact(K))
<1> DEFINE s == H.hd[b].size
           C == Copy(M, p, b, s)
<1>0. H \in HeapType /\ Tiled(H) /\ b \in Placed(H) /\ b \in Cells /\ b \in Nat /\ s \in Nat /\ s < n
  BY Order DEF Good, Used
<1>1. /\ Good(M) /\ p \in Used(M) /\ p \notin Used(H) /\ Used(M) = Used(H) \cup {p}
      /\ M.hd[p].size >= n /\ \A c \in Used(H) : M.hd[c] = H.hd[c]
      /\ Intact(H, M) /\ (Exact(H) => Exact(M))
  BY DEF Allocates
<1>2. /\ M \in HeapType /\ Tiled(M) /\ p \in Placed(M) /\ b \in Placed(M) /\ p \in Nat /\ p # b
      /\ After(M, b) = b + 1 + s /\ M.hd[b].size = s
      /\ M.hd[p].size \in Nat /\ After(M, p) = p + 1 + M.hd[p].size /\ After(M, p) \in Nat
  <2>1. Tiled(M) /\ M \in HeapType /\ p \in Placed(M) /\ b \in Placed(M) /\ p # b /\ M.hd[b] = H.hd[b]
    BY <1>1 DEF Good, Used
  <2> QED BY <2>1, Order DEF After
<1> HIDE DEF s
<1>3. ASSUME NEW i \in Nat, 0 < i, i <= s
      PROVE  b + i \in Cells /\ M.data[b + i] = H.data[b + i] /\ p + i \in Cells /\ p < p + i /\ p + i < After(M, p)
  <2>1. b + i \in Cells /\ b + i \notin Placed(M) /\ b + i # M.curr
    BY <1>2, <1>3, Inside
  <2>2. i <= M.hd[p].size
    BY <1>0, <1>1, <1>2, <1>3
  <2>3. p + i \in Cells /\ p < p + i /\ p + i < After(M, p)
    BY <1>2, <1>3, <2>2, Inside
  <2> QED BY <1>1, <2>1, <2>3 DEF Intact
<1>4. K = Free(C, b)
  BY DEF s
<1>5. /\ C \in HeapType /\ C.hd = M.hd /\ C.ft = M.ft /\ C.head = M.head /\ C.tail = M.tail
      /\ C.freeList = M.freeList /\ C.curr = M.curr /\ C.end = M.end
      /\ \A i \in Nat : 0 < i /\ i <= s /\ p + i \in Cells => C.data[p + i] = M.data[b + i]
      /\ \A c \in Cells : c <= p \/ p + s < c => C.data[c] = M.data[c]
  <2>1. p \in Int /\ b \in Int /\ s \in Nat /\ M \in HeapType /\ \A i \in Nat : 0 < i /\ i <= s => b + i \in Cells
    BY <1>0, <1>2, <1>3
  <2>2. C = Copy(M, p, b, s)
    OBVIOUS
  <2> HIDE DEF C
  <2> QED BY <2>1, <2>2, CopyFields, SMTT(40)
<1> HIDE DEF C
<1>6. /\ Good(C) /\ Used(C) = Used(M) /\ (Exact(M) => Exact(C)) /\ \A c : After(C, c) = After(M, c)
  BY <1>1, <1>5, SameBlocks
<1>7. /\ Good(K) /\ Used(K) = Used(C) \ {b} /\ \A c \in Used(K) : K.hd[c] = C.hd[c]
      /\ Intact(C, K) /\ (Exact(C) => Exact(K))
  <2>1. b \in Used(C)
    BY <1>1, <1>6
  <2> QED BY <1>4, <1>6, <2>1, FreeMakes
<1>8. Keeps(C, K, b)
  BY <1>7, IntactKeeps DEF Good
<1>9. Used(K) = (Used(H) \ {b}) \cup {p} /\ p \in Used(C) \ {b}
  BY <1>1, <1>2, <1>6, <1>7
<1>10. Keeps(H, K, b)
  <2>1. SUFFICES ASSUME NEW c \in Used(H) \ {b}
                 PROVE  /\ c \in Used(K) /\ K.hd[c] = H.hd[c]
                        /\ \A x \in Cells : c < x /\ x < After(H, c) => K.data[x] = H.data[x]
    BY DEF Keeps
  <2>2. /\ c \in Used(C) \ {b} /\ c \in Used(K) /\ K.hd[c] = H.hd[c] /\ c # p /\ c \in Placed(M)
        /\ After(C, c) = After(H, c) /\ After(M, c) = After(H, c)
    BY <1>1, <1>5, <1>6, <1>7, <1>9 DEF Used, After
  <2>3. ASSUME NEW x \in Cells, c < x, x < After(H, c) PROVE K.data[x] = H.data[x]
    <3>1. K.data[x] = C.data[x]
      BY <1>8, <2>2, <2>3 DEF Keeps
    <3>2. x \notin Placed(M) /\ x # M.curr
      BY <1>2, <2>2, <2>3, Order
    <3>3. x <= p \/ p + s < x
      <4>1. c \in Nat /\ After(M, c) \in Nat /\ x \in Nat /\ (After(M, c) <= p \/ After(M, p) <= c)
        BY <1>2, <2>2, Order, CellsAreNat
      <4>2. p + s < After(M, p)
        BY <1>0, <1>1, <1>2
      <4> QED BY <1>0, <1>2, <2>2, <2>3, <4>1, <4>2
    <3>4. C.data[x] = M.data[x] /\ M.data[x] = H.data[x]
      BY <1>1, <1>5, <3>2, <3>3 DEF Intact
    <3> QED BY <3>1, <3>4
  <2> QED BY <2>2, <2>3
<1>11. ASSUME NEW i \in Nat, 0 < i, i <= s PROVE K.data[p + i] = H.data[b + i]
  <2>1. C.data[p + i] = H.data[b + i]
    BY <1>3, <1>5, <1>11
  <2>2. K.data[p + i] = C.data[p + i]
    BY <1>3, <1>6, <1>8, <1>9, <1>11 DEF Keeps
  <2> QED BY <2>1, <2>2
<1>12. K.hd[p].size >= n
  BY <1>1, <1>5, <1>7, <1>9
<1>13. p \notin Used(H) \ {b} /\ p \in Used(K)
  BY <1>1, <1>9
<1>14. Reallocates(H, K, b, p, n)
  BY <1>7, <1>9, <1>10, <1>11, <1>12, <1>13 DEF Reallocates, s
<1> QED BY <1>1, <1>6, <1>7, <1>14

LEMMA ReallocGivesBack ==
  ASSUME NEW H, Good(H), NEW b \in Used(H), NEW n \in Nat, Splits(H, b, n), NEW K, K = SplitRest(H, b, n)
  PROVE  Reallocates(H, K, b, b, n) /\ (Exact(H) /\ After(H, b) # H.curr => Exact(K))
<1> DEFINE t == b + 1 + n
           next == After(H, b)
           gone == IF b # H.tail /\ next \in Frees(H) THEN {next} ELSE {}
<1>0. b \in Placed(H) /\ Tiled(H) /\ Ends(H) /\ Listed(H) /\ b \notin Frees(H) /\ H.hd[b].size \in Nat
  BY Order DEF Good, Used
<1>1. /\ K \in HeapType /\ Tiled(K)
      /\ IsInjective(K.freeList) /\ ToSet(K.freeList) = (ToSet(H.freeList) \ gone) \cup {t}
      /\ t \notin Placed(H) /\ Placed(K) = (Placed(H) \ gone) \cup {t} /\ b < t /\ t < next
      /\ K.hd[b].size = n /\ ~K.hd[b].free /\ K.hd[t].free
      /\ \A c \in Placed(K) \ {b, t} : K.hd[c] = H.hd[c]
      /\ K.tail = IF H.tail \in gone THEN t ELSE H.tail
      /\ K.head = H.head /\ K.curr = H.curr /\ K.end = H.end
      /\ Intact(H, K)
  <2>1. Halved(H, b, n, K, t, next, gone)
    BY DEF Halved
  <2> HIDE DEF t, next, gone
  <2> QED BY <1>0, <2>1, SplitRestMakes
<1>2. gone \subseteq Frees(H) /\ H.tail \in Placed(H) /\ H.curr > 0
  BY <1>0, PrevIs
<1> HIDE DEF t, next, gone
<1>3. Frees(K) = (Frees(H) \ gone) \cup {t}
  BY <1>0, <1>1, <1>2 DEF Frees
<1>4. Used(K) = Used(H) /\ b # t /\ t \notin Used(H)
  BY <1>0, <1>1, <1>2, <1>3 DEF Used
<1>5. Good(K)
  <2>1. Listed(K)
    BY <1>0, <1>1, <1>3 DEF Listed
  <2>2. K.tail \in Placed(K)
    BY <1>1, <1>2
  <2>3. Ends(K)
    BY <1>0, <1>1, <1>2, <2>2 DEF Ends
  <2> QED BY <1>1, <2>1, <2>3 DEF Good
<1>6. Keeps(H, K, b)
  <2>1. \A c \in Used(H) \ {b} : K.hd[c] = H.hd[c]
    BY <1>1, <1>4 DEF Used
  <2> QED BY <1>1, <1>4, <2>1, IntactKeeps
<1>7. ASSUME NEW i \in Nat, 0 < i, i <= n PROVE K.data[b + i] = H.data[b + i]
  <2>1. b \in Placed(K) /\ i <= K.hd[b].size
    BY <1>1, <1>4, <1>7 DEF Used
  <2>2. b + i \in Cells /\ b + i \notin Placed(K) /\ b + i # K.curr
    BY <1>1, <1>7, <2>1, Inside
  <2> QED BY <1>1, <2>2 DEF Intact
<1>8. ASSUME Exact(H), After(H, b) # H.curr PROVE Exact(K)
  <2>1. H.tail # b
    BY <1>0, <1>2, <1>8, CellsAreNat DEF Exact, NULL, Placed
  <2>2. K.tail # b /\ SameMemory(K, K)
    BY <1>1, <1>4, <2>1 DEF SameMemory
  <2>3. K.tail = IF K.tail = b THEN t ELSE K.tail
    BY <2>2
  <2> QED BY <1>0, <1>8, <2>1, <2>2, <2>3, SplitExact DEF t
<1>9. Reallocates(H, K, b, b, n)
  <2>1. Used(K) = (Used(H) \ {b}) \cup {b} /\ K.hd[b].size >= n /\ b \in Used(K)
    BY <1>1, <1>4
  <2> QED BY <1>5, <1>6, <1>7, <2>1 DEF Reallocates
<1> QED BY <1>8, <1>9

GivesBackLast(H, b, n) == H.hd[b].size >= n /\ Splits(H, b, n) /\ b + 1 + H.hd[b].size = H.curr

LEMMA ReallocMakes ==
  ASSUME NEW H, Good(H), NEW b \in Used(H), NEW n \in Nat, NEW r, r = Realloc(H, b, n)
  PROVE  \/ r.blk = NULL /\ r.heap = H
         \/ /\ r.blk # NULL /\ Reallocates(H, r.heap, b, r.blk, n)
            /\ Exact(H) /\ ~GivesBackLast(H, b, n) => Exact(r.heap)
<1>0. H \in HeapType /\ Tiled(H) /\ b \in Placed(H) /\ H.hd[b].size \in Nat
  BY Order DEF Good, Used
<1>1. SUFFICES \/ r.blk = NULL /\ r.heap = H
               \/ /\ Reallocates(H, r.heap, b, r.blk, n)
                  /\ Exact(H) /\ ~GivesBackLast(H, b, n) => Exact(r.heap)
  BY CellsAreNat DEF Reallocates, Used, Placed, NULL
<1>2. CASE H.hd[b].size < n
  <2>1. r = ReallocLarger(H, b, n)
    BY <1>2 DEF Realloc
  <2>2. CASE GrowsRight(H, b, n)
    <3>1. r.blk = b /\ GrowsInto(H, r.heap, b, GetNext(H, b))
      BY <2>1, <2>2 DEF ReallocLarger, GrowsInto
    <3> QED BY <2>2, <3>1, ReallocRight
  <2>3. CASE ~GrowsRight(H, b, n) /\ GrowsLeft(H, b, n)
    <3>1. r.blk = GetPrev(H, b) /\ GrowsBack(H, r.heap, b, GetPrev(H, b))
      BY <2>1, <2>3 DEF ReallocLarger, GrowsBack
    <3> QED BY <2>3, <3>1, ReallocLeft
  <2>4. CASE ~GrowsRight(H, b, n) /\ ~GrowsLeft(H, b, n) /\ Malloc(H, n).blk = NULL
    <3>1. r = Malloc(H, n)
      BY <2>1, <2>4 DEF ReallocLarger
    <3> QED BY <2>4, <3>1, MallocMakes
  <2>5. CASE ~GrowsRight(H, b, n) /\ ~GrowsLeft(H, b, n) /\ Malloc(H, n).blk # NULL
    <3> DEFINE m == Malloc(H, n)
    <3>1. r.blk = m.blk /\ r.heap = Free(Copy(m.heap, m.blk, b, H.hd[b].size), b)
      BY <2>1, <2>5 DEF ReallocLarger
    <3>2. Allocates(H, m.heap, m.blk, n)
      BY <2>5, MallocMakes
    <3> HIDE DEF m
    <3> QED BY <1>2, <3>1, <3>2, ReallocMoves
  <2> QED BY <2>2, <2>3, <2>4, <2>5
<1>3. CASE ~(H.hd[b].size < n)
  <2>1. r = ReallocSmaller(H, b, n)
    BY <1>3 DEF Realloc
  <2>2. CASE Splits(H, b, n)
    <3>1. r.blk = b /\ r.heap = SplitRest(H, b, n)
      BY <2>1, <2>2 DEF ReallocSmaller
    <3>2. GivesBackLast(H, b, n) <=> After(H, b) = H.curr
      BY <1>0, <1>3, <2>2 DEF GivesBackLast, After
    <3> QED BY <2>2, <3>1, <3>2, ReallocGivesBack
  <2>3. CASE ~Splits(H, b, n)
    <3>1. r.blk = b /\ r.heap = H
      BY <2>1, <2>3 DEF ReallocSmaller
    <3>2. Reallocates(H, H, b, b, n)
      BY <1>0, <1>3 DEF Reallocates, Keeps
    <3> QED BY <3>1, <3>2
  <2> QED BY <2>2, <2>3
<1> QED BY <1>2, <1>3

-----------------------------------------------------------------------------
(* The steps. *)

\* a caller's pointer lies in its block
Fitted(H, lv) ==
  /\ DOMAIN lv = Used(H)
  /\ \A b \in DOMAIN lv :
       /\ lv[b] \in [at : Nat, len : Nat \ {0}, aligned : BOOLEAN]
       /\ b < lv[b].at /\ lv[b].at + lv[b].len <= After(H, b)
       /\ ~lv[b].aligned => lv[b].at = b + 1
Filled(H, lv, b, kept) ==
  \A c \in Region(lv[b]) : c < lv[b].at + kept => H.data[c] = c - lv[b].at + 1

LEMMA HeldIs ==
  ASSUME NEW H, NEW lv
  PROVE  Held(H, lv) <=> Fitted(H, lv) /\ \A b \in DOMAIN lv : Filled(H, lv, b, lv[b].len)
<1>1. ASSUME Fitted(H, lv), NEW b \in DOMAIN lv, NEW c \in Region(lv[b])
      PROVE  c < lv[b].at + lv[b].len
  BY <1>1 DEF Fitted, Region
<1> QED BY <1>1 DEF Held, Fitted, Filled

\* the regions the callers hold are inside their blocks, and apart
LEMMA Apart ==
  ASSUME NEW H, Tiled(H), NEW lv, Fitted(H, lv), NEW b \in DOMAIN lv, NEW x \in Region(lv[b])
  PROVE  /\ x \in Cells /\ x \in Nat /\ b < x /\ x < After(H, b) /\ b \in Placed(H)
         /\ x \notin Placed(H) /\ x # H.curr
         /\ \A c \in DOMAIN lv \ {b} : x \notin Region(lv[c])
<1>1. ASSUME NEW c \in DOMAIN lv, NEW y \in Region(lv[c])
      PROVE  y \in Nat /\ c < y /\ y < After(H, c) /\ c \in Placed(H) /\ c \in Nat /\ After(H, c) \in Nat /\ After(H, c) \in Cells
  <2>1. c \in Placed(H) /\ c \in Nat /\ After(H, c) \in Nat /\ After(H, c) \in Cells
    BY <1>1, Order DEF Fitted, Used
  <2>2. /\ lv[c].at \in Nat /\ lv[c].len \in Nat /\ c < lv[c].at /\ lv[c].at + lv[c].len <= After(H, c)
        /\ y \in lv[c].at .. (lv[c].at + lv[c].len - 1)
    BY <1>1 DEF Fitted, Region
  <2> QED BY <2>1, <2>2
<1>2. x \in Cells
  BY <1>1, CellsAreNat
<1>3. ASSUME NEW c \in DOMAIN lv, c # b, x \in Region(lv[c]) PROVE FALSE
  <2>1. c < x /\ x < After(H, c) /\ b < x /\ x < After(H, b) /\ c \in Placed(H) /\ b \in Placed(H)
        /\ c \in Nat /\ b \in Nat /\ x \in Nat /\ After(H, c) \in Nat /\ After(H, b) \in Nat
    BY <1>1, <1>3
  <2>2. (c < b /\ After(H, c) <= b) \/ (b < c /\ After(H, b) <= c)
    BY <1>3, <2>1, Order
  <2> QED BY <2>1, <2>2
<1>4. x \in Nat /\ b < x /\ x < After(H, b) /\ b \in Placed(H)
  BY <1>1
<1>5. x \notin Placed(H) /\ x # H.curr
  BY <1>2, <1>4, Order
<1> QED BY <1>2, <1>3, <1>4, <1>5

\* the caller of b writes what it does not hold yet
LEMMA ReturnHolds ==
  ASSUME NEW H, Good(H), NEW lv, Fitted(H, lv), NEW b \in DOMAIN lv, NEW kept \in Nat,
         \A c \in DOMAIN lv \ {b} : Filled(H, lv, c, lv[c].len), Filled(H, lv, b, kept),
         Return(H, lv, b, kept)
  PROVE  Good(heap') /\ Held(heap', live') /\ (Exact(H) => Exact(heap')) /\ status' = status
<1> DEFINE fresh == (lv[b].at + kept) .. (lv[b].at + lv[b].len - 1)
           used  == UNION {Region(lv[c]) : c \in DOMAIN lv}
           data  == [c \in Cells |-> IF c \in fresh THEN c - lv[b].at + 1 ELSE IF c \in used THEN H.data[c] ELSE 0]
<1>0. H \in HeapType /\ Tiled(H) /\ lv[b].at \in Nat /\ lv[b].len \in Nat
  BY DEF Good, Fitted
<1>1. live' = lv /\ heap' = [H EXCEPT !.data = data] /\ status' = status
  BY DEF Return
<1>2. data \in [Cells -> Nat]
  <2>1. \A c \in fresh : c - lv[b].at + 1 \in Nat
    BY <1>0
  <2> HIDE DEF fresh, used
  <2> QED BY <1>0, <2>1 DEF HeapType
<1>3. fresh \subseteq Region(lv[b])
  BY <1>0 DEF Region
<1>4. ASSUME NEW c \in DOMAIN lv, NEW x \in Region(lv[c]) PROVE data[x] = x - lv[c].at + 1
  <2>1. x \in Cells /\ x \in used /\ x \in Nat
    BY <1>0, Apart
  <2>2. CASE x \in fresh
    <3>1. c = b
      BY <1>0, <1>3, <2>2, Apart
    <3> QED BY <2>1, <2>2, <3>1
  <2>3. CASE x \notin fresh
    <3>1. data[x] = H.data[x]
      BY <2>1, <2>3
    <3>2. CASE c = b
      <4>1. x < lv[b].at + kept
        BY <1>0, <2>3, <3>2 DEF Region
      <4> QED BY <3>1, <3>2, <4>1 DEF Filled
    <3>3. CASE c # b
      <4>1. x < lv[c].at + lv[c].len
        BY DEF Region, Fitted
      <4> QED BY <3>1, <3>3, <4>1 DEF Filled
    <3> QED BY <3>2, <3>3
  <2> QED BY <2>2, <2>3
<1> HIDE DEF data
<1>5. /\ heap' \in HeapType /\ heap'.data = data /\ heap'.hd = H.hd /\ heap'.ft = H.ft /\ heap'.head = H.head
      /\ heap'.tail = H.tail /\ heap'.freeList = H.freeList /\ heap'.curr = H.curr /\ heap'.end = H.end
  BY <1>0, <1>1, <1>2 DEF HeapType
<1>6. Good(heap') /\ Used(heap') = Used(H) /\ (Exact(H) => Exact(heap')) /\ \A c : After(heap', c) = After(H, c)
  BY <1>5, SameBlocks
<1>7. Held(heap', live')
  BY <1>1, <1>4, <1>5, <1>6 DEF Held, Fitted
<1> QED BY <1>1, <1>6, <1>7

LEMMA InitHolds == Init => IInv
<1> SUFFICES ASSUME Init PROVE IInv
  OBVIOUS
<1> USE DEF Init
<1>1. /\ heap.hd = [c \in Cells |-> Virgin] /\ heap.ft = [c \in Cells |-> NoTag] /\ heap.data = [c \in Cells |-> 0]
      /\ heap.head = NULL /\ heap.tail = NULL /\ heap.freeList = <<>> /\ heap.curr = 0 /\ heap.end = HeapInitial
  BY DEF EmptyHeap
<1>2. Placed(heap) = {} /\ Frees(heap) = {} /\ Used(heap) = {}
  BY <1>1 DEF Placed, Frees, Used
<1>3. HeapInitial \in Nat /\ HeapInitial <= HeapMax + PageUnits /\ HeapInitial \in 0 .. (HeapMax + PageUnits) /\ 0 \in Cells
  BY SizeAssumption, CellsAreNat
<1>4. heap \in HeapType
  <2>1. NULL \in Int /\ <<>> \in Seq(Cells)
    BY DEF NULL
  <2>2. [c \in Cells |-> Virgin] \in [Cells -> Header] /\ [c \in Cells |-> NoTag] \in [Cells -> Int]
    BY DEF Header, Virgin, NoTag
  <2>3. [c \in Cells |-> 0] \in [Cells -> Nat]
    OBVIOUS
  <2> QED BY <1>3, <2>1, <2>2, <2>3 DEF EmptyHeap, HeapType
<1>5. Tiled(heap)
  BY <1>1, <1>2, <1>3 DEF Tiled
<1>6. Ends(heap) /\ Listed(heap)
  BY <1>1, <1>2, <1>3 DEF Ends, Listed, IsInjective, ToSet
<1>7. Exact(heap)
  BY <1>1, <1>2 DEF Exact
<1>8. DOMAIN live = {} /\ Held(heap, live)
  BY <1>2 DEF Held
<1> QED BY <1>4, <1>5, <1>6, <1>7, <1>8 DEF IInv, Good

LEMMA HeldFits ==
  ASSUME IInv
  PROVE  /\ Good(heap) /\ Tiled(heap) /\ Fitted(heap, live) /\ \A b \in DOMAIN live : Filled(heap, live, b, live[b].len)
  BY HeldIs DEF IInv, Good

\* what a new block's caller may be given
LEMMA Fresh ==
  ASSUME IInv, NEW m \in Nat, NEW K, NEW p, Allocates(heap, K, p, m),
         NEW q \in [at : Nat, len : Nat \ {0}, aligned : BOOLEAN],
         p < q.at, q.at + q.len <= p + 1 + m, ~q.aligned => q.at = p + 1,
         Return(K, With(live, p, q), p, 0)
  PROVE  Good(heap') /\ Held(heap', live') /\ (Exact(heap) => Exact(heap')) /\ status' = status
<1> DEFINE lv == With(live, p, q)
<1>1. Good(heap) /\ Tiled(heap) /\ Fitted(heap, live) /\ \A b \in DOMAIN live : Filled(heap, live, b, live[b].len)
  BY HeldFits
<1>2. /\ Good(K) /\ p \in Used(K) /\ p \notin Used(heap) /\ Used(K) = Used(heap) \cup {p}
      /\ K.hd[p].size >= m /\ \A c \in Used(heap) : K.hd[c] = heap.hd[c]
      /\ Intact(heap, K) /\ (Exact(heap) => Exact(K))
  BY DEF Allocates
<1>3. Tiled(K) /\ p \in Placed(K) /\ p \in Nat /\ K.hd[p].size \in Nat
  BY <1>2, Order DEF Good, Used
<1>4. DOMAIN lv = Used(K) /\ lv[p] = q /\ \A c \in Used(heap) : lv[c] = live[c] /\ c # p
  BY <1>1, <1>2 DEF With, Fitted
<1> HIDE DEF lv
<1>5. \A c \in Used(heap) : After(K, c) = After(heap, c)
  BY <1>2 DEF After
<1>6. q.at + q.len <= After(K, p)
  BY <1>2, <1>3 DEF After
<1>7. Fitted(K, lv)
  BY <1>1, <1>2, <1>4, <1>5, <1>6 DEF Fitted
<1>8. ASSUME NEW c \in DOMAIN lv \ {p} PROVE Filled(K, lv, c, lv[c].len)
  <2>1. c \in Used(heap) /\ lv[c] = live[c] /\ c \in DOMAIN live
    BY <1>1, <1>2, <1>4 DEF Fitted
  <2>2. Keeps(heap, K, p)
    BY <1>2, <1>3, IntactKeeps
  <2>3. \A x \in Region(live[c]) : x \in Cells /\ c < x /\ x < After(heap, c)
    BY <1>1, <2>1, Apart
  <2>4. \A x \in Region(live[c]) : K.data[x] = heap.data[x]
    BY <1>2, <2>1, <2>2, <2>3 DEF Keeps
  <2> QED BY <1>1, <2>1, <2>4 DEF Filled
<1>9. Filled(K, lv, p, 0)
  BY <1>4 DEF Filled, Region
<1>10. Return(K, lv, p, 0) /\ p \in DOMAIN lv
  BY <1>2, <1>4 DEF lv
<1> QED BY <1>2, <1>7, <1>8, <1>9, <1>10, ReturnHolds

LEMMA KMallocHolds == ASSUME IInv, NEW n \in Sizes, KMalloc(n) PROVE IInv'
<1> DEFINE r == Malloc(heap, n)
           q == Plain(r.blk, n)
<1>1. status = "ok" /\ n > 0 /\ n \in Nat /\ r.blk # NULL /\ Return(r.heap, With(live, r.blk, q), r.blk, 0) /\ shrunk' = shrunk
  BY SizeAssumption DEF KMalloc
<1>2. Good(heap) /\ shrunk \in BOOLEAN /\ (~shrunk => Exact(heap))
  BY DEF IInv
<1>3. Allocates(heap, r.heap, r.blk, n)
  <2> HIDE DEF r
  <2>1. r = Malloc(heap, n)
    BY DEF r
  <2> QED BY <1>1, <1>2, <2>1, MallocMakes
<1> HIDE DEF r
<1>4. r.blk \in Nat
  BY <1>3, CellsAreNat DEF Allocates, Used, Placed
<1>5. /\ q \in [at : Nat, len : Nat \ {0}, aligned : BOOLEAN]
      /\ r.blk < q.at /\ q.at + q.len <= r.blk + 1 + n /\ (~q.aligned => q.at = r.blk + 1)
  BY <1>1, <1>4 DEF Plain
<1> HIDE DEF q
<1>6. Good(heap') /\ Held(heap', live') /\ (Exact(heap) => Exact(heap')) /\ status' = status
  BY <1>1, <1>3, <1>5, Fresh
<1> QED BY <1>1, <1>2, <1>6 DEF IInv

\* the next page boundary, and the n units from 4 bytes before it, are in a block of n units and a page
LEMMA PageFits ==
  ASSUME NEW b \in Nat, NEW n \in Nat, n > 0
  PROVE  /\ PageAligned(b, n) \in [at : Nat, len : Nat \ {0}, aligned : BOOLEAN] /\ PageAligned(b, n).aligned
         /\ b < PageAligned(b, n).at /\ PageAligned(b, n).at + PageAligned(b, n).len <= b + 1 + (n + PageUnits)
<1>1. PageUnits \in Nat /\ PageUnits > 0
  BY SizeAssumption
<1>2. PICK d \in Int : d = b \div PageUnits
  BY <1>1
<1>3. d \in Nat /\ d * PageUnits <= b /\ b < d * PageUnits + PageUnits
  BY <1>1, <1>2
<1>4. PICK y \in Int : y = d * PageUnits
  BY <1>1, <1>2
<1>5. (d + 1) * PageUnits = y + PageUnits
  BY <1>1, <1>2, <1>4
<1>6. PageAligned(b, n) = [at |-> y + PageUnits, len |-> n + 1, aligned |-> TRUE]
  BY <1>2, <1>5 DEF PageAligned
<1>7. y + PageUnits \in Nat /\ y <= b /\ b < y + PageUnits
  BY <1>1, <1>3, <1>4
<1> QED BY <1>1, <1>6, <1>7

LEMMA KMallocAHolds == ASSUME IInv, NEW n \in Sizes, KMallocA(n) PROVE IInv'
<1> DEFINE r == Malloc(heap, n + PageUnits)
           q == PageAligned(r.blk, n)
<1>1. status = "ok" /\ n > 0 /\ n \in Nat /\ r.blk # NULL /\ Return(r.heap, With(live, r.blk, q), r.blk, 0) /\ shrunk' = shrunk
  BY SizeAssumption DEF KMallocA
<1>2. Good(heap) /\ shrunk \in BOOLEAN /\ (~shrunk => Exact(heap))
  BY DEF IInv
<1>3. PICK m \in Nat : m = n + PageUnits
  BY <1>1, SizeAssumption
<1>4. Allocates(heap, r.heap, r.blk, m)
  <2>1. r = Malloc(heap, m)
    BY <1>3
  <2> HIDE DEF r
  <2> QED BY <1>1, <1>2, <2>1, MallocMakes
<1> HIDE DEF r
<1>5. r.blk \in Nat
  BY <1>4, CellsAreNat DEF Allocates, Used, Placed
<1>6. /\ q \in [at : Nat, len : Nat \ {0}, aligned : BOOLEAN] /\ q.aligned
      /\ r.blk < q.at /\ q.at + q.len <= r.blk + 1 + m
  BY <1>1, <1>3, <1>5, PageFits
<1> HIDE DEF q
<1>7. Good(heap') /\ Held(heap', live') /\ (Exact(heap) => Exact(heap')) /\ status' = status
  BY <1>1, <1>4, <1>6, Fresh
<1> QED BY <1>1, <1>2, <1>7 DEF IInv

LEMMA KFreeHolds == ASSUME IInv, NEW b \in DOMAIN live, KFree(b) PROVE IInv'
<1> DEFINE F == Free(heap, b)
           data == [c \in Cells |-> IF c \in Region(live[b]) THEN 0 ELSE F.data[c]]
<1>1. status = "ok" /\ heap' = [F EXCEPT !.data = data] /\ live' = Without(live, b) /\ shrunk' = shrunk /\ status' = status
  BY DEF KFree
<1>2. Good(heap) /\ Tiled(heap) /\ Fitted(heap, live) /\ \A c \in DOMAIN live : Filled(heap, live, c, live[c].len)
  BY HeldFits
<1>3. DOMAIN live = Used(heap) /\ b \in Used(heap)
  BY <1>2 DEF Fitted
<1>4. /\ Good(F) /\ Used(F) = Used(heap) \ {b} /\ \A c \in Used(F) : F.hd[c] = heap.hd[c]
      /\ Intact(heap, F) /\ (Exact(heap) => Exact(F))
  <2>1. F = Free(heap, b)
    OBVIOUS
  <2> HIDE DEF F
  <2> QED BY <1>2, <1>3, <2>1, FreeMakes
<1> HIDE DEF F
<1>5. data \in [Cells -> Nat] /\ F \in HeapType /\ Tiled(F)
  BY <1>4 DEF Good, HeapType
<1>6. Keeps(heap, F, b)
  BY <1>4, <1>5, IntactKeeps
<1>7. ASSUME NEW c \in DOMAIN live \ {b}, NEW x \in Region(live[c]) PROVE data[x] = x - live[c].at + 1
  <2>1. x \in Cells /\ c < x /\ x < After(heap, c) /\ x \notin Region(live[b])
    BY <1>2, <1>7, Apart
  <2>2. data[x] = F.data[x] /\ F.data[x] = heap.data[x]
    BY <1>3, <1>6, <2>1 DEF Keeps
  <2>3. x < live[c].at + live[c].len
    BY <1>2 DEF Region, Fitted
  <2> QED BY <1>2, <2>2, <2>3 DEF Filled
<1> HIDE DEF data
<1>8. /\ heap' \in HeapType /\ heap'.data = data /\ heap'.hd = F.hd /\ heap'.ft = F.ft /\ heap'.head = F.head
      /\ heap'.tail = F.tail /\ heap'.freeList = F.freeList /\ heap'.curr = F.curr /\ heap'.end = F.end
  BY <1>1, <1>5 DEF HeapType
<1>9. Good(heap') /\ Used(heap') = Used(F) /\ (Exact(F) => Exact(heap')) /\ \A c : After(heap', c) = After(F, c)
  BY <1>4, <1>8, SameBlocks
<1>10. DOMAIN live' = Used(heap') /\ \A c \in DOMAIN live' : live'[c] = live[c] /\ c \in DOMAIN live \ {b} /\ After(heap', c) = After(heap, c)
  BY <1>1, <1>3, <1>4, <1>9 DEF Without, After
<1>11. Held(heap', live')
  BY <1>2, <1>7, <1>8, <1>10 DEF Held, Fitted
<1> QED BY <1>1, <1>4, <1>9, <1>11 DEF IInv

LEMMA KReallocHolds == ASSUME IInv, NEW b \in DOMAIN live, NEW n \in Sizes, KRealloc(b, n) PROVE IInv'
<1> DEFINE r == Realloc(heap, b, n)
           K == r.heap
           p == r.blk
           q == Plain(p, n)
           lv == With(Without(live, b), p, q)
           kept == IF live[b].len < n THEN live[b].len ELSE n
<1>1. /\ status = "ok" /\ n > 0 /\ n \in Nat /\ ~live[b].aligned /\ p # NULL /\ Return(K, lv, p, kept)
      /\ shrunk' = (shrunk \/ GivesBackLast(heap, b, n))
  BY SizeAssumption DEF KRealloc, GivesBackLast
<1>2. Good(heap) /\ Tiled(heap) /\ Fitted(heap, live) /\ \A c \in DOMAIN live : Filled(heap, live, c, live[c].len)
  BY HeldFits
<1>3. DOMAIN live = Used(heap) /\ b \in Used(heap) /\ b \in Placed(heap) /\ b \in Nat
      /\ live[b].at = b + 1 /\ live[b].len \in Nat /\ live[b].len <= heap.hd[b].size /\ heap.hd[b].size \in Nat
  <2>1. DOMAIN live = Used(heap) /\ b \in Used(heap) /\ b \in Placed(heap)
    BY <1>2 DEF Fitted, Used
  <2>2. b \in Nat /\ heap.hd[b].size \in Nat /\ After(heap, b) = b + 1 + heap.hd[b].size
    BY <1>2, <2>1, Order DEF After
  <2>3. live[b].at = b + 1 /\ live[b].len \in Nat /\ live[b].at + live[b].len <= After(heap, b)
    BY <1>1, <1>2 DEF Fitted
  <2> QED BY <2>1, <2>2, <2>3
<1>4. Reallocates(heap, K, b, p, n) /\ (Exact(heap) /\ ~GivesBackLast(heap, b, n) => Exact(K))
  <2>1. r = Realloc(heap, b, n)
    OBVIOUS
  <2> HIDE DEF r
  <2> QED BY <1>1, <1>2, <1>3, <2>1, ReallocMakes
<1>5. /\ Good(K) /\ p \in Used(K) /\ p \notin Used(heap) \ {b} /\ Used(K) = (Used(heap) \ {b}) \cup {p}
      /\ K.hd[p].size >= n /\ Keeps(heap, K, b)
      /\ \A i \in Nat : 0 < i /\ i <= n /\ i <= heap.hd[b].size => K.data[p + i] = heap.data[b + i]
  BY <1>4 DEF Reallocates
<1> HIDE DEF r, K, p
<1>6. Tiled(K) /\ p \in Nat /\ K.hd[p].size \in Nat /\ After(K, p) = p + 1 + K.hd[p].size
  BY <1>5, Order DEF Good, Used, After
<1>7. q \in [at : Nat, len : Nat \ {0}, aligned : BOOLEAN] /\ q.at = p + 1 /\ q.len = n
  BY <1>1, <1>6 DEF Plain
<1> HIDE DEF q
<1>8. DOMAIN lv = Used(K) /\ lv[p] = q
      /\ \A c \in Used(K) \ {p} : lv[c] = live[c] /\ c \in DOMAIN live \ {b} /\ c \in Used(heap) \ {b} /\ After(K, c) = After(heap, c)
  BY <1>3, <1>5 DEF With, Without, Keeps, After
<1> HIDE DEF lv
<1>9. Fitted(K, lv)
  <2>1. p < q.at /\ q.at + q.len <= After(K, p)
    BY <1>1, <1>5, <1>6, <1>7
  <2> QED BY <1>2, <1>7, <1>8, <2>1 DEF Fitted
<1>10. ASSUME NEW c \in DOMAIN lv \ {p} PROVE Filled(K, lv, c, lv[c].len)
  <2>1. \A x \in Region(live[c]) : x \in Cells /\ c < x /\ x < After(heap, c)
    BY <1>2, <1>8, <1>10, Apart
  <2>2. \A x \in Region(live[c]) : K.data[x] = heap.data[x]
    BY <1>5, <1>8, <1>10, <2>1 DEF Keeps
  <2> QED BY <1>2, <1>8, <1>10, <2>2 DEF Filled
<1>11. kept \in Nat /\ kept <= n /\ kept <= live[b].len
  BY <1>1, <1>3
<1> HIDE DEF kept
<1>12. Filled(K, lv, p, kept)
  <2>1. SUFFICES ASSUME NEW x \in Region(q), x < q.at + kept PROVE K.data[x] = x - q.at + 1
    BY <1>8 DEF Filled
  <2>2. PICK i \in Nat : x = p + i /\ 0 < i /\ i <= kept
    <3>1. x - p \in Nat /\ x = p + (x - p) /\ 0 < x - p /\ x - p <= kept
      BY <1>6, <1>7, <1>11, <2>1 DEF Region
    <3> QED BY <3>1
  <2>3. K.data[x] = heap.data[b + i]
    BY <1>1, <1>3, <1>5, <1>11, <2>2
  <2>4. b + i \in Region(live[b]) /\ b + i < live[b].at + live[b].len
    BY <1>3, <1>11, <2>2 DEF Region
  <2>5. heap.data[b + i] = (b + i) - live[b].at + 1
    BY <1>2, <2>4 DEF Filled
  <2> QED BY <1>3, <1>6, <1>7, <2>2, <2>3, <2>5
<1>13. p \in DOMAIN lv
  BY <1>5, <1>8
<1>14. Good(heap') /\ Held(heap', live') /\ (Exact(K) => Exact(heap')) /\ status' = status
  BY <1>1, <1>5, <1>9, <1>10, <1>11, <1>12, <1>13, ReturnHolds
<1>15. shrunk' \in BOOLEAN /\ (~shrunk' => Exact(heap'))
  BY <1>1, <1>4, <1>14 DEF IInv
<1> QED BY <1>1, <1>14, <1>15 DEF IInv

\* while no end was given back, the block after a placed one is placed or there is none
LEMMA NothingPast ==
  ASSUME NEW H, Good(H), Exact(H), NEW b \in Placed(H)
  PROVE  ~PastLast(H, b)
<1>1. Tiled(H) /\ Ends(H) /\ H.tail \in Placed(H) /\ H.tail # NULL /\ After(H, H.tail) = H.curr
  <2>1. Tiled(H) /\ Ends(H)
    BY DEF Good
  <2>2. H.tail \in Placed(H)
    BY <2>1, PrevIs
  <2> QED BY <2>1, <2>2, CellsAreNat DEF Exact, NULL, Placed
<1>2. CASE b = H.tail
  BY <1>2 DEF PastLast, GetNext
<1>3. CASE b # H.tail
  <2>1. GetNext(H, b) = After(H, b)
    BY <1>3 DEF GetNext, After
  <2>2. After(H, b) # H.curr
    <3>1. (H.tail < b /\ H.curr <= b) \/ (b < H.tail /\ After(H, b) <= H.tail)
      BY <1>1, <1>3, Order
    <3>2. b < H.curr /\ H.tail < H.curr /\ b \in Nat /\ H.tail \in Nat /\ H.curr \in Nat
      <4>1. b \in Nat /\ b < After(H, b) /\ After(H, b) <= H.curr /\ After(H, b) \in Nat /\ H.curr \in Nat
        BY <1>1, Order
      <4>2. H.tail \in Nat /\ H.tail < H.curr
        BY <1>1, Order
      <4> QED BY <4>1, <4>2
    <3> QED BY <3>1, <3>2
  <2>3. After(H, b) \in Placed(H)
    BY <1>1, <2>2 DEF Tiled
  <2> QED BY <2>1, <2>3 DEF PastLast, Placed
<1> QED BY <1>2, <1>3

LEMMA MallocSafe ==
  ASSUME NEW H, Good(H), Exact(H), NEW n \in Nat
  PROVE  ~MallocReadsPast(H, n)
<1>1. H \in HeapType /\ ToSet(H.freeList) = Frees(H)
  BY DEF Good, Listed
<1>2. BestFit(H, n) # NULL => BestFit(H, n) \in Placed(H)
  BY <1>1, BestFits DEF Frees
<1> QED BY <1>2, NothingPast DEF MallocReadsPast

LEMMA ReadsPastHolds == ASSUME IInv, ReadsPast PROVE IInv'
<1>1. Good(heap) /\ DOMAIN live \subseteq Placed(heap) /\ UNCHANGED <<heap, live, shrunk>>
  BY DEF IInv, Held, Used, ReadsPast, Stops
<1>2. ASSUME ~shrunk PROVE FALSE
  <2>1. Exact(heap)
    BY <1>2 DEF IInv
  <2>2. \A n \in Nat : ~MallocReadsPast(heap, n)
    BY <1>1, <2>1, MallocSafe
  <2>3. \A b \in DOMAIN live : ~PastLast(heap, b)
    BY <1>1, <2>1, NothingPast
  <2>4. \A n \in Sizes : n \in Nat /\ n + PageUnits \in Nat
    BY SizeAssumption
  <2>5. \A b \in DOMAIN live, n \in Sizes : ~ReallocReadsPast(heap, b, n)
    BY <2>2, <2>3, <2>4 DEF ReallocReadsPast
  <2> QED BY <2>2, <2>3, <2>4, <2>5 DEF ReadsPast
<1> QED BY <1>1, <1>2 DEF IInv, Good, Held, Exact

LEMMA NextHolds == IInv /\ [Next]_vars => IInv'
<1> SUFFICES ASSUME IInv, [Next]_vars PROVE IInv'
  OBVIOUS
<1>1. ASSUME NEW n \in Sizes, KMalloc(n) PROVE IInv'
  BY <1>1, KMallocHolds
<1>2. ASSUME NEW n \in Sizes, KMallocA(n) PROVE IInv'
  BY <1>2, KMallocAHolds
<1>3. ASSUME NEW b \in DOMAIN live, KFree(b) PROVE IInv'
  BY <1>3, KFreeHolds
<1>4. ASSUME NEW b \in DOMAIN live, KReallocZero(b) PROVE IInv'
  BY <1>4, KFreeHolds DEF KReallocZero
<1>5. ASSUME NEW b \in DOMAIN live, NEW n \in Sizes, KRealloc(b, n) PROVE IInv'
  BY <1>5, KReallocHolds
<1>6. CASE OutOfSpace
  <2>1. status' = "panic" /\ UNCHANGED <<heap, live, shrunk>>
    BY <1>6 DEF OutOfSpace, Stops
  <2> QED BY <2>1 DEF IInv, Good, Held, Exact
<1>7. CASE ReadsPast
  BY <1>7, ReadsPastHolds
<1>8. CASE UNCHANGED vars
  BY <1>8 DEF vars, IInv, Good, Held, Exact
<1> QED BY <1>1, <1>2, <1>3, <1>4, <1>5, <1>6, <1>7, <1>8 DEF Next

\* The inductive invariant: the heap's blocks tile it, its two ends, its free list
\* and its callers' pointers agree with them, and nothing was read past the last
\* block while realloc has not given back its end.
THEOREM HeapInvariant == Spec => []IInv
<1>1. Init => IInv
  BY InitHolds
<1>2. IInv /\ [Next]_vars => IInv'
  BY NextHolds
<1> QED BY <1>1, <1>2, PTL DEF Spec

\* The blocks tile the heap from its start to heap_curr, each with the trailing
\* size getPrevBlock reads, whatever was split, merged, moved or copied.
THEOREM HeapTiles == Spec => []Tiling
<1>1. IInv => Tiling
  <2> SUFFICES ASSUME IInv PROVE Tiling
    OBVIOUS
  <2>1. Tiled(heap) /\ Ends(heap) /\ Blocks = Placed(heap)
    BY DEF IInv, Good, Blocks, Placed
  <2>2. heap.curr > 0 => heap.head = 0 /\ 0 \in Blocks
    <3>1. heap.curr \in Nat
      BY <2>1, CellsAreNat DEF Tiled
    <3> QED BY <2>1, <3>1 DEF Tiled, Ends
  <2> QED BY <2>1, <2>2 DEF Tiling, Tiled, After
<1> QED BY <1>1, HeapInvariant, PTL

\* The free list names each free block once and nothing else, no block is lost or
\* both free and held, and neighbours are merged until realloc gives back the end
\* of the last block.
THEOREM FreeListIsExact == Spec => []FreeListExact
<1>1. IInv => FreeListExact
  <2> SUFFICES ASSUME IInv PROVE FreeListExact
    OBVIOUS
  <2>1. Listed(heap) /\ Blocks = Placed(heap) /\ FreeBlocks = Frees(heap) /\ DOMAIN live = Used(heap)
    BY DEF IInv, Good, Held, Blocks, FreeBlocks, Placed, Frees
  <2>2. ~shrunk => NoAdjacentFree
    BY <2>1 DEF IInv, Exact, NoAdjacentFree, After
  <2> QED BY <2>1, <2>2 DEF FreeListExact, Listed, Used
<1> QED BY <1>1, HeapInvariant, PTL

\* Until realloc gives back the end of the last block, the tail is the last block
\* and no call takes the bytes past it for a header.
THEOREM HeapNeverWild == Spec => []NeverWild
<1>1. IInv => NeverWild
  BY DEF IInv, Exact, NeverWild, TailIsLast, After
<1> QED BY <1>1, HeapInvariant, PTL

-----------------------------------------------------------------------------
(* The heap implements the allocator. *)

Own(H, lv) ==
  [a \in {lv[b].at : b \in DOMAIN lv} |->
     LET p == lv[CHOOSE b \in DOMAIN lv : lv[b].at = a]
     IN [i \in 1 .. p.len |-> H.data[a + i - 1]]]
Pattern(n) == [i \in 1 .. n |-> i]

LEMMA OwnIs ==
  ASSUME NEW H, Good(H), NEW lv, Held(H, lv)
  PROVE  /\ DOMAIN Own(H, lv) = {lv[b].at : b \in DOMAIN lv}
         /\ \A b \in DOMAIN lv : Own(H, lv)[lv[b].at] = Pattern(lv[b].len) /\ lv[b].len \in Nat \ {0}
         /\ \A b, c \in DOMAIN lv : lv[b].at = lv[c].at => b = c
<1>1. Tiled(H) /\ Fitted(H, lv)
  BY HeldIs DEF Good
<1>2. \A b \in DOMAIN lv : lv[b].at \in Nat /\ lv[b].len \in Nat \ {0} /\ lv[b].at \in Region(lv[b])
  <2>1. SUFFICES ASSUME NEW b \in DOMAIN lv
                 PROVE  lv[b].at \in Nat /\ lv[b].len \in Nat \ {0} /\ lv[b].at \in Region(lv[b])
    OBVIOUS
  <2>2. lv[b].at \in Nat /\ lv[b].len \in Nat \ {0}
    BY <1>1 DEF Fitted
  <2> QED BY <2>2 DEF Region
<1>3. ASSUME NEW b \in DOMAIN lv, NEW c \in DOMAIN lv, lv[b].at = lv[c].at, b # c PROVE FALSE
  <2>1. lv[b].at \in Region(lv[b]) /\ lv[b].at \in Region(lv[c])
    BY <1>2, <1>3
  <2> QED BY <1>1, <1>3, <2>1, Apart
<1>4. ASSUME NEW b \in DOMAIN lv PROVE Own(H, lv)[lv[b].at] = Pattern(lv[b].len)
  <2> DEFINE a == lv[b].at
             d == CHOOSE d \in DOMAIN lv : lv[d].at = a
  <2>1. d \in DOMAIN lv /\ lv[d].at = a
    OBVIOUS
  <2>2. d = b
    BY <1>3, <2>1
  <2>3. Own(H, lv)[a] = [i \in 1 .. lv[d].len |-> H.data[a + i - 1]]
    BY DEF Own
  <2>4. Own(H, lv)[a] = [i \in 1 .. lv[b].len |-> H.data[a + i - 1]]
    BY <2>2, <2>3
  <2>5. \A i \in 1 .. lv[b].len : H.data[a + i - 1] = i
    <3>1. SUFFICES ASSUME NEW i \in 1 .. lv[b].len PROVE H.data[a + i - 1] = i
      OBVIOUS
    <3>2. lv[b].at \in Nat /\ lv[b].len \in Nat
      BY <1>2
    <3>3. PICK x \in Nat : x = a + i - 1
      BY <3>2
    <3>4. x \in Region(lv[b]) /\ x - lv[b].at + 1 = i
      BY <3>2, <3>3 DEF Region
    <3>5. H.data[x] = i
      BY <3>4 DEF Held
    <3> QED BY <3>3, <3>5
  <2> QED BY <2>4, <2>5 DEF Pattern
<1>5. DOMAIN Own(H, lv) = {lv[b].at : b \in DOMAIN lv}
  BY DEF Own
<1> QED BY <1>2, <1>3, <1>4, <1>5

\* some callers keep what they hold, and at most one is given a region
LEMMA OwnHolds ==
  ASSUME NEW H, Good(H), NEW lv, Held(H, lv), NEW K, Good(K), NEW lw, Held(K, lw),
         NEW B \in SUBSET DOMAIN lv, NEW p, p \notin B, DOMAIN lw = B \cup {p}, \A c \in B : lw[c] = lv[c]
  PROVE  /\ Own(K, lw) = [x \in {lv[c].at : c \in B} \cup {lw[p].at} |->
                            IF x = lw[p].at THEN Pattern(lw[p].len) ELSE Own(H, lv)[x]]
         /\ Region(lw[p]) \subseteq Cells /\ \A c \in B : Region(lw[p]) \cap Region(lv[c]) = {}
         /\ lw[p].at \in Cells /\ lw[p].len \in 1 .. (HeapMax + PageUnits)
<1>1. Tiled(K) /\ Fitted(K, lw)
  BY HeldIs DEF Good
<1>2. /\ DOMAIN Own(K, lw) = {lw[b].at : b \in DOMAIN lw}
      /\ \A b \in DOMAIN lw : Own(K, lw)[lw[b].at] = Pattern(lw[b].len) /\ lw[b].len \in Nat \ {0}
      /\ \A b, c \in DOMAIN lw : lw[b].at = lw[c].at => b = c
  BY OwnIs
<1>3. /\ DOMAIN Own(H, lv) = {lv[b].at : b \in DOMAIN lv}
      /\ \A b \in DOMAIN lv : Own(H, lv)[lv[b].at] = Pattern(lv[b].len) /\ lv[b].len \in Nat \ {0}
      /\ \A b, c \in DOMAIN lv : lv[b].at = lv[c].at => b = c
  BY OwnIs
<1>4. Own(K, lw) = [x \in {lv[c].at : c \in B} \cup {lw[p].at} |->
                      IF x = lw[p].at THEN Pattern(lw[p].len) ELSE Own(H, lv)[x]]
  <2> DEFINE F == [x \in {lv[c].at : c \in B} \cup {lw[p].at} |->
                     IF x = lw[p].at THEN Pattern(lw[p].len) ELSE Own(H, lv)[x]]
  <2>1. DOMAIN Own(K, lw) = {lv[c].at : c \in B} \cup {lw[p].at}
    BY <1>2
  <2>2. ASSUME NEW x \in DOMAIN Own(K, lw) PROVE Own(K, lw)[x] = F[x]
    <3>1. PICK b \in DOMAIN lw : x = lw[b].at
      BY <1>2, <2>2
    <3>2. CASE b = p
      BY <1>2, <2>1, <3>1, <3>2
    <3>3. CASE b # p
      <4>1. b \in B /\ lw[b] = lv[b] /\ x # lw[p].at
        BY <1>2, <3>1, <3>3
      <4>2. F[x] = Own(H, lv)[x]
        BY <2>1, <2>2, <4>1
      <4> QED BY <1>2, <1>3, <3>1, <4>1, <4>2
    <3> QED BY <3>2, <3>3
  <2>3. Own(K, lw) = [x \in DOMAIN Own(K, lw) |-> Own(K, lw)[x]]
    BY DEF Own
  <2> QED BY <2>1, <2>2, <2>3
<1>5. Region(lw[p]) \subseteq Cells /\ \A c \in B : Region(lw[p]) \cap Region(lv[c]) = {}
  BY <1>1, Apart
<1>6. lw[p].at \in Cells /\ lw[p].len \in 1 .. (HeapMax + PageUnits)
  <2>1. lw[p].at \in Nat /\ lw[p].len \in Nat \ {0} /\ lw[p].at + lw[p].len <= After(K, p) /\ p \in Placed(K)
    BY <1>1 DEF Fitted, Used
  <2>2. lw[p].at \in Region(lw[p])
    BY <2>1 DEF Region
  <2>3. After(K, p) \in Cells
    BY <1>1, <2>1, Order
  <2> QED BY <1>5, <2>1, <2>2, <2>3, CellsAreNat
<1> QED BY <1>4, <1>5, <1>6

P == INSTANCE AllocatorProofs WITH
  Cells <- Cells, Lengths <- 1 .. (HeapMax + PageUnits), owned <- Owned

\* a kept prefix of a pattern, and the rest filled in, is the pattern
LEMMA PatternRefilled ==
  ASSUME NEW l \in Nat, NEW n \in Nat,
         NEW kept, kept = SubSeq(Pattern(l), 1, IF n < l THEN n ELSE l)
  PROVE  kept \o [i \in 1 .. n - Len(kept) |-> Len(kept) + i] = Pattern(n) /\ Len(Pattern(l)) = l
<1>1. \A m : Pattern(m) = P!Filled(m)
  BY DEF Pattern, P!Filled
<1>2. kept \o [i \in 1 .. n - Len(kept) |-> Len(kept) + i] = P!Filled(n)
  BY <1>1, P!Refilled, ZenonT(60)
<1>3. Len(P!Filled(l)) = l
  BY P!FilledSeq
<1> QED BY <1>1, <1>2, <1>3

LEMMA OwnedIs ==
  ASSUME IInv
  PROVE  /\ DOMAIN Owned = {live[b].at : b \in DOMAIN live}
         /\ \A b \in DOMAIN live : Owned[live[b].at] = Pattern(live[b].len) /\ live[b].len \in Nat \ {0}
         /\ \A b, c \in DOMAIN live : live[b].at = live[c].at => b = c
<1>1. Good(heap) /\ Held(heap, live) /\ Owned = Own(heap, live)
  BY DEF IInv, Owned, Own
<1>2. /\ DOMAIN Own(heap, live) = {live[b].at : b \in DOMAIN live}
      /\ \A b \in DOMAIN live : Own(heap, live)[live[b].at] = Pattern(live[b].len) /\ live[b].len \in Nat \ {0}
      /\ \A b, c \in DOMAIN live : live[b].at = live[c].at => b = c
  BY <1>1, OwnIs
<1> QED BY <1>1, <1>2

\* the rooms the allocator's operations need
LEMMA RoomIs ==
  ASSUME IInv, IInv', NEW B \in SUBSET DOMAIN live, NEW p, p \notin B, DOMAIN live' = B \cup {p},
         \A c \in B : live'[c] = live[c]
  PROVE  /\ Promise!Room(live'[p].at, live'[p].len, {live[c].at : c \in B})
         /\ Owned' = Promise!Holding({live[c].at : c \in B}, live'[p].at, Pattern(live'[p].len))
         /\ live'[p].at \in Cells /\ live'[p].len \in 1 .. (HeapMax + PageUnits)
<1>1. Good(heap) /\ Held(heap, live) /\ Good(heap') /\ Held(heap', live')
  BY DEF IInv, Good, Held
<1>2. Owned = Own(heap, live) /\ Owned' = Own(heap', live')
  BY DEF Owned, Own
<1>3. /\ Own(heap', live') = [x \in {live[c].at : c \in B} \cup {live'[p].at} |->
                              IF x = live'[p].at THEN Pattern(live'[p].len) ELSE Own(heap, live)[x]]
      /\ Region(live'[p]) \subseteq Cells /\ \A c \in B : Region(live'[p]) \cap Region(live[c]) = {}
      /\ live'[p].at \in Cells /\ live'[p].len \in 1 .. (HeapMax + PageUnits)
  BY <1>1, OwnHolds
<1>4. ASSUME NEW c \in B PROVE Promise!Covers(live[c].at, Owned[live[c].at]) = Region(live[c])
  <2>1. Owned[live[c].at] = Pattern(live[c].len) /\ live[c].len \in Nat
    BY <1>1, OwnedIs
  <2>2. Len(Owned[live[c].at]) = live[c].len
    BY <2>1 DEF Pattern
  <2> QED BY <2>2 DEF Promise!Covers, Promise!Extent, Region
<1>5. Promise!Extent(live'[p].at, live'[p].len) = Region(live'[p])
  BY DEF Promise!Extent, Region
<1>6. Promise!Room(live'[p].at, live'[p].len, {live[c].at : c \in B})
  BY <1>3, <1>4, <1>5 DEF Promise!Room
<1> QED BY <1>2, <1>3, <1>6 DEF Promise!Holding

LEMMA HeldInCells == ASSUME IInv, NEW b \in DOMAIN live PROVE live[b].at \in Cells /\ live[b].at \in DOMAIN Owned
<1>1. Tiled(heap) /\ Fitted(heap, live)
  BY HeldFits
<1>2. live[b].at \in Region(live[b])
  <2>1. live[b].at \in Nat /\ live[b].len \in Nat \ {0}
    BY <1>1 DEF Fitted
  <2> QED BY <2>1 DEF Region
<1> QED BY <1>1, <1>2, Apart, OwnedIs

\* a new pointer is what the allocator's malloc returns
LEMMA GivesRoom ==
  ASSUME IInv, IInv', NEW p, p \notin DOMAIN live, NEW q, live' = With(live, p, q)
  PROVE  Promise!Next
<1>1. DOMAIN live' = DOMAIN live \cup {p} /\ \A c \in DOMAIN live : live'[c] = live[c]
  BY DEF With
<1>2. DOMAIN Owned = {live[c].at : c \in DOMAIN live}
  BY OwnedIs
<1>3. /\ Promise!Room(live'[p].at, live'[p].len, DOMAIN Owned)
      /\ Owned' = Promise!Holding(DOMAIN Owned, live'[p].at, Pattern(live'[p].len))
      /\ live'[p].at \in Cells /\ live'[p].len \in 1 .. (HeapMax + PageUnits)
  <2>1. /\ Promise!Room(live'[p].at, live'[p].len, {live[c].at : c \in DOMAIN live})
        /\ Owned' = Promise!Holding({live[c].at : c \in DOMAIN live}, live'[p].at, Pattern(live'[p].len))
        /\ live'[p].at \in Cells /\ live'[p].len \in 1 .. (HeapMax + PageUnits)
    BY <1>1, RoomIs
  <2> QED BY <1>2, <2>1
<1>4. PICK a \in Cells, n \in 1 .. (HeapMax + PageUnits) : a = live'[p].at /\ n = live'[p].len
  BY <1>3
<1>5. Promise!Malloc(a, n)
  <2>1. Pattern(n) = Promise!Filled(n)
    BY DEF Pattern, Promise!Filled
  <2> QED BY <1>3, <1>4, <2>1 DEF Promise!Malloc
<1> QED BY <1>5 DEF Promise!Next

\* a pointer given up is what the allocator's free takes
LEMMA GivesUp ==
  ASSUME IInv, IInv', NEW b \in DOMAIN live, live' = Without(live, b)
  PROVE  Promise!Next
<1> DEFINE a == live[b].at
<1>1. DOMAIN live' = DOMAIN live \ {b} /\ \A c \in DOMAIN live' : live'[c] = live[c]
  BY DEF Without
<1>2. /\ DOMAIN Owned = {live[c].at : c \in DOMAIN live}
      /\ \A c \in DOMAIN live : Owned[live[c].at] = Pattern(live[c].len) /\ live[c].len \in Nat \ {0}
      /\ \A c, d \in DOMAIN live : live[c].at = live[d].at => c = d
  BY OwnedIs
<1>3. /\ DOMAIN Owned' = {live'[c].at : c \in DOMAIN live'}
      /\ \A c \in DOMAIN live' : Owned'[live'[c].at] = Pattern(live'[c].len)
  <2>1. Good(heap') /\ Held(heap', live') /\ Owned' = Own(heap', live')
    BY DEF IInv, Owned, Own, Good, Held
  <2>2. PICK K, lv : K = heap' /\ lv = live'
    OBVIOUS
  <2>3. Good(K) /\ Held(K, lv) /\ Owned' = Own(K, lv)
    BY <2>1, <2>2
  <2>4. /\ DOMAIN Own(K, lv) = {lv[c].at : c \in DOMAIN lv}
        /\ \A c \in DOMAIN lv : Own(K, lv)[lv[c].at] = Pattern(lv[c].len) /\ lv[c].len \in Nat \ {0}
        /\ \A c, d \in DOMAIN lv : lv[c].at = lv[d].at => c = d
    BY <2>3, OwnIs
  <2> QED BY <2>2, <2>3, <2>4
<1>4. Owned' = [x \in DOMAIN Owned' |-> Owned'[x]]
  BY DEF Owned
<1>5. DOMAIN Owned' = DOMAIN Owned \ {a} /\ \A x \in DOMAIN Owned' : Owned'[x] = Owned[x]
  BY <1>1, <1>2, <1>3
<1>6. Promise!Free(a)
  BY <1>4, <1>5, HeldInCells DEF Promise!Free
<1> QED BY <1>6, HeldInCells DEF Promise!Next

\* a pointer exchanged for a longer or shorter one is what the allocator's realloc returns
LEMMA Exchanges ==
  ASSUME IInv, IInv', NEW b \in DOMAIN live, NEW p, p \notin DOMAIN live \ {b}, NEW q,
         live' = With(Without(live, b), p, q)
  PROVE  Promise!Next
<1> DEFINE B == DOMAIN live \ {b}
           a == live[b].at
           l == live[b].len
<1>1. DOMAIN live' = B \cup {p} /\ \A c \in B : live'[c] = live[c]
  BY DEF With, Without
<1>2. /\ DOMAIN Owned = {live[c].at : c \in DOMAIN live}
      /\ \A c \in DOMAIN live : Owned[live[c].at] = Pattern(live[c].len) /\ live[c].len \in Nat \ {0}
      /\ \A c, d \in DOMAIN live : live[c].at = live[d].at => c = d
  BY OwnedIs
<1>3. {live[c].at : c \in B} = DOMAIN Owned \ {a}
  BY <1>2
<1>4. /\ Promise!Room(live'[p].at, live'[p].len, {live[c].at : c \in B})
      /\ Owned' = Promise!Holding({live[c].at : c \in B}, live'[p].at, Pattern(live'[p].len))
      /\ live'[p].at \in Cells /\ live'[p].len \in 1 .. (HeapMax + PageUnits)
  <2>1. B \in SUBSET DOMAIN live /\ p \notin B
    OBVIOUS
  <2> HIDE DEF B
  <2> QED BY <1>1, <2>1, RoomIs
<1>5. PICK e \in Cells, n \in 1 .. (HeapMax + PageUnits) : e = live'[p].at /\ n = live'[p].len
  BY <1>4
<1> DEFINE kept == SubSeq(Owned[a], 1, IF n < Len(Owned[a]) THEN n ELSE Len(Owned[a]))
<1>6. kept \o [i \in 1 .. n - Len(kept) |-> Len(kept) + i] = Pattern(n)
  <2>1. Owned[a] = Pattern(l) /\ l \in Nat /\ n \in Nat
    BY <1>2
  <2>2. Len(Pattern(l)) = l
    BY <2>1, PatternRefilled
  <2>3. kept = SubSeq(Pattern(l), 1, IF n < l THEN n ELSE l)
    BY <2>1, <2>2
  <2>k. PICK k : k = kept
    OBVIOUS
  <2>4. PICK m \in Nat : m = l
    BY <2>1
  <2> HIDE DEF kept, l
  <2>5. n \in Nat /\ k = SubSeq(Pattern(m), 1, IF n < m THEN n ELSE m)
    BY <2>1, <2>3, <2>4, <2>k
  <2>6. k \o [i \in 1 .. n - Len(k) |-> Len(k) + i] = Pattern(n)
    BY <2>5, PatternRefilled, ZenonT(60)
  <2> QED BY <2>k, <2>6, ZenonT(60)
<1>7. Promise!Realloc(a, e, n)
  <2>1. a \in DOMAIN Owned /\ Promise!Room(e, n, DOMAIN Owned \ {a})
    BY <1>3, <1>4, <1>5, HeldInCells
  <2>2. Owned' = Promise!Holding(DOMAIN Owned \ {a}, e, kept \o [i \in 1 .. n - Len(kept) |-> Len(kept) + i])
    BY <1>3, <1>4, <1>5, <1>6
  <2> QED BY <2>1, <2>2 DEF Promise!Realloc
<1> QED BY <1>7, HeldInCells DEF Promise!Next

LEMMA OwnedStays == ASSUME UNCHANGED <<heap, live>> PROVE UNCHANGED Owned
  BY DEF Owned

\* each step is a step of the allocator, or none
LEMMA StepImplements == IInv /\ IInv' /\ [Next]_vars => [Promise!Next]_Owned
<1> SUFFICES ASSUME IInv, IInv', [Next]_vars PROVE [Promise!Next]_Owned
  OBVIOUS
<1>0. Good(heap) /\ DOMAIN live = Used(heap) /\ \A n \in Sizes : n \in Nat
  BY SizeAssumption DEF IInv, Held
<1>1. ASSUME NEW n \in Sizes, KMalloc(n) PROVE Promise!Next
  <2> DEFINE r == Malloc(heap, n)
             q == Plain(r.blk, n)
  <2>1. r.blk # NULL /\ live' = With(live, r.blk, q) /\ n \in Nat /\ n > 0
    BY <1>0, <1>1 DEF KMalloc, Return
  <2>2. r = Malloc(heap, n)
    OBVIOUS
  <2> HIDE DEF r, q
  <2>3. Allocates(heap, r.heap, r.blk, n)
    BY <1>0, <2>1, <2>2, MallocMakes
  <2>4. r.blk \notin DOMAIN live
    BY <1>0, <2>3 DEF Allocates
  <2> QED BY <2>1, <2>4, GivesRoom
<1>2. ASSUME NEW n \in Sizes, KMallocA(n) PROVE Promise!Next
  <2> DEFINE r == Malloc(heap, n + PageUnits)
             q == PageAligned(r.blk, n)
  <2>1. r.blk # NULL /\ live' = With(live, r.blk, q) /\ n \in Nat /\ n > 0
    BY <1>0, <1>2 DEF KMallocA, Return
  <2>2. PICK m \in Nat : m = n + PageUnits
    BY <2>1, SizeAssumption
  <2>3. r = Malloc(heap, m)
    BY <2>2
  <2> HIDE DEF r, q
  <2>4. Allocates(heap, r.heap, r.blk, m)
    BY <1>0, <2>1, <2>2, <2>3, SizeAssumption, MallocMakes
  <2>5. r.blk \notin DOMAIN live
    BY <1>0, <2>4 DEF Allocates
  <2> QED BY <2>1, <2>5, GivesRoom
<1>3. ASSUME NEW b \in DOMAIN live, KFree(b) \/ KReallocZero(b) PROVE Promise!Next
  <2>1. live' = Without(live, b)
    BY <1>3 DEF KFree, KReallocZero
  <2> QED BY <2>1, GivesUp
<1>4. ASSUME NEW b \in DOMAIN live, NEW n \in Sizes, KRealloc(b, n) PROVE Promise!Next
  <2> DEFINE r == Realloc(heap, b, n)
             q == Plain(r.blk, n)
  <2>1. r.blk # NULL /\ live' = With(Without(live, b), r.blk, q) /\ n \in Nat /\ n > 0
    BY <1>0, <1>4 DEF KRealloc, Return
  <2>2. r = Realloc(heap, b, n) /\ b \in Used(heap)
    BY <1>0
  <2> HIDE DEF r, q
  <2>3. Reallocates(heap, r.heap, b, r.blk, n)
    BY <1>0, <2>1, <2>2, ReallocMakes
  <2>4. r.blk \notin DOMAIN live \ {b}
    BY <1>0, <2>3 DEF Reallocates
  <2> QED BY <2>1, <2>4, Exchanges
<1>5. CASE OutOfSpace \/ ReadsPast
  BY <1>5, OwnedStays DEF OutOfSpace, ReadsPast, Stops
<1>6. CASE UNCHANGED vars
  BY <1>6, OwnedStays DEF vars
<1> QED BY <1>1, <1>2, <1>3, <1>4, <1>5, <1>6 DEF Next

\* The kernel heap implements the allocator its callers rely on: what kmalloc,
\* kmalloc_a and krealloc return is memory nobody else holds, and keeps what was
\* written to it, by way of every split, merge and copy of kheap.c.
THEOREM HeapImplements == Spec => AllocatorSpec
<1>1. Init => Promise!Init
  <2> SUFFICES ASSUME Init PROVE Promise!Init
    OBVIOUS
  <2>1. DOMAIN live = {}
    BY DEF Init
  <2>2. {live[b].at : b \in DOMAIN live} = {}
    BY <2>1
  <2> QED BY <2>2 DEF Owned, Promise!Init
<1>2. IInv /\ IInv' /\ [Next]_vars => [Promise!Next]_Owned
  BY StepImplements
<1> QED BY <1>1, <1>2, HeapInvariant, PTL DEF Spec, AllocatorSpec, Promise!Spec

\* So no two allocations of the heap share an address, and each holds what its
\* caller wrote, for every size of heap, page and request.
THEOREM HeapKeepsApart == Spec => [](Promise!Disjoint /\ Promise!Kept)
<1>1. P!Addressed
  BY CellsAreNat DEF P!Addressed
<1>2. P!Spec => []P!Disjoint
  BY <1>1, P!AllocationsDisjoint
<1>3. P!Spec => []P!Kept
  BY <1>1, P!AllocationsKept
<1>4. Promise!Init => P!Init
  BY SMTT(60) DEF Promise!Init, P!Init
<1>5. [Promise!Next]_Owned => [P!Next]_Owned
  BY DEF Promise!Next, Promise!Malloc, Promise!Free, Promise!Realloc, Promise!Room, Promise!Holding,
         Promise!Extent, Promise!Covers, Promise!Filled, P!Next, P!Malloc, P!Free, P!Realloc, P!Room,
         P!Holding, P!Extent, P!Covers, P!Filled
<1>6. P!Disjoint /\ P!Kept => Promise!Disjoint /\ Promise!Kept
  BY DEF Promise!Disjoint, Promise!Kept, Promise!Extent, Promise!Covers, Promise!Filled,
         P!Disjoint, P!Kept, P!Extent, P!Covers, P!Filled
<1> QED BY <1>2, <1>3, <1>4, <1>5, <1>6, HeapImplements, PTL DEF AllocatorSpec, P!Spec, Promise!Spec
=============================================================================
