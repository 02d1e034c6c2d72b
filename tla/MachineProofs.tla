---------------------------- MODULE MachineProofs ----------------------------
(***************************************************************************)
(* Proofs about what the kernel does with the machine it runs on: the      *)
(* frames and page tables of Paging, the two network cards, Rtl8139 and    *)
(* Am79c973, the clock, Rtc, the PCI bus, Pci, and power management, Apm.  *)
(* Each part has an invariant that its steps keep; MachineFrames and those *)
(* after it carry the results over to MCSpec, whose runs check them on     *)
(* small instances. The last part is about the text screen, Screen.        *)
(***************************************************************************)
EXTENDS MCMachine, Screen, FiniteSetTheorems, SequenceTheorems, WellFoundedInduction, TLAPS

-----------------------------------------------------------------------------
(* Induction and recursion over a range. *)

LEMMA LeastOf ==
  ASSUME NEW S \in SUBSET Int, NEW a \in Int, \A s \in S : a <= s, S # {}
  PROVE  \E x \in S : \A y \in S : x <= y
<1> DEFINE T == {s - a : s \in S}
<1>1. T \in SUBSET Nat /\ T # {}
  <2>1. \A s \in S : s - a \in Nat
    OBVIOUS
  <2> QED BY <2>1
<1> HIDE DEF T
<1>2. PICK t \in T : \A u \in T : ~(<<u, t>> \in OpToRel(<, Nat))
  BY <1>1, NatLessThanWellFounded, WFMin
<1>3. \A u \in T : t <= u
  <2>1. SUFFICES ASSUME NEW u \in T, ~(t <= u) PROVE FALSE
    OBVIOUS
  <2>2. <<u, t>> \in OpToRel(<, Nat)
    BY <1>1, <2>1 DEF OpToRel
  <2> QED BY <1>2, <2>2
<1>4. PICK x \in S : t = x - a
  BY DEF T
<1>5. \A y \in S : y - a \in T
  BY DEF T
<1> QED BY <1>3, <1>4, <1>5

\* g is what alloc_region computes on the way, page by page
Region(g, M, d, first, last, iden_map) ==
  g = [v \in first - 1..last |->
         IF v < first THEN M ELSE alloc_page(g[v - 1], d, v, IF iden_map THEN v ELSE 0)]

LEMMA RegionExists ==
  ASSUME NEW M, NEW d, NEW first \in Int, NEW last \in Int, NEW iden_map, first <= last + 1
  PROVE  \E g : Region(g, M, d, first, last, iden_map)
<1> DEFINE S == {n \in first - 1..last : ~ \E g : Region(g, M, d, first, n, iden_map)}
<1>1. CASE S = {}
  <2>1. last \in first - 1..last
    OBVIOUS
  <2> QED BY <1>1, <2>1
<1>2. CASE S # {}
  <2>1. PICK n \in S : \A m \in S : n <= m
    <3>1. S \in SUBSET Int /\ \A s \in S : first - 1 <= s
      OBVIOUS
    <3>2. PICK a \in Int : a = first - 1
      OBVIOUS
    <3> HIDE DEF S
    <3> QED BY <1>2, <3>1, <3>2, LeastOf
  <2>2. n \in Int /\ first - 1 <= n /\ n <= last /\ ~ \E g : Region(g, M, d, first, n, iden_map)
    OBVIOUS
  <2>3. CASE n = first - 1
    <3> DEFINE g == [v \in first - 1..n |-> M]
    <3>1. g = [v \in first - 1..n |-> IF v < first THEN M ELSE alloc_page(g[v - 1], d, v, IF iden_map THEN v ELSE 0)]
      BY <2>3
    <3> HIDE DEF g
    <3>2. Region(g, M, d, first, n, iden_map)
      BY <3>1 DEF Region
    <3> QED BY <2>2, <3>2
  <2>4. CASE n # first - 1
    <3>1. n - 1 \in first - 1..last /\ n - 1 \notin S
      BY <2>1, <2>2, <2>4
    <3>2. PICK h : Region(h, M, d, first, n - 1, iden_map)
      BY <3>1
    <3> HIDE DEF S
    <3> DEFINE a == alloc_page(h[n - 1], d, n, IF iden_map THEN n ELSE 0)
               g == [v \in first - 1..n |-> IF v = n THEN a ELSE h[v]]
    <3>3. ASSUME NEW v \in first - 1..n
          PROVE  g[v] = IF v < first THEN M ELSE alloc_page(g[v - 1], d, v, IF iden_map THEN v ELSE 0)
      <4>1. CASE v = n
        <5>1. g[v - 1] = h[n - 1] /\ ~(v < first)
          BY <2>2, <2>4, <4>1
        <5> QED BY <4>1, <5>1
      <4>2. CASE v # n
        <5>1. v \in first - 1..n - 1 /\ g[v] = h[v]
          BY <2>2, <4>2
        <5>2. h[v] = IF v < first THEN M ELSE alloc_page(h[v - 1], d, v, IF iden_map THEN v ELSE 0)
          BY <3>2, <5>1 DEF Region
        <5>3. ~(v < first) => g[v - 1] = h[v - 1]
          BY <2>2, <5>1
        <5> HIDE DEF g
        <5> QED BY <5>1, <5>2, <5>3
      <4> QED BY <4>1, <4>2
    <3>4. g = [v \in first - 1..n |-> g[v]]
      OBVIOUS
    <3> HIDE DEF g
    <3>5. Region(g, M, d, first, n, iden_map)
      BY <3>3, <3>4 DEF Region
    <3> QED BY <2>2, <3>5
  <2> QED BY <2>3, <2>4
<1> QED BY <1>1, <1>2

\* alloc_region is alloc_page for one page after the other
LEMMA RegionIs ==
  ASSUME NEW M, NEW d, NEW first \in Int, NEW last \in Int, NEW iden_map, first <= last + 1
  PROVE  \E g : /\ g[first - 1] = M /\ g[last] = alloc_region(M, d, first, last, iden_map)
                /\ \A v \in first..last : g[v] = alloc_page(g[v - 1], d, v, IF iden_map THEN v ELSE 0)
<1> DEFINE g == CHOOSE g : Region(g, M, d, first, last, iden_map)
<1>1. Region(g, M, d, first, last, iden_map)
  BY RegionExists
<1>2. g[last] = alloc_region(M, d, first, last, iden_map)
  BY Zenon DEF alloc_region, Region
<1> HIDE DEF g
<1>3. first - 1 \in first - 1..last /\ first - 1 < first
  OBVIOUS
<1>4. g[first - 1] = M
  BY <1>1, <1>3 DEF Region
<1>5. \A v \in first..last : g[v] = alloc_page(g[v - 1], d, v, IF iden_map THEN v ELSE 0)
  BY <1>1 DEF Region
<1> QED BY <1>2, <1>4, <1>5

-----------------------------------------------------------------------------
(* Page numbers and tables. *)

LEMMA Constants ==
  /\ NumFrames \in Nat /\ Span \in Nat /\ KernelTable \in Nat /\ LastTable \in Nat /\ LowPages \in Nat
  /\ HeapInitial \in Nat /\ HeapMax \in Nat /\ StackPages \in Nat /\ TempTables \in Nat /\ MaxProcs \in Nat
  /\ 0 < KernelTable /\ KernelTable < LastTable
  /\ 0 < LowPages /\ LowPages < Span /\ StackPages < Span
  /\ Span + HeapInitial + 1 <= NumFrames /\ HeapInitial <= HeapMax
  BY PagingAssumption

LEMMA Product ==
  ASSUME NEW q \in Int
  PROVE  q * Span \in Int /\ (q + 1) * Span = q * Span + Span /\ (q - 1) * Span = q * Span - Span
  BY Constants

\* the table and the place in it are the quotient and the remainder
LEMMA DivMod ==
  ASSUME NEW q \in Int, NEW r \in 0..Span - 1
  PROVE  (q * Span + r) \div Span = q /\ (q * Span + r) % Span = r
  BY Constants, Product

LEMMA ModDiv ==
  ASSUME NEW v \in Int
  PROVE  v \div Span \in Int /\ v % Span \in 0..Span - 1 /\ v = (v \div Span) * Span + (v % Span)
<1>1. Span \in Int /\ Span > 0
  BY Constants
<1>2. v \div Span \in Int /\ v % Span \in Int
  BY <1>1
<1>3. 0 <= v % Span /\ v % Span < Span
  BY <1>1
<1>4. v = (v \div Span) * Span + (v % Span)
  BY <1>1
<1> QED BY <1>1, <1>2, <1>3, <1>4

\* a range of pages is in a range of tables
LEMMA DivBetween ==
  ASSUME NEW v \in Int, NEW a \in Int, NEW b \in Int, a * Span <= v, v < b * Span
  PROVE  v \div Span \in a..b - 1
<1>1. PICK q \in Int, r \in 0..Span - 1 : v = q * Span + r /\ v \div Span = q
  BY ModDiv
<1>2. Span \in Int /\ Span > 0
  BY Constants
<1>3. a <= q
  <2>1. SUFFICES ASSUME q + 1 <= a PROVE FALSE
    BY <1>1
  <2>2. (q + 1) * Span <= a * Span
    BY <1>2, <2>1
  <2>3. (q + 1) * Span = q * Span + Span /\ q * Span \in Int /\ a * Span \in Int
    BY <1>2
  <2> QED BY <1>1, <1>2, <2>2, <2>3
<1>4. q < b
  <2>1. SUFFICES ASSUME b <= q PROVE FALSE
    BY <1>1
  <2>2. b * Span <= q * Span
    BY <1>2, <2>1
  <2>3. b * Span \in Int /\ q * Span \in Int
    BY <1>2
  <2> QED BY <1>1, <1>2, <2>2, <2>3
<1> QED BY <1>1, <1>3, <1>4

-----------------------------------------------------------------------------
(* One page. *)

PageNumbers == 0..Span - 1
Tables(M) == 1..Len(M.tables)
MemType ==
  [used : SUBSET (0..NumFrames - 1), out : BOOLEAN, tables : Seq([PageNumbers -> Int]),
   dirs : [0..MaxProcs -> [0..LastTable -> Nat]]]
Typed(M) == M \in MemType /\ \A d \in 0..MaxProcs, i \in 0..LastTable : M.dirs[d][i] <= Len(M.tables)

\* what table s maps at k, nothing if there is no such table yet
Was(M, s, k) == IF s <= Len(M.tables) THEN M.tables[s][k] ELSE Absent

\* M1 is M with a table for entry i of directory d
Tabled(M, M1, d, i) ==
  /\ Typed(M1) /\ M1.used = M.used /\ M1.out = M.out
  /\ M1.dirs[d][i] \in Tables(M1)
  /\ IF M.dirs[d][i] = NULL THEN Len(M1.tables) = Len(M.tables) + 1 /\ M1.dirs[d][i] = Len(M.tables) + 1
     ELSE Len(M1.tables) = Len(M.tables) /\ M1.dirs[d][i] = M.dirs[d][i]
  /\ \A e \in 0..MaxProcs, j \in 0..LastTable : e # d \/ j # i => M1.dirs[e][j] = M.dirs[e][j]
  /\ \A s \in Tables(M1), k \in PageNumbers : M1.tables[s][k] = Was(M, s, k)

LEMMA Types ==
  ASSUME NEW M, Typed(M)
  PROVE  /\ M \in MemType /\ M.used \in SUBSET (0..NumFrames - 1) /\ M.out \in BOOLEAN
         /\ M.tables \in Seq([PageNumbers -> Int]) /\ Len(M.tables) \in Nat
         /\ M.dirs \in [0..MaxProcs -> [0..LastTable -> Nat]]
         /\ \A d \in 0..MaxProcs : M.dirs[d] \in [0..LastTable -> Nat]
         /\ \A d \in 0..MaxProcs, i \in 0..LastTable : M.dirs[d][i] \in Nat /\ M.dirs[d][i] <= Len(M.tables)
<1>1. M \in MemType
  BY DEF Typed
<1>2. /\ M.used \in SUBSET (0..NumFrames - 1) /\ M.out \in BOOLEAN
      /\ M.tables \in Seq([PageNumbers -> Int]) /\ M.dirs \in [0..MaxProcs -> [0..LastTable -> Nat]]
  BY <1>1 DEF MemType
<1>3. Len(M.tables) \in Nat
  BY <1>2
<1>4. \A d \in 0..MaxProcs : M.dirs[d] \in [0..LastTable -> Nat]
  BY <1>2
<1> QED BY <1>1, <1>2, <1>3, <1>4 DEF Typed

LEMMA TableMade ==
  ASSUME NEW M, Typed(M), NEW d \in 0..MaxProcs, NEW i \in 0..LastTable
  PROVE  Tabled(M, WithTable(M, d, i), d, i)
<1> DEFINE M1 == WithTable(M, d, i)
           n == Len(M.tables)
<1>1. n \in Nat /\ M.tables \in Seq([PageNumbers -> Int]) /\ M.dirs[d] \in [0..LastTable -> Nat] /\ M.dirs[d][i] \in 0..n
  BY Types
<1> SUFFICES Tabled(M, M1, d, i)
  OBVIOUS
<1>2. CASE M.dirs[d][i] # NULL
  <2>1. M1 = M
    BY <1>2 DEF WithTable
  <2> HIDE DEF M1
  <2>2. \A s \in 1..n, k \in PageNumbers : M1.tables[s][k] = Was(M, s, k)
    BY <1>1, <2>1 DEF Was
  <2>3. M.dirs[d][i] \in 1..n
    BY <1>1, <1>2 DEF NULL
  <2> QED BY <1>2, <2>1, <2>2, <2>3 DEF Tabled, Tables
<1>3. CASE M.dirs[d][i] = NULL
  <2> DEFINE empty == [k \in 0..Span - 1 |-> Absent]
             tables == Append(M.tables, empty)
             dirs == [M.dirs EXCEPT ![d][i] = n + 1]
  <2>1. M1 = [M EXCEPT !.tables = tables, !.dirs = dirs]
    BY <1>3 DEF WithTable
  <2>2. empty \in [PageNumbers -> Int] /\ \A k \in PageNumbers : empty[k] = Absent
    BY DEF PageNumbers, Absent
  <2> HIDE DEF empty
  <2>3. /\ tables \in Seq([PageNumbers -> Int]) /\ Len(tables) = n + 1
        /\ tables[n + 1] = empty /\ \A s \in 1..n : tables[s] = M.tables[s]
    BY <1>1, <2>2
  <2>4. /\ dirs \in [0..MaxProcs -> [0..LastTable -> Nat]] /\ dirs[d][i] = n + 1
        /\ \A e \in 0..MaxProcs, j \in 0..LastTable : e # d \/ j # i => dirs[e][j] = M.dirs[e][j]
    <3>1. M.dirs \in [0..MaxProcs -> [0..LastTable -> Nat]] /\ n + 1 \in Nat
      BY <1>1, Types
    <3> QED BY <3>1
  <2> HIDE DEF M1, tables, dirs
  <2>5. M1 \in MemType /\ M1.tables = tables /\ M1.dirs = dirs /\ M1.used = M.used /\ M1.out = M.out
    <3>1. M \in MemType
      BY Types
    <3> QED BY <2>1, <2>3, <2>4, <3>1 DEF MemType
  <2>6. \A e \in 0..MaxProcs, j \in 0..LastTable : M1.dirs[e][j] <= n + 1
    <3>1. \A e \in 0..MaxProcs, j \in 0..LastTable : M.dirs[e][j] \in Nat /\ M.dirs[e][j] <= n
      BY DEF Typed, MemType
    <3> QED BY <1>1, <2>4, <2>5, <3>1
  <2>7. \A s \in 1..n + 1, k \in PageNumbers : tables[s][k] = Was(M, s, k)
    BY <1>1, <2>2, <2>3, SMTT(60) DEF Was
  <2>8. Typed(M1) /\ Len(M1.tables) = n + 1
    BY <2>3, <2>5, <2>6 DEF Typed
  <2>9. M1.dirs[d][i] \in 1..n + 1
    BY <1>1, <2>4, <2>5
  <2>10. M1.dirs[d][i] = n + 1 /\ \A e \in 0..MaxProcs, j \in 0..LastTable : e # d \/ j # i => M1.dirs[e][j] = M.dirs[e][j]
    BY <2>4, <2>5
  <2>11. \A s \in 1..n + 1, k \in PageNumbers : M1.tables[s][k] = Was(M, s, k)
    BY <2>5, <2>7
  <2> HIDE DEF n
  <2>12. Len(M1.tables) = n + 1 /\ Tables(M1) = 1..n + 1
    BY <2>8 DEF Tables
  <2> QED BY <1>3, <2>5, <2>8, <2>9, <2>10, <2>11, <2>12 DEF Tabled, n
<1> QED BY <1>2, <1>3

\* the frame that first_free_block finds
LEMMA FirstFree ==
  ASSUME NEW used, FreeFrames(used) # {}
  PROVE  /\ first_free_block(used) \in FreeFrames(used)
         /\ \A g \in FreeFrames(used) : first_free_block(used) <= g
<1>1. FreeFrames(used) \in SUBSET Int /\ \A f \in FreeFrames(used) : 0 <= f
  BY DEF FreeFrames
<1>2. \E f \in FreeFrames(used) : \A g \in FreeFrames(used) : f <= g
  <2>1. PICK a \in Int : a = 0
    OBVIOUS
  <2> QED BY <1>1, <2>1, LeastOf
<1> QED BY <1>2 DEF first_free_block

\* a place that had old has new: what it had, the frame that was asked for, none, or the first free one
Outcome(M, K, old, new, frame) ==
  \/ old # Absent /\ new = old /\ K.used = M.used /\ K.out = M.out
  \/ old = Absent /\ frame # 0 /\ new = frame /\ K.used = M.used /\ K.out = M.out
  \/ old = Absent /\ frame = 0 /\ FreeFrames(M.used) = {} /\ new = Absent /\ K.used = M.used /\ K.out
  \/ /\ old = Absent /\ frame = 0 /\ new \in FreeFrames(M.used) /\ \A g \in FreeFrames(M.used) : new <= g
     /\ K.used = M.used \cup {new} /\ K.out = M.out

\* K is M with place k of the table at entry i of directory d mapped, if frames last
Paged(M, K, d, i, k, frame) ==
  LET t == K.dirs[d][i]
  IN /\ Typed(K) /\ t \in Tables(K)
     /\ IF M.dirs[d][i] = NULL THEN Len(K.tables) = Len(M.tables) + 1 /\ t = Len(M.tables) + 1
        ELSE Len(K.tables) = Len(M.tables) /\ t = M.dirs[d][i]
     /\ \A e \in 0..MaxProcs, j \in 0..LastTable : e # d \/ j # i => K.dirs[e][j] = M.dirs[e][j]
     /\ \A s \in Tables(K), l \in PageNumbers : s # t \/ l # k => K.tables[s][l] = Was(M, s, l)
     /\ Outcome(M, K, Was(M, t, k), K.tables[t][k], frame)

LEMMA PagedFrom ==
  ASSUME NEW M, NEW M1, NEW d \in 0..MaxProcs, NEW i \in 0..LastTable, Tabled(M, M1, d, i), NEW k \in PageNumbers,
         NEW t, t = M1.dirs[d][i], NEW K, K \in MemType, K.dirs = M1.dirs, Len(K.tables) = Len(M1.tables),
         \A s \in Tables(M1), l \in PageNumbers : s # t \/ l # k => K.tables[s][l] = M1.tables[s][l],
         NEW frame, Outcome(M, K, Was(M, t, k), K.tables[t][k], frame)
  PROVE  Paged(M, K, d, i, k, frame)
<1>1. Typed(K) /\ Tables(K) = Tables(M1) /\ K.dirs[d][i] = t
  BY DEF Tabled, Typed, Tables
<1>2. t \in Tables(K)
  BY <1>1 DEF Tabled
<1>3. /\ IF M.dirs[d][i] = NULL THEN Len(K.tables) = Len(M.tables) + 1 /\ t = Len(M.tables) + 1
         ELSE Len(K.tables) = Len(M.tables) /\ t = M.dirs[d][i]
      /\ \A e \in 0..MaxProcs, j \in 0..LastTable : e # d \/ j # i => K.dirs[e][j] = M.dirs[e][j]
  BY DEF Tabled
<1>4. \A s \in Tables(K), l \in PageNumbers : s # t \/ l # k => K.tables[s][l] = Was(M, s, l)
  BY <1>1 DEF Tabled
<1> QED BY <1>1, <1>2, <1>3, <1>4 DEF Paged

LEMMA PageAllocated ==
  ASSUME NEW M, Typed(M), NEW d \in 0..MaxProcs, NEW v \in Nat, v \div Span \in 0..LastTable, NEW frame \in Nat
  PROVE  Paged(M, alloc_page(M, d, v, frame), d, v \div Span, v % Span, frame)
<1> DEFINE K == alloc_page(M, d, v, frame)
<1>1. PICK i \in 0..LastTable, k \in PageNumbers : i = v \div Span /\ k = v % Span
  BY ModDiv DEF PageNumbers
<1>2. PICK M1 : M1 = WithTable(M, d, i)
  OBVIOUS
<1>3. Tabled(M, M1, d, i)
  BY <1>2, TableMade
<1>4. PICK t : t = M1.dirs[d][i]
  OBVIOUS
<1> SUFFICES Paged(M, K, d, i, k, frame)
  BY <1>1
<1> DEFINE to(f) == [M1.tables EXCEPT ![t][k] = f]
<1>5. K = IF M1.tables[t][k] # Absent THEN M1
          ELSE IF frame # 0 THEN [M1 EXCEPT !.tables = to(frame)]
          ELSE IF FreeFrames(M1.used) = {} THEN [M1 EXCEPT !.out = TRUE]
          ELSE [M1 EXCEPT !.tables = to(first_free_block(M1.used)), !.used = alloc_block(M1.used)]
  BY <1>1, <1>2, <1>4 DEF alloc_page
<1>6. /\ Typed(M1) /\ M1 \in MemType /\ M1.used = M.used /\ M1.out = M.out /\ t \in Tables(M1)
      /\ M1.tables \in Seq([PageNumbers -> Int]) /\ M1.tables[t][k] = Was(M, t, k)
      /\ M1.dirs \in [0..MaxProcs -> [0..LastTable -> Nat]]
  <2>1. /\ Typed(M1) /\ M1.used = M.used /\ M1.out = M.out /\ t \in Tables(M1)
        /\ M1.tables[t][k] = Was(M, t, k)
    BY <1>3, <1>4 DEF Tabled
  <2> QED BY <2>1, Types
<1>7. ASSUME NEW f \in Int
      PROVE  /\ to(f) \in Seq([PageNumbers -> Int]) /\ Len(to(f)) = Len(M1.tables) /\ to(f)[t][k] = f
             /\ \A s \in Tables(M1), l \in PageNumbers : s # t \/ l # k => to(f)[s][l] = M1.tables[s][l]
  BY <1>6, SMTT(40) DEF Tables
<1> HIDE DEF K, to
<1>8. CASE M1.tables[t][k] # Absent
  <2>1. K = M1
    BY <1>5, <1>8
  <2>2. Outcome(M, K, Was(M, t, k), K.tables[t][k], frame)
    BY <1>6, <1>8, <2>1 DEF Outcome
  <2> QED BY <1>3, <1>4, <1>6, <2>1, <2>2, PagedFrom
<1>9. CASE M1.tables[t][k] = Absent /\ frame # 0
  <2>1. K = [M1 EXCEPT !.tables = to(frame)]
    BY <1>5, <1>9
  <2>2. frame \in Int
    OBVIOUS
  <2>3. /\ to(frame) \in Seq([PageNumbers -> Int]) /\ Len(to(frame)) = Len(M1.tables) /\ to(frame)[t][k] = frame
        /\ \A s \in Tables(M1), l \in PageNumbers : s # t \/ l # k => to(frame)[s][l] = M1.tables[s][l]
    BY <1>7, <2>2
  <2>4. K \in MemType /\ K.tables = to(frame) /\ K.used = M1.used /\ K.out = M1.out /\ K.dirs = M1.dirs
    BY <1>6, <2>1, <2>3 DEF MemType
  <2>5. K.tables[t][k] = frame /\ Len(K.tables) = Len(M1.tables) /\ K.used = M.used /\ K.out = M.out
        /\ \A s \in Tables(M1), l \in PageNumbers : s # t \/ l # k => K.tables[s][l] = M1.tables[s][l]
    BY <1>6, <2>3, <2>4
  <2>6. Was(M, t, k) = Absent /\ frame # 0
    BY <1>6, <1>9
  <2>7. K \in MemType /\ K.dirs = M1.dirs
    BY <2>4
  <2>8. Outcome(M, K, Was(M, t, k), K.tables[t][k], frame)
    BY <2>5, <2>6 DEF Outcome
  <2> QED BY <1>3, <1>4, <2>5, <2>7, <2>8, PagedFrom
<1>10. CASE M1.tables[t][k] = Absent /\ frame = 0 /\ FreeFrames(M1.used) = {}
  <2>1. K = [M1 EXCEPT !.out = TRUE]
    BY <1>5, <1>10
  <2>2. K \in MemType /\ K.tables = M1.tables /\ K.used = M1.used /\ K.out = TRUE /\ K.dirs = M1.dirs
    BY <1>6, <2>1 DEF MemType
  <2>3. Outcome(M, K, Was(M, t, k), K.tables[t][k], frame)
    BY <1>6, <1>10, <2>2 DEF Outcome
  <2> QED BY <1>3, <1>4, <2>2, <2>3, PagedFrom
<1>11. CASE M1.tables[t][k] = Absent /\ frame = 0 /\ FreeFrames(M1.used) # {}
  <2>1. PICK f : f = first_free_block(M1.used)
    OBVIOUS
  <2>2. f \in FreeFrames(M.used) /\ f \in 0..NumFrames - 1 /\ f \in Int /\ \A g \in FreeFrames(M.used) : f <= g
    <3>1. f \in FreeFrames(M.used) /\ \A g \in FreeFrames(M.used) : f <= g
      BY <1>6, <1>11, <2>1, FirstFree
    <3> QED BY <3>1 DEF FreeFrames
  <2>3. K = [M1 EXCEPT !.tables = to(f), !.used = M1.used \cup {f}]
    BY <1>5, <1>11, <2>1 DEF alloc_block
  <2>4. K \in MemType /\ K.tables = to(f) /\ K.used = M1.used \cup {f} /\ K.out = M1.out /\ K.dirs = M1.dirs
    BY <1>6, <1>7, <2>2, <2>3 DEF MemType
  <2>5. /\ K.tables[t][k] = f /\ Len(K.tables) = Len(M1.tables) /\ K.used = M.used \cup {f} /\ K.out = M.out
        /\ \A s \in Tables(M1), l \in PageNumbers : s # t \/ l # k => K.tables[s][l] = M1.tables[s][l]
    BY <1>6, <1>7, <2>2, <2>4
  <2>6. /\ Was(M, t, k) = Absent /\ frame = 0
        /\ K.tables[t][k] \in FreeFrames(M.used) /\ \A g \in FreeFrames(M.used) : K.tables[t][k] <= g
        /\ K.used = M.used \cup {K.tables[t][k]} /\ K.out = M.out
    BY <1>6, <1>11, <2>2, <2>5
  <2>7. K \in MemType /\ K.dirs = M1.dirs
    BY <2>4
  <2>8. Outcome(M, K, Was(M, t, k), K.tables[t][k], frame)
    BY <2>6 DEF Outcome
  <2> QED BY <1>3, <1>4, <2>5, <2>7, <2>8, PagedFrom
<1> QED BY <1>8, <1>9, <1>10, <1>11 DEF K

\* what directory e maps at place l of its table j, as virt2phys reads it
Seen(M, e, j, l) == IF M.dirs[e][j] = NULL THEN Absent ELSE M.tables[M.dirs[e][j]][l]

LEMMA SeenIs == ASSUME NEW M, NEW e, NEW v PROVE virt2phys(M, e, v) = Seen(M, e, v \div Span, v % Span)
  BY DEF virt2phys, Seen

\* a directory has each table once
Distinct(M) ==
  \A e \in 0..MaxProcs, i, j \in 0..LastTable : M.dirs[e][i] # NULL /\ M.dirs[e][i] = M.dirs[e][j] => i = j

LEMMA SeenAfter ==
  ASSUME NEW M, Typed(M), Distinct(M), NEW d \in 0..MaxProcs, NEW i \in 0..LastTable, NEW k \in PageNumbers,
         NEW K, NEW frame, Paged(M, K, d, i, k, frame)
  PROVE  /\ Distinct(K)
         /\ \A e \in 0..MaxProcs, j \in 0..LastTable, l \in PageNumbers :
              Seen(M, e, j, l) # Absent => Seen(K, e, j, l) = Seen(M, e, j, l)
         /\ \A j \in 0..LastTable, l \in PageNumbers : j # i \/ l # k => Seen(K, d, j, l) = Seen(M, d, j, l)
         /\ Seen(K, d, i, k) = K.tables[K.dirs[d][i]][k] /\ Seen(M, d, i, k) = Was(M, K.dirs[d][i], k)
<1> DEFINE t == K.dirs[d][i]
           n == Len(M.tables)
<1>1. n \in Nat /\ \A e \in 0..MaxProcs, j \in 0..LastTable : M.dirs[e][j] \in Nat /\ M.dirs[e][j] <= n
  BY Types
<1>2. /\ Typed(K) /\ t \in 1..Len(K.tables)
      /\ IF M.dirs[d][i] = NULL THEN Len(K.tables) = n + 1 /\ t = n + 1 ELSE Len(K.tables) = n /\ t = M.dirs[d][i]
      /\ \A e \in 0..MaxProcs, j \in 0..LastTable : e # d \/ j # i => K.dirs[e][j] = M.dirs[e][j]
      /\ \A s \in 1..Len(K.tables), l \in PageNumbers : s # t \/ l # k => K.tables[s][l] = Was(M, s, l)
      /\ Outcome(M, K, Was(M, t, k), K.tables[t][k], frame)
  BY DEF Paged, Tables
<1> HIDE DEF t, n
<1>3. Distinct(K)
  <2>1. SUFFICES ASSUME NEW e \in 0..MaxProcs, NEW a \in 0..LastTable, NEW b \in 0..LastTable,
                        K.dirs[e][a] # NULL, K.dirs[e][a] = K.dirs[e][b], a # b
                 PROVE  FALSE
    BY DEF Distinct
  <2>2. CASE e # d \/ (a # i /\ b # i)
    BY <1>2, <2>1, <2>2 DEF Distinct
  <2>3. CASE e = d /\ a = i
    BY <1>1, <1>2, <2>1, <2>3 DEF Distinct, t
  <2>4. CASE e = d /\ b = i
    BY <1>1, <1>2, <2>1, <2>4 DEF Distinct, t
  <2> QED BY <2>2, <2>3, <2>4
<1>4. ASSUME NEW s \in 1..n, NEW l \in PageNumbers
      PROVE  s # t \/ l # k => K.tables[s][l] = M.tables[s][l]
  BY <1>1, <1>2, SMTT(60) DEF Was, n
<1>5. t <= n => Was(M, t, k) = M.tables[t][k]
  BY <1>1, <1>2 DEF Was, n
<1>6. Was(M, t, k) # Absent => t <= n /\ K.tables[t][k] = M.tables[t][k]
  <2>1. Was(M, t, k) # Absent => t <= n
    BY DEF Was, n
  <2> QED BY <1>2, <1>5, <2>1 DEF Outcome
<1>7. ASSUME NEW e \in 0..MaxProcs, NEW j \in 0..LastTable, NEW l \in PageNumbers, Seen(M, e, j, l) # Absent
      PROVE  Seen(K, e, j, l) = Seen(M, e, j, l)
  <2>1. M.dirs[e][j] # NULL /\ M.dirs[e][j] \in 1..n /\ Seen(M, e, j, l) = M.tables[M.dirs[e][j]][l]
    BY <1>1, <1>7 DEF Seen, NULL
  <2>2. K.dirs[e][j] = M.dirs[e][j]
    BY <1>2, <2>1 DEF t
  <2>3. K.tables[M.dirs[e][j]][l] = M.tables[M.dirs[e][j]][l]
    <3>1. CASE M.dirs[e][j] = t /\ l = k
      BY <1>5, <1>6, <1>7, <2>1, <3>1
    <3>2. CASE ~(M.dirs[e][j] = t /\ l = k)
      BY <1>4, <2>1, <3>2
    <3> QED BY <3>1, <3>2
  <2> QED BY <2>1, <2>2, <2>3 DEF Seen
<1>8. ASSUME NEW j \in 0..LastTable, NEW l \in PageNumbers, j # i \/ l # k
      PROVE  Seen(K, d, j, l) = Seen(M, d, j, l)
  <2>1. CASE j # i
    <3>1. K.dirs[d][j] = M.dirs[d][j]
      BY <1>2, <2>1
    <3>2. CASE M.dirs[d][j] = NULL
      BY <3>1, <3>2 DEF Seen
    <3>3. CASE M.dirs[d][j] # NULL
      <4>1. M.dirs[d][j] \in 1..n /\ M.dirs[d][j] # t
        BY <1>1, <1>2, <2>1, <3>3 DEF Distinct, NULL
      <4>2. K.tables[M.dirs[d][j]][l] = M.tables[M.dirs[d][j]][l]
        BY <1>4, <4>1
      <4> QED BY <3>1, <4>2 DEF Seen
    <3> QED BY <3>2, <3>3
  <2>2. CASE j = i /\ l # k
    <3>1. K.tables[t][l] = Was(M, t, l) /\ t # NULL
      BY <1>2, <2>2, SMTT(60) DEF NULL
    <3>2. CASE M.dirs[d][i] = NULL
      BY <1>1, <1>2, <2>2, <3>1, <3>2, SMTT(40) DEF Seen, Was, n, t
    <3>3. CASE M.dirs[d][i] # NULL
      BY <1>1, <1>2, <2>2, <3>1, <3>3 DEF Seen, Was, n, t
    <3> QED BY <3>2, <3>3
  <2> QED BY <1>8, <2>1, <2>2
<1>9. Seen(K, d, i, k) = K.tables[t][k]
  BY <1>2 DEF Seen, NULL, t
<1>10. Seen(M, d, i, k) = Was(M, t, k)
  <2>1. CASE M.dirs[d][i] = NULL
    BY <1>1, <1>2, <2>1 DEF Seen, Was, n
  <2>2. CASE M.dirs[d][i] # NULL
    BY <1>1, <1>2, <2>2 DEF Seen, Was, n
  <2> QED BY <2>1, <2>2
<1> QED BY <1>3, <1>7, <1>8, <1>9, <1>10 DEF t

-----------------------------------------------------------------------------
(* Frames. *)

\* the entries that map low memory as it is
Low(M) == M.dirs[0][0]
Identity(M, s, k) == s = Low(M) /\ k \in 1..LowPages
Mapped(M) == {e \in Tables(M) \X PageNumbers : M.tables[e[1]][e[2]] # Absent /\ ~Identity(M, e[1], e[2])}
Backed(M) == \A s \in Tables(M), k \in PageNumbers :
  M.tables[s][k] # Absent /\ ~Identity(M, s, k) => M.tables[s][k] \in M.used
Single(M) == \A s, r \in Tables(M), k, l \in PageNumbers :
  M.tables[s][k] # Absent /\ ~Identity(M, s, k) /\ ~Identity(M, r, l) /\ M.tables[s][k] = M.tables[r][l] => s = r /\ k = l

\* one page is backed by a frame of its own, or is low memory
LEMMA FramesAfter ==
  ASSUME NEW M, Typed(M), Backed(M), Single(M),
         NEW d \in 0..MaxProcs, NEW i \in 0..LastTable, NEW k \in PageNumbers,
         NEW K, NEW frame, Paged(M, K, d, i, k, frame), Low(M) # NULL => Low(K) = Low(M),
         Was(M, K.dirs[d][i], k) = Absent => (frame # 0 <=> Identity(K, K.dirs[d][i], k))
  PROVE  Backed(K) /\ Single(K)
<1> DEFINE t == K.dirs[d][i]
           n == Len(M.tables)
<1>1. n \in Nat /\ \A e \in 0..MaxProcs, j \in 0..LastTable : M.dirs[e][j] \in Nat /\ M.dirs[e][j] <= n
  BY Types
<1>2. /\ Typed(K) /\ t \in 1..Len(K.tables)
      /\ IF M.dirs[d][i] = NULL THEN Len(K.tables) = n + 1 /\ t = n + 1 ELSE Len(K.tables) = n /\ t = M.dirs[d][i]
      /\ \A e \in 0..MaxProcs, j \in 0..LastTable : e # d \/ j # i => K.dirs[e][j] = M.dirs[e][j]
      /\ \A s \in 1..Len(K.tables), l \in PageNumbers : s # t \/ l # k => K.tables[s][l] = Was(M, s, l)
      /\ Outcome(M, K, Was(M, t, k), K.tables[t][k], frame)
  BY DEF Paged, Tables
<1> HIDE DEF t, n
<1>3. \A s \in 1..n, l \in PageNumbers : Identity(M, s, l) <=> Identity(K, s, l)
  <2>1. CASE Low(M) # NULL
    BY <2>1 DEF Identity
  <2>2. CASE Low(M) = NULL
    <3>1. Low(K) = NULL \/ Low(K) = n + 1
      BY <1>2, <2>2, Constants DEF Low, t
    <3>2. \A s \in 1..n : s # Low(K) /\ s # Low(M)
      BY <1>1, <2>2, <3>1 DEF NULL
    <3> QED BY <3>2 DEF Identity
  <2> QED BY <2>1, <2>2
\* every place but the one that was mapped is as it was
<1>4. ASSUME NEW s \in Tables(K), NEW l \in PageNumbers, s # t \/ l # k, K.tables[s][l] # Absent, ~Identity(K, s, l)
      PROVE  s \in Tables(M) /\ M.tables[s][l] = K.tables[s][l] /\ ~Identity(M, s, l) /\ K.tables[s][l] \in M.used
  <2>1. K.tables[s][l] = Was(M, s, l) /\ s \in 1..Len(K.tables)
    BY <1>2, <1>4 DEF Tables
  <2>2. s \in 1..n /\ K.tables[s][l] = M.tables[s][l]
    BY <1>1, <1>4, <2>1 DEF Was, n
  <2> QED BY <1>3, <1>4, <2>2 DEF Backed, Tables, n
<1>5. M.used \subseteq K.used
  BY <1>2 DEF Outcome
\* that place is as it was, or has a frame that was free
<1>6. ASSUME K.tables[t][k] # Absent, ~Identity(K, t, k)
      PROVE  \/ t \in Tables(M) /\ M.tables[t][k] = K.tables[t][k] /\ ~Identity(M, t, k) /\ K.tables[t][k] \in M.used
             \/ K.tables[t][k] \notin M.used /\ K.tables[t][k] \in K.used
  <2>1. CASE Was(M, t, k) # Absent
    <3>1. t \in 1..n /\ M.tables[t][k] = Was(M, t, k) /\ K.tables[t][k] = Was(M, t, k)
      BY <1>1, <1>2, <2>1 DEF Was, n, Outcome
    <3> QED BY <1>3, <1>6, <3>1 DEF Backed, Tables, n
  <2>2. CASE Was(M, t, k) = Absent
    <3>1. frame = 0
      BY <1>6, <2>2 DEF t
    <3> QED BY <1>2, <1>6, <2>2, <3>1 DEF Outcome, FreeFrames
  <2> QED BY <2>1, <2>2
<1>7. Backed(K)
  <2>1. SUFFICES ASSUME NEW s \in Tables(K), NEW l \in PageNumbers, K.tables[s][l] # Absent, ~Identity(K, s, l)
                 PROVE  K.tables[s][l] \in K.used
    BY DEF Backed
  <2> QED BY <1>4, <1>5, <1>6, <2>1
<1>8. Single(K)
  <2>1. SUFFICES ASSUME NEW s \in Tables(K), NEW r \in Tables(K), NEW l \in PageNumbers, NEW m \in PageNumbers,
                        K.tables[s][l] # Absent, ~Identity(K, s, l), ~Identity(K, r, m), K.tables[s][l] = K.tables[r][m]
                 PROVE  s = r /\ l = m
    BY DEF Single
  <2>2. (s = t /\ l = k) \/ (s \in Tables(M) /\ M.tables[s][l] = K.tables[s][l] /\ ~Identity(M, s, l) /\ K.tables[s][l] \in M.used)
    BY <1>4, <2>1
  <2>3. (r = t /\ m = k) \/ (r \in Tables(M) /\ M.tables[r][m] = K.tables[r][m] /\ ~Identity(M, r, m) /\ K.tables[r][m] \in M.used)
    BY <1>4, <2>1
  <2> QED BY <1>6, <2>1, <2>2, <2>3 DEF Single
<1> QED BY <1>7, <1>8

-----------------------------------------------------------------------------
(* A range of pages, after boot. *)

Good(M) ==
  /\ Typed(M) /\ Distinct(M) /\ Backed(M) /\ Single(M)
  /\ \A k \in PageNumbers : Seen(M, 0, KernelTable, k) = k
  /\ \A k \in 1..LowPages : Seen(M, 0, 0, k) = k

LEMMA Indices ==
  /\ 0 \in 0..MaxProcs /\ 0 \in 0..LastTable /\ KernelTable \in 0..LastTable /\ KernelTable # 0
  /\ 1..LowPages \subseteq PageNumbers /\ 0 \in PageNumbers /\ \A k \in PageNumbers : k # Absent
  BY Constants DEF PageNumbers, Absent

\* a page of any frame, or one of low memory, which is mapped already
LEMMA PageKeepsGood ==
  ASSUME NEW M, Good(M), NEW d \in 0..MaxProcs, NEW i \in 0..LastTable, NEW k \in PageNumbers,
         NEW K, NEW frame, Paged(M, K, d, i, k, frame), frame = 0 \/ (d = 0 /\ i = 0 /\ k \in 1..LowPages)
  PROVE  Good(K)
<1> DEFINE t == K.dirs[d][i]
<1>1. Typed(M) /\ Distinct(M) /\ Backed(M) /\ Single(M) /\ Typed(K)
  BY DEF Good, Paged
<1>2. /\ Distinct(K)
      /\ \A e \in 0..MaxProcs, j \in 0..LastTable, l \in PageNumbers :
           Seen(M, e, j, l) # Absent => Seen(K, e, j, l) = Seen(M, e, j, l)
      /\ Seen(M, d, i, k) = Was(M, t, k)
  BY <1>1, SeenAfter
<1>3. \A l \in PageNumbers : Seen(K, 0, KernelTable, l) = l
  BY <1>2, Indices DEF Good
<1>4. \A l \in 1..LowPages : Seen(K, 0, 0, l) = l
  BY <1>2, Indices DEF Good
<1>5. Low(M) # NULL /\ Low(K) = Low(M) /\ Low(M) \in Tables(M)
  <2>1. 1 \in 1..LowPages
    BY Constants
  <2>2. Seen(M, 0, 0, 1) = 1
    BY <2>1 DEF Good
  <2>3. M.dirs[0][0] # NULL
    BY <2>2 DEF Seen, Absent
  <2>4. M.dirs[0][0] \in Nat /\ M.dirs[0][0] <= Len(M.tables) /\ Len(M.tables) \in Nat
    BY <1>1, Types, Indices
  <2>5. K.dirs[0][0] = M.dirs[0][0]
    BY <2>3, Indices DEF Paged
  <2> QED BY <2>3, <2>4, <2>5 DEF Low, Tables, NULL
<1>6. Was(M, t, k) = Absent => frame = 0 /\ ~Identity(K, t, k)
  <2>1. SUFFICES ASSUME Was(M, t, k) = Absent PROVE frame = 0 /\ ~Identity(K, t, k)
    OBVIOUS
  <2>2. ~(d = 0 /\ i = 0 /\ k \in 1..LowPages)
    BY <1>2, <2>1, Indices DEF Good
  <2>3. ASSUME Identity(K, t, k) PROVE FALSE
    <3>1. t = Low(M) /\ k \in 1..LowPages
      BY <1>5, <2>3 DEF Identity
    <3>2. Was(M, t, k) = Seen(M, 0, 0, k)
      BY <1>5, <3>1 DEF Was, Seen, Low, Tables
    <3> QED BY <2>1, <3>1, <3>2, Indices DEF Good
  <2> QED BY <2>2, <2>3
<1> HIDE DEF t
<1>7. Backed(K) /\ Single(K)
  BY <1>1, <1>5, <1>6, FramesAfter DEF t
<1> QED BY <1>1, <1>2, <1>3, <1>4, <1>7 DEF Good

\* what a range of pages changes in directory d, and what it leaves
Grown(M, K, d, first, last) ==
  /\ Len(M.tables) <= Len(K.tables)
  /\ \A e \in 0..MaxProcs \ {d}, j \in 0..LastTable : K.dirs[e][j] = M.dirs[e][j]
  /\ \A j \in 0..LastTable :
       \/ K.dirs[d][j] = M.dirs[d][j]
       \/ M.dirs[d][j] = NULL /\ K.dirs[d][j] > Len(M.tables) /\ \E v \in first..last : j = v \div Span
  /\ \A e \in 0..MaxProcs, j \in 0..LastTable, l \in PageNumbers :
       Seen(M, e, j, l) # Absent => Seen(K, e, j, l) = Seen(M, e, j, l)
  /\ M.out => K.out
  /\ K.out \/ \A v \in first..last : virt2phys(K, d, v) # Absent

LEMMA GrownStep ==
  ASSUME NEW M, NEW K, NEW N, Typed(M), Typed(K), Distinct(K), NEW d \in 0..MaxProcs, NEW first \in Nat, NEW n \in Nat, first <= n,
         \A v \in first..n : v \div Span \in 0..LastTable,
         Grown(M, K, d, first, n - 1), NEW frame \in Nat, Paged(K, N, d, n \div Span, n % Span, frame)
  PROVE  Grown(M, N, d, first, n)
<1>1. PICK i \in 0..LastTable, k \in PageNumbers : i = n \div Span /\ k = n % Span
  <2>1. n \in first..n /\ n \in Int
    OBVIOUS
  <2> QED BY <2>1, ModDiv DEF PageNumbers
<1>2. Paged(K, N, d, i, k, frame)
  BY <1>1
<1>3. /\ \A e \in 0..MaxProcs, j \in 0..LastTable, l \in PageNumbers :
           Seen(K, e, j, l) # Absent => Seen(N, e, j, l) = Seen(K, e, j, l)
      /\ Seen(N, d, i, k) = N.tables[N.dirs[d][i]][k]
  BY <1>2, SeenAfter, SMTT(60)
<1>4. /\ Len(M.tables) \in Nat /\ Len(K.tables) \in Nat /\ Typed(N) /\ Len(N.tables) \in Nat
  BY <1>2, Types, SMTT(60) DEF Paged
<1>5. /\ IF K.dirs[d][i] = NULL THEN Len(N.tables) = Len(K.tables) + 1 /\ N.dirs[d][i] = Len(K.tables) + 1
         ELSE Len(N.tables) = Len(K.tables) /\ N.dirs[d][i] = K.dirs[d][i]
      /\ \A e \in 0..MaxProcs, j \in 0..LastTable : e # d \/ j # i => N.dirs[e][j] = K.dirs[e][j]
      /\ Outcome(K, N, Was(K, N.dirs[d][i], k), N.tables[N.dirs[d][i]][k], frame)
  BY <1>2 DEF Paged
<1>6. Len(M.tables) <= Len(K.tables) /\ Len(M.tables) <= Len(N.tables)
  BY <1>4, <1>5, SMTT(60) DEF Grown
<1>7. \A e \in 0..MaxProcs \ {d}, j \in 0..LastTable : N.dirs[e][j] = M.dirs[e][j]
  BY <1>5 DEF Grown
<1>8. \A v \in first..n - 1 : v \in first..n
  OBVIOUS
<1>9. ASSUME NEW j \in 0..LastTable
      PROVE  \/ N.dirs[d][j] = M.dirs[d][j]
             \/ M.dirs[d][j] = NULL /\ N.dirs[d][j] > Len(M.tables) /\ \E v \in first..n : j = v \div Span
  <2>1. \/ K.dirs[d][j] = M.dirs[d][j]
        \/ M.dirs[d][j] = NULL /\ K.dirs[d][j] > Len(M.tables) /\ \E v \in first..n : j = v \div Span
    BY <1>8 DEF Grown
  <2>2. CASE j # i \/ K.dirs[d][i] # NULL
    BY <1>5, <2>1, <2>2
  <2>3. CASE j = i /\ K.dirs[d][i] = NULL
    <3>1. N.dirs[d][j] = Len(K.tables) + 1 /\ N.dirs[d][j] > Len(M.tables)
      BY <1>4, <1>5, <1>6, <2>3, SMTT(60)
    <3>2. M.dirs[d][j] = NULL
      BY <1>4, <2>1, <2>3 DEF NULL
    <3>3. n \in first..n /\ j = n \div Span
      BY <1>1, <2>3
    <3> QED BY <3>1, <3>2, <3>3
  <2> QED BY <2>2, <2>3
<1>10. \A e \in 0..MaxProcs, j \in 0..LastTable, l \in PageNumbers :
         Seen(M, e, j, l) # Absent => Seen(N, e, j, l) = Seen(M, e, j, l)
  BY <1>3 DEF Grown
<1>11. K.out => N.out
  BY <1>5 DEF Outcome
<1>12. N.out \/ \A v \in first..n : virt2phys(N, d, v) # Absent
  <2>1. SUFFICES ASSUME ~N.out, NEW v \in first..n PROVE virt2phys(N, d, v) # Absent
    OBVIOUS
  <2>2. CASE v = n
    <3>1. N.tables[N.dirs[d][i]][k] # Absent
      BY <1>5, <2>1, SMTT(40) DEF Outcome, FreeFrames, Absent
    <3> QED BY <1>1, <1>3, <2>2, <3>1, SeenIs
  <2>3. CASE v # n
    <3>1. v \in first..n - 1 /\ v \in Int
      BY <2>3
    <3>2. v \div Span \in 0..LastTable /\ v % Span \in PageNumbers
      BY <3>1, ModDiv DEF PageNumbers
    <3>3. virt2phys(K, d, v) # Absent
      BY <1>11, <2>1, <3>1 DEF Grown
    <3> QED BY <1>3, <3>2, <3>3, SeenIs
  <2> QED BY <2>2, <2>3
<1>13. M.out => N.out
  BY <1>11 DEF Grown
<1> QED BY <1>6, <1>7, <1>9, <1>10, <1>12, <1>13 DEF Grown

\* induction over a range, for a set of numbers
LEMMA RangeInduct ==
  ASSUME NEW a \in Int, NEW b \in Int, NEW S, a \in S, \A v \in a + 1..b : v - 1 \in S => v \in S
  PROVE  \A v \in a..b : v \in S
<1> DEFINE B == {v \in a..b : v \notin S}
<1>1. SUFFICES ASSUME B # {} PROVE FALSE
  OBVIOUS
<1>2. B \in SUBSET Int /\ \A v \in B : a <= v
  OBVIOUS
<1>3. PICK x \in B : \A y \in B : x <= y
  <2> HIDE DEF B
  <2> QED BY <1>1, <1>2, LeastOf
<1>4. x \in a + 1..b /\ x - 1 \in a..b /\ x \notin S
  BY <1>3
<1>5. x - 1 \notin B
  BY <1>2, <1>3, <1>4
<1> QED BY <1>4, <1>5

LEMMA RegionGood ==
  ASSUME NEW M, Good(M), NEW d \in 0..MaxProcs, NEW first \in Nat, NEW last \in Nat, first <= last + 1,
         \A v \in first..last : v \div Span \in 0..LastTable,
         NEW iden_map, ~iden_map \/ (d = 0 /\ 1 <= first /\ last <= LowPages)
  PROVE  /\ Good(alloc_region(M, d, first, last, iden_map)) /\ Grown(M, alloc_region(M, d, first, last, iden_map), d, first, last)
         /\ iden_map => alloc_region(M, d, first, last, iden_map).out = M.out     \* no page asks for any frame
<1>1. PICK g : /\ g[first - 1] = M /\ g[last] = alloc_region(M, d, first, last, iden_map)
               /\ \A v \in first..last : g[v] = alloc_page(g[v - 1], d, v, IF iden_map THEN v ELSE 0)
  <2>1. first \in Int /\ last \in Int /\ first <= last + 1
    OBVIOUS
  <2> QED BY <2>1, RegionIs
<1> DEFINE S == {v \in first - 1..last : Good(g[v]) /\ Grown(M, g[v], d, first, v) /\ (iden_map => g[v].out = M.out)}
<1>2. PICK a \in Int : a = first - 1
  OBVIOUS
<1>3. Grown(M, M, d, first, first - 1)
  <2>1. Len(M.tables) \in Nat
    BY Types DEF Good
  <2> QED BY <2>1 DEF Grown
<1>4. a \in S
  BY <1>1, <1>2, <1>3
<1>5. ASSUME NEW v \in a + 1..last, v - 1 \in S
      PROVE  v \in S
  <2>1. v \in first..last /\ v \in Nat /\ first <= v
    BY <1>2
  <2>2. Good(g[v - 1]) /\ Grown(M, g[v - 1], d, first, v - 1) /\ (iden_map => g[v - 1].out = M.out)
    BY <1>5
  <2>3. PICK frame \in Nat : frame = IF iden_map THEN v ELSE 0
    BY <2>1
  <2>4. g[v] = alloc_page(g[v - 1], d, v, frame)
    BY <1>1, <2>1, <2>3
  <2>5. Typed(M) /\ Typed(g[v - 1]) /\ Distinct(g[v - 1])
    BY <2>2 DEF Good
  <2>6. Paged(g[v - 1], g[v], d, v \div Span, v % Span, frame)
    BY <2>1, <2>4, <2>5, PageAllocated
  <2>7. PICK i \in 0..LastTable, k \in PageNumbers : i = v \div Span /\ k = v % Span
    <3>1. v \in Int
      BY <2>1
    <3> QED BY <2>1, <3>1, ModDiv DEF PageNumbers
  <2>8. frame = 0 \/ (d = 0 /\ i = 0 /\ k \in 1..LowPages)
    <3>1. CASE ~iden_map
      BY <2>3, <3>1
    <3>2. CASE iden_map
      <4>1. v \in 0..Span - 1 /\ d = 0 /\ 1 <= v /\ v <= LowPages
        BY <2>1, <3>2, Constants
      <4>2. 0 * Span + v = v
        BY <4>1, Constants
      <4>3. v \div Span = 0 /\ v % Span = v
        BY <4>1, <4>2, DivMod
      <4> QED BY <2>7, <4>1, <4>3
    <3> QED BY <3>1, <3>2
  <2>9. Good(g[v])
    BY <2>2, <2>6, <2>7, <2>8, PageKeepsGood
  <2>10. \A w \in first..v : w \div Span \in 0..LastTable
    BY <2>1
  <2>11. Grown(M, g[v], d, first, v)
    <3>1. Typed(g[v])
      BY <2>9 DEF Good
    <3> QED BY <2>1, <2>2, <2>3, <2>5, <2>6, <2>10, GrownStep
  <2>12. iden_map => g[v].out = M.out
    <3>1. iden_map => frame # 0
      BY <2>1, <2>3, SMTT(60)
    <3>2. frame # 0 => g[v].out = g[v - 1].out
      BY <2>6 DEF Paged, Outcome
    <3> QED BY <2>2, <3>1, <3>2
  <2> QED BY <1>2, <2>1, <2>9, <2>11, <2>12
<1>6. last \in S
  <2> HIDE DEF S
  <2>1. \A v \in a..last : v \in S
    BY <1>4, <1>5, RangeInduct
  <2> QED BY <1>2, <2>1
<1> QED BY <1>1, <1>6

-----------------------------------------------------------------------------
(* Where things are. *)

LEMMA Places ==
  /\ KERNEL_BASE \in Nat /\ KHEAP_START = KERNEL_BASE + Span /\ StackPages <= KERNEL_BASE
  /\ \A k \in PageNumbers : (KERNEL_BASE + k) \div Span = KernelTable /\ (KERNEL_BASE + k) % Span = k
  /\ \A j \in 0..HeapMax - 1 : (KHEAP_START + j) \div Span \in KernelTable + 1..LastTable
  /\ \A j \in 0..Span + HeapMax - 1 : (KERNEL_BASE + j) \div Span \in KernelTable..LastTable
  /\ \A v \in KERNEL_BASE - StackPages..KERNEL_BASE : v \div Span \in KernelTable - 1..KernelTable
  /\ \A k \in 0..LowPages : k \div Span = 0 /\ k % Span = k
<1>1. KERNEL_BASE \in Nat /\ KERNEL_BASE = KernelTable * Span /\ KHEAP_START = KERNEL_BASE + Span
  BY Constants DEF KERNEL_BASE, KHEAP_START
<1>2. /\ (KernelTable - 1) * Span = KERNEL_BASE - Span /\ (KernelTable + 1) * Span = KERNEL_BASE + Span
      /\ (KernelTable + 2) * Span = KERNEL_BASE + Span + Span
  <2>1. KernelTable \in Int /\ KernelTable + 1 \in Int /\ (KernelTable + 1) + 1 = KernelTable + 2
    BY Constants
  <2> QED BY <1>1, <2>1, Product
<1>3. (LastTable + 1) * Span = KERNEL_BASE + Span + (LastTable - KernelTable) * Span
  BY <1>1, Constants
<1>4. HeapMax \in Nat /\ Span \in Nat /\ HeapMax <= (LastTable - KernelTable) * Span
  BY Constants, PagingAssumption
<1>5. (LastTable + 1) * Span \in Int /\ (LastTable - KernelTable) * Span \in Int
  BY Constants
<1>6. \A k \in PageNumbers : (KERNEL_BASE + k) \div Span = KernelTable /\ (KERNEL_BASE + k) % Span = k
  <2>1. KernelTable \in Int
    BY Constants
  <2> QED BY <1>1, <2>1, DivMod DEF PageNumbers
<1>7. ASSUME NEW j \in 0..HeapMax - 1
      PROVE  (KHEAP_START + j) \div Span \in KernelTable + 1..LastTable
  <2>1. PICK v \in Int, a \in Int, b \in Int : v = KHEAP_START + j /\ a = KernelTable + 1 /\ b = LastTable + 1
    BY <1>1, <1>4, Constants
  <2>2. a * Span <= v /\ v < b * Span
    BY <1>1, <1>2, <1>3, <1>4, <1>5, <2>1
  <2>3. v \div Span \in a..b - 1
    BY <2>2, DivBetween
  <2> QED BY <2>1, <2>3, Constants
<1>8. ASSUME NEW j \in 0..Span + HeapMax - 1
      PROVE  (KERNEL_BASE + j) \div Span \in KernelTable..LastTable
  <2>1. PICK v \in Int, a \in Int, b \in Int : v = KERNEL_BASE + j /\ a = KernelTable /\ b = LastTable + 1
    BY <1>1, <1>4, Constants
  <2>2. a * Span <= v /\ v < b * Span
    BY <1>1, <1>2, <1>3, <1>4, <1>5, <2>1
  <2>3. v \div Span \in a..b - 1
    BY <2>2, DivBetween
  <2> QED BY <2>1, <2>3, Constants
<1>9. Span <= KERNEL_BASE
  BY <1>1, Constants
<1>10. ASSUME NEW v \in KERNEL_BASE - StackPages..KERNEL_BASE
       PROVE  v \div Span \in KernelTable - 1..KernelTable
  <2>1. PICK a \in Int, b \in Int : a = KernelTable - 1 /\ b = KernelTable + 1
    BY Constants
  <2>2. v \in Int /\ a * Span <= v /\ v < b * Span
    BY <1>1, <1>2, <2>1, Constants
  <2>3. v \div Span \in a..b - 1
    BY <2>2, DivBetween
  <2> QED BY <2>1, <2>3, Constants
<1>11. ASSUME NEW k \in 0..LowPages
       PROVE  k \div Span = 0 /\ k % Span = k
  <2>1. k \in 0..Span - 1 /\ 0 * Span + k = k
    BY Constants
  <2> QED BY <2>1, DivMod
<1> QED BY <1>1, <1>6, <1>7, <1>8, <1>9, <1>10, <1>11, Constants

-----------------------------------------------------------------------------
(* init_paging. *)

\* the kernel and its heap up to page n of them, each page at the frame of its number
KernelUpTo(M, n) ==
  /\ Typed(M) /\ Distinct(M) /\ Backed(M) /\ Single(M) /\ ~M.out
  /\ M.used = 0..n - 1 /\ Low(M) = NULL
  /\ \A j \in 0..n - 1 : virt2phys(M, 0, KERNEL_BASE + j) = j
  /\ \A j \in n..Span + HeapInitial - 1 : virt2phys(M, 0, KERNEL_BASE + j) = Absent

LEMMA EmptyKernel == KernelUpTo(EmptyMem, 0)
<1>1. EmptyMem.tables = <<>> /\ EmptyMem.dirs = [d \in 0..MaxProcs |-> NoDir] /\ EmptyMem.used = {} /\ ~EmptyMem.out
  BY DEF EmptyMem
<1>2. EmptyMem \in MemType
  <2>1. EmptyMem.out \in BOOLEAN /\ <<>> \in Seq([PageNumbers -> Int])
    BY DEF EmptyMem
  <2>2. [d \in 0..MaxProcs |-> NoDir] \in [0..MaxProcs -> [0..LastTable -> Nat]]
    BY DEF NoDir, NULL
  <2> QED BY <2>1, <2>2 DEF EmptyMem, MemType
<1>3. Len(EmptyMem.tables) = 0
  BY <1>1
<1>4. \A d \in 0..MaxProcs, i \in 0..LastTable : EmptyMem.dirs[d][i] = NULL
  BY <1>1 DEF NoDir
<1>5. Typed(EmptyMem) /\ Distinct(EmptyMem)
  BY <1>2, <1>3, <1>4 DEF Typed, Distinct, NULL
<1>6. Backed(EmptyMem) /\ Single(EmptyMem)
  <2>1. Tables(EmptyMem) = {}
    BY <1>3 DEF Tables
  <2> QED BY <2>1 DEF Backed, Single
<1>7. Low(EmptyMem) = NULL
  BY <1>4, Indices DEF Low
<1>8. \A j \in 0..Span + HeapInitial - 1 : virt2phys(EmptyMem, 0, KERNEL_BASE + j) = Absent
  <2>1. ASSUME NEW j \in 0..Span + HeapInitial - 1
        PROVE  virt2phys(EmptyMem, 0, KERNEL_BASE + j) = Absent
    <3>1. j \in 0..Span + HeapMax - 1
      BY Constants
    <3>2. (KERNEL_BASE + j) \div Span \in 0..LastTable
      BY <3>1, Places, Constants, SMTT(60)
    <3> QED BY <1>4, <3>2, Indices DEF virt2phys
  <2> QED BY <2>1
<1> QED BY <1>1, <1>5, <1>6, <1>7, <1>8 DEF KernelUpTo

LEMMA KernelStep ==
  ASSUME NEW M, NEW n \in Nat, n < Span + HeapInitial, KernelUpTo(M, n)
  PROVE  KernelUpTo(alloc_page(M, 0, KERNEL_BASE + n, 0), n + 1)
<1>1. PICK v \in Nat : v = KERNEL_BASE + n
  BY Places
<1>2. PICK K : K = alloc_page(M, 0, v, 0)
  OBVIOUS
<1>3. n \in 0..Span + HeapMax - 1
  BY Constants
<1>4. PICK i \in 0..LastTable, k \in PageNumbers : i = v \div Span /\ k = v % Span /\ i # 0
  <2>1. v \div Span \in KernelTable..LastTable
    BY <1>1, <1>3, Places
  <2>2. PICK q \in KernelTable..LastTable : q = v \div Span
    BY <2>1
  <2>3. q \in 0..LastTable /\ q # 0
    BY Constants
  <2> QED BY <2>2, <2>3, ModDiv DEF PageNumbers
<1>5. Typed(M) /\ Distinct(M) /\ Backed(M) /\ Single(M) /\ Low(M) = NULL
  BY DEF KernelUpTo
<1>6. Paged(M, K, 0, i, k, 0)
  BY <1>2, <1>4, <1>5, PageAllocated, Indices
<1> DEFINE t == K.dirs[0][i]
<1>7. /\ Distinct(K)
      /\ \A e \in 0..MaxProcs, j \in 0..LastTable, l \in PageNumbers :
           Seen(M, e, j, l) # Absent => Seen(K, e, j, l) = Seen(M, e, j, l)
      /\ \A j \in 0..LastTable, l \in PageNumbers : j # i \/ l # k => Seen(K, 0, j, l) = Seen(M, 0, j, l)
      /\ Seen(K, 0, i, k) = K.tables[t][k] /\ Seen(M, 0, i, k) = Was(M, t, k)
  BY <1>5, <1>6, SeenAfter, Indices
<1>8. Was(M, t, k) = Absent
  <2>1. virt2phys(M, 0, KERNEL_BASE + n) = Absent
    <3>1. n \in n..Span + HeapInitial - 1
      BY Constants
    <3> QED BY <3>1 DEF KernelUpTo
  <2> QED BY <1>1, <1>4, <1>7, <2>1, SeenIs
<1>9. Typed(K) /\ t \in Tables(K) /\ Low(K) = NULL /\ Outcome(M, K, Was(M, t, k), K.tables[t][k], 0)
  <2>1. /\ Typed(K) /\ t \in Tables(K) /\ Outcome(M, K, Was(M, t, k), K.tables[t][k], 0)
        /\ \A e \in 0..MaxProcs, j \in 0..LastTable : e # 0 \/ j # i => K.dirs[e][j] = M.dirs[e][j]
    BY <1>6 DEF Paged
  <2>2. K.dirs[0][0] = M.dirs[0][0]
    BY <1>4, <2>1, Indices
  <2> QED BY <1>5, <2>1, <2>2 DEF Low
<1> HIDE DEF t
<1>10. K.tables[t][k] = n /\ K.used = 0..n /\ ~K.out
  <2>1. FreeFrames(M.used) = n..NumFrames - 1 /\ n \in FreeFrames(M.used)
    BY Constants, SMTT(60) DEF KernelUpTo, FreeFrames
  <2>2. /\ K.tables[t][k] \in FreeFrames(M.used) /\ \A g \in FreeFrames(M.used) : K.tables[t][k] <= g
        /\ K.used = M.used \cup {K.tables[t][k]} /\ K.out = M.out
    BY <1>8, <1>9, <2>1 DEF Outcome
  <2>3. K.tables[t][k] = n
    BY <2>1, <2>2
  <2> QED BY <2>2, <2>3 DEF KernelUpTo
<1>11. ~Identity(K, t, k)
  BY <1>9 DEF Identity, Tables, NULL
<1>12. Backed(K) /\ Single(K)
  <2>1. 0 \in 0..MaxProcs
    BY Indices
  <2>2. Was(M, K.dirs[0][i], k) = Absent => (0 # 0 <=> Identity(K, K.dirs[0][i], k))
    BY <1>11 DEF t
  <2> QED BY <1>5, <1>6, <2>1, <2>2, FramesAfter
<1>13. \A j \in 0..Span + HeapInitial - 1 : virt2phys(K, 0, KERNEL_BASE + j) = IF j = n THEN n ELSE virt2phys(M, 0, KERNEL_BASE + j)
  <2>1. ASSUME NEW j \in 0..Span + HeapInitial - 1
        PROVE  virt2phys(K, 0, KERNEL_BASE + j) = IF j = n THEN n ELSE virt2phys(M, 0, KERNEL_BASE + j)
    <3>1. PICK w \in Int, a \in 0..LastTable, l \in PageNumbers : w = KERNEL_BASE + j /\ a = w \div Span /\ l = w % Span
      <4>1. j \in 0..Span + HeapMax - 1 /\ KERNEL_BASE + j \in Int
        BY Places, Constants
      <4>2. (KERNEL_BASE + j) \div Span \in KernelTable..LastTable
        BY <4>1, Places
      <4>3. KernelTable..LastTable \subseteq 0..LastTable
        BY Constants
      <4> QED BY <4>1, <4>2, <4>3, ModDiv DEF PageNumbers
    <3>2. a = i /\ l = k => j = n
      <4>1. w = (w \div Span) * Span + (w % Span) /\ v = (v \div Span) * Span + (v % Span)
        BY <3>1, ModDiv
      <4> QED BY <1>1, <1>4, <3>1, <4>1, Places
    <3>3. CASE j = n
      BY <1>1, <1>4, <1>7, <1>10, <3>3, SeenIs
    <3>4. CASE j # n
      <4>1. Seen(K, 0, a, l) = Seen(M, 0, a, l)
        BY <1>7, <3>2, <3>4
      <4> QED BY <3>1, <3>4, <4>1, SeenIs
    <3> QED BY <3>3, <3>4
  <2> QED BY <2>1
<1>14. \A j \in 0..n : virt2phys(K, 0, KERNEL_BASE + j) = j
  <2>1. \A j \in 0..n : j \in 0..Span + HeapInitial - 1 /\ (j # n => j \in 0..n - 1)
    BY Constants
  <2> QED BY <1>13, <2>1 DEF KernelUpTo
<1>15. \A j \in n + 1..Span + HeapInitial - 1 : virt2phys(K, 0, KERNEL_BASE + j) = Absent
  <2>1. \A j \in n + 1..Span + HeapInitial - 1 : j \in 0..Span + HeapInitial - 1 /\ j # n /\ j \in n..Span + HeapInitial - 1
    BY Constants
  <2> QED BY <1>13, <2>1 DEF KernelUpTo
<1>16. n + 1 - 1 = n
  OBVIOUS
<1>17. KernelUpTo(K, n + 1)
  BY <1>7, <1>9, <1>10, <1>12, <1>14, <1>15, <1>16 DEF KernelUpTo
<1> QED BY <1>1, <1>2, <1>17

LEMMA KernelAtBoot ==
  ASSUME NEW iden_map, ~iden_map
  PROVE  KernelUpTo(alloc_region(EmptyMem, 0, KERNEL_BASE, KHEAP_START + HeapInitial - 1, iden_map), Span + HeapInitial)
<1>1. PICK first \in Int, last \in Int, n \in Nat :
        first = KERNEL_BASE /\ last = KHEAP_START + HeapInitial - 1 /\ n = Span + HeapInitial /\ last = first + n - 1
  BY Places, Constants
<1>2. PICK g : /\ g[first - 1] = EmptyMem /\ g[last] = alloc_region(EmptyMem, 0, first, last, iden_map)
               /\ \A v \in first..last : g[v] = alloc_page(g[v - 1], 0, v, IF iden_map THEN v ELSE 0)
  <2>1. first <= last + 1
    BY <1>1
  <2> QED BY <2>1, RegionIs
<1> DEFINE S == {j \in 0..n : KernelUpTo(g[first + j - 1], j)}
<1>3. 0 \in S
  <2>1. first + 0 - 1 = first - 1
    OBVIOUS
  <2> QED BY <1>2, <2>1, EmptyKernel
<1>4. ASSUME NEW j \in 1..n, j - 1 \in S PROVE j \in S
  <2>1. PICK m \in Nat : m = j - 1 /\ m < Span + HeapInitial /\ j = m + 1
    BY <1>1
  <2>2. first + j - 1 \in first..last /\ first + j - 1 = KERNEL_BASE + m /\ (first + j - 1) - 1 = first + m - 1
    BY <1>1, <2>1
  <2>3. g[first + j - 1] = alloc_page(g[first + m - 1], 0, KERNEL_BASE + m, 0)
    BY <1>2, <2>2
  <2>4. KernelUpTo(g[first + m - 1], m)
    BY <1>4, <2>1
  <2>5. KernelUpTo(g[first + j - 1], m + 1)
    BY <2>1, <2>3, <2>4, KernelStep
  <2> QED BY <2>1, <2>5
<1>5. n \in S
  <2> HIDE DEF S
  <2>1. \A v \in 0 + 1..n : v - 1 \in S => v \in S
    BY <1>4
  <2>2. PICK z \in Int : z = 0
    OBVIOUS
  <2>3. \A v \in z..n : v \in S
    BY <1>3, <2>1, <2>2, RangeInduct
  <2> QED BY <2>2, <2>3
<1>6. first + n - 1 = last
  BY <1>1
<1> QED BY <1>1, <1>2, <1>5, <1>6

\* then low memory below page v, each page at the frame of its number but page 0
LowUpTo(M, v) ==
  /\ Typed(M) /\ Distinct(M) /\ Backed(M) /\ Single(M) /\ ~M.out
  /\ v = 0 => M.used = 0..Span + HeapInitial - 1 /\ Low(M) = NULL
  /\ v > 0 => Low(M) # NULL
  /\ \A j \in 0..Span + HeapInitial - 1 : virt2phys(M, 0, KERNEL_BASE + j) = j
  /\ \A k \in 1..v - 1 : Seen(M, 0, 0, k) = k
  /\ \A k \in v..LowPages : Seen(M, 0, 0, k) = Absent

LEMMA LowStart ==
  ASSUME NEW M, KernelUpTo(M, Span + HeapInitial)
  PROVE  LowUpTo(M, 0)
<1>1. \A k \in 0..LowPages : Seen(M, 0, 0, k) = Absent
  BY DEF KernelUpTo, Low, Seen
<1>2. ~(0 > 0) /\ \A k \in 1..0 - 1 : FALSE
  OBVIOUS
<1>3. /\ Typed(M) /\ Distinct(M) /\ Backed(M) /\ Single(M) /\ ~M.out
      /\ M.used = 0..Span + HeapInitial - 1 /\ Low(M) = NULL
      /\ \A j \in 0..Span + HeapInitial - 1 : virt2phys(M, 0, KERNEL_BASE + j) = j
  <2>1. (Span + HeapInitial) - 1 = Span + HeapInitial - 1
    BY Constants
  <2> QED BY <2>1 DEF KernelUpTo
<1> QED BY <1>1, <1>2, <1>3 DEF LowUpTo

LEMMA LowStep ==
  ASSUME NEW M, NEW v \in 0..LowPages, LowUpTo(M, v)
  PROVE  LowUpTo(alloc_page(M, 0, v, v), v + 1)
<1>1. PICK K : K = alloc_page(M, 0, v, v)
  OBVIOUS
<1>2. PICK i \in 0..LastTable, k \in PageNumbers : i = v \div Span /\ k = v % Span /\ i = 0 /\ k = v
  BY Places, Indices, Constants DEF PageNumbers
<1>3. Typed(M) /\ Distinct(M) /\ Backed(M) /\ Single(M) /\ ~M.out
  BY DEF LowUpTo
<1>4. Paged(M, K, 0, 0, v, v)
  BY <1>1, <1>2, <1>3, PageAllocated, Indices
<1> DEFINE t == K.dirs[0][0]
<1>5. v \in PageNumbers
  BY <1>2
<1>6. /\ Distinct(K)
      /\ \A e \in 0..MaxProcs, j \in 0..LastTable, l \in PageNumbers :
           Seen(M, e, j, l) # Absent => Seen(K, e, j, l) = Seen(M, e, j, l)
      /\ \A j \in 0..LastTable, l \in PageNumbers : j # 0 \/ l # v => Seen(K, 0, j, l) = Seen(M, 0, j, l)
      /\ Seen(K, 0, 0, v) = K.tables[t][v] /\ Seen(M, 0, 0, v) = Was(M, t, v)
  BY <1>3, <1>4, <1>5, SeenAfter, Indices
<1>7. Was(M, t, v) = Absent
  BY <1>6 DEF LowUpTo
<1>8. /\ Typed(K) /\ t \in Tables(K) /\ Outcome(M, K, Was(M, t, v), K.tables[t][v], v)
      /\ IF M.dirs[0][0] = NULL THEN Len(K.tables) = Len(M.tables) + 1 /\ t = Len(M.tables) + 1
         ELSE Len(K.tables) = Len(M.tables) /\ t = M.dirs[0][0]
  BY <1>4 DEF Paged
<1> HIDE DEF t
<1>9. Low(K) = t /\ t # NULL /\ (Low(M) # NULL => Low(K) = Low(M))
  BY <1>8 DEF Low, t, Tables, NULL
<1>10. v # 0 <=> Identity(K, t, v)
  BY <1>9 DEF Identity
<1>11. Backed(K) /\ Single(K)
  <2>1. 0 \in 0..MaxProcs /\ 0 \in 0..LastTable
    BY Indices
  <2>2. Was(M, K.dirs[0][0], v) = Absent => (v # 0 <=> Identity(K, K.dirs[0][0], v))
    BY <1>10 DEF t
  <2> QED BY <1>3, <1>4, <1>5, <1>9, <2>1, <2>2, FramesAfter
<1>12. ~K.out /\ (v # 0 => K.tables[t][v] = v)
  <2>1. CASE v = 0
    <3>1. Span + HeapInitial \in FreeFrames(M.used)
      BY <2>1, Constants DEF LowUpTo, FreeFrames
    <3>2. K.out = M.out
      BY <1>7, <1>8, <2>1, <3>1 DEF Outcome
    <3> QED BY <1>3, <2>1, <3>2
  <2>2. CASE v # 0
    BY <1>3, <1>7, <1>8, <2>2 DEF Outcome
  <2> QED BY <2>1, <2>2
<1>13. \A j \in 0..Span + HeapInitial - 1 : virt2phys(K, 0, KERNEL_BASE + j) = j
  <2>1. ASSUME NEW j \in 0..Span + HeapInitial - 1
        PROVE  virt2phys(K, 0, KERNEL_BASE + j) = j
    <3>1. PICK w \in Int, a \in 0..LastTable, l \in PageNumbers : w = KERNEL_BASE + j /\ a = w \div Span /\ l = w % Span
      <4>1. j \in 0..Span + HeapMax - 1 /\ KERNEL_BASE + j \in Int
        BY Places, Constants
      <4>2. (KERNEL_BASE + j) \div Span \in KernelTable..LastTable
        BY <4>1, Places
      <4>3. KernelTable..LastTable \subseteq 0..LastTable
        BY Constants
      <4> QED BY <4>1, <4>2, <4>3, ModDiv DEF PageNumbers
    <3>2. Seen(M, 0, a, l) = j
      BY <3>1, SeenIs DEF LowUpTo
    <3>3. j # Absent /\ 0 \in 0..MaxProcs
      BY Indices DEF Absent
    <3>4. Seen(K, 0, a, l) = j
      BY <1>6, <3>2, <3>3
    <3> QED BY <3>1, <3>4, SeenIs
  <2> QED BY <2>1
<1>14. \A l \in 1..v : Seen(K, 0, 0, l) = l
  <2>1. ASSUME NEW l \in 1..v PROVE Seen(K, 0, 0, l) = l
    <3>1. CASE l = v
      BY <1>6, <1>12, <3>1
    <3>2. CASE l # v
      <4>1. l \in 1..v - 1 /\ l \in PageNumbers
        BY <3>2, Constants DEF PageNumbers
      <4>2. Seen(M, 0, 0, l) = l
        BY <4>1 DEF LowUpTo
      <4>3. Seen(K, 0, 0, l) = Seen(M, 0, 0, l)
        BY <1>6, <3>2, <4>1, Indices
      <4> QED BY <4>2, <4>3
    <3> QED BY <3>1, <3>2
  <2> QED BY <2>1
<1>15. \A l \in v + 1..LowPages : Seen(K, 0, 0, l) = Absent
  <2>1. \A l \in v + 1..LowPages : l # v /\ l \in v..LowPages /\ l \in PageNumbers
    BY Constants DEF PageNumbers
  <2>2. \A l \in v..LowPages : Seen(M, 0, 0, l) = Absent
    BY DEF LowUpTo
  <2> QED BY <1>6, <2>1, <2>2, Indices
<1>16. v + 1 - 1 = v /\ v + 1 # 0
  OBVIOUS
<1>17. LowUpTo(K, v + 1)
  BY <1>6, <1>8, <1>9, <1>11, <1>12, <1>13, <1>14, <1>15, <1>16 DEF LowUpTo
<1> QED BY <1>1, <1>17

\* what init_paging leaves: everything has its place, and the heap's first pages are mapped
LEMMA Booted == LowUpTo(init_paging, LowPages + 1)
<1>1. PICK no \in BOOLEAN, yes \in BOOLEAN : no = FALSE /\ yes = TRUE
  OBVIOUS
<1>2. PICK M : M = alloc_region(EmptyMem, 0, KERNEL_BASE, KHEAP_START + HeapInitial - 1, no)
  OBVIOUS
<1>3. init_paging = alloc_region(M, 0, 0, LowPages, yes)
  BY <1>1, <1>2, Zenon DEF init_paging
<1>4. LowUpTo(M, 0)
  BY <1>1, <1>2, KernelAtBoot, LowStart
<1>5. PICK z \in Int, a \in Int : z = 0 /\ a = -1
  OBVIOUS
<1>6. PICK g : /\ g[z - 1] = M /\ g[LowPages] = alloc_region(M, 0, z, LowPages, yes)
               /\ \A v \in z..LowPages : g[v] = alloc_page(g[v - 1], 0, v, IF yes THEN v ELSE 0)
  <2>1. LowPages \in Int /\ z <= LowPages + 1
    BY <1>5, Constants
  <2> QED BY <2>1, RegionIs
<1> DEFINE S == {v \in a..LowPages : LowUpTo(g[v], v + 1)}
<1>7. a \in S
  <2>1. z - 1 = a /\ a + 1 = 0 /\ a \in a..LowPages
    BY <1>5, Constants
  <2> QED BY <1>4, <1>6, <2>1
<1>8. ASSUME NEW v \in a + 1..LowPages, v - 1 \in S PROVE v \in S
  <2>1. v \in 0..LowPages /\ v \in z..LowPages /\ v \in a..LowPages
    BY <1>5, Constants
  <2>2. v - 1 + 1 = v
    BY <2>1
  <2>3. LowUpTo(g[v - 1], v)
    BY <1>8, <2>2
  <2>4. g[v] = alloc_page(g[v - 1], 0, v, v)
    BY <1>1, <1>6, <2>1
  <2> QED BY <2>1, <2>3, <2>4, LowStep
<1>9. LowPages \in S
  <2> HIDE DEF S
  <2>1. LowPages \in Int /\ LowPages \in a..LowPages
    BY <1>5, Constants
  <2>2. \A v \in a..LowPages : v \in S
    BY <1>7, <1>8, <2>1, RangeInduct
  <2> QED BY <2>1, <2>2
<1> QED BY <1>3, <1>5, <1>6, <1>9

-----------------------------------------------------------------------------
(* The inductive invariant. *)

HeapMapped(M, n) == \A j \in 0..n - 1 : virt2phys(M, 0, KHEAP_START + j) # Absent

\* directory p has the kernel's tables, but those made since there were n tables
Follows(M, p, n) ==
  /\ M.dirs[p][KernelTable] = M.dirs[0][KernelTable]
  /\ \A i \in KernelTable + 1..LastTable :
       M.dirs[p][i] = M.dirs[0][i] \/ (M.dirs[p][i] = NULL /\ M.dirs[0][i] > n)

PInv ==
  /\ Good(mem)
  /\ heap_end \in 0..HeapMax /\ procs \in 0..MaxProcs /\ current \in 0..procs
  /\ born \in Seq(Nat) /\ Len(born) = procs
  /\ \A p \in 1..procs : born[p] <= Len(mem.tables) /\ Follows(mem, p, born[p])
  /\ pstatus # "wild" => ~mem.out /\ HeapMapped(mem, heap_end)
  /\ pstatus = "fault" => \E v \in Missing(current) : Younger(current, v)

LEMMA HeapPlace ==
  ASSUME NEW j \in 0..HeapMax - 1
  PROVE  \E i \in KernelTable + 1..LastTable, k \in PageNumbers :
           i = (KHEAP_START + j) \div Span /\ k = (KHEAP_START + j) % Span /\ i \in 0..LastTable
<1>1. KHEAP_START + j \in Int
  BY Places, Constants
<1>2. (KHEAP_START + j) \div Span \in KernelTable + 1..LastTable
  BY Places
<1>3. KernelTable + 1..LastTable \subseteq 0..LastTable
  BY Constants
<1> QED BY <1>1, <1>2, <1>3, ModDiv DEF PageNumbers

LEMMA KernelTableThere ==
  ASSUME NEW M, Good(M)
  PROVE  M.dirs[0][KernelTable] # NULL
<1>1. Seen(M, 0, KernelTable, 0) # Absent
  BY Indices DEF Good
<1> QED BY <1>1 DEF Seen

\* what is mapped stays, through alloc_region
LEMMA HeapStays ==
  ASSUME NEW M, NEW K, NEW d, NEW first, NEW last, Grown(M, K, d, first, last),
         NEW n \in 0..HeapMax, HeapMapped(M, n)
  PROVE  HeapMapped(K, n)
<1>1. SUFFICES ASSUME NEW j \in 0..n - 1 PROVE virt2phys(K, 0, KHEAP_START + j) # Absent
  BY DEF HeapMapped
<1>2. j \in 0..HeapMax - 1
  BY Constants
<1>3. PICK i \in 0..LastTable, k \in PageNumbers : i = (KHEAP_START + j) \div Span /\ k = (KHEAP_START + j) % Span
  BY <1>2, HeapPlace
<1>4. Seen(M, 0, i, k) # Absent
  BY <1>3, SeenIs DEF HeapMapped
<1>5. Seen(K, 0, i, k) = Seen(M, 0, i, k)
  BY <1>4, Indices DEF Grown
<1> QED BY <1>3, <1>4, <1>5, SeenIs

\* and so does a directory follow the kernel's, whichever of the others has grown
LEMMA FollowsStill ==
  ASSUME NEW M, NEW K, Good(M), NEW d \in 0..MaxProcs, NEW first, NEW last, Grown(M, K, d, first, last),
         NEW p \in 1..MaxProcs, p # d, NEW n \in Nat, n <= Len(M.tables), Follows(M, p, n), Typed(K)
  PROVE  n <= Len(K.tables) /\ Follows(K, p, n)
<1>1. Len(M.tables) \in Nat /\ Len(K.tables) \in Nat /\ Len(M.tables) <= Len(K.tables)
  BY Types DEF Good, Grown
<1>2. \A j \in 0..LastTable : K.dirs[p][j] = M.dirs[p][j]
  BY DEF Grown
<1>3. \A j \in 0..LastTable : K.dirs[0][j] = M.dirs[0][j] \/ (M.dirs[0][j] = NULL /\ K.dirs[0][j] > Len(M.tables))
  <2>1. CASE d = 0
    BY <2>1 DEF Grown
  <2>2. CASE d # 0
    <3>1. 0 \in 0..MaxProcs \ {d}
      BY <2>2, Indices
    <3> QED BY <3>1 DEF Grown
  <2> QED BY <2>1, <2>2
<1>4. K.dirs[p][KernelTable] = K.dirs[0][KernelTable]
  BY <1>2, <1>3, KernelTableThere, Indices DEF Follows
<1>5. ASSUME NEW i \in KernelTable + 1..LastTable
      PROVE  K.dirs[p][i] = K.dirs[0][i] \/ (K.dirs[p][i] = NULL /\ K.dirs[0][i] > n)
  <2>1. i \in 0..LastTable
    BY Constants
  <2>2. K.dirs[0][i] \in Nat /\ M.dirs[0][i] \in Nat
    BY <2>1, Types, Indices DEF Good
  <2>3. M.dirs[p][i] = M.dirs[0][i] \/ (M.dirs[p][i] = NULL /\ M.dirs[0][i] > n)
    BY DEF Follows
  <2>4. M.dirs[0][i] = NULL => ~(M.dirs[0][i] > n)
    BY DEF NULL
  <2> QED BY <1>1, <1>2, <1>3, <2>1, <2>2, <2>3, <2>4, SMTT(60)
<1> QED BY <1>1, <1>4, <1>5 DEF Follows

\* a page of the heap that p has another way than the kernel is in a table younger than p
LEMMA MissingYounger ==
  ASSUME NEW M, NEW p \in 0..MaxProcs, NEW n, Follows(M, p, n), NEW j \in 0..HeapMax - 1,
         virt2phys(M, p, KHEAP_START + j) # virt2phys(M, 0, KHEAP_START + j)
  PROVE  M.dirs[0][(KHEAP_START + j) \div Span] > n
<1>1. PICK i \in KernelTable + 1..LastTable, k \in PageNumbers : i = (KHEAP_START + j) \div Span /\ k = (KHEAP_START + j) % Span
  BY HeapPlace
<1>2. Seen(M, p, i, k) # Seen(M, 0, i, k)
  BY <1>1, SeenIs
<1>3. M.dirs[p][i] # M.dirs[0][i]
  BY <1>2 DEF Seen
<1> QED BY <1>1, <1>3 DEF Follows

LEMMA InitInv == PagingInit => PInv
<1>1. SUFFICES ASSUME PagingInit PROVE PInv
  OBVIOUS
<1>2. mem = init_paging /\ heap_end = HeapInitial /\ procs = 0 /\ current = 0 /\ born = <<>> /\ pstatus = "ok"
  BY <1>1 DEF PagingInit
<1>3. LowUpTo(mem, LowPages + 1)
  BY <1>2, Booted
<1>4. /\ Typed(mem) /\ Distinct(mem) /\ Backed(mem) /\ Single(mem) /\ ~mem.out
      /\ \A j \in 0..Span + HeapInitial - 1 : virt2phys(mem, 0, KERNEL_BASE + j) = j
  BY <1>3 DEF LowUpTo
<1>5. \A k \in 1..LowPages : Seen(mem, 0, 0, k) = k
  <2>1. (LowPages + 1) - 1 = LowPages
    BY Constants
  <2> QED BY <1>3, <2>1 DEF LowUpTo
<1>6. \A k \in PageNumbers : Seen(mem, 0, KernelTable, k) = k
  <2>1. ASSUME NEW k \in PageNumbers PROVE Seen(mem, 0, KernelTable, k) = k
    <3>1. k \in 0..Span + HeapInitial - 1
      BY Constants DEF PageNumbers
    <3>2. (KERNEL_BASE + k) \div Span = KernelTable /\ (KERNEL_BASE + k) % Span = k
      BY Places
    <3> QED BY <1>4, <3>1, <3>2, SeenIs
  <2> QED BY <2>1
<1>7. HeapMapped(mem, heap_end)
  <2>1. ASSUME NEW j \in 0..HeapInitial - 1 PROVE virt2phys(mem, 0, KHEAP_START + j) # Absent
    <3>1. PICK m \in 0..Span + HeapInitial - 1 : m = Span + j
      BY Constants
    <3>2. KHEAP_START + j = KERNEL_BASE + m
      BY <3>1, Places, Constants
    <3>3. m # Absent
      BY DEF Absent
    <3> QED BY <1>4, <3>1, <3>2, <3>3
  <2> QED BY <1>2, <2>1 DEF HeapMapped
<1>8. Good(mem)
  BY <1>4, <1>5, <1>6 DEF Good
<1>9. heap_end \in 0..HeapMax /\ procs \in 0..MaxProcs /\ current \in 0..procs /\ born \in Seq(Nat) /\ Len(born) = procs
  BY <1>2, Constants
<1>10. \A p \in 1..procs : FALSE
  BY <1>2
<1> QED BY <1>2, <1>4, <1>7, <1>8, <1>9, <1>10 DEF PInv

\* no action changes a directory that is there but by alloc_region
LEMMA RangeStep ==
  ASSUME NEW M, NEW K, Good(M), Good(K), NEW first, NEW last, Grown(M, K, 0, first, last),
         NEW n \in 0..MaxProcs, NEW b \in Seq(Nat), Len(b) = n,
         \A p \in 1..n : b[p] <= Len(M.tables) /\ Follows(M, p, b[p])
  PROVE  \A p \in 1..n : b[p] <= Len(K.tables) /\ Follows(K, p, b[p])
<1>1. SUFFICES ASSUME NEW p \in 1..n PROVE b[p] <= Len(K.tables) /\ Follows(K, p, b[p])
  OBVIOUS
<1>2. p \in 1..MaxProcs /\ p # 0 /\ b[p] \in Nat /\ 0 \in 0..MaxProcs
  BY Constants
<1>3. Typed(K)
  BY DEF Good
<1> QED BY <1>2, <1>3, FollowsStill

LEMMA HeapGrows ==
  ASSUME PInv, NEW boundary \in 1..HeapMax, ksbrk(boundary)
  PROVE  PInv'
<1>1. PICK no \in BOOLEAN, first \in Nat, last \in Nat :
        no = FALSE /\ first = KHEAP_START + heap_end /\ last = KHEAP_START + boundary - 1 /\ first <= last + 1
  <2>1. heap_end \in Nat /\ heap_end < boundary /\ KHEAP_START \in Nat
    BY Places, Constants DEF PInv, ksbrk
  <2>2. KHEAP_START + heap_end \in Nat /\ KHEAP_START + boundary - 1 \in Nat /\ KHEAP_START + heap_end <= (KHEAP_START + boundary - 1) + 1
    BY <2>1
  <2> QED BY <2>2
<1>2. PICK K : K = alloc_region(mem, 0, first, last, no) /\ mem' = K
  <2>1. mem' = alloc_region(mem, 0, KHEAP_START + heap_end, KHEAP_START + boundary - 1, FALSE)
    BY DEF ksbrk
  <2> QED BY <1>1, <2>1, Zenon
<1>3. \A v \in first..last : v \div Span \in 0..LastTable
  <2>1. ASSUME NEW v \in first..last PROVE v \div Span \in 0..LastTable
    <3>1. PICK j \in 0..HeapMax - 1 : v = KHEAP_START + j
      <4>1. v - KHEAP_START \in 0..HeapMax - 1 /\ v = KHEAP_START + (v - KHEAP_START)
        BY <1>1, Places, Constants DEF PInv
      <4> QED BY <4>1
    <3> QED BY <3>1, HeapPlace
  <2> QED BY <2>1
<1>4. Good(mem)
  BY DEF PInv
<1>5. Good(K) /\ Grown(mem, K, 0, first, last)
  BY <1>1, <1>2, <1>3, <1>4, Indices, RegionGood
<1>6. heap_end' = boundary /\ procs' = procs /\ current' = current /\ born' = born /\ pstatus' = After(K)
  BY <1>2 DEF ksbrk
<1>7. /\ heap_end' \in 0..HeapMax /\ procs' \in 0..MaxProcs /\ current' \in 0..procs'
      /\ born' \in Seq(Nat) /\ Len(born') = procs'
  BY <1>6 DEF PInv
<1>8. \A p \in 1..procs : born[p] <= Len(K.tables) /\ Follows(K, p, born[p])
  BY <1>4, <1>5, RangeStep DEF PInv
<1>9. ASSUME pstatus' # "wild" PROVE ~K.out /\ HeapMapped(K, boundary)
  <2>1. ~K.out
    BY <1>6, <1>9 DEF After
  <2>2. ASSUME NEW j \in 0..boundary - 1 PROVE virt2phys(K, 0, KHEAP_START + j) # Absent
    <3>1. CASE j < heap_end
      <4>1. HeapMapped(K, heap_end)
        BY <1>5, HeapStays DEF PInv, ksbrk
      <4> QED BY <3>1, <4>1 DEF HeapMapped, PInv
    <3>2. CASE ~(j < heap_end)
      <4>1. KHEAP_START + j \in first..last
        BY <1>1, <3>2, Places, Constants DEF PInv
      <4> QED BY <1>5, <2>1, <4>1 DEF Grown
    <3> QED BY <3>1, <3>2
  <2> QED BY <2>1, <2>2 DEF HeapMapped
<1>10. pstatus' # "fault"
  BY <1>6 DEF After
<1>11. \A p \in 1..procs' : born'[p] <= Len(mem'.tables) /\ Follows(mem', p, born'[p])
  BY <1>2, <1>6, <1>8
<1>12. Good(mem') /\ (pstatus' # "wild" => ~mem'.out /\ HeapMapped(mem', heap_end'))
  BY <1>2, <1>5, <1>6, <1>9
<1> QED BY <1>7, <1>10, <1>11, <1>12 DEF PInv

LEMMA BiosMaps ==
  ASSUME PInv, bios32_service
  PROVE  PInv'
<1>1. PICK yes \in BOOLEAN, first \in Nat : yes = TRUE /\ first = 1
  OBVIOUS
<1>2. PICK K : K = alloc_region(mem, 0, first, LowPages, yes) /\ mem' = K
  <2>1. mem' = alloc_region(mem, 0, 1, LowPages, TRUE)
    BY DEF bios32_service
  <2> QED BY <1>1, <2>1, Zenon
<1>3. \A v \in first..LowPages : v \div Span \in 0..LastTable
  BY <1>1, Places, Indices, Constants
<1>4. Good(mem)
  BY DEF PInv
<1>5. Good(K) /\ Grown(mem, K, 0, first, LowPages) /\ K.out = mem.out
  <2>1. first <= LowPages + 1 /\ LowPages \in Nat /\ 1 <= first /\ LowPages <= LowPages
    BY <1>1, Constants
  <2>2. ~yes \/ (0 = 0 /\ 1 <= first /\ LowPages <= LowPages)
    BY <2>1
  <2>3. 0 \in 0..MaxProcs
    BY Indices
  <2>4. /\ Good(alloc_region(mem, 0, first, LowPages, yes)) /\ Grown(mem, alloc_region(mem, 0, first, LowPages, yes), 0, first, LowPages)
        /\ yes => alloc_region(mem, 0, first, LowPages, yes).out = mem.out
    BY <1>3, <1>4, <2>1, <2>2, <2>3, RegionGood
  <2> QED BY <1>1, <1>2, <2>4
<1>6. heap_end' = heap_end /\ procs' = procs /\ current' = current /\ born' = born /\ pstatus' = pstatus /\ pstatus = "ok"
  BY DEF bios32_service
<1>7. /\ heap_end' \in 0..HeapMax /\ procs' \in 0..MaxProcs /\ current' \in 0..procs'
      /\ born' \in Seq(Nat) /\ Len(born') = procs'
  BY <1>6 DEF PInv
<1>8. \A p \in 1..procs : born[p] <= Len(K.tables) /\ Follows(K, p, born[p])
  BY <1>4, <1>5, RangeStep DEF PInv
<1>9. HeapMapped(K, heap_end)
  BY <1>5, <1>6, HeapStays DEF PInv
<1>10. ~K.out
  BY <1>5, <1>6 DEF PInv
<1>11. \A p \in 1..procs' : born'[p] <= Len(mem'.tables) /\ Follows(mem', p, born'[p])
  BY <1>2, <1>6, <1>8
<1>12. Good(mem') /\ ~mem'.out /\ HeapMapped(mem', heap_end')
  BY <1>2, <1>5, <1>6, <1>9, <1>10
<1> QED BY <1>6, <1>7, <1>11, <1>12 DEF PInv

\* copy_page_dir: one more directory with the tables of the kernel's
DirCopy(M, q) == [M EXCEPT !.dirs = [@ EXCEPT ![q] = M.dirs[0]]]

LEMMA DirCopied ==
  ASSUME NEW M, Good(M), NEW q \in 1..MaxProcs, NEW N, N = DirCopy(M, q)
  PROVE  /\ Good(N) /\ N.tables = M.tables /\ N.out = M.out
         /\ N.dirs[q] = M.dirs[0] /\ \A e \in 0..MaxProcs : e # q => N.dirs[e] = M.dirs[e]
<1>1. /\ M \in MemType /\ M.dirs \in [0..MaxProcs -> [0..LastTable -> Nat]] /\ M.dirs[0] \in [0..LastTable -> Nat]
      /\ \A d \in 0..MaxProcs, i \in 0..LastTable : M.dirs[d][i] <= Len(M.tables)
  BY Types, Indices DEF Good, Typed
<1>2. PICK dirs \in [0..MaxProcs -> [0..LastTable -> Nat]] : dirs = [M.dirs EXCEPT ![q] = M.dirs[0]]
  BY <1>1
<1>3. dirs[q] = M.dirs[0] /\ \A e \in 0..MaxProcs : e # q => dirs[e] = M.dirs[e]
  <2>1. q \in 0..MaxProcs
    BY Constants
  <2> QED BY <1>1, <1>2, <2>1
<1>4. /\ N \in MemType /\ N.dirs = dirs /\ N.tables = M.tables /\ N.used = M.used /\ N.out = M.out
  BY <1>1, <1>2 DEF MemType, DirCopy
<1>5. N.dirs[0] = M.dirs[0] /\ 0 # q
  BY <1>3, <1>4, Indices
<1>6. Typed(N)
  BY <1>1, <1>3, <1>4, Indices DEF Typed
<1>7. Distinct(N)
  BY <1>3, <1>4, Indices DEF Distinct, Good
<1>8. Low(N) = Low(M) /\ Tables(N) = Tables(M) /\ \A s, k : Identity(N, s, k) <=> Identity(M, s, k)
  BY <1>4, <1>5 DEF Low, Tables, Identity
<1>9. Backed(N) /\ Single(N)
  BY <1>4, <1>8 DEF Good, Backed, Single
<1>10. \A j, l : Seen(N, 0, j, l) = Seen(M, 0, j, l)
  BY <1>4, <1>5 DEF Seen
<1>11. Good(N)
  BY <1>6, <1>7, <1>9, <1>10 DEF Good
<1> QED BY <1>3, <1>4, <1>11

LEMMA ProcessMade ==
  ASSUME PInv, create_process
  PROVE  PInv'
<1>1. PICK no \in BOOLEAN, first \in Nat, last \in Nat :
        no = FALSE /\ first = KERNEL_BASE - StackPages /\ last = KERNEL_BASE /\ first <= last + 1
  <2>1. KERNEL_BASE - StackPages \in Nat /\ KERNEL_BASE \in Nat /\ KERNEL_BASE - StackPages <= KERNEL_BASE + 1
    BY Places, Constants
  <2> QED BY <2>1
<1>2. PICK q \in 1..MaxProcs : q = procs + 1
  <2>1. procs \in 0..MaxProcs /\ MaxProcs \in Nat
    BY Constants DEF PInv
  <2>2. procs < MaxProcs
    BY DEF create_process
  <2> QED BY <2>1, <2>2
<1>3. PICK M : M = DirCopy(mem, q)
  OBVIOUS
<1>4. PICK K : K = alloc_region(M, q, first, last, no) /\ mem' = K
  <2>1. mem' = alloc_region([mem EXCEPT !.dirs = [@ EXCEPT ![procs + 1] = mem.dirs[0]]], procs + 1, KERNEL_BASE - StackPages, KERNEL_BASE, FALSE)
    BY Zenon DEF create_process, copy_page_dir
  <2>2. mem' = alloc_region(M, q, first, last, no)
    BY <1>1, <1>2, <1>3, <2>1, Zenon DEF DirCopy
  <2> QED BY <2>2
<1>5. /\ Good(M) /\ M.tables = mem.tables /\ M.out = mem.out
      /\ M.dirs[q] = mem.dirs[0] /\ \A e \in 0..MaxProcs : e # q => M.dirs[e] = mem.dirs[e]
  <2>1. Good(mem)
    BY DEF PInv
  <2> QED BY <1>3, <2>1, DirCopied
<1>6. \A v \in first..last : v \div Span \in KernelTable - 1..KernelTable
  BY <1>1, Places
<1>7. \A v \in first..last : v \div Span \in 0..LastTable
  <2>1. KernelTable - 1..KernelTable \subseteq 0..LastTable
    BY Constants
  <2> QED BY <1>6, <2>1
<1>8. q \in 0..MaxProcs /\ 0 \in 0..MaxProcs /\ q # 0
  BY Indices
<1>9. Good(K) /\ Grown(M, K, q, first, last)
  BY <1>1, <1>4, <1>5, <1>7, <1>8, RegionGood
<1>10. /\ heap_end' = heap_end /\ procs' = q /\ current' = q /\ born' = Append(born, Len(mem.tables)) /\ pstatus' = After(K)
       /\ pstatus = "ok"
  BY <1>2, <1>4 DEF create_process
<1>11. PICK n \in Nat : n = Len(mem.tables) /\ n <= Len(K.tables)
  <2>1. Len(mem.tables) \in Nat
    BY Types DEF PInv, Good
  <2> QED BY <1>5, <1>9, <2>1 DEF Grown
<1>12. /\ born' \in Seq(Nat) /\ Len(born') = q /\ born'[q] = n /\ \A p \in 1..procs : born'[p] = born[p]
  <2>1. born \in Seq(Nat) /\ Len(born) = procs /\ procs \in Nat /\ born' = Append(born, n)
    BY <1>10, <1>11 DEF PInv
  <2> QED BY <1>2, <2>1
<1>13. ASSUME NEW p \in 1..procs PROVE born[p] <= Len(K.tables) /\ Follows(K, p, born[p])
  <2>1. p \in 1..MaxProcs /\ p # q /\ p \in 0..MaxProcs /\ born[p] \in Nat
    BY <1>2, Constants DEF PInv
  <2>2. born[p] <= Len(mem.tables) /\ Follows(mem, p, born[p])
    BY DEF PInv
  <2>3. born[p] <= Len(M.tables) /\ Follows(M, p, born[p])
    BY <1>5, <1>8, <2>1, <2>2 DEF Follows
  <2>4. Typed(K)
    BY <1>9 DEF Good
  <2> QED BY <1>5, <1>8, <1>9, <2>1, <2>3, <2>4, FollowsStill
<1>14. Follows(K, q, n)
  <2>1. \A j \in 0..LastTable : K.dirs[0][j] = M.dirs[0][j]
    BY <1>8, <1>9 DEF Grown
  <2>2. ASSUME NEW j \in KernelTable..LastTable PROVE K.dirs[q][j] = K.dirs[0][j]
    <3>1. j \in 0..LastTable
      BY Constants
    <3>2. M.dirs[q][j] = M.dirs[0][j]
      BY <1>5, <1>8
    <3>3. CASE K.dirs[q][j] = M.dirs[q][j]
      BY <2>1, <3>1, <3>2, <3>3
    <3>4. CASE K.dirs[q][j] # M.dirs[q][j]
      <4>1. M.dirs[q][j] = NULL
        BY <1>9, <3>1, <3>4 DEF Grown
      <4>2. PICK v \in first..last : j = v \div Span
        BY <1>9, <3>1, <3>4 DEF Grown
      <4>3. j = KernelTable
        BY <1>6, <4>2, Constants
      <4> QED BY <1>5, <3>2, <4>1, <4>3, KernelTableThere
    <3> QED BY <3>3, <3>4
  <2>3. KernelTable \in KernelTable..LastTable /\ KernelTable + 1..LastTable \subseteq KernelTable..LastTable
    BY Constants
  <2> QED BY <2>2, <2>3 DEF Follows
<1>15. \A p \in 1..procs' : born'[p] <= Len(mem'.tables) /\ Follows(mem', p, born'[p])
  <2>1. ASSUME NEW p \in 1..q PROVE born'[p] <= Len(K.tables) /\ Follows(K, p, born'[p])
    <3>1. CASE p = q
      BY <1>11, <1>12, <1>14, <3>1
    <3>2. CASE p # q
      <4>1. p \in 1..procs
        BY <1>2, <3>2 DEF PInv
      <4> QED BY <1>12, <1>13, <4>1
    <3> QED BY <3>1, <3>2
  <2> QED BY <1>4, <1>10, <2>1
<1>16. HeapMapped(K, heap_end)
  <2>1. \A v : virt2phys(M, 0, v) = virt2phys(mem, 0, v)
    BY <1>5, <1>8 DEF virt2phys
  <2>2. HeapMapped(M, heap_end) /\ heap_end \in 0..HeapMax
    BY <1>10, <2>1 DEF HeapMapped, PInv
  <2> QED BY <1>9, <2>2, HeapStays
<1>17. pstatus' # "wild" => ~mem'.out /\ HeapMapped(mem', heap_end')
  BY <1>4, <1>10, <1>16 DEF After
<1>18. pstatus' # "fault"
  BY <1>10 DEF After
<1>19. Good(mem') /\ heap_end' \in 0..HeapMax /\ procs' \in 0..MaxProcs /\ current' \in 0..procs' /\ Len(born') = procs'
  BY <1>4, <1>8, <1>9, <1>10, <1>12 DEF PInv
<1> QED BY <1>12, <1>15, <1>17, <1>18, <1>19 DEF PInv

LEMMA PageTouched ==
  ASSUME PInv, NEW v \in KERNEL_BASE..KHEAP_START + heap_end - 1, touch(v)
  PROVE  PInv'
<1>1. /\ mem' = mem /\ heap_end' = heap_end /\ procs' = procs /\ current' = current /\ born' = born
      /\ pstatus = "ok" /\ pstatus' = "fault" /\ virt2phys(mem, current, v) = Absent
  BY DEF touch
<1>2. /\ Good(mem) /\ heap_end \in 0..HeapMax /\ procs \in 0..MaxProcs /\ current \in 0..procs
      /\ \A p \in 1..procs : Follows(mem, p, born[p])
  BY DEF PInv
<1>3. current \in 0..MaxProcs
  BY <1>2, Constants
<1>4. v >= KHEAP_START
  <2>1. SUFFICES ASSUME ~(v >= KHEAP_START) PROVE FALSE
    OBVIOUS
  <2>2. PICK k \in PageNumbers : v = KERNEL_BASE + k
    <3>1. v - KERNEL_BASE \in PageNumbers /\ v = KERNEL_BASE + (v - KERNEL_BASE)
      BY <1>2, <2>1, Places, Constants DEF PageNumbers
    <3> QED BY <3>1
  <2>3. Seen(mem, current, KernelTable, k) = Absent
    BY <1>1, <2>2, Places, SeenIs
  <2>4. Seen(mem, 0, KernelTable, k) = k /\ k # Absent
    BY <1>2, Indices DEF Good
  <2>5. mem.dirs[current][KernelTable] = mem.dirs[0][KernelTable]
    BY <1>2 DEF Follows
  <2> QED BY <2>3, <2>4, <2>5 DEF Seen
<1>5. PICK j \in 0..heap_end - 1 : v = KHEAP_START + j
  <2>1. v - KHEAP_START \in 0..heap_end - 1 /\ v = KHEAP_START + (v - KHEAP_START)
    BY <1>2, <1>4, Places, Constants
  <2> QED BY <2>1
<1>6. j \in 0..HeapMax - 1
  BY <1>2, Constants
<1>7. virt2phys(mem, 0, v) # Absent
  BY <1>1, <1>5 DEF PInv, HeapMapped
<1>8. current \in 1..procs
  BY <1>1, <1>2, <1>7
<1>9. v \in Missing(current) /\ Younger(current, v)
  <2>1. v \in KHEAP_START..KHEAP_START + HeapMax - 1
    BY <1>5, <1>6, Places, Constants
  <2>2. v \in Missing(current)
    BY <1>1, <1>7, <2>1 DEF Missing
  <2>3. mem.dirs[0][(KHEAP_START + j) \div Span] > born[current]
    <3>1. Follows(mem, current, born[current])
      BY <1>2, <1>8
    <3> QED BY <1>1, <1>3, <1>5, <1>6, <1>7, <3>1, MissingYounger
  <2> QED BY <1>5, <2>2, <2>3 DEF Younger
<1>10. \E w \in Missing(current)' : Younger(current, w)'
  <2>1. v \in Missing(current)' /\ Younger(current, v)'
    BY <1>1, <1>9 DEF Younger, Missing
  <2> QED BY <2>1
<1> QED BY <1>1, <1>10 DEF PInv

LEMMA StepInv == PInv /\ [PagingNext]_pagevars => PInv'
<1>1. SUFFICES ASSUME PInv, [PagingNext]_pagevars PROVE PInv'
  OBVIOUS
<1>2. CASE \E boundary \in 1..HeapMax : ksbrk(boundary)
  BY <1>1, <1>2, HeapGrows
<1>3. CASE create_process
  BY <1>1, <1>3, ProcessMade
<1>4. CASE bios32_service
  BY <1>1, <1>4, BiosMaps
<1>5. CASE \E v \in KERNEL_BASE..KHEAP_START + heap_end - 1 : touch(v)
  BY <1>1, <1>5, PageTouched
<1>6. CASE \E p \in 1..procs : switch_page_dir(p)
  <2>1. PICK p \in 1..procs : switch_page_dir(p)
    BY <1>6
  <2>2. /\ mem' = mem /\ heap_end' = heap_end /\ procs' = procs /\ born' = born /\ pstatus' = pstatus
        /\ pstatus' = "ok" /\ current' = p
    BY <2>1 DEF switch_page_dir
  <2>3. current' \in 0..procs'
    BY <1>1, <2>2 DEF PInv
  <2> QED BY <1>1, <2>2, <2>3 DEF PInv
<1>7. CASE UNCHANGED pagevars
  <2>1. /\ mem' = mem /\ heap_end' = heap_end /\ procs' = procs /\ current' = current /\ born' = born
        /\ pstatus' = pstatus
    BY <1>7 DEF pagevars
  <2>2. (\E v \in Missing(current) : Younger(current, v))
        => \E v \in Missing(current)' : Younger(current, v)'
    <3>1. SUFFICES ASSUME NEW v, v \in Missing(current), Younger(current, v)
                   PROVE  v \in Missing(current)' /\ Younger(current, v)'
      OBVIOUS
    <3> QED BY <2>1, <3>1 DEF Missing, Younger
  <2> QED BY <1>1, <2>1, <2>2 DEF PInv
<1> QED BY <1>1, <1>2, <1>3, <1>4, <1>5, <1>6, <1>7 DEF PagingNext

\* What init_paging sets up and alloc_page keeps: each table once in a directory, each frame in the
\* bitmap at one place, low memory and the kernel where the boot code had them, and the directories
\* of processes with the kernel's tables but the younger ones (mem/paging.c, mem/pmm.c).
THEOREM PagingInvariant == PagingSpec => []PInv
<1>1. PagingInit => PInv
  BY InitInv
<1>2. PInv /\ [PagingNext]_pagevars => PInv'
  BY StepInv
<1> QED BY <1>1, <1>2, PTL DEF PagingSpec

LEMMA ApartHolds == PInv => FramesApart
<1>1. SUFFICES ASSUME PInv, NEW e \in Entries(mem), NEW f \in Entries(mem), e # f, FrameAt(mem, e) = FrameAt(mem, f)
               PROVE  IsLowAndKernel(e, f) \/ IsLowAndKernel(f, e)
  BY DEF FramesApart
<1>2. Good(mem) /\ Typed(mem) /\ Distinct(mem) /\ Single(mem)
  BY <1>1 DEF PInv, Good
<1>3. Len(mem.tables) \in Nat /\ DOMAIN mem.tables = Tables(mem)
  BY <1>2, Types DEF Tables
<1> DEFINE low == mem.dirs[0][0]
           kernel == mem.dirs[0][KernelTable]
<1>4. low # kernel /\ kernel \in Tables(mem) /\ \A k \in PageNumbers : mem.tables[kernel][k] = k
  <2>1. kernel # NULL
    BY <1>2, KernelTableThere
  <2>2. kernel \in Nat /\ kernel <= Len(mem.tables)
    BY <1>2, Types, Indices
  <2>3. low # kernel
    BY <1>2, <2>1, Indices DEF Distinct
  <2>4. \A k \in PageNumbers : mem.tables[kernel][k] = k
    BY <1>2, <2>1 DEF Good, Seen
  <2> QED BY <1>3, <2>1, <2>2, <2>3, <2>4 DEF Tables, NULL
<1>5. \A k \in 1..LowPages : mem.tables[low][k] = k
  <2>1. ASSUME NEW k \in 1..LowPages PROVE mem.tables[low][k] = k
    <3>1. Seen(mem, 0, 0, k) = k /\ k # Absent
      BY <1>2, Indices DEF Good
    <3> QED BY <3>1 DEF Seen
  <2> QED BY <2>1
<1>6. Low(mem) = low
  BY DEF Low
<1> HIDE DEF low, kernel
<1>7. ASSUME NEW g \in Entries(mem)
      PROVE  /\ g[1] \in Tables(mem) /\ g[2] \in PageNumbers /\ g = <<g[1], g[2]>>
             /\ FrameAt(mem, g) = mem.tables[g[1]][g[2]] /\ FrameAt(mem, g) # Absent
  BY <1>3 DEF Entries, FrameAt, PageNumbers
\* of two places with one frame, one is in low memory, and the other is the kernel's page of that number
<1>8. ASSUME NEW g \in Entries(mem), NEW h \in Entries(mem), g # h, FrameAt(mem, g) = FrameAt(mem, h),
             Identity(mem, g[1], g[2])
      PROVE  IsLowAndKernel(g, h)
  <2>1. g[1] = low /\ g[2] \in 1..LowPages /\ FrameAt(mem, g) = g[2]
    BY <1>5, <1>6, <1>7, <1>8 DEF Identity
  <2>2. ~Identity(mem, h[1], h[2])
    <3>1. SUFFICES ASSUME Identity(mem, h[1], h[2]) PROVE FALSE
      OBVIOUS
    <3>2. h[1] = low /\ FrameAt(mem, h) = h[2]
      BY <1>5, <1>6, <1>7, <3>1 DEF Identity
    <3>3. g[1] = h[1] /\ g[2] = h[2]
      BY <1>8, <2>1, <3>2
    <3>4. g = <<g[1], g[2]>> /\ h = <<h[1], h[2]>>
      BY <1>7
    <3> QED BY <1>8, <3>3, <3>4
  <2>3. ~Identity(mem, kernel, g[2]) /\ g[2] \in PageNumbers /\ mem.tables[kernel][g[2]] = g[2]
    BY <1>4, <1>6, <1>7 DEF Identity
  <2>4. h[1] = kernel /\ h[2] = g[2]
    <3>1. /\ h[1] \in Tables(mem) /\ h[2] \in PageNumbers /\ mem.tables[h[1]][h[2]] # Absent
          /\ mem.tables[h[1]][h[2]] = mem.tables[kernel][g[2]]
      BY <1>7, <1>8, <2>1, <2>3
    <3> QED BY <1>2, <1>4, <2>2, <2>3, <3>1 DEF Single
  <2>5. h = <<kernel, g[2]>> /\ g[2] # 0
    BY <1>7, <2>1, <2>4
  <2> QED BY <2>1, <2>5 DEF IsLowAndKernel, low, kernel
<1>9. CASE Identity(mem, e[1], e[2])
  BY <1>1, <1>8, <1>9
<1>10. CASE Identity(mem, f[1], f[2])
  BY <1>1, <1>8, <1>10
<1>11. CASE ~Identity(mem, e[1], e[2]) /\ ~Identity(mem, f[1], f[2])
  <2>1. e[1] = f[1] /\ e[2] = f[2]
    BY <1>1, <1>2, <1>7, <1>11 DEF Single
  <2>2. e = <<e[1], e[2]>> /\ f = <<f[1], f[2]>>
    BY <1>7
  <2> QED BY <1>1, <2>1, <2>2
<1> QED BY <1>9, <1>10, <1>11

\* No frame is mapped at two places, in whichever directories, but low memory and its second place
\* at KERNEL_BASE: whatever the sizes of memory, of the heap and of the stacks (alloc_page).
THEOREM FramesStayApart == PagingSpec => []FramesApart
BY PagingInvariant, ApartHolds, PTL

LEMMA SharedHolds == PInv => KernelShared
<1>1. SUFFICES ASSUME PInv PROVE KernelShared
  OBVIOUS
<1>2. /\ Good(mem) /\ procs \in 0..MaxProcs /\ MaxProcs \in Nat
      /\ \A p \in 1..procs : Follows(mem, p, born[p])
  BY <1>1, Constants DEF PInv
<1>3. ASSUME NEW p \in 0..procs, NEW k \in 0..Span - 1
      PROVE  virt2phys(mem, p, KERNEL_BASE + k) = k
  <2>1. k \in PageNumbers
    BY DEF PageNumbers
  <2>2. virt2phys(mem, p, KERNEL_BASE + k) = Seen(mem, p, KernelTable, k)
    BY <2>1, Places, SeenIs
  <2>3. Seen(mem, 0, KernelTable, k) = k
    BY <1>2, <2>1 DEF Good
  <2>4. mem.dirs[p][KernelTable] = mem.dirs[0][KernelTable]
    <3>1. CASE p = 0
      BY <3>1
    <3>2. CASE p # 0
      <4>1. p \in 1..procs
        BY <1>2, <3>2
      <4> QED BY <1>2, <4>1 DEF Follows
    <3> QED BY <3>1, <3>2
  <2> QED BY <2>2, <2>3, <2>4 DEF Seen
<1>4. ASSUME NEW p \in 1..procs, NEW v \in Missing(p)
      PROVE  Younger(p, v)
  <2>1. v \in KHEAP_START..KHEAP_START + HeapMax - 1 /\ virt2phys(mem, p, v) # virt2phys(mem, 0, v)
    BY DEF Missing
  <2>2. PICK j \in 0..HeapMax - 1 : v = KHEAP_START + j
    <3>1. v - KHEAP_START \in 0..HeapMax - 1 /\ v = KHEAP_START + (v - KHEAP_START)
      BY <2>1, Places, Constants
    <3> QED BY <3>1
  <2>3. p \in 0..MaxProcs /\ Follows(mem, p, born[p])
    BY <1>2
  <2>4. mem.dirs[0][(KHEAP_START + j) \div Span] > born[p]
    BY <2>1, <2>2, <2>3, MissingYounger
  <2> QED BY <2>2, <2>4 DEF Younger
<1>5. pstatus = "fault" => \E v \in Missing(current) : Younger(current, v)
  BY <1>1 DEF PInv
<1> QED BY <1>3, <1>4, <1>5 DEF KernelShared

\* In every directory the kernel is where the boot code had it, though the region of each stack ends
\* one page too far, and the kernel faults on its own memory only where a table of the heap is
\* younger than the process (copy_page_dir, ksbrk, create_process_from_routine).
THEOREM KernelStaysShared == PagingSpec => []KernelShared
BY PagingInvariant, SharedHolds, PTL

-----------------------------------------------------------------------------
(* The RTL8139. *)

Descriptor(f) == (f - 1) % 4
UnderWay == Len(wire) + 1..Len(sent)      \* the frames started that are not on the wire

Histories ==
  /\ sent \in Seq(Nat) /\ wire \in Seq(Nat) /\ Len(wire) <= Len(sent) /\ Len(sent) <= Len(wire) + 4
  /\ \A i \in 1..Len(sent) : sent[i] = i
  /\ \A i \in 1..Len(wire) : wire[i] = i
Descriptors ==
  /\ card_tx = Len(wire) % 4
  /\ busy \subseteq 0..3
  /\ \A d \in 0..3 : d \in busy <=> \E f \in UnderWay : Descriptor(f) = d
  /\ TSAD \in [0..3 -> Nat] /\ \A f \in UnderWay : TSAD[Descriptor(f)] = f
Counted == IsFiniteSet(busy) /\ Cardinality(busy) = Len(sent) - Len(wire)

\* where the send in task context stands
Room4 == Len(sent) < Len(wire) + 4
Ready == TSAD[Len(sent) % 4] = Frame
Step ==
  /\ tx \in [step : {"idle", "take", "start", "wrap"}, index : 0..3]
  /\ tx.step \in {"idle", "take"} => tx_cur = Len(sent) % 4
  /\ tx.step \in {"take", "start"} => Room4 /\ Ready
  /\ tx.step = "start" => tx.index = Len(sent) % 4 /\ tx_cur = tx.index + 1
  /\ tx.step = "wrap" => tx_cur \in 1..4 /\ Wrap(tx_cur) = Len(sent) % 4

Sending == Histories /\ Descriptors /\ Counted /\ Step /\ nstatus # "wild"
IInv == ~crowded => Sending

-----------------------------------------------------------------------------
(* Counting descriptors. *)

LEMMA Mod4 ==
  ASSUME NEW x \in Nat
  PROVE  x % 4 \in 0..3 /\ (x + 1) % 4 = Wrap((x % 4) + 1) /\ (x + 4) % 4 = x % 4
  BY DEF Wrap

\* four frames in a row have four descriptors
LEMMA Apart ==
  ASSUME NEW x \in Nat, NEW y \in Nat, x < y, y < x + 4
  PROVE  x % 4 # y % 4
  OBVIOUS

\* at most four frames wait
LEMMA HistoryLengths ==
  ASSUME Histories
  PROVE  Len(sent) \in Nat /\ Len(wire) \in Nat /\ Len(wire) <= Len(sent) /\ Len(sent) <= Len(wire) + 4
<1>1. sent \in Seq(Nat) /\ wire \in Seq(Nat) /\ Len(wire) <= Len(sent) /\ Len(sent) <= Len(wire) + 4
  BY DEF Histories
<1> QED BY <1>1

\* a descriptor that is not busy leaves room
LEMMA NotBusy ==
  ASSUME Histories, Descriptors, Len(sent) % 4 \notin busy
  PROVE  Room4
<1>1. Len(sent) \in Nat /\ Len(wire) \in Nat /\ Len(sent) <= Len(wire) + 4
  BY HistoryLengths
<1>2. SUFFICES ASSUME Len(sent) = Len(wire) + 4 PROVE FALSE
  BY <1>1 DEF Room4
<1>3. Len(wire) + 1 \in UnderWay /\ Descriptor(Len(wire) + 1) = Len(wire) % 4
  BY <1>1, <1>2 DEF UnderWay, Descriptor
<1>4. Len(sent) % 4 = Len(wire) % 4 /\ Len(wire) % 4 \in 0..3
  BY <1>1, <1>2, Mod4
<1>5. Len(wire) % 4 \in busy
  BY <1>3, <1>4 DEF Descriptors
<1> QED BY <1>4, <1>5

\* with room, the next descriptor is nobody's
LEMMA IsFree ==
  ASSUME Histories, Descriptors, Room4
  PROVE  Len(sent) % 4 \notin busy /\ Len(sent) % 4 \in 0..3 /\ \A f \in UnderWay : Descriptor(f) # Len(sent) % 4
<1>1. Len(sent) \in Nat /\ Len(wire) \in Nat /\ Len(sent) <= Len(wire) + 4
  BY HistoryLengths
<1>2. ASSUME NEW f \in UnderWay PROVE Descriptor(f) # Len(sent) % 4
  <2>1. f - 1 \in Nat /\ f - 1 < Len(sent) /\ Len(sent) < (f - 1) + 4
    BY <1>1 DEF UnderWay, Room4
  <2> QED BY <1>1, <2>1, Apart DEF Descriptor
<1>3. Len(sent) % 4 \in 0..3
  BY <1>1, Mod4
<1> QED BY <1>2, <1>3 DEF Descriptors

-----------------------------------------------------------------------------
(* The steps. *)

\* the length is written: the frame is started on the next descriptor, whose address is ready
LEMMA Started ==
  ASSUME Histories, Descriptors, Counted, Room4,
         TSAD' = [TSAD EXCEPT ![Len(sent) % 4] = Frame], busy' = busy \cup {Len(sent) % 4},
         sent' = Append(sent, Frame), wire' = wire, card_tx' = card_tx
  PROVE  Histories' /\ Descriptors' /\ Counted'
<1> DEFINE d == Len(sent) % 4
<1>1. Len(sent) \in Nat /\ Len(wire) \in Nat /\ Frame = Len(sent) + 1
  BY HistoryLengths DEF Frame
<1>2. d \notin busy /\ d \in 0..3 /\ \A f \in UnderWay : Descriptor(f) # d
  BY IsFree
<1>3. Len(sent') = Len(sent) + 1 /\ sent' \in Seq(Nat) /\ \A i \in 1..Len(sent') : sent'[i] = i
  BY <1>1 DEF Histories
<1>4. UnderWay' = UnderWay \cup {Frame} /\ Descriptor(Frame) = d /\ Frame \in Nat
  BY <1>1, <1>3 DEF UnderWay, Descriptor, Histories
<1>5. Histories'
  BY <1>1, <1>3 DEF Histories, Room4
<1>6. Descriptors'
  <2> HIDE DEF d
  <2>1. card_tx' = Len(wire') % 4 /\ busy' \subseteq 0..3
    BY <1>2 DEF Descriptors, d
  <2>2. \A e \in 0..3 : e \in busy' <=> \E f \in UnderWay' : Descriptor(f) = e
    BY <1>4 DEF Descriptors, d
  <2>3. TSAD' \in [0..3 -> Nat] /\ TSAD'[d] = Frame /\ \A e \in 0..3 \ {d} : TSAD'[e] = TSAD[e]
    BY <1>2, <1>4 DEF Descriptors, d
  <2>4. ASSUME NEW f \in UnderWay' PROVE TSAD'[Descriptor(f)] = f
    <3>1. CASE f = Frame
      BY <1>4, <2>3, <3>1
    <3>2. CASE f \in UnderWay
      <4>1. f - 1 \in Nat
        BY <1>1, <3>2 DEF UnderWay
      <4>2. Descriptor(f) \in 0..3 /\ Descriptor(f) # d
        BY <1>2, <3>2, <4>1, Mod4 DEF Descriptor
      <4>3. TSAD[Descriptor(f)] = f
        BY <3>2 DEF Descriptors
      <4> QED BY <2>3, <4>2, <4>3
    <3> QED BY <1>4, <3>1, <3>2
  <2>5. \A f \in UnderWay' : TSAD'[Descriptor(f)] = f
    BY <2>4
  <2> QED BY <2>1, <2>2, <2>3, <2>5 DEF Descriptors, Descriptor
<1>7. Counted'
  <2>1. IsFiniteSet(busy \cup {d}) /\ Cardinality(busy \cup {d}) = Cardinality(busy) + 1
    BY <1>2, FS_AddElement DEF Counted
  <2> QED BY <1>1, <1>3, <2>1 DEF Counted
<1> QED BY <1>5, <1>6, <1>7

\* the card takes the oldest frame
LEMMA TransmitKeeps == IInv /\ TransmitNext => IInv'
<1> SUFFICES ASSUME IInv, TransmitNext, ~crowded' PROVE Sending'
  BY DEF IInv
<1>1. ~crowded
  BY Zenon DEF TransmitNext, txvars
<1>2. Histories /\ Descriptors /\ Counted /\ Step /\ nstatus # "wild"
  BY <1>1 DEF IInv, Sending
<1>3. /\ card_tx \in busy /\ wire' = Append(wire, TSAD[card_tx]) /\ busy' = busy \ {card_tx}
      /\ card_tx' = (card_tx + 1) % 4
      /\ TSAD' = TSAD /\ tx_cur' = tx_cur /\ tx' = tx /\ sent' = sent /\ nstatus' = nstatus
  BY DEF TransmitNext
<1>4. Len(sent) \in Nat /\ Len(wire) \in Nat /\ card_tx = Len(wire) % 4
  BY <1>2, HistoryLengths DEF Descriptors
<1>5. Len(wire) + 1 \in UnderWay /\ Descriptor(Len(wire) + 1) = card_tx
  <2>1. PICK f \in UnderWay : Descriptor(f) = card_tx
    BY <1>2, <1>3 DEF Descriptors
  <2> QED BY <1>4, <2>1 DEF UnderWay, Descriptor
<1>6. TSAD[card_tx] = Len(wire) + 1
  BY <1>2, <1>5 DEF Descriptors
<1>7. /\ Len(wire') = Len(wire) + 1 /\ wire' \in Seq(Nat) /\ \A i \in 1..Len(wire') : wire'[i] = i
      /\ Len(wire') <= Len(sent)
  BY <1>2, <1>3, <1>4, <1>5, <1>6, SMTT(60) DEF Histories, UnderWay
<1>8. Histories'
  BY <1>2, <1>3, <1>4, <1>7, SMTT(60) DEF Histories
<1>9. UnderWay' = UnderWay \ {Len(wire) + 1}
  BY <1>3, <1>4, <1>7 DEF UnderWay
<1>10. \A f \in UnderWay' : Descriptor(f) # card_tx
  <2>1. SUFFICES ASSUME NEW f \in UnderWay' PROVE Descriptor(f) # card_tx
    OBVIOUS
  <2>2. Len(sent) <= Len(wire) + 4
    BY <1>2, HistoryLengths
  <2>3. f \in Len(wire) + 2..Len(sent)
    BY <1>3, <1>4, <1>7, <2>1 DEF UnderWay
  <2>4. f - 1 \in Nat /\ Len(wire) < f - 1 /\ f - 1 < Len(wire) + 4
    BY <1>4, <2>2, <2>3
  <2> QED BY <1>4, <2>4, Apart DEF Descriptor
<1>11. Descriptors'
  <2>1. card_tx' = Len(wire') % 4
    BY <1>3, <1>4, <1>7
  <2>2. \A d \in 0..3 : d \in busy' <=> \E f \in UnderWay' : Descriptor(f) = d
    BY <1>2, <1>3, <1>5, <1>9, <1>10 DEF Descriptors
  <2> QED BY <1>2, <1>3, <1>9, <2>1, <2>2 DEF Descriptors, Descriptor
<1>12. Counted'
  <2>1. IsFiniteSet(busy \ {card_tx}) /\ Cardinality(busy \ {card_tx}) = Cardinality(busy) - 1
    BY <1>2, <1>3, FS_RemoveElement DEF Counted
  <2> QED BY <1>2, <1>3, <1>4, <1>7, <2>1 DEF Counted
<1>13. Step'
  <2>1. Room4 => Room4'
    BY <1>3, <1>4, <1>7 DEF Room4
  <2>2. Ready => Ready'
    BY <1>3 DEF Ready, Frame
  <2> QED BY <1>2, <1>3, <2>1, <2>2 DEF Step, Wrap
<1> QED BY <1>2, <1>3, <1>8, <1>11, <1>12, <1>13 DEF Sending

LEMMA AddrKeeps == IInv /\ send_addr => IInv'
<1> SUFFICES ASSUME IInv, send_addr, ~crowded' PROVE Sending'
  BY DEF IInv
<1>1. ~crowded /\ tx_cur \notin busy
  BY Zenon DEF send_addr
<1>2. Histories /\ Descriptors /\ Counted /\ Step /\ nstatus # "wild"
  BY <1>1 DEF IInv, Sending
<1>3. /\ tx.step = "idle" /\ tx' = [tx EXCEPT !.step = "take"]
      /\ busy' = busy /\ tx_cur' = tx_cur /\ card_tx' = card_tx /\ sent' = sent /\ wire' = wire
  BY DEF send_addr
<1>4. tx_cur = Len(sent) % 4 /\ Len(sent) \in Nat /\ Len(wire) \in Nat /\ Frame \in Nat
  BY <1>2, <1>3, HistoryLengths DEF Step, Frame
<1>5. Room4
  BY <1>1, <1>2, <1>4, NotBusy
<1>6. tx_cur \in 0..3 /\ \A f \in UnderWay : Descriptor(f) # tx_cur
  BY <1>2, <1>4, <1>5, IsFree
<1>7. TSAD' = [TSAD EXCEPT ![tx_cur] = Frame] /\ nstatus' = nstatus
  BY <1>2, <1>6 DEF send_addr, Descriptors
<1>8. Histories' /\ Counted'
  BY <1>2, <1>3 DEF Histories, Counted
<1>9. Descriptors'
  <2>1. TSAD' \in [0..3 -> Nat]
    BY <1>2, <1>4, <1>7 DEF Descriptors
  <2>2. UnderWay' = UnderWay
    BY <1>3 DEF UnderWay
  <2>3. \A f \in UnderWay : Descriptor(f) \in 0..3 /\ TSAD[Descriptor(f)] = f
    <3>1. SUFFICES ASSUME NEW f \in UnderWay PROVE Descriptor(f) \in 0..3
      BY <1>2 DEF Descriptors
    <3>2. f - 1 \in Nat
      BY <1>4 DEF UnderWay
    <3> QED BY <3>2, Mod4 DEF Descriptor
  <2>4. \A f \in UnderWay' : TSAD'[Descriptor(f)] = f
    BY <1>2, <1>6, <1>7, <2>2, <2>3 DEF Descriptors
  <2> QED BY <1>2, <1>3, <2>1, <2>2, <2>4 DEF Descriptors, Descriptor
<1>10. Step'
  <2>1. TSAD'[tx_cur] = Frame
    BY <1>2, <1>6, <1>7 DEF Descriptors
  <2> QED BY <1>2, <1>3, <1>4, <1>5, <2>1 DEF Step, Room4, Ready, Frame
<1> QED BY <1>2, <1>7, <1>8, <1>9, <1>10 DEF Sending

LEMMA TakeKeeps == IInv /\ send_take => IInv'
<1> SUFFICES ASSUME IInv, send_take, ~crowded' PROVE Sending'
  BY DEF IInv
<1>1. ~crowded
  BY Zenon DEF send_take
<1>2. Histories /\ Descriptors /\ Counted /\ Step /\ nstatus # "wild"
  BY <1>1 DEF IInv, Sending
<1>3. /\ tx.step = "take" /\ tx' = [step |-> "start", index |-> tx_cur] /\ tx_cur' = tx_cur + 1
      /\ TSAD' = TSAD /\ busy' = busy /\ card_tx' = card_tx /\ sent' = sent /\ wire' = wire /\ nstatus' = nstatus
  BY DEF send_take
<1>4. tx_cur = Len(sent) % 4 /\ tx_cur \in 0..3
  BY <1>2, <1>3, IsFree DEF Step
<1>5. Histories' /\ Descriptors' /\ Counted'
  BY <1>2, <1>3 DEF Histories, Descriptors, Descriptor, UnderWay, Counted
<1>6. Step'
  BY <1>2, <1>3, <1>4 DEF Step, Room4, Ready, Frame
<1> QED BY <1>2, <1>3, <1>5, <1>6 DEF Sending

LEMMA StartKeeps == IInv /\ send_start => IInv'
<1> SUFFICES ASSUME IInv, send_start, ~crowded' PROVE Sending'
  BY DEF IInv
<1>1. ~crowded
  BY Zenon DEF send_start
<1>2. Histories /\ Descriptors /\ Counted /\ Step /\ nstatus # "wild"
  BY <1>1 DEF IInv, Sending
<1>3. /\ tx.step = "start" /\ tx' = [tx EXCEPT !.step = "wrap"] /\ tx_cur' = tx_cur
      /\ TSAD' = TSAD /\ busy' = busy \cup {tx.index} /\ card_tx' = card_tx
      /\ sent' = Append(sent, Frame) /\ wire' = wire /\ nstatus' = nstatus
  BY DEF send_start
<1>4. tx.index = Len(sent) % 4 /\ tx_cur = tx.index + 1 /\ Room4 /\ Ready /\ tx.index \in 0..3
  BY <1>2, <1>3, IsFree DEF Step
<1>5. TSAD' = [TSAD EXCEPT ![Len(sent) % 4] = Frame]
  BY <1>2, <1>3, <1>4 DEF Ready, Descriptors
<1>6. Histories' /\ Descriptors' /\ Counted'
  BY <1>2, <1>3, <1>4, <1>5, Started
<1>7. Len(sent) \in Nat /\ Len(sent') = Len(sent) + 1
  BY <1>2, <1>3 DEF Histories
<1>8. (Len(sent) + 1) % 4 = Wrap((Len(sent) % 4) + 1)
  BY <1>7, Mod4
<1>9. Step'
  BY <1>2, <1>3, <1>4, <1>7, <1>8 DEF Step, Wrap
<1> QED BY <1>2, <1>3, <1>6, <1>9 DEF Sending

LEMMA WrapKeeps == IInv /\ send_wrap => IInv'
<1> SUFFICES ASSUME IInv, send_wrap, ~crowded' PROVE Sending'
  BY DEF IInv
<1>1. ~crowded
  BY Zenon DEF send_wrap
<1>2. Histories /\ Descriptors /\ Counted /\ Step /\ nstatus # "wild"
  BY <1>1 DEF IInv, Sending
<1>3. /\ tx.step = "wrap" /\ tx' = [tx EXCEPT !.step = "idle"] /\ tx_cur' = Wrap(tx_cur)
      /\ TSAD' = TSAD /\ busy' = busy /\ card_tx' = card_tx /\ sent' = sent /\ wire' = wire /\ nstatus' = nstatus
  BY DEF send_wrap
<1>4. Histories' /\ Descriptors' /\ Counted'
  BY <1>2, <1>3 DEF Histories, Descriptors, Descriptor, UnderWay, Counted
<1>5. Step'
  BY <1>2, <1>3 DEF Step
<1> QED BY <1>2, <1>3, <1>4, <1>5 DEF Sending

\* an answer sent in the handler, while no send in task context is cut
LEMMA HandlerSendKeeps == IInv /\ SendInHandler => IInv'
<1> SUFFICES ASSUME IInv, SendInHandler, ~crowded' PROVE Sending'
  BY DEF IInv
<1>1. ~crowded /\ tx.step = "idle" /\ tx_cur \notin busy
  BY Zenon DEF SendInHandler
<1>2. Histories /\ Descriptors /\ Counted /\ Step /\ nstatus # "wild"
  BY <1>1 DEF IInv, Sending
<1>3. tx_cur = Len(sent) % 4
  BY <1>1, <1>2 DEF Step
<1>4. Room4 /\ tx_cur \in 0..3
  BY <1>1, <1>2, <1>3, NotBusy, IsFree
<1>5. /\ TSAD' = [TSAD EXCEPT ![tx_cur] = Frame] /\ busy' = busy \cup {tx_cur} /\ sent' = Append(sent, Frame)
      /\ tx_cur' = Wrap(tx_cur + 1) /\ nstatus' = nstatus /\ tx' = tx /\ card_tx' = card_tx /\ wire' = wire
  BY <1>2, <1>4 DEF SendInHandler, Descriptors
<1>6. Histories' /\ Descriptors' /\ Counted'
  BY <1>2, <1>3, <1>4, <1>5, Started
<1>7. Len(sent) \in Nat /\ Len(sent') = Len(sent) + 1
  BY <1>2, <1>5 DEF Histories
<1>8. (Len(sent) + 1) % 4 = Wrap((Len(sent) % 4) + 1)
  BY <1>7, Mod4
<1>9. Step'
  BY <1>1, <1>2, <1>3, <1>5, <1>7, <1>8 DEF Step
<1> QED BY <1>2, <1>5, <1>6, <1>9 DEF Sending

\* whatever leaves the sending half as it is
LEMMA Elsewhere == IInv /\ UNCHANGED txvars /\ (nstatus' = nstatus \/ nstatus' = "astray") => IInv'
<1> SUFFICES ASSUME IInv, UNCHANGED txvars, nstatus' = nstatus \/ nstatus' = "astray", ~crowded' PROVE Sending'
  BY DEF IInv
<1>1. ~crowded
  BY Zenon DEF txvars
<1>2. /\ TSAD' = TSAD /\ busy' = busy /\ tx_cur' = tx_cur /\ tx' = tx /\ card_tx' = card_tx /\ sent' = sent
      /\ wire' = wire
  BY DEF txvars
<1> QED BY <1>1, <1>2 DEF IInv, Sending, Histories, Descriptors, Descriptor, UnderWay, Counted, Step, Room4, Ready, Frame

LEMMA Keeps == IInv /\ [NicNext]_nicvars => IInv'
<1> SUFFICES ASSUME IInv, [NicNext]_nicvars PROVE IInv'
  OBVIOUS
<1>1. CASE \E len \in Lengths : Arrive(len)
  BY <1>1, Elsewhere DEF Arrive
<1>2. CASE TransmitNext
  BY <1>2, TransmitKeeps
<1>3. CASE send_addr
  BY <1>3, AddrKeeps
<1>4. CASE send_take
  BY <1>4, TakeKeeps
<1>5. CASE send_start
  BY <1>5, StartKeeps
<1>6. CASE send_wrap
  BY <1>6, WrapKeeps
<1>7. CASE handler
  BY <1>7, Elsewhere DEF handler
<1>8. CASE receive_packet
  <2>1. SendInHandler \/ (UNCHANGED txvars /\ nstatus' = nstatus) \/ (UNCHANGED txvars /\ nstatus' = "astray")
    BY <1>8 DEF receive_packet
  <2> QED BY <2>1, HandlerSendKeeps, Elsewhere
<1>9. CASE acknowledge
  BY <1>9, Elsewhere DEF acknowledge
<1>10. CASE UNCHANGED nicvars
  BY <1>10, Elsewhere DEF nicvars, txvars
<1> QED BY <1>1, <1>2, <1>3, <1>4, <1>5, <1>6, <1>7, <1>8, <1>9, <1>10 DEF NicNext

LEMMA Starts == NicInit => IInv
<1> SUFFICES ASSUME NicInit PROVE Sending
  BY DEF IInv
<1> USE DEF NicInit
<1>1. Histories /\ UnderWay = {}
  BY DEF Histories, UnderWay
<1>2. Descriptors
  BY <1>1 DEF Descriptors
<1>3. Counted
  BY FS_EmptySet DEF Counted
<1>4. Step
  BY DEF Step
<1> QED BY <1>1, <1>2, <1>3, <1>4 DEF Sending

-----------------------------------------------------------------------------
(* The property. *)

\* Until a descriptor is used again before the card has sent it, or a send in the handler cuts into
\* one in a task, frames go on the wire in the order they were started, none lost or twice, and no
\* descriptor behind the fourth is used (rtl8139_send).
THEOREM FramesSentInOrder == NicSpec => []SentInOrder
<1>1. IInv => SentInOrder
  <2> SUFFICES ASSUME IInv, ~crowded
               PROVE  /\ wire = SubSeq(sent, 1, Len(wire))
                      /\ Len(sent) - Len(wire) = Cardinality(busy) /\ nstatus # "wild"
    BY DEF SentInOrder
  <2>1. Histories /\ Counted /\ nstatus # "wild"
    BY DEF IInv, Sending
  <2>2. wire = SubSeq(sent, 1, Len(wire))
    BY <2>1 DEF Histories
  <2> QED BY <2>1, <2>2 DEF Counted
<1>2. NicSpec => []IInv
  BY Starts, Keeps, PTL DEF NicSpec
<1> QED BY <1>1, <1>2, PTL

LEMMA RemainderIs ==
  ASSUME NEW n \in Nat \ {0}, NEW q \in Int, NEW r \in 0..n - 1
  PROVE  (q * n + r) % n = r
<1>1. q * n \in Int
  OBVIOUS
<1> QED BY <1>1

-----------------------------------------------------------------------------
(* The RTL8139: receiving. far[i] is how far the header of packet i is from where the handler
   reads, and far of the packet to come how far the card writes. *)

Size == RX_BUF_SIZE
Around(x) == IF x < Size THEN x ELSE x - Size
Packet == [id : Nat \ {0}, len : Lengths]

\* the packets not read yet lie one behind the other from where the handler reads
Headers(far, ring, c, packets, h) ==
  LET a == Len(packets)
  IN /\ far \in [h + 1..a + 1 -> 0..Size - 1] /\ far[h + 1] = 0
     /\ \A i \in h + 1..a : far[i + 1] = far[i] + packets[i].len + 1
     /\ \A i, j \in h + 1..a + 1 : i < j => far[i] < far[j]
     /\ \A i \in h + 1..a : ring[Around(c + far[i])] = packets[i]
NicRing(far) ==
  /\ rx \in [0..Size -> Packet \cup {None}] /\ rx[Size] = None
  /\ current_packet_ptr \in 0..Size /\ capr = Around(current_packet_ptr)
  /\ cbr = Around(capr + far[Len(arrived) + 1])
  /\ Headers(far, rx, capr, arrived, Len(handed))
NicOrder ==
  /\ arrived \in Seq(Packet) /\ handed \in Seq(Packet) /\ Len(handed) <= Len(arrived)
  /\ \A i \in 1..Len(handed) : handed[i] = arrived[i]
\* a packet is there for each interrupt, and one at a time until two come together
NicComes ==
  LET h == Len(handed)
      a == Len(arrived)
  IN /\ at \in {"idle", "receive", "ack"}
     /\ at = "receive" => h < a /\ (~merged => a = h + 1)
     /\ at = "idle" /\ "ROK" \in isr => h < a /\ (~merged => a = h + 1)
     /\ at = "idle" /\ "ROK" \notin isr /\ ~merged => a = h
     /\ at = "ack" /\ ~merged => a = h
     /\ nstatus = "astray" => current_packet_ptr = Size
NicRecv(far) == NicRing(far) /\ NicOrder /\ NicComes
NicRecvInv == \E far : NicRecv(far)

LEMMA Sizes == Size \in Nat \ {0} /\ \A len \in Lengths : len \in Nat /\ len + 1 < Size
BY NicAssumption DEF Size

LEMMA AroundIs == ASSUME NEW x \in Int, 0 <= x, x < 2 * Size PROVE x % Size = Around(x) /\ Around(x) \in 0..Size - 1
<1>1. CASE x < Size
  <2>1. (0 * Size + x) % Size = x
    BY <1>1, Sizes, RemainderIs
  <2>2. 0 * Size + x = x
    BY Sizes
  <2> QED BY <2>1, <2>2, <1>1, Sizes DEF Around
<1>2. CASE ~ x < Size
  <2>1. x - Size \in 0..Size - 1 /\ x - Size \in Int
    BY <1>2, Sizes
  <2>2. (1 * Size + (x - Size)) % Size = x - Size
    BY <2>1, Sizes, RemainderIs
  <2>3. 1 * Size + (x - Size) = x
    BY Sizes
  <2> QED BY <2>1, <2>2, <2>3, <1>2, Sizes DEF Around
<1> QED BY <1>1, <1>2

\* the room the card sees, when it writes d behind where the driver reads
LEMMA RoomIs ==
  ASSUME NEW c \in 0..Size - 1, NEW d \in 0..Size - 1
  PROVE  (Size + c - Around(c + d)) % Size = IF d = 0 THEN 0 ELSE Size - d
<1>1. CASE d = 0
  <2>1. Size + c - Around(c + d) = Size
    BY <1>1, Sizes DEF Around
  <2>2. Size % Size = Around(Size)
    BY Sizes, AroundIs
  <2> QED BY <1>1, <2>1, <2>2, Sizes DEF Around
<1>2. CASE d # 0 /\ c + d < Size
  <2>1. Size + c - Around(c + d) = Size - d /\ Size - d \in Int /\ 0 <= Size - d /\ Size - d < Size /\ Size - d < 2 * Size
    BY <1>2, Sizes DEF Around
  <2>2. (Size - d) % Size = Around(Size - d)
    BY <2>1, AroundIs
  <2> QED BY <1>2, <2>1, <2>2, Sizes DEF Around
<1>3. CASE d # 0 /\ ~ c + d < Size
  <2>1. Size + c - Around(c + d) = 2 * Size - d /\ 2 * Size - d \in Int /\ 0 <= 2 * Size - d /\ ~ 2 * Size - d < Size /\ 2 * Size - d < 2 * Size
    BY <1>3, Sizes DEF Around
  <2>2. (2 * Size - d) % Size = Around(2 * Size - d)
    BY <2>1, AroundIs
  <2> QED BY <1>3, <2>1, <2>2, Sizes DEF Around
<1> QED BY <1>1, <1>2, <1>3

LEMMA AroundTwice ==
  ASSUME NEW c \in 0..Size - 1, NEW n \in 1..Size - 1, NEW f \in n..Size - 1
  PROVE  Around(Around(c + n) + (f - n)) = Around(c + f)
BY Sizes DEF Around

\* what the card writes behind the packets not read yet leaves their headers
LEMMA HeaderLeft ==
  ASSUME NEW c \in 0..Size - 1, NEW d \in 0..Size - 1, NEW f \in 0..Size - 1, f < d,
         NEW len \in Nat, d + len + 1 < Size
  PROVE  Around(c + f) \notin Around(c + d)..Around(c + d) + len
BY Sizes DEF Around

LEMMA RingTypes ==
  ASSUME NEW far, NicRecv(far)
  PROVE  /\ Len(arrived) \in Nat /\ Len(handed) \in Nat /\ Len(handed) <= Len(arrived)
         /\ capr \in 0..Size - 1 /\ cbr \in 0..Size - 1
         /\ \A i \in Len(handed) + 1..Len(arrived) + 1 : far[i] \in 0..Size - 1
         /\ \A i \in 1..Len(arrived) : arrived[i] \in Packet /\ arrived[i].len \in Lengths /\ arrived[i].len \in Nat
<1>1. arrived \in Seq(Packet) /\ handed \in Seq(Packet) /\ Len(handed) <= Len(arrived)
  BY DEF NicRecv, NicOrder
<1>2. Len(arrived) \in Nat /\ Len(handed) \in Nat
  BY <1>1
<1>3. capr \in 0..Size - 1
  BY Sizes DEF NicRecv, NicRing, Around
<1>4. \A i \in Len(handed) + 1..Len(arrived) + 1 : far[i] \in 0..Size - 1
  BY <1>2 DEF NicRecv, NicRing, Headers
<1>5. Len(arrived) + 1 \in Len(handed) + 1..Len(arrived) + 1
  BY <1>1, <1>2
<1>6. cbr \in 0..Size - 1
  BY <1>3, <1>4, <1>5, Sizes DEF NicRecv, NicRing, Around
<1>7. \A i \in 1..Len(arrived) : arrived[i] \in Packet /\ arrived[i].len \in Lengths /\ arrived[i].len \in Nat
  <2>1. ASSUME NEW q \in Packet PROVE q.len \in Lengths
    BY DEF Packet
  <2>2. \A i \in 1..Len(arrived) : arrived[i] \in Packet
    BY <1>1
  <2> QED BY <2>1, <2>2, Sizes
<1> QED BY <1>1, <1>2, <1>3, <1>4, <1>6, <1>7

LEMMA ArriveKeeps ==
  ASSUME NEW far, NicRecv(far), NEW len \in Lengths, Arrive(len)
  PROVE  \E g : NicRecv(g)'
<1>h. PICK h : h = Len(handed)
  OBVIOUS
<1>a. PICK a : a = Len(arrived)
  OBVIOUS
<1>d. PICK d : d = far[a + 1]
  OBVIOUS
<1>p. PICK p : p = [id |-> a + 1, len |-> len]
  OBVIOUS
<1> DEFINE g == [i \in h + 1..a + 2 |-> IF i = a + 2 THEN d + len + 1 ELSE far[i]]
<1>1. /\ a \in Nat /\ h \in Nat /\ h <= a /\ capr \in 0..Size - 1 /\ cbr \in 0..Size - 1
      /\ \A i \in h + 1..a + 1 : far[i] \in 0..Size - 1
  BY RingTypes, <1>h, <1>a
<1>2. /\ len \in Nat /\ len + 1 < Size /\ Size \in Nat \ {0} /\ p \in Packet /\ p # None
  BY Sizes, <1>1, <1>p DEF Packet, None
<1>3. a + 1 \in h + 1..a + 1 /\ d \in 0..Size - 1 /\ cbr = Around(capr + d)
  BY <1>1, <1>a, <1>d DEF NicRecv, NicRing
<1>4. d + len + 1 < Size
  <2>1. Room = IF d = 0 THEN 0 ELSE Size - d
    BY <1>1, <1>3, RoomIs DEF Room, Size
  <2>2. Room = 0 \/ len + 1 < Room
    BY DEF Arrive
  <2> QED BY <2>1, <2>2, <1>2, <1>3
<1>5. /\ rx' = [o \in DOMAIN rx |-> IF o = cbr THEN p ELSE IF o \in cbr..cbr + len THEN None ELSE rx[o]]
      /\ arrived' = Append(arrived, p)
  BY <1>a, <1>p DEF Arrive
<1>6. /\ arrived \in Seq(Packet) /\ handed \in Seq(Packet) /\ \A i \in 1..h : handed[i] = arrived[i]
      /\ rx \in [0..Size -> Packet \cup {None}] /\ rx[Size] = None
      /\ current_packet_ptr \in 0..Size /\ capr = Around(current_packet_ptr)
  BY <1>h DEF NicRecv, NicRing, NicOrder
<1>7. /\ arrived' \in Seq(Packet) /\ Len(arrived') = a + 1 /\ arrived'[a + 1] = p
      /\ \A i \in 1..a : arrived'[i] = arrived[i]
  BY <1>5, <1>6, <1>2, <1>1, <1>a
<1>8. /\ handed' = handed /\ capr' = capr /\ current_packet_ptr' = current_packet_ptr /\ at' = at /\ nstatus' = nstatus
      /\ isr' = isr \cup {"ROK"} /\ merged' = (merged \/ "ROK" \in isr \/ at # "idle")
      /\ nstatus = "ok"
  BY DEF Arrive, txvars
<1>9. /\ g \in [h + 1..a + 2 -> 0..Size - 1] /\ g[a + 2] = d + len + 1
      /\ \A i \in h + 1..a + 1 : g[i] = far[i]
  <2>1. ASSUME NEW i \in h + 1..a + 2
        PROVE  g[i] \in 0..Size - 1 /\ (i # a + 2 => g[i] = far[i]) /\ (i = a + 2 => g[i] = d + len + 1)
    <3>1. CASE i = a + 2
      BY <3>1, <1>1, <1>2, <1>3, <1>4, <1>d
    <3>2. CASE i # a + 2
      <4>1. i \in h + 1..a + 1
        BY <3>2, <1>1
      <4> QED BY <3>2, <4>1, <1>1
    <3> QED BY <3>1, <3>2
  <2>2. a + 2 \in h + 1..a + 2 /\ \A i \in h + 1..a + 1 : i \in h + 1..a + 2 /\ i # a + 2
    BY <1>1
  <2>3. g = [i \in h + 1..a + 2 |-> g[i]]
    OBVIOUS
  <2> HIDE DEF g
  <2>4. \A i \in h + 1..a + 2 : g[i] \in 0..Size - 1
    BY <2>1
  <2> QED BY <2>1, <2>2, <2>3, <2>4
<1>10. cbr' = Around(capr + (d + len + 1))
  <2>1. cbr' = (cbr + len + 1) % Size
    BY DEF Arrive, Size
  <2>2. cbr + len + 1 \in Int /\ 0 <= cbr + len + 1 /\ cbr + len + 1 < 2 * Size
    BY <1>1, <1>2
  <2>3. (cbr + len + 1) % Size = Around(cbr + len + 1)
    BY <2>2, AroundIs
  <2>4. Around(cbr + len + 1) = Around(capr + (d + len + 1))
    BY <1>1, <1>2, <1>3, <1>4 DEF Around
  <2> QED BY <2>1, <2>3, <2>4
<1>11. /\ rx' \in [0..Size -> Packet \cup {None}] /\ rx'[Size] = None /\ rx'[cbr] = p
       /\ \A o \in 0..Size : o \notin cbr..cbr + len => rx'[o] = rx[o]
  <2>1. DOMAIN rx = 0..Size /\ cbr \in 0..Size /\ Size \in 0..Size /\ cbr # Size
    BY <1>1, <1>2, <1>6
  <2>2. cbr \in cbr..cbr + len
    BY <1>1, <1>2
  <2> QED BY <1>2, <1>5, <1>6, <2>1, <2>2
<1>12. Headers(far, rx, capr, arrived, h)
  BY <1>h DEF NicRecv, NicRing
<1> HIDE DEF g
<1>13. ASSUME NEW i \in h + 1..a + 1
       PROVE  g[i + 1] = g[i] + arrived'[i].len + 1 /\ rx'[Around(capr + g[i])] = arrived'[i]
  <2>1. CASE i = a + 1
    <3>1. g[i + 1] = d + len + 1 /\ g[i] = d
      BY <2>1, <1>1, <1>9, <1>3, <1>d
    <3>2. arrived'[i] = p /\ p.len = len
      BY <2>1, <1>7, <1>p
    <3> QED BY <3>1, <3>2, <1>3, <1>11
  <2>2. CASE i # a + 1
    <3>1. i \in h + 1..a /\ i \in 1..a /\ i + 1 \in h + 1..a + 1 /\ i \in h + 1..a + 1 /\ i < a + 1
      BY <2>2, <1>1
    <3>2. far[i + 1] = far[i] + arrived[i].len + 1 /\ far[i] < d /\ rx[Around(capr + far[i])] = arrived[i]
      BY <3>1, <1>12, <1>3, <1>1, <1>a, <1>d DEF Headers
    <3>3. Around(capr + far[i]) \notin cbr..cbr + len
      BY <1>1, <1>2, <1>3, <1>4, <3>1, <3>2, HeaderLeft
    <3>4. Around(capr + far[i]) \in 0..Size
      BY <1>1, <1>2, <3>1 DEF Around
    <3> QED BY <1>7, <1>9, <1>11, <3>1, <3>2, <3>3, <3>4
  <2> QED BY <2>1, <2>2
<1>14. ASSUME NEW i \in h + 1..a + 2, NEW j \in h + 1..a + 2, i < j
       PROVE  g[i] < g[j]
  <2>1. i \in h + 1..a + 1 /\ g[i] = far[i]
    BY <1>14, <1>1, <1>9
  <2>2. CASE j = a + 2
    <3>1. far[i] <= d
      <4>1. CASE i = a + 1
        BY <4>1, <1>d, <1>3
      <4>2. CASE i # a + 1
        <5>1. i \in h + 1..a + 1 /\ a + 1 \in h + 1..a + 1 /\ i < a + 1
          BY <2>1, <1>1, <4>2
        <5>2. far[i] < far[a + 1]
          BY <5>1, <1>12, <1>a DEF Headers
        <5> QED BY <5>1, <5>2, <1>1, <1>d
      <4> QED BY <4>1, <4>2
    <3> QED BY <2>1, <2>2, <3>1, <1>1, <1>2, <1>3, <1>9
  <2>3. CASE j # a + 2
    <3>1. j \in h + 1..a + 1 /\ g[j] = far[j]
      BY <2>3, <1>1, <1>9
    <3> QED BY <1>14, <2>1, <3>1, <1>12, <1>a DEF Headers
  <2> QED BY <2>2, <2>3
<1>15. g[h + 1] = 0
  <2>1. h + 1 \in h + 1..a + 1
    BY <1>1
  <2>2. far[h + 1] = 0
    BY <1>12 DEF Headers
  <2> QED BY <2>1, <2>2, <1>9
<1>16. Headers(g, rx', capr', arrived', h)
  <2>1. Len(arrived') + 1 = a + 2
    BY <1>1, <1>7
  <2>2. /\ g \in [h + 1..Len(arrived') + 1 -> 0..Size - 1] /\ g[h + 1] = 0
        /\ \A i \in h + 1..Len(arrived') : g[i + 1] = g[i] + arrived'[i].len + 1
        /\ \A i, j \in h + 1..Len(arrived') + 1 : i < j => g[i] < g[j]
        /\ \A i \in h + 1..Len(arrived') : rx'[Around(capr' + g[i])] = arrived'[i]
    BY <2>1, <1>7, <1>8, <1>9, <1>13, <1>14, <1>15
  <2> QED BY <2>2 DEF Headers
<1>17. NicRing(g)'
  <2>1. /\ rx' \in [0..Size -> Packet \cup {None}] /\ rx'[Size] = None
        /\ current_packet_ptr' \in 0..Size /\ capr' = Around(current_packet_ptr')
        /\ cbr' = Around(capr' + g[Len(arrived') + 1])
        /\ Headers(g, rx', capr', arrived', Len(handed'))
    <3>1. Len(handed') = h /\ Len(arrived') + 1 = a + 2 /\ g[a + 2] = d + len + 1
      BY <1>1, <1>h, <1>7, <1>8, <1>9
    <3> QED BY <3>1, <1>6, <1>8, <1>10, <1>11, <1>16
  <2> QED BY <2>1 DEF NicRing
<1>18. NicOrder'
  <2>1. h <= Len(arrived') /\ Len(handed') = h /\ handed' = handed
    BY <1>1, <1>7, <1>8, <1>h
  <2>2. \A i \in 1..h : handed'[i] = arrived'[i]
    <3>1. \A i \in 1..h : i \in 1..a
      BY <1>1
    <3> QED BY <3>1, <2>1, <1>6, <1>7
  <2> QED BY <1>6, <1>7, <2>1, <2>2 DEF NicOrder
<1>19. NicComes'
  <2>1. Len(handed') = h /\ Len(arrived') = a + 1
    BY <1>h, <1>7, <1>8
  <2>2. /\ at \in {"idle", "receive", "ack"}
        /\ at = "receive" => h < a
        /\ at = "idle" /\ "ROK" \notin isr /\ ~merged => a = h
    BY <1>h, <1>a DEF NicRecv, NicComes
  <2>3. /\ "ROK" \in isr' /\ at' = at /\ nstatus' # "astray"
        /\ ~merged' => ~merged /\ "ROK" \notin isr /\ at = "idle"
    BY <1>8, Zenon
  <2>4. h < a + 1 /\ (a = h => a + 1 = h + 1)
    BY <1>1
  <2>5. at # "receive" \/ at # "idle"
    OBVIOUS
  <2> QED BY <2>1, <2>2, <2>3, <2>4, Zenon DEF NicComes
<1> QED BY <1>17, <1>18, <1>19 DEF NicRecv

\* nothing is received while rx, the offsets and the packets stay
LEMMA RecvStays ==
  ASSUME NicRecvInv, UNCHANGED rxvars, NicComes'
  PROVE  NicRecvInv'
<1>1. PICK far : NicRecv(far)
  BY DEF NicRecvInv
<1>2. NicRing(far)' /\ NicOrder'
  BY <1>1 DEF NicRecv, NicRing, NicOrder, rxvars
<1> QED BY <1>2 DEF NicRecvInv, NicRecv

\* the handler reads the header where it stands, or none at the end of the ring
LEMMA HeaderRead ==
  ASSUME NEW far, NicRecv(far), Len(handed) < Len(arrived), current_packet_ptr # Size
  PROVE  /\ current_packet_ptr \in DOMAIN rx /\ capr = current_packet_ptr
         /\ rx[current_packet_ptr] = arrived[Len(handed) + 1] /\ arrived[Len(handed) + 1] # None
<1>1. /\ Len(arrived) \in Nat /\ Len(handed) \in Nat /\ Len(handed) + 1 \in Len(handed) + 1..Len(arrived)
      /\ Len(handed) + 1 \in 1..Len(arrived)
  BY RingTypes
<1>2. current_packet_ptr \in 0..Size /\ rx \in [0..Size -> Packet \cup {None}] /\ capr = Around(current_packet_ptr)
  BY DEF NicRecv, NicRing
<1>3. Headers(far, rx, capr, arrived, Len(handed))
  BY DEF NicRecv, NicRing
<1>4. current_packet_ptr < Size /\ capr = current_packet_ptr
  BY <1>2, Sizes DEF Around
<1>5. rx[Around(capr + far[Len(handed) + 1])] = arrived[Len(handed) + 1] /\ far[Len(handed) + 1] = 0
  BY <1>1, <1>3 DEF Headers
<1>6. Around(capr + 0) = capr
  BY <1>2, <1>4, Sizes DEF Around
<1>7. arrived[Len(handed) + 1] \in Packet
  BY <1>1, RingTypes
<1>8. None \notin Packet
  BY DEF None, Packet
<1> QED BY <1>2, <1>4, <1>5, <1>6, <1>7, <1>8

LEMMA ReceiveKeeps == NicRecvInv /\ receive_packet => NicRecvInv'
<1> SUFFICES ASSUME NicRecvInv, receive_packet PROVE NicRecvInv'
  OBVIOUS
<1>1. PICK far : NicRecv(far)
  BY DEF NicRecvInv
<1>2. /\ nstatus = "ok" /\ at = "receive" /\ isr' = isr
      /\ Len(handed) < Len(arrived) /\ (~merged => Len(arrived) = Len(handed) + 1)
  BY <1>1 DEF receive_packet, NicRecv, NicComes
<1>3. Len(arrived) \in Nat /\ Len(handed) \in Nat
  BY <1>1, RingTypes
<1>4. CASE current_packet_ptr = Size
  <2>1. current_packet_ptr \in DOMAIN rx /\ rx[current_packet_ptr] = None
    BY <1>1, <1>4, Sizes DEF NicRecv, NicRing
  <2>2. nstatus' = "astray" /\ UNCHANGED rxvars /\ at' = at
    BY <2>1 DEF receive_packet, rxvars
  <2>3. NicComes'
    BY <1>1, <1>2, <1>4, <2>2 DEF NicRecv, NicComes, rxvars
  <2> QED BY <2>2, <2>3, RecvStays
<1>5. CASE current_packet_ptr # Size
  <2>h. PICK h : h = Len(handed)
    OBVIOUS
  <2>p. PICK p : p = arrived[h + 1]
    OBVIOUS
  <2>1. /\ current_packet_ptr \in DOMAIN rx /\ capr = current_packet_ptr
        /\ rx[current_packet_ptr] = p /\ p # None
    BY <1>1, <1>2, <1>5, <2>h, <2>p, HeaderRead
  <2>2. /\ handed' = Append(handed, p) /\ current_packet_ptr' = Advanced(p)
        /\ capr' = current_packet_ptr' % Size /\ at' = "ack"
        /\ rx' = rx /\ cbr' = cbr /\ arrived' = arrived /\ merged' = merged
        /\ (nstatus' = nstatus \/ nstatus' = "wild")
    BY <1>2, <1>3, <2>1 DEF receive_packet, SendInHandler, Size
  <2>a. PICK a : a = Len(arrived)
    OBVIOUS
  <2>3. /\ a \in Nat /\ h \in Nat /\ h < a /\ capr \in 0..Size - 1 /\ cbr \in 0..Size - 1
        /\ \A i \in h + 1..a + 1 : far[i] \in 0..Size - 1
        /\ \A i \in 1..a : arrived[i] \in Packet /\ arrived[i].len \in Lengths /\ arrived[i].len \in Nat
    BY <1>1, <1>2, <2>h, <2>a, RingTypes
  <2>4. h + 1 \in 1..a /\ p \in Packet /\ p.len \in Nat /\ p.len + 1 < Size /\ Size \in Nat \ {0}
    <3>1. h + 1 \in 1..a
      BY <2>3
    <3> QED BY <3>1, <2>3, <2>p, Sizes
  <2>5. /\ arrived \in Seq(Packet) /\ handed \in Seq(Packet) /\ \A i \in 1..h : handed[i] = arrived[i]
        /\ rx \in [0..Size -> Packet \cup {None}] /\ rx[Size] = None
        /\ cbr = Around(capr + far[a + 1]) /\ Headers(far, rx, capr, arrived, h)
    BY <1>1, <2>h, <2>a DEF NicRecv, NicRing, NicOrder
  <2>6. /\ handed' \in Seq(Packet) /\ Len(handed') = h + 1 /\ handed'[h + 1] = p
        /\ \A i \in 1..h : handed'[i] = handed[i]
    BY <2>2, <2>4, <2>5, <2>h
  <2>n. PICK n : n = p.len + 1
    OBVIOUS
  <2>7. /\ n \in 1..Size - 1 /\ current_packet_ptr' \in 0..Size
        /\ capr' = Around(current_packet_ptr') /\ capr' = Around(capr + n)
    <3>1. n \in 1..Size - 1
      BY <2>4, <2>n
    <3>2. current_packet_ptr' = IF capr + n > Size THEN capr + n - Size ELSE capr + n
      <4>1. PICK o : o = current_packet_ptr + p.len + 1
        OBVIOUS
      <4>2. o = capr + n /\ o \in Int
        BY <4>1, <2>1, <2>3, <2>4, <2>n
      <4>3. Advanced(p) = IF o > Size THEN o - Size ELSE o
        BY <4>1 DEF Advanced, Size
      <4> QED BY <2>2, <2>3, <2>4, <3>1, <4>2, <4>3
    <3>3. current_packet_ptr' \in 0..Size /\ current_packet_ptr' < 2 * Size
      BY <3>1, <3>2, <2>3, <2>4
    <3>4. capr' = Around(current_packet_ptr')
      BY <3>3, <2>2, <2>4, AroundIs
    <3>5. Around(current_packet_ptr') = Around(capr + n)
      BY <3>1, <3>2, <2>3, <2>4 DEF Around
    <3> QED BY <3>1, <3>3, <3>4, <3>5
  <2>8. /\ far[h + 1] = 0 /\ far[h + 2] = n
        /\ \A i \in h + 2..a + 1 : n <= far[i] /\ far[i] \in 0..Size - 1
    <3>1. /\ h + 1 \in h + 1..a /\ (h + 1) + 1 = h + 2 /\ h + 2 \in h + 1..a + 1
      BY <2>3
    <3>2. far[h + 1] = 0 /\ far[h + 2] = far[h + 1] + p.len + 1
      BY <3>1, <2>5, <2>a, <2>p DEF Headers
    <3>3. far[h + 2] = n
      BY <3>2, <2>4, <2>n
    <3>4. ASSUME NEW i \in h + 2..a + 1
          PROVE  n <= far[i] /\ far[i] \in 0..Size - 1
      <4>1. i \in h + 1..a + 1
        BY <2>3
      <4>2. CASE i = h + 2
        BY <4>1, <4>2, <3>3, <2>3, <2>7
      <4>3. CASE i # h + 2
        <5>1. h + 2 < i
          BY <4>3, <2>3
        <5>2. far[h + 2] < far[i]
          BY <5>1, <4>1, <3>1, <2>5, <2>a DEF Headers
        <5> QED BY <5>2, <4>1, <3>3, <2>3, <2>7
      <4> QED BY <4>2, <4>3
    <3> QED BY <3>2, <3>3, <3>4
  <2> DEFINE g == [i \in h + 2..a + 1 |-> far[i] - n]
  <2>9. g \in [h + 2..a + 1 -> 0..Size - 1] /\ \A i \in h + 2..a + 1 : g[i] = far[i] - n /\ g[i] \in 0..Size - 1
    <3>1. \A i \in h + 2..a + 1 : far[i] - n \in 0..Size - 1
      BY <2>4, <2>7, <2>8
    <3> QED BY <3>1
  <2> HIDE DEF g
  <2>10. ASSUME NEW i \in h + 2..a + 1
         PROVE  Around(capr' + g[i]) = Around(capr + far[i])
    <3>1. far[i] \in n..Size - 1 /\ g[i] = far[i] - n
      BY <2>3, <2>4, <2>7, <2>8, <2>9
    <3>2. Around(Around(capr + n) + (far[i] - n)) = Around(capr + far[i])
      BY <3>1, <2>3, <2>7, AroundTwice
    <3> QED BY <3>1, <3>2, <2>7
  <2>11. Headers(g, rx, capr', arrived, h + 1)
    <3>1. h + 1 + 1 = h + 2
      BY <2>3
    <3>2. g[h + 2] = 0
      <4>1. h + 2 \in h + 2..a + 1
        BY <2>3
      <4> QED BY <4>1, <2>7, <2>8, <2>9
    <3>3. ASSUME NEW i \in h + 2..a
          PROVE  g[i + 1] = g[i] + arrived[i].len + 1 /\ rx[Around(capr' + g[i])] = arrived[i]
      <4>1. i \in h + 1..a /\ i \in 1..a /\ i \in h + 2..a + 1 /\ i + 1 \in h + 2..a + 1
        BY <2>3
      <4>2. far[i + 1] = far[i] + arrived[i].len + 1 /\ rx[Around(capr + far[i])] = arrived[i]
        BY <4>1, <2>5, <2>a DEF Headers
      <4>3. far[i] \in Int /\ far[i + 1] \in Int /\ arrived[i].len \in Int /\ n \in Int
        BY <4>1, <2>3, <2>7, <2>8
      <4>4. g[i + 1] = far[i + 1] - n /\ g[i] = far[i] - n
        BY <4>1, <2>9
      <4> QED BY <4>1, <4>2, <4>3, <4>4, <2>10
    <3>4. ASSUME NEW i \in h + 2..a + 1, NEW j \in h + 2..a + 1, i < j
          PROVE  g[i] < g[j]
      <4>1. i \in h + 1..a + 1 /\ j \in h + 1..a + 1
        BY <2>3
      <4>2. far[i] < far[j]
        BY <3>4, <4>1, <2>5, <2>a DEF Headers
      <4> QED BY <4>2, <2>7, <2>8, <2>9
    <3> QED BY <3>1, <3>2, <3>3, <3>4, <2>9, <2>a DEF Headers
  <2>12. cbr' = Around(capr' + g[Len(arrived') + 1])
    <3>1. a + 1 \in h + 2..a + 1
      BY <2>3
    <3> QED BY <3>1, <2>2, <2>5, <2>10, <2>a
  <2>13. NicRing(g)'
    <3>1. /\ rx' \in [0..Size -> Packet \cup {None}] /\ rx'[Size] = None
          /\ current_packet_ptr' \in 0..Size /\ capr' = Around(current_packet_ptr')
          /\ cbr' = Around(capr' + g[Len(arrived') + 1])
          /\ Headers(g, rx', capr', arrived', Len(handed'))
      BY <2>2, <2>5, <2>6, <2>7, <2>11, <2>12
    <3> QED BY <3>1 DEF NicRing
  <2>14. NicOrder'
    <3>1. h + 1 <= a
      BY <2>3
    <3>2. \A i \in 1..h + 1 : handed'[i] = arrived[i]
      <4>1. \A i \in 1..h + 1 : i \in 1..h \/ i = h + 1
        BY <2>3
      <4> QED BY <4>1, <2>5, <2>6, <2>p
    <3> QED BY <3>1, <3>2, <2>2, <2>5, <2>6, <2>a DEF NicOrder
  <2>15. NicComes'
    BY <1>2, <2>2, <2>6, <2>h DEF NicComes
  <2> QED BY <2>13, <2>14, <2>15 DEF NicRecvInv, NicRecv
<1> QED BY <1>4, <1>5

LEMMA NicRecvStep == NicRecvInv /\ [NicNext]_nicvars => NicRecvInv'
<1> SUFFICES ASSUME NicRecvInv, [NicNext]_nicvars PROVE NicRecvInv'
  OBVIOUS
<1>0. NicComes
  BY DEF NicRecvInv, NicRecv
<1>1. CASE \E len \in Lengths : Arrive(len)
  <2>1. PICK len \in Lengths : Arrive(len)
    BY <1>1
  <2>2. PICK far : NicRecv(far)
    BY DEF NicRecvInv
  <2>3. PICK g : NicRecv(g)'
    BY <2>1, <2>2, ArriveKeeps
  <2> QED BY <2>3 DEF NicRecvInv
<1>2. CASE TransmitNext
  <2>1. UNCHANGED rxvars /\ at' = at /\ nstatus' = nstatus /\ ("ROK" \in isr' <=> "ROK" \in isr)
    BY <1>2 DEF TransmitNext
  <2>2. NicComes'
    BY <1>0, <2>1 DEF NicComes, rxvars
  <2> QED BY <2>1, <2>2, RecvStays
<1>3. CASE send_addr \/ send_take \/ send_start \/ send_wrap
  <2>1. UNCHANGED rxvars /\ at' = at /\ (nstatus' = nstatus \/ nstatus' = "wild") /\ isr' = isr
    BY <1>3 DEF send_addr, send_take, send_start, send_wrap
  <2>2. NicComes'
    BY <1>0, <2>1 DEF NicComes, rxvars
  <2> QED BY <2>1, <2>2, RecvStays
<1>4. CASE handler
  <2>1. UNCHANGED rxvars /\ nstatus' = nstatus /\ at = "idle" /\ isr' = isr /\ at' = IF "ROK" \in isr THEN "receive" ELSE "ack"
    BY <1>4 DEF handler
  <2>2. NicComes'
    BY <1>0, <2>1 DEF NicComes, rxvars
  <2> QED BY <2>1, <2>2, RecvStays
<1>5. CASE receive_packet
  BY <1>5, ReceiveKeeps
<1>6. CASE acknowledge
  <2>1. UNCHANGED rxvars /\ nstatus' = nstatus /\ at = "ack" /\ isr' = {} /\ at' = "idle"
    BY <1>6 DEF acknowledge
  <2>2. NicComes'
    BY <1>0, <2>1 DEF NicComes, rxvars
  <2> QED BY <2>1, <2>2, RecvStays
<1>7. CASE UNCHANGED nicvars
  <2>1. UNCHANGED rxvars /\ nstatus' = nstatus /\ at' = at /\ isr' = isr
    BY <1>7 DEF nicvars, rxvars
  <2>2. NicComes'
    BY <1>0, <2>1 DEF NicComes, rxvars
  <2> QED BY <2>1, <2>2, RecvStays
<1> QED BY <1>1, <1>2, <1>3, <1>4, <1>5, <1>6, <1>7 DEF NicNext

LEMMA NicRecvStarts == NicInit => NicRecvInv
<1> SUFFICES ASSUME NicInit PROVE NicRecvInv
  OBVIOUS
<1> DEFINE far == [i \in 1..1 |-> 0]
<1>1. /\ rx \in [0..Size -> Packet \cup {None}] /\ rx[Size] = None
      /\ cbr = 0 /\ capr = 0 /\ current_packet_ptr = 0
      /\ arrived = <<>> /\ handed = <<>> /\ Len(arrived) = 0 /\ Len(handed) = 0
      /\ Around(0) = 0 /\ 0 \in 0..Size /\ 0 \in 0..Size - 1
  BY Sizes DEF NicInit, Size, Around
<1>2. far \in [1..1 -> 0..Size - 1] /\ far[1] = 0
  BY <1>1
<1> HIDE DEF far
<1>3. Headers(far, rx, capr, arrived, 0)
  BY <1>1, <1>2 DEF Headers
<1>4. NicRing(far)
  <2>1. cbr = Around(capr + far[Len(arrived) + 1])
    BY <1>1, <1>2
  <2> QED BY <1>1, <1>3, <2>1 DEF NicRing
<1>5. NicOrder
  BY <1>1 DEF NicOrder
<1>6. NicComes
  BY <1>1 DEF NicComes, NicInit
<1> QED BY <1>4, <1>5, <1>6 DEF NicRecvInv, NicRecv

LEMMA NicRecvHolds == NicRecvInv => ReceivedInOrder
<1> SUFFICES ASSUME NicRecvInv PROVE ReceivedInOrder
  OBVIOUS
<1>1. /\ arrived \in Seq(Packet) /\ handed \in Seq(Packet) /\ Len(handed) <= Len(arrived)
      /\ \A i \in 1..Len(handed) : handed[i] = arrived[i]
  BY DEF NicRecvInv, NicRecv, NicOrder
<1>2. /\ nstatus = "astray" => current_packet_ptr = RX_BUF_SIZE
      /\ (at = "idle" /\ isr \cap {"ROK"} = {} /\ ~merged) => Len(handed) = Len(arrived)
  BY DEF NicRecvInv, NicRecv, NicComes, Size
<1>3. handed = SubSeq(arrived, 1, Len(handed))
  BY <1>1
<1>4. Len(handed) = Len(arrived) => handed = arrived
  BY <1>1
<1> QED BY <1>2, <1>3, <1>4 DEF ReceivedInOrder

(* The packets handed to the network are those the card accepted, in order and each once, whatever
   the size of the ring and however the packets and the handler interleave (receive_packet). *)
THEOREM PacketsReceivedInOrder == NicSpec => []ReceivedInOrder
<1> QED BY NicRecvStarts, NicRecvStep, NicRecvHolds, PTL DEF NicSpec

-----------------------------------------------------------------------------
LEMMA Remainder ==
  ASSUME NEW n \in Nat \ {0}, NEW x \in Int
  PROVE  \E q \in Int, r \in 0..n - 1 : x = q * n + r /\ x % n = r
<1>1. x \div n \in Int /\ x % n \in 0..n - 1
  OBVIOUS
<1>2. x = (x \div n) * n + (x % n)
  OBVIOUS
<1> QED BY <1>1, <1>2

\* counting on, past the last place to the first
LEMMA NextPlace ==
  ASSUME NEW x \in Nat
  PROVE  x % Ring \in 0..Ring - 1 /\ Following(x % Ring) = (x + 1) % Ring /\ (x + Ring) % Ring = x % Ring
<1>1. Ring \in Nat \ {0}
  BY AmAssumption
<1>2. PICK q \in Int, r \in 0..Ring - 1 : x = q * Ring + r /\ x % Ring = r
  <2>1. x \in Int
    OBVIOUS
  <2> QED BY <1>1, <2>1, Remainder
<1>3. q * Ring \in Int /\ (q + 1) * Ring = q * Ring + Ring /\ q + 1 \in Int
  BY <1>1
<1>4. (x + Ring) % Ring = r
  <2>1. x + Ring = (q + 1) * Ring + r
    BY <1>1, <1>2, <1>3
  <2> QED BY <1>1, <1>3, <2>1, RemainderIs
<1>5. (r + 1) % Ring = (x + 1) % Ring
  <2>1. CASE r + 1 < Ring
    <3>1. x + 1 = q * Ring + (r + 1) /\ r + 1 \in 0..Ring - 1 /\ r + 1 = 0 * Ring + (r + 1) /\ 0 \in Int
      BY <1>1, <1>2, <1>3, <2>1
    <3>2. (q * Ring + (r + 1)) % Ring = r + 1
      BY <1>1, <3>1, RemainderIs
    <3>3. (0 * Ring + (r + 1)) % Ring = r + 1
      BY <1>1, <3>1, RemainderIs
    <3> QED BY <3>1, <3>2, <3>3
  <2>2. CASE r + 1 = Ring
    <3>1. x + 1 = (q + 1) * Ring + 0 /\ 0 \in 0..Ring - 1 /\ r + 1 = 1 * Ring + 0 /\ 1 \in Int
      BY <1>1, <1>2, <1>3, <2>2
    <3>2. ((q + 1) * Ring + 0) % Ring = 0
      BY <1>1, <1>3, <3>1, RemainderIs
    <3>3. (1 * Ring + 0) % Ring = 0
      BY <1>1, <3>1, RemainderIs
    <3> QED BY <3>1, <3>2, <3>3
  <2> QED BY <1>1, <2>1, <2>2
<1> QED BY <1>2, <1>4, <1>5 DEF Following

\* Ring places in a row are different
LEMMA PlacesApart ==
  ASSUME NEW x \in Nat, NEW y \in Nat, x < y, y < x + Ring
  PROVE  x % Ring # y % Ring
<1>1. Ring \in Nat \ {0} /\ x \in Int /\ y \in Int
  BY AmAssumption
<1>2. PICK q \in Int, r \in 0..Ring - 1 : x = q * Ring + r /\ x % Ring = r
  BY <1>1, Remainder
<1>3. PICK p \in Int, s \in 0..Ring - 1 : y = p * Ring + s /\ y % Ring = s
  BY <1>1, Remainder
<1>4. SUFFICES ASSUME r = s PROVE FALSE
  BY <1>2, <1>3
<1>5. q * Ring \in Int /\ p * Ring \in Int /\ q * Ring < p * Ring /\ p * Ring < q * Ring + Ring
  BY <1>1, <1>2, <1>3, <1>4
<1>6. CASE p <= q
  <2>1. p * Ring <= q * Ring
    BY <1>1, <1>6
  <2> QED BY <1>5, <2>1
<1>7. CASE q + 1 <= p
  <2>1. (q + 1) * Ring <= p * Ring /\ (q + 1) * Ring = q * Ring + Ring
    BY <1>1, <1>7
  <2> QED BY <1>1, <1>5, <2>1
<1> QED BY <1>6, <1>7

-----------------------------------------------------------------------------
(* Its buffers. *)

Frames == Int \X Int
LEMMA Buffers ==
  ASSUME NEW i \in 0..Ring - 1
  PROVE  Address16(i) \in Units(i) /\ Units(i) \subseteq Memory /\ Address16(i) \in Int
<1>1. Ring \in Nat \ {0} /\ FrameUnits \in Nat \ {0} /\ Skew \in Nat
  BY AmAssumption
<1>2. \A j \in 0..Ring - 1 : Address16(j) \in Nat
  BY <1>1 DEF Address16
<1>3. Ring - 1 \in 0..Ring - 1
  BY <1>1
<1>4. Address16(i) <= Address16(Ring - 1)
  <2>1. PICK x \in Nat, y \in Nat : x = 8 * i + Skew + 15 /\ y = 8 * (Ring - 1) + Skew + 15 /\ x <= y
    BY <1>1
  <2>2. x \div 16 <= y \div 16
    BY <2>1
  <2> QED BY <2>1, <2>2 DEF Address16
<1> QED BY <1>1, <1>2, <1>3, <1>4 DEF Units, Memory

LEMMA Whole ==
  ASSUME NEW store \in [Memory -> Frames], NEW i \in 0..Ring - 1, NEW f \in Int
  PROVE  Copied(store, i, f) \in [Memory -> Frames] /\ Content(Copied(store, i, f), i) = f
<1> DEFINE c == Copied(store, i, f)
<1>1. Address16(i) \in Units(i) /\ Units(i) \subseteq Memory /\ Address16(i) \in Int
  BY Buffers
<1>2. \A u \in Memory : u \in Int
  BY AmAssumption DEF Memory
<1>3. c = [u \in Memory |-> IF u \in Units(i) THEN <<f, u - Address16(i)>> ELSE store[u]]
  BY DEF Copied
<1>4. c \in [Memory -> Frames]
  BY <1>1, <1>2, <1>3 DEF Frames
<1>5. \A u \in Units(i) : c[u] = <<f, u - Address16(i)>>
  BY <1>1, <1>3
<1> HIDE DEF c
<1>6. c[Address16(i)][1] = f
  BY <1>1, <1>5
<1>7. Content(c, i) = f
  BY <1>5, <1>6 DEF Content
<1> QED BY <1>4, <1>7 DEF c

LEMMA ContentType ==
  ASSUME NEW store \in [Memory -> Frames], NEW i \in 0..Ring - 1
  PROVE  Content(store, i) \in Int
<1>1. Address16(i) \in Memory
  BY Buffers
<1>2. store[Address16(i)][1] \in Int
  BY <1>1 DEF Frames
<1> QED BY <1>2 DEF Content

-----------------------------------------------------------------------------
(* AM79C_send. *)

Place(f) == (f - 1) % Ring
AmCounts ==
  /\ started \in Seq(Int) /\ carried \in Seq(Int) /\ Len(carried) <= Len(started) /\ Len(started) <= Len(carried) + Ring
  /\ \A i \in 1..Len(started) : started[i] = i
  /\ \A i \in 1..Len(carried) : carried[i] = i \/ i \in met
AmPlaces ==
  /\ card_send = Len(carried) % Ring
  /\ send_own = {Place(f) : f \in Len(carried) + 1..Len(started)}
  /\ IsFiniteSet(send_own) /\ Cardinality(send_own) = Len(started) - Len(carried)
  /\ send_mem \in [Memory -> Frames]
  /\ \A f \in Len(carried) + 1..Len(started) : f \in met \/ Content(send_mem, Place(f)) = f
\* the send in task context has the next place, as it was when it began
AmTask ==
  LET n == Len(started) % Ring IN
  /\ sending \in [step : {"idle", "next", "copy", "own"}, descriptor : Int]
  /\ sending.step \in {"idle", "next"} => currentSendBuffer = n
  /\ sending.step # "idle" => sending.descriptor = n
  /\ sending.step \in {"copy", "own"} => currentSendBuffer = Following(n)
  /\ sending.step = "own" => n \notin send_own /\ (Len(started) + 1 \in met \/ Content(send_mem, n) = Len(started) + 1)
AmSend == AmCounts /\ AmPlaces /\ AmTask
AmSendInv == ~split => AmSend

LEMMA AmLengths ==
  ASSUME AmCounts
  PROVE  /\ Len(started) \in Nat /\ Len(carried) \in Nat /\ Len(carried) <= Len(started) /\ Len(started) <= Len(carried) + Ring
         /\ Ring \in Nat \ {0} /\ Len(started) % Ring \in 0..Ring - 1
<1>1. started \in Seq(Int) /\ carried \in Seq(Int)
  BY DEF AmCounts
<1>2. Len(started) \in Nat /\ Len(carried) \in Nat
  BY <1>1
<1> QED BY <1>2, NextPlace, AmAssumption DEF AmCounts

\* the next place is free while fewer wait than there are places
LEMMA AmFree ==
  ASSUME AmCounts, AmPlaces, Len(started) % Ring \notin send_own
  PROVE  Len(started) < Len(carried) + Ring
<1>1. /\ Len(started) \in Nat /\ Len(carried) \in Nat /\ Len(started) <= Len(carried) + Ring /\ Ring \in Nat \ {0}
  BY AmLengths
<1>2. SUFFICES ASSUME Len(started) = Len(carried) + Ring PROVE FALSE
  BY <1>1
<1>3. Len(carried) + 1 \in Len(carried) + 1..Len(started) /\ (Len(carried) + 1) - 1 = Len(carried)
  BY <1>1, <1>2
<1>4. Len(carried) % Ring \in send_own
  BY <1>3 DEF AmPlaces, Place
<1>5. Len(started) % Ring = Len(carried) % Ring
  BY <1>1, <1>2, NextPlace
<1> QED BY <1>4, <1>5

\* who waits is met by a copy
LEMMA AmCopied ==
  ASSUME AmCounts, AmPlaces, NEW f, f = Len(started) + 1, NEW d \in 0..Ring - 1, Copy(d, f), carried' = carried
  PROVE  /\ met \subseteq met' /\ send_mem' \in [Memory -> Frames]
         /\ f \in met' \/ Content(send_mem', d) = f
         /\ \A g \in Len(carried) + 1..Len(started) : g \in met' \/ Content(send_mem', Place(g)) = g
<1>1. /\ Len(started) \in Nat /\ Len(carried) \in Nat
  BY AmLengths
<1>2. send_mem' = Copied(send_mem, d, f) /\ met' = IF Waiting = {} THEN met ELSE met \cup Waiting \cup {f}
  BY DEF Copy
<1>3. send_mem' \in [Memory -> Frames] /\ Content(send_mem', d) = f
  BY <1>1, <1>2, Whole DEF AmPlaces
<1>4. Waiting = Len(carried) + 1..Len(started)
  <2>1. \A i \in Len(carried) + 1..Len(started) : started[i] = i
    BY <1>1 DEF AmCounts
  <2> QED BY <2>1 DEF Waiting
<1> QED BY <1>2, <1>3, <1>4

\* the own bit: one more frame, at the next place
LEMMA AmStarted ==
  ASSUME AmCounts, Len(started) < Len(carried) + Ring, NEW own, NEW seq,
         own = send_own \cup {Len(started) % Ring}, seq = Append(started, Len(started) + 1),
         send_own = {Place(f) : f \in Len(carried) + 1..Len(started)},
         IsFiniteSet(send_own), Cardinality(send_own) = Len(started) - Len(carried)
  PROVE  /\ seq \in Seq(Int) /\ Len(seq) = Len(started) + 1 /\ \A i \in 1..Len(seq) : seq[i] = i
         /\ own = {Place(f) : f \in Len(carried) + 1..Len(seq)}
         /\ IsFiniteSet(own) /\ Cardinality(own) = Len(seq) - Len(carried)
<1>1. /\ Len(started) \in Nat /\ Len(carried) \in Nat /\ Len(carried) <= Len(started) /\ Ring \in Nat \ {0}
      /\ started \in Seq(Int) /\ \A i \in 1..Len(started) : started[i] = i
  BY AmLengths DEF AmCounts
<1>2. seq \in Seq(Int) /\ Len(seq) = Len(started) + 1 /\ \A i \in 1..Len(seq) : seq[i] = i
  <2>1. PICK x \in Int : x = Len(started) + 1 /\ seq = Append(started, x)
    BY <1>1
  <2>2. seq \in Seq(Int) /\ Len(seq) = Len(started) + 1 /\ seq[Len(started) + 1] = x /\ \A i \in 1..Len(started) : seq[i] = started[i]
    BY <1>1, <2>1
  <2>3. \A i \in 1..Len(started) + 1 : i \in 1..Len(started) \/ i = Len(started) + 1
    BY <1>1
  <2>4. ASSUME NEW i \in 1..Len(seq) PROVE seq[i] = i
    <3>1. CASE i = Len(started) + 1
      BY <2>1, <2>2, <3>1
    <3>2. CASE i \in 1..Len(started)
      BY <1>1, <2>2, <3>2
    <3> QED BY <2>2, <2>3, <3>1, <3>2
  <2>5. Len(seq) = Len(started) + 1 /\ seq \in Seq(Int)
    BY <2>2
  <2> QED BY <2>4, <2>5, Zenon
<1>3. Place(Len(started) + 1) = Len(started) % Ring
  BY <1>1 DEF Place
<1>4. own = {Place(f) : f \in Len(carried) + 1..Len(seq)}
  <2>1. Len(carried) + 1..Len(seq) = (Len(carried) + 1..Len(started)) \cup {Len(started) + 1}
    BY <1>1, <1>2
  <2> QED BY <1>3, <2>1
<1>5. Len(started) % Ring \notin send_own
  <2>1. SUFFICES ASSUME NEW f \in Len(carried) + 1..Len(started), Place(f) = Len(started) % Ring PROVE FALSE
    OBVIOUS
  <2>2. f - 1 \in Nat /\ f - 1 < Len(started) /\ Len(started) < (f - 1) + Ring
    BY <1>1
  <2> QED BY <1>1, <2>1, <2>2, PlacesApart DEF Place
<1>6. IsFiniteSet(own) /\ Cardinality(own) = Cardinality(send_own) + 1
  BY <1>5, FS_AddElement
<1>7. Cardinality(own) = Len(seq) - Len(carried)
  <2>1. PICK n \in Nat, c \in Nat : n = Len(started) /\ c = Len(carried)
    BY <1>1
  <2>2. Cardinality(own) = (n - c) + 1 /\ Len(seq) = n + 1
    BY <1>2, <1>6, <2>1
  <2> QED BY <2>1, <2>2
<1> QED BY <1>2, <1>4, <1>6, <1>7

LEMMA CarryKeeps == AmSendInv /\ Carry => AmSendInv'
<1> SUFFICES ASSUME AmSendInv, Carry, ~split' PROVE AmSend'
  BY DEF AmSendInv
<1>1. /\ card_send \in send_own /\ carried' = Append(carried, Content(send_mem, card_send))
      /\ send_own' = send_own \ {card_send} /\ card_send' = Following(card_send)
      /\ send_mem' = send_mem /\ currentSendBuffer' = currentSendBuffer /\ sending' = sending
      /\ started' = started /\ met' = met /\ split' = split
  BY DEF Carry
<1>2. AmCounts /\ AmPlaces /\ AmTask
  BY <1>1 DEF AmSendInv, AmSend
<1> DEFINE n == Len(started)
           c == Len(carried)
<1>3. n \in Nat /\ c \in Nat /\ c <= n /\ n <= c + Ring /\ Ring \in Nat \ {0}
  BY <1>2, AmLengths
<1>4. card_send = c % Ring /\ send_own = {Place(f) : f \in c + 1..n} /\ card_send \in 0..Ring - 1
  BY <1>2, <1>3, NextPlace DEF AmPlaces
<1>5. c < n
  <2>1. PICK f \in c + 1..n : TRUE
    BY <1>1, <1>4
  <2> QED BY <1>3, <2>1
<1>6. Place(c + 1) = c % Ring /\ c + 1 \in c + 1..n
  BY <1>3, <1>5 DEF Place
<1>7. c + 1 \in met \/ Content(send_mem, card_send) = c + 1
  BY <1>2, <1>4, <1>6 DEF AmPlaces
<1>8. Content(send_mem, card_send) \in Int
  BY <1>2, <1>4, ContentType DEF AmPlaces
<1>9. /\ carried' \in Seq(Int) /\ Len(carried') = c + 1 /\ carried'[c + 1] = Content(send_mem, card_send)
      /\ \A i \in 1..c : carried'[i] = carried[i]
  <2>1. carried \in Seq(Int)
    BY <1>2 DEF AmCounts
  <2> QED BY <1>1, <1>8, <2>1
<1>10. AmCounts'
  <2>1. ASSUME NEW i \in 1..c + 1 PROVE carried'[i] = i \/ i \in met
    <3>1. CASE i = c + 1
      BY <1>7, <1>9, <3>1
    <3>2. CASE i # c + 1
      <4>1. i \in 1..c
        BY <1>3, <3>2
      <4> QED BY <1>2, <1>9, <4>1 DEF AmCounts
    <3> QED BY <3>1, <3>2
  <2> QED BY <1>1, <1>2, <1>3, <1>5, <1>9, <2>1 DEF AmCounts
<1>11. send_own' = {Place(f) : f \in c + 2..n}
  <2>1. ASSUME NEW f \in c + 2..n PROVE Place(f) # card_send
    <3>1. f - 1 \in Nat /\ c < f - 1 /\ f - 1 < c + Ring
      BY <1>3
    <3> QED BY <1>3, <1>4, <3>1, PlacesApart DEF Place
  <2>2. c + 1..n = {c + 1} \cup (c + 2..n)
    BY <1>3, <1>5
  <2> QED BY <1>1, <1>4, <1>6, <2>1, <2>2
<1>12. IsFiniteSet(send_own') /\ Cardinality(send_own') = n - (c + 1)
  <2>1. IsFiniteSet(send_own) /\ Cardinality(send_own) = n - c
    BY <1>2 DEF AmPlaces
  <2>2. IsFiniteSet(send_own \ {card_send}) /\ Cardinality(send_own \ {card_send}) = Cardinality(send_own) - 1
    BY <1>1, <2>1, FS_RemoveElement
  <2> QED BY <1>1, <1>3, <2>1, <2>2
<1>13. card_send' = (c + 1) % Ring
  BY <1>1, <1>3, <1>4, NextPlace
<1>14. AmPlaces'
  <2>1. c + 2 = (c + 1) + 1 /\ c + 2..n \subseteq c + 1..n
    BY <1>3
  <2>2. \A f \in c + 2..n : f \in met \/ Content(send_mem, Place(f)) = f
    BY <1>2, <2>1 DEF AmPlaces
  <2>3. send_mem \in [Memory -> Frames]
    BY <1>2 DEF AmPlaces
  <2> QED BY <1>1, <1>9, <1>11, <1>12, <1>13, <2>1, <2>2, <2>3 DEF AmPlaces, Place
<1>15. AmTask'
  BY <1>1, <1>2 DEF AmTask
<1> QED BY <1>10, <1>14, <1>15 DEF AmSend

\* the steps of the send in task context
LEMMA SendKeeps ==
  AmSendInv /\ (send_begin \/ send_next \/ send_copy \/ send_own_bit) => AmSendInv'
<1> SUFFICES ASSUME AmSendInv, send_begin \/ send_next \/ send_copy \/ send_own_bit, ~split' PROVE AmSend'
  BY DEF AmSendInv
<1>1. ~split
  BY Zenon DEF send_begin, send_next, send_copy, send_own_bit
<1>2. AmCounts /\ AmPlaces /\ AmTask
  BY <1>1 DEF AmSendInv, AmSend
<1> DEFINE n == Len(started)
           d == n % Ring
<1>3. n \in Nat /\ Len(carried) \in Nat /\ n <= Len(carried) + Ring /\ Ring \in Nat \ {0} /\ d \in 0..Ring - 1
  BY <1>2, AmLengths
<1>4. CASE send_begin \/ send_next
  <2>1. /\ send_own' = send_own /\ send_mem' = send_mem /\ card_send' = card_send /\ started' = started
        /\ carried' = carried /\ met' = met
    BY <1>4 DEF send_begin, send_next
  <2>2. AmCounts' /\ AmPlaces'
    BY <1>2, <2>1 DEF AmCounts, AmPlaces, Place
  <2>3. CASE send_begin
    <3>1. sending.step = "idle" /\ sending' = [step |-> "next", descriptor |-> currentSendBuffer] /\ currentSendBuffer' = currentSendBuffer
      BY <2>3 DEF send_begin
    <3>2. currentSendBuffer = d /\ d \in Int /\ sending'.step = "next" /\ sending'.descriptor = d
      BY <1>2, <1>3, <3>1 DEF AmTask
    <3>3. sending' \in [step : {"idle", "next", "copy", "own"}, descriptor : Int]
      BY <3>1, <3>2
    <3>4. AmTask'
      BY <2>1, <3>1, <3>2, <3>3 DEF AmTask
    <3> QED BY <2>2, <3>4 DEF AmSend
  <2>4. CASE send_next
    <3>1. /\ sending.step = "next" /\ sending'.step = "copy" /\ sending'.descriptor = sending.descriptor
          /\ currentSendBuffer' = Following(currentSendBuffer) /\ sending' = [sending EXCEPT !.step = "copy"]
      BY <1>2, <2>4 DEF send_next, AmTask
    <3>2. sending' \in [step : {"idle", "next", "copy", "own"}, descriptor : Int]
      BY <1>2, <3>1 DEF AmTask
    <3>3. sending.descriptor = d /\ currentSendBuffer = d
      BY <1>2, <3>1 DEF AmTask
    <3>4. AmTask'
      BY <2>1, <3>1, <3>2, <3>3 DEF AmTask
    <3> QED BY <2>2, <3>4 DEF AmSend
  <2> QED BY <1>4, <2>3, <2>4
<1>5. CASE send_copy
  <2>1. /\ sending.step = "copy" /\ sending'.step = "own" /\ sending'.descriptor = sending.descriptor
        /\ Copy(sending.descriptor, n + 1) /\ sending.descriptor \notin send_own
        /\ send_own' = send_own /\ card_send' = card_send /\ started' = started /\ carried' = carried
        /\ currentSendBuffer' = currentSendBuffer /\ sending' = [sending EXCEPT !.step = "own"]
    BY <1>1, <1>2, <1>5 DEF send_copy, AmTask
  <2>2. sending.descriptor = d /\ currentSendBuffer = Following(d)
    BY <1>2, <2>1 DEF AmTask
  <2>3. PICK f : f = n + 1
    OBVIOUS
  <2>4. /\ met \subseteq met' /\ send_mem' \in [Memory -> Frames]
        /\ f \in met' \/ Content(send_mem', d) = f
        /\ \A g \in Len(carried) + 1..n : g \in met' \/ Content(send_mem', Place(g)) = g
    BY <1>2, <1>3, <2>1, <2>2, <2>3, AmCopied
  <2>5. AmCounts'
    BY <1>2, <2>1, <2>4 DEF AmCounts
  <2>6. AmPlaces'
    BY <1>2, <2>1, <2>4 DEF AmPlaces, Place
  <2>7. AmTask'
    <3>1. sending' \in [step : {"idle", "next", "copy", "own"}, descriptor : Int]
      BY <1>2, <2>1 DEF AmTask
    <3> QED BY <2>1, <2>2, <2>3, <2>4, <3>1 DEF AmTask
  <2> QED BY <2>5, <2>6, <2>7 DEF AmSend
<1>6. CASE send_own_bit
  <2>1. /\ sending.step = "own" /\ send_own' = send_own \cup {sending.descriptor} /\ started' = Append(started, n + 1)
        /\ sending' = [step |-> "idle", descriptor |-> 0]
        /\ send_mem' = send_mem /\ card_send' = card_send /\ carried' = carried /\ met' = met
        /\ currentSendBuffer' = currentSendBuffer
    BY <1>6 DEF send_own_bit
  <2>2. /\ sending.descriptor = d /\ currentSendBuffer = Following(d) /\ d \notin send_own
        /\ n + 1 \in met \/ Content(send_mem, d) = n + 1
    BY <1>2, <2>1 DEF AmTask
  <2>3. n < Len(carried) + Ring
    BY <1>2, <2>2, AmFree
  <2>4. /\ started' \in Seq(Int) /\ Len(started') = n + 1 /\ \A i \in 1..Len(started') : started'[i] = i
        /\ send_own' = {Place(f) : f \in Len(carried) + 1..Len(started')}
        /\ IsFiniteSet(send_own') /\ Cardinality(send_own') = Len(started') - Len(carried)
    <3>1. send_own = {Place(f) : f \in Len(carried) + 1..n} /\ IsFiniteSet(send_own) /\ Cardinality(send_own) = n - Len(carried)
      BY <1>2 DEF AmPlaces
    <3>2. send_own' = send_own \cup {d} /\ started' = Append(started, n + 1)
      BY <2>1, <2>2
    <3> QED BY <1>2, <2>3, <3>1, <3>2, AmStarted
  <2>5. Following(d) = (n + 1) % Ring /\ Place(n + 1) = d
    BY <1>3, NextPlace DEF Place
  <2>6. AmCounts'
    BY <1>2, <1>3, <2>1, <2>3, <2>4 DEF AmCounts
  <2>7. \A f \in Len(carried) + 1..Len(started') : f \in met \/ Content(send_mem, Place(f)) = f
    <3>1. \A f \in Len(carried) + 1..n + 1 : f \in Len(carried) + 1..n \/ f = n + 1
      BY <1>3
    <3> QED BY <1>2, <2>2, <2>4, <2>5, <3>1 DEF AmPlaces
  <2>8. AmPlaces'
    BY <1>2, <2>1, <2>4, <2>7 DEF AmPlaces, Place
  <2>9. AmTask'
    BY <2>1, <2>2, <2>4, <2>5 DEF AmTask
  <2> QED BY <2>6, <2>8, <2>9 DEF AmSend
<1> QED BY <1>4, <1>5, <1>6

LEMMA AnswerKeeps == AmSendInv /\ AnswerInHandler => AmSendInv'
<1> SUFFICES ASSUME AmSendInv, AnswerInHandler, ~split' PROVE AmSend'
  BY DEF AmSendInv
<1>1. ~split /\ sending.step = "idle" /\ currentSendBuffer \notin send_own
  BY Zenon DEF AnswerInHandler
<1>2. AmCounts /\ AmPlaces /\ AmTask
  BY <1>1 DEF AmSendInv, AmSend
<1> DEFINE n == Len(started)
           d == n % Ring
<1>3. n \in Nat /\ Len(carried) \in Nat /\ n <= Len(carried) + Ring /\ Ring \in Nat \ {0} /\ d \in 0..Ring - 1
  BY <1>2, AmLengths
<1>4. currentSendBuffer = d
  BY <1>1, <1>2 DEF AmTask
<1>5. /\ Copy(d, n + 1) /\ send_own' = send_own \cup {d} /\ started' = Append(started, n + 1)
      /\ currentSendBuffer' = Following(d) /\ card_send' = card_send /\ sending' = sending /\ carried' = carried
  BY <1>4 DEF AnswerInHandler
<1>6. PICK f : f = n + 1
  OBVIOUS
<1>7. /\ met \subseteq met' /\ send_mem' \in [Memory -> Frames]
      /\ f \in met' \/ Content(send_mem', d) = f
      /\ \A g \in Len(carried) + 1..n : g \in met' \/ Content(send_mem', Place(g)) = g
  BY <1>2, <1>3, <1>5, <1>6, AmCopied
<1>8. n < Len(carried) + Ring
  BY <1>1, <1>2, <1>4, AmFree
<1>9. /\ started' \in Seq(Int) /\ Len(started') = n + 1 /\ \A i \in 1..Len(started') : started'[i] = i
      /\ send_own' = {Place(g) : g \in Len(carried) + 1..Len(started')}
      /\ IsFiniteSet(send_own') /\ Cardinality(send_own') = Len(started') - Len(carried)
  <2>1. send_own = {Place(g) : g \in Len(carried) + 1..n} /\ IsFiniteSet(send_own) /\ Cardinality(send_own) = n - Len(carried)
    BY <1>2 DEF AmPlaces
  <2>2. send_own' = send_own \cup {d} /\ started' = Append(started, n + 1)
    BY <1>5
  <2> QED BY <1>2, <1>8, <2>1, <2>2, AmStarted
<1>10. Following(d) = (n + 1) % Ring /\ Place(n + 1) = d
  BY <1>3, NextPlace DEF Place
<1>11. AmCounts'
  <2>1. /\ carried \in Seq(Int) /\ Len(carried) \in Nat /\ Len(carried) <= n
        /\ \A i \in 1..Len(carried) : carried[i] = i \/ i \in met
    BY <1>2, <1>3 DEF AmCounts
  <2>2. Ring \in Nat /\ Len(carried) <= n + 1 /\ n + 1 <= Len(carried) + Ring
    BY <1>3, <1>8, <2>1, AmAssumption
  <2>3. \A i \in 1..Len(carried) : carried[i] = i \/ i \in met'
    BY <1>7, <2>1
  <2>4. carried' = carried
    BY <1>5
  <2> QED BY <1>9, <2>1, <2>2, <2>3, <2>4 DEF AmCounts
<1>12. \A g \in Len(carried) + 1..Len(started') : g \in met' \/ Content(send_mem', Place(g)) = g
  <2>1. \A g \in Len(carried) + 1..n + 1 : g \in Len(carried) + 1..n \/ g = n + 1
    BY <1>3
  <2> QED BY <1>6, <1>7, <1>9, <1>10, <2>1
<1>13. AmPlaces'
  BY <1>2, <1>5, <1>7, <1>9, <1>12 DEF AmPlaces, Place
<1>14. AmTask'
  <2>1. sending' \in [step : {"idle", "next", "copy", "own"}, descriptor : Int]
    BY <1>2, <1>5 DEF AmTask
  <2>2. sending'.step = "idle" /\ currentSendBuffer' = Len(started') % Ring
    BY <1>1, <1>5, <1>9, <1>10
  <2> QED BY <2>1, <2>2 DEF AmTask
<1> QED BY <1>11, <1>13, <1>14 DEF AmSend

\* whatever leaves the sending half as it is
LEMMA AmElsewhere == AmSendInv /\ UNCHANGED amsend => AmSendInv'
<1> SUFFICES ASSUME AmSendInv, UNCHANGED amsend, ~split' PROVE AmSend'
  BY DEF AmSendInv
<1>1. /\ send_own' = send_own /\ send_mem' = send_mem /\ card_send' = card_send /\ currentSendBuffer' = currentSendBuffer
      /\ sending' = sending /\ started' = started /\ carried' = carried /\ met' = met /\ split' = split
  BY DEF amsend
<1>2. AmCounts /\ AmPlaces /\ AmTask
  BY <1>1 DEF AmSendInv, AmSend
<1> QED BY <1>1, <1>2 DEF AmSend, AmCounts, AmPlaces, AmTask, Place

LEMMA AmSendStep == AmSendInv /\ [AmNext]_amvars => AmSendInv'
<1> SUFFICES ASSUME AmSendInv, [AmNext]_amvars PROVE AmSendInv'
  OBVIOUS
<1>1. CASE \E good \in BOOLEAN : Store(good)
  BY <1>1, AmElsewhere DEF Store
<1>2. CASE Carry
  BY <1>2, CarryKeeps
<1>3. CASE send_begin \/ send_next \/ send_copy \/ send_own_bit
  BY <1>3, SendKeeps
<1>4. CASE AM97C_ISR
  BY <1>4, AmElsewhere DEF AM97C_ISR
<1>5. CASE AM79C_receive
  <2>1. AnswerInHandler \/ UNCHANGED amsend
    BY <1>5 DEF AM79C_receive
  <2> QED BY <2>1, AnswerKeeps, AmElsewhere
<1>6. CASE receive_done
  BY <1>6, AmElsewhere DEF receive_done
<1>7. CASE AM97C_ack
  BY <1>7, AmElsewhere DEF AM97C_ack
<1>8. CASE UNCHANGED amvars
  BY <1>8, AmElsewhere DEF amvars, amsend
<1> QED BY <1>1, <1>2, <1>3, <1>4, <1>5, <1>6, <1>7, <1>8 DEF AmNext

LEMMA AmSendStarts == init_AM79C => AmSendInv
<1> SUFFICES ASSUME init_AM79C PROVE AmSend
  BY DEF AmSendInv
<1>1. /\ started = <<>> /\ carried = <<>> /\ send_own = {} /\ card_send = 0 /\ currentSendBuffer = 0
      /\ sending = [step |-> "idle", descriptor |-> 0] /\ send_mem = [u \in Memory |-> <<0, 0>>]
  BY DEF init_AM79C
<1>2. 0 % Ring = 0 /\ Ring \in Nat \ {0}
  BY AmAssumption
<1>3. AmCounts
  BY <1>1, <1>2 DEF AmCounts
<1>4. AmPlaces
  <2>1. send_mem \in [Memory -> Frames]
    BY <1>1 DEF Frames
  <2>2. send_own = {Place(f) : f \in Len(carried) + 1..Len(started)}
    BY <1>1
  <2> QED BY <1>1, <1>2, <2>1, <2>2, FS_EmptySet DEF AmPlaces
<1>5. AmTask
  BY <1>1, <1>2 DEF AmTask
<1> QED BY <1>3, <1>4, <1>5 DEF AmSend

\* Until a send in the handler cuts one in a task, or a place is used that is still to be sent, the
\* frames go out in order and each once, and whole unless one was copied over another (AM79C_send).
THEOREM RingFramesSent == AmSpec => []RingSends
<1>1. AmSendInv => RingSends
  <2> SUFFICES ASSUME AmSendInv, ~split
               PROVE  /\ Len(started) - Len(carried) = Cardinality(send_own)
                      /\ send_own # {} => card_send \in send_own
                      /\ \A i \in 1..Len(carried) : carried[i] = i \/ i \in met
    BY DEF RingSends
  <2>1. AmCounts /\ AmPlaces
    BY DEF AmSendInv, AmSend
  <2>2. send_own # {} => card_send \in send_own
    <3>1. SUFFICES ASSUME send_own # {} PROVE card_send \in send_own
      OBVIOUS
    <3>2. send_own = {Place(f) : f \in Len(carried) + 1..Len(started)} /\ card_send = Len(carried) % Ring
      BY <2>1 DEF AmPlaces
    <3>3. Len(carried) \in Nat /\ Len(started) \in Nat
      BY <2>1, AmLengths
    <3>4. PICK f \in Len(carried) + 1..Len(started) : TRUE
      BY <3>1, <3>2
    <3>5. Len(carried) + 1 \in Len(carried) + 1..Len(started) /\ Place(Len(carried) + 1) = Len(carried) % Ring
      BY <3>3, <3>4 DEF Place
    <3> QED BY <3>2, <3>5
  <2> QED BY <2>1, <2>2 DEF AmCounts, AmPlaces
<1>2. AmSpec => []AmSendInv
  BY AmSendStarts, AmSendStep, PTL DEF AmSpec
<1> QED BY <1>1, <1>2, PTL

-----------------------------------------------------------------------------
(* Receiving. The card has stored s packets, good or not, and the handler has passed r of them;    *)
(* where[i] says which of them packet i is.                                                         *)

Filled(r, s) == {j % Ring : j \in r..s - 1}

AmRing(r, s) ==
  /\ r <= s /\ s <= r + Ring
  /\ currentRecvBuffer = r % Ring /\ card_recv = s % Ring
  /\ recv_own = (0..Ring - 1) \ Filled(r, s)
  /\ recv_good \in [0..Ring - 1 -> BOOLEAN] /\ recv_mem \in [Memory -> Frames]
AmOrder(r, s, where) ==
  /\ taken \in Seq(Int) /\ accepted \in Seq(Int) /\ Len(taken) <= Len(accepted)
  /\ where \in [Len(taken) + 1..Len(accepted) -> r..s - 1]
  /\ \A i, j \in Len(taken) + 1..Len(accepted) : i < j => where[i] < where[j]
  /\ \A p \in r..s - 1 : recv_good[p % Ring] <=> \E i \in Len(taken) + 1..Len(accepted) : where[i] = p
  /\ \A i \in Len(taken) + 1..Len(accepted) : i \in unread \/ Content(recv_mem, where[i] % Ring) = i
  /\ \A i \in 1..Len(taken) : taken[i] = i \/ i \in unread
\* the handler comes for a packet that is there, unless it came between the last look and the acknowledge
AmComes(r, s) ==
  /\ am_step \in {"idle", "receive", "ack"} /\ late \in BOOLEAN
  /\ r # s /\ ~late => am_step = "receive" \/ (am_step = "idle" /\ "RECV" \in csr)
AmRecvAt(r, s, where) == AmRing(r, s) /\ AmOrder(r, s, where) /\ AmComes(r, s)
AmRecvInv == \E r, s \in Nat : \E where : AmRecvAt(r, s, where)

\* between r and s, each place is filled once
LEMMA FilledPlaces ==
  ASSUME NEW r \in Nat, NEW s \in Nat, r <= s, s <= r + Ring
  PROVE  /\ Filled(r, s) \subseteq 0..Ring - 1
         /\ s < r + Ring => s % Ring \notin Filled(r, s)
         /\ s = r + Ring => s % Ring \in Filled(r, s)
         /\ Filled(r, s + 1) = Filled(r, s) \cup {s % Ring}
         /\ r < s => r % Ring \in Filled(r, s) /\ Filled(r + 1, s) = Filled(r, s) \ {r % Ring}
         /\ r = s => Filled(r, s) = {}
<1>1. Ring \in Nat \ {0}
  BY AmAssumption
<1>2. \A j \in r..s - 1 : j \in Nat /\ j % Ring \in 0..Ring - 1
  BY NextPlace
<1>3. s < r + Ring => s % Ring \notin Filled(r, s)
  <2>1. SUFFICES ASSUME s < r + Ring, NEW j \in r..s - 1, s % Ring = j % Ring PROVE FALSE
    BY DEF Filled
  <2>2. j \in Nat /\ j < s /\ s < j + Ring
    BY <1>1, <2>1
  <2> QED BY <2>1, <2>2, PlacesApart
<1>4. s = r + Ring => s % Ring \in Filled(r, s)
  <2>1. SUFFICES ASSUME s = r + Ring PROVE s % Ring \in Filled(r, s)
    OBVIOUS
  <2>2. (r + Ring) % Ring = r % Ring
    BY NextPlace
  <2>3. s % Ring = r % Ring /\ r \in r..s - 1
    BY <1>1, <2>1, <2>2
  <2> QED BY <2>3 DEF Filled
<1>5. Filled(r, s + 1) = Filled(r, s) \cup {s % Ring}
  <2>1. r..(s + 1) - 1 = (r..s - 1) \cup {s}
    OBVIOUS
  <2> QED BY <2>1 DEF Filled
<1>6. r < s => r % Ring \in Filled(r, s) /\ Filled(r + 1, s) = Filled(r, s) \ {r % Ring}
  <2>1. SUFFICES ASSUME r < s PROVE r % Ring \in Filled(r, s) /\ Filled(r + 1, s) = Filled(r, s) \ {r % Ring}
    OBVIOUS
  <2>2. r..s - 1 = {r} \cup (r + 1..s - 1)
    BY <2>1
  <2>3. ASSUME NEW j \in r + 1..s - 1 PROVE j % Ring # r % Ring
    <3>1. j \in Nat /\ r < j /\ j < r + Ring
      BY <1>1
    <3> QED BY <3>1, PlacesApart
  <2> QED BY <2>2, <2>3 DEF Filled
<1> QED BY <1>2, <1>3, <1>4, <1>5, <1>6 DEF Filled

LEMMA StoreKeeps ==
  ASSUME NEW r \in Nat, NEW s \in Nat, NEW where, AmRecvAt(r, s, where), NEW good \in BOOLEAN, Store(good)
  PROVE  AmRecvInv'
<1> DEFINE t == Len(taken)
           a == Len(accepted)
<1>1. AmRing(r, s) /\ AmOrder(r, s, where) /\ AmComes(r, s)
  BY DEF AmRecvAt
<1>2. /\ card_recv \in recv_own /\ recv_mem' = Copied(recv_mem, card_recv, IF good THEN a + 1 ELSE -1)
      /\ accepted' = IF good THEN Append(accepted, a + 1) ELSE accepted
      /\ unread' = IF t = a THEN unread ELSE unread \cup (t + 1..Len(accepted'))
      /\ recv_good' = [recv_good EXCEPT ![card_recv] = good]
      /\ recv_own' = recv_own \ {card_recv} /\ card_recv' = Following(card_recv)
      /\ csr' = csr \cup {"RECV"} /\ late' = (late \/ am_step = "ack")
      /\ currentRecvBuffer' = currentRecvBuffer /\ am_step' = am_step /\ taken' = taken
  BY DEF Store
<1>3. t \in Nat /\ a \in Nat /\ t <= a /\ Ring \in Nat \ {0} /\ accepted \in Seq(Int)
  BY <1>1, AmAssumption DEF AmOrder
<1>4. card_recv = s % Ring /\ s % Ring \in 0..Ring - 1 /\ Following(s % Ring) = (s + 1) % Ring
  BY <1>1, NextPlace DEF AmRing
<1>5. r <= s /\ s < r + Ring
  <2>1. r <= s /\ s <= r + Ring /\ recv_own = (0..Ring - 1) \ Filled(r, s)
    BY <1>1 DEF AmRing
  <2> QED BY <1>2, <1>3, <1>4, <2>1, FilledPlaces
<1>6. AmRing(r, s + 1)'
  <2>1. Filled(r, s + 1) = Filled(r, s) \cup {s % Ring}
    <3>1. s <= r + Ring
      BY <1>3, <1>5
    <3> QED BY <1>5, <3>1, FilledPlaces
  <2>2. recv_own' = (0..Ring - 1) \ Filled(r, s + 1)
    BY <1>1, <1>2, <1>4, <2>1 DEF AmRing
  <2>3. recv_mem' \in [Memory -> Frames]
    <3>1. PICK x \in Int : x = IF good THEN a + 1 ELSE -1
      BY <1>3
    <3>2. recv_mem' = Copied(recv_mem, s % Ring, x)
      BY <1>2, <1>4, <3>1
    <3> QED BY <1>1, <1>4, <3>2, Whole DEF AmRing
  <2>4. recv_good' \in [0..Ring - 1 -> BOOLEAN]
    BY <1>1, <1>2 DEF AmRing
  <2>5. currentRecvBuffer' = r % Ring /\ card_recv' = (s + 1) % Ring
    BY <1>1, <1>2, <1>4 DEF AmRing
  <2> QED BY <1>3, <1>5, <2>2, <2>3, <2>4, <2>5 DEF AmRing, Filled
<1>7. AmComes(r, s + 1)'
  BY <1>1, <1>2 DEF AmComes
<1>8. ASSUME NEW p \in r..s - 1 PROVE recv_good'[p % Ring] = recv_good[p % Ring] /\ p % Ring \in 0..Ring - 1
  <2>1. p \in Nat /\ p < s /\ s < p + Ring
    BY <1>3, <1>5
  <2>2. p % Ring # s % Ring /\ p % Ring \in 0..Ring - 1
    BY <2>1, NextPlace, PlacesApart
  <2> QED BY <1>1, <1>2, <1>4, <2>2 DEF AmRing
<1>9. recv_good'[s % Ring] = good
  BY <1>1, <1>2, <1>4 DEF AmRing
<1>10. /\ where \in [t + 1..a -> r..s - 1]
       /\ \A i, j \in t + 1..a : i < j => where[i] < where[j]
       /\ \A p \in r..s - 1 : recv_good[p % Ring] <=> \E i \in t + 1..a : where[i] = p
       /\ \A i \in 1..t : taken[i] = i \/ i \in unread
  BY <1>1 DEF AmOrder
<1>11. \A i \in t + 1..a : i \in unread'
  <2>1. Len(accepted') >= a /\ Len(accepted') \in Nat
    BY <1>2, <1>3
  <2> QED BY <1>2, <1>3, <2>1
<1>12. unread \subseteq unread'
  BY <1>2
<1>13. CASE good
  <2>1. Len(accepted') = a + 1 /\ accepted' \in Seq(Int)
    BY <1>2, <1>3, <1>13
  <2>2. Content(recv_mem', s % Ring) = a + 1
    <3>1. PICK x \in Int : x = a + 1
      BY <1>3
    <3>2. recv_mem' = Copied(recv_mem, s % Ring, x)
      BY <1>2, <1>4, <1>13, <3>1
    <3>3. Content(recv_mem', s % Ring) = x
      BY <1>1, <1>4, <3>2, Whole DEF AmRing
    <3> QED BY <3>1, <3>3
  <2>0. PICK longer : longer = [i \in t + 1..a + 1 |-> IF i = a + 1 THEN s ELSE where[i]]
    OBVIOUS
  <2>3. longer \in [t + 1..a + 1 -> r..(s + 1) - 1]
    BY <1>3, <1>5, <1>10, <2>0
  <2>4. \A i, j \in t + 1..a + 1 : i < j => longer[i] < longer[j]
    <3>1. SUFFICES ASSUME NEW i \in t + 1..a + 1, NEW j \in t + 1..a + 1, i < j PROVE longer[i] < longer[j]
      OBVIOUS
    <3>2. i \in t + 1..a /\ longer[i] = where[i] /\ where[i] \in r..s - 1
      BY <1>3, <1>10, <2>0, <3>1
    <3>3. CASE j = a + 1
      BY <2>0, <3>2, <3>3
    <3>4. CASE j # a + 1
      <4>1. j \in t + 1..a /\ longer[j] = where[j]
        BY <1>3, <2>0, <3>4
      <4> QED BY <1>10, <3>1, <3>2, <4>1
    <3> QED BY <3>3, <3>4
  <2>5. \A i \in t + 1..a : longer[i] = where[i] /\ i \in t + 1..a + 1
    BY <1>3, <2>0
  <2>6. longer[a + 1] = s /\ a + 1 \in t + 1..a + 1 /\ \A i \in t + 1..a + 1 : i = a + 1 \/ i \in t + 1..a
    BY <1>3, <2>0
  <2>7. ASSUME NEW p \in r..(s + 1) - 1
        PROVE  recv_good'[p % Ring] <=> \E i \in t + 1..a + 1 : longer[i] = p
    <3>1. CASE p = s
      BY <1>9, <1>13, <2>6, <3>1
    <3>2. CASE p # s
      <4>1. p \in r..s - 1
        BY <1>5, <3>2
      <4>2. (\E i \in t + 1..a + 1 : longer[i] = p) <=> \E i \in t + 1..a : where[i] = p
        <5>1. ASSUME NEW i \in t + 1..a + 1, longer[i] = p PROVE \E j \in t + 1..a : where[j] = p
          BY <2>5, <2>6, <3>2, <5>1
        <5>2. ASSUME NEW i \in t + 1..a, where[i] = p PROVE \E j \in t + 1..a + 1 : longer[j] = p
          BY <2>5, <5>2
        <5> QED BY <5>1, <5>2
      <4> QED BY <1>8, <1>10, <4>1, <4>2
    <3> QED BY <3>1, <3>2
  <2>8. \A i \in t + 1..a + 1 : i \in unread' \/ Content(recv_mem', longer[i] % Ring) = i
    BY <1>11, <2>2, <2>6
  <2>9. \A i \in 1..t : taken[i] = i \/ i \in unread'
    BY <1>10, <1>12
  <2>10. t <= a + 1 /\ taken \in Seq(Int)
    BY <1>1, <1>3 DEF AmOrder
  <2>11. AmOrder(r, s + 1, longer)'
    BY <1>2, <2>1, <2>3, <2>4, <2>7, <2>8, <2>9, <2>10 DEF AmOrder
  <2> QED BY <1>6, <1>7, <2>11 DEF AmRecvAt, AmRecvInv
<1>14. CASE ~good
  <2>1. accepted' = accepted
    BY <1>2, <1>14
  <2>2. where \in [t + 1..a -> r..(s + 1) - 1] /\ \A i \in t + 1..a : where[i] # s
    BY <1>5, <1>10
  <2>3. ASSUME NEW p \in r..(s + 1) - 1
        PROVE  recv_good'[p % Ring] <=> \E i \in t + 1..a : where[i] = p
    <3>1. CASE p = s
      BY <1>9, <1>14, <2>2, <3>1
    <3>2. CASE p # s
      <4>1. p \in r..s - 1
        BY <1>5, <3>2
      <4> QED BY <1>8, <1>10, <4>1
    <3> QED BY <3>1, <3>2
  <2>4. taken \in Seq(Int)
    BY <1>1 DEF AmOrder
  <2>5. AmOrder(r, s + 1, where)'
    BY <1>2, <1>3, <1>10, <1>11, <1>12, <2>1, <2>2, <2>3, <2>4 DEF AmOrder
  <2> QED BY <1>6, <1>7, <2>5 DEF AmRecvAt, AmRecvInv
<1> QED BY <1>13, <1>14

LEMMA TakeKeepsAm ==
  ASSUME NEW r \in Nat, NEW s \in Nat, NEW where, AmRecvAt(r, s, where), AM79C_receive
  PROVE  AmRecvInv'
<1> DEFINE t == Len(taken)
           a == Len(accepted)
<1>1. AmRing(r, s) /\ AmOrder(r, s, where) /\ AmComes(r, s)
  BY DEF AmRecvAt
<1>2. /\ am_step = "receive" /\ currentRecvBuffer \notin recv_own
      /\ taken' = IF recv_good[currentRecvBuffer] THEN Append(taken, Content(recv_mem, currentRecvBuffer)) ELSE taken
      /\ recv_own' = recv_own \cup {currentRecvBuffer} /\ currentRecvBuffer' = Following(currentRecvBuffer)
      /\ recv_good' = [recv_good EXCEPT ![currentRecvBuffer] = FALSE]
      /\ recv_mem' = recv_mem /\ card_recv' = card_recv /\ csr' = csr /\ am_step' = am_step
      /\ accepted' = accepted /\ unread' = unread /\ late' = late
  <2>1. taken' = IF recv_good[currentRecvBuffer] THEN Append(taken, Content(recv_mem, currentRecvBuffer)) ELSE taken
    BY DEF AM79C_receive
  <2> QED BY <2>1 DEF AM79C_receive
<1>3. t \in Nat /\ a \in Nat /\ t <= a /\ Ring \in Nat \ {0} /\ accepted \in Seq(Int) /\ taken \in Seq(Int)
  BY <1>1, AmAssumption DEF AmOrder
<1>4. currentRecvBuffer = r % Ring /\ r % Ring \in 0..Ring - 1 /\ Following(r % Ring) = (r + 1) % Ring
  BY <1>1, NextPlace DEF AmRing
<1>5. r <= s /\ s <= r + Ring /\ recv_own = (0..Ring - 1) \ Filled(r, s)
  BY <1>1 DEF AmRing
<1>6. r < s
  <2>1. r # s
    BY <1>2, <1>4, <1>5, FilledPlaces
  <2> QED BY <1>5, <2>1
<1>7. AmRing(r + 1, s)'
  <2>1. r % Ring \in Filled(r, s) /\ Filled(r + 1, s) = Filled(r, s) \ {r % Ring} /\ Filled(r, s) \subseteq 0..Ring - 1
    BY <1>5, <1>6, FilledPlaces
  <2>2. recv_own' = (0..Ring - 1) \ Filled(r + 1, s)
    BY <1>2, <1>4, <1>5, <2>1
  <2>3. recv_good' \in [0..Ring - 1 -> BOOLEAN] /\ recv_mem' \in [Memory -> Frames] /\ card_recv' = s % Ring
    BY <1>1, <1>2 DEF AmRing
  <2>4. r + 1 <= s /\ s <= (r + 1) + Ring /\ currentRecvBuffer' = (r + 1) % Ring
    BY <1>2, <1>3, <1>4, <1>5, <1>6
  <2> QED BY <2>2, <2>3, <2>4 DEF AmRing, Filled
<1>8. AmComes(r + 1, s)'
  BY <1>1, <1>2 DEF AmComes
<1>9. ASSUME NEW p \in r + 1..s - 1 PROVE recv_good'[p % Ring] = recv_good[p % Ring] /\ p \in r..s - 1
  <2>1. p \in Nat /\ r < p /\ p < r + Ring
    BY <1>3, <1>5
  <2>2. p % Ring # r % Ring /\ p % Ring \in 0..Ring - 1
    BY <2>1, NextPlace, PlacesApart
  <2> QED BY <1>1, <1>2, <1>4, <2>1, <2>2 DEF AmRing
<1>10. /\ where \in [t + 1..a -> r..s - 1]
       /\ \A i, j \in t + 1..a : i < j => where[i] < where[j]
       /\ \A p \in r..s - 1 : recv_good[p % Ring] <=> \E i \in t + 1..a : where[i] = p
       /\ \A i \in t + 1..a : i \in unread \/ Content(recv_mem, where[i] % Ring) = i
       /\ \A i \in 1..t : taken[i] = i \/ i \in unread
  BY <1>1 DEF AmOrder
<1>11. r \in r..s - 1
  BY <1>6
<1>12. CASE recv_good[r % Ring]
  <2>1. PICK i \in t + 1..a : where[i] = r
    BY <1>10, <1>11, <1>12
  \* the first packet waiting is the oldest there
  <2>2. i = t + 1
    <3>1. SUFFICES ASSUME t + 1 < i PROVE FALSE
      BY <1>3
    <3>2. t + 1 \in t + 1..a
      BY <1>3, <3>1
    <3>3. where[t + 1] < where[i] /\ where[t + 1] \in r..s - 1
      BY <1>10, <3>1, <3>2
    <3> QED BY <2>1, <3>3
  <2>3. t + 1 \in t + 1..a /\ where[t + 1] = r
    BY <2>1, <2>2
  <2>4. Content(recv_mem, r % Ring) \in Int
    BY <1>1, <1>4, ContentType DEF AmRing
  <2>5. /\ taken' \in Seq(Int) /\ Len(taken') = t + 1 /\ taken'[t + 1] = Content(recv_mem, r % Ring)
        /\ \A j \in 1..t : taken'[j] = taken[j]
    <3>1. PICK x \in Int : x = Content(recv_mem, r % Ring) /\ taken' = Append(taken, x)
      BY <1>2, <1>4, <1>12, <2>4
    <3> QED BY <1>3, <3>1
  <2>6. PICK shorter : shorter = [j \in t + 2..a |-> where[j]]
    OBVIOUS
  <2>7. ASSUME NEW j \in t + 2..a PROVE j \in t + 1..a /\ shorter[j] = where[j] /\ where[j] \in r + 1..s - 1
    <3>1. j \in t + 1..a /\ t + 1 < j
      BY <1>3
    <3>2. where[t + 1] < where[j] /\ where[j] \in r..s - 1
      BY <1>10, <2>3, <3>1
    <3> QED BY <2>3, <2>6, <3>1, <3>2
  <2>8. shorter \in [t + 2..a -> r + 1..s - 1]
    BY <2>6, <2>7
  <2>9. \A j, k \in t + 2..a : j < k => shorter[j] < shorter[k]
    BY <1>10, <2>7
  <2>10. ASSUME NEW p \in r + 1..s - 1
         PROVE  recv_good'[p % Ring] <=> \E j \in t + 2..a : shorter[j] = p
    <3>1. recv_good'[p % Ring] <=> \E j \in t + 1..a : where[j] = p
      BY <1>9, <1>10
    <3>2. ASSUME NEW j \in t + 1..a, where[j] = p PROVE \E k \in t + 2..a : shorter[k] = p
      <4>1. j # t + 1
        BY <2>3, <3>2
      <4>2. j \in t + 2..a
        BY <1>3, <4>1
      <4> QED BY <2>7, <3>2, <4>2
    <3>3. ASSUME NEW j \in t + 2..a, shorter[j] = p PROVE \E k \in t + 1..a : where[k] = p
      BY <2>7, <3>3
    <3> QED BY <3>1, <3>2, <3>3
  <2>11. \A j \in t + 2..a : j \in unread \/ Content(recv_mem, shorter[j] % Ring) = j
    BY <1>10, <2>7
  <2>12. \A j \in 1..t + 1 : taken'[j] = j \/ j \in unread
    <3>1. ASSUME NEW j \in 1..t + 1 PROVE taken'[j] = j \/ j \in unread
      <4>1. CASE j = t + 1
        BY <1>10, <2>3, <2>5, <4>1
      <4>2. CASE j # t + 1
        <5>1. j \in 1..t
          BY <1>3, <4>2
        <5> QED BY <1>10, <2>5, <5>1
      <4> QED BY <4>1, <4>2
    <3> QED BY <3>1
  <2>13. (t + 1) + 1 = t + 2 /\ t + 1 <= a
    BY <1>3, <2>3
  <2>14. AmOrder(r + 1, s, shorter)'
    BY <1>2, <1>3, <2>5, <2>8, <2>9, <2>10, <2>11, <2>12, <2>13 DEF AmOrder
  <2> QED BY <1>7, <1>8, <2>14 DEF AmRecvAt, AmRecvInv
<1>13. CASE ~recv_good[r % Ring]
  <2>1. taken' = taken
    BY <1>2, <1>4, <1>13
  <2>2. ASSUME NEW i \in t + 1..a PROVE where[i] \in r + 1..s - 1
    <3>1. where[i] # r /\ where[i] \in r..s - 1
      BY <1>10, <1>11, <1>13
    <3> QED BY <3>1
  <2>3. where \in [t + 1..a -> r + 1..s - 1]
    BY <1>10, <2>2
  <2>4. \A p \in r + 1..s - 1 : recv_good'[p % Ring] <=> \E i \in t + 1..a : where[i] = p
    BY <1>9, <1>10
  <2>5. AmOrder(r + 1, s, where)'
    BY <1>2, <1>3, <1>10, <2>1, <2>3, <2>4 DEF AmOrder
  <2> QED BY <1>7, <1>8, <2>5 DEF AmRecvAt, AmRecvInv
<1> QED BY <1>12, <1>13

\* the rings stay as they are, and the handler goes its way
LEMMA RingStays ==
  ASSUME NEW r \in Nat, NEW s \in Nat, NEW where, AmRecvAt(r, s, where), UNCHANGED amrecv,
         AmComes(r, s) => AmComes(r, s)'
  PROVE  AmRecvInv'
<1>1. /\ recv_own' = recv_own /\ recv_mem' = recv_mem /\ recv_good' = recv_good /\ card_recv' = card_recv
      /\ currentRecvBuffer' = currentRecvBuffer /\ accepted' = accepted /\ taken' = taken /\ unread' = unread
  BY DEF amrecv
<1>2. AmRing(r, s)' /\ AmOrder(r, s, where)'
  BY <1>1 DEF AmRecvAt, AmRing, AmOrder, Filled
<1>3. AmComes(r, s)'
  BY DEF AmRecvAt
<1> QED BY <1>2, <1>3 DEF AmRecvAt, AmRecvInv

LEMMA AmRecvStep == AmRecvInv /\ [AmNext]_amvars => AmRecvInv'
<1> SUFFICES ASSUME NEW r \in Nat, NEW s \in Nat, NEW where, AmRecvAt(r, s, where), [AmNext]_amvars
             PROVE  AmRecvInv'
  BY DEF AmRecvInv
<1>1. CASE \E good \in BOOLEAN : Store(good)
  BY <1>1, StoreKeeps
<1>2. CASE Carry
  <2>1. UNCHANGED amrecv /\ am_step' = am_step /\ late' = late /\ csr' = csr \cup {"SENT"}
    BY <1>2 DEF Carry
  <2> QED BY <2>1, RingStays DEF AmComes
<1>3. CASE send_begin \/ send_next \/ send_copy \/ send_own_bit \/ UNCHANGED amvars
  <2>1. UNCHANGED amrecv /\ am_step' = am_step /\ late' = late /\ csr' = csr
    BY <1>3 DEF send_begin, send_next, send_copy, send_own_bit, amvars, amrecv
  <2> QED BY <2>1, RingStays DEF AmComes
<1>4. CASE AM97C_ISR
  <2>1. UNCHANGED amrecv /\ late' = late /\ csr' = csr /\ am_step = "idle" /\ am_step' = IF "RECV" \in csr THEN "receive" ELSE "ack"
    BY <1>4 DEF AM97C_ISR
  <2>2. AmComes(r, s) => AmComes(r, s)'
    BY <2>1 DEF AmComes
  <2> QED BY <2>1, <2>2, RingStays
<1>5. CASE AM79C_receive
  BY <1>5, TakeKeepsAm
<1>6. CASE receive_done
  <2>1. UNCHANGED amrecv /\ late' = late /\ am_step' = "ack" /\ currentRecvBuffer \in recv_own
    BY <1>6 DEF receive_done
  <2>2. r = s
    <3>1. r <= s /\ s <= r + Ring /\ r % Ring \notin Filled(r, s)
      BY <2>1 DEF AmRecvAt, AmRing
    <3>2. ~(r < s)
      BY <3>1, FilledPlaces
    <3> QED BY <3>1, <3>2
  <2>3. AmComes(r, s) => AmComes(r, s)'
    BY <2>1, <2>2 DEF AmComes
  <2> QED BY <2>1, <2>3, RingStays
<1>7. CASE AM97C_ack
  <2>1. UNCHANGED amrecv /\ late' = late /\ am_step = "ack" /\ am_step' = "idle"
    BY <1>7 DEF AM97C_ack
  <2>2. AmComes(r, s) => AmComes(r, s)'
    BY <2>1 DEF AmComes
  <2> QED BY <2>1, <2>2, RingStays
<1> QED BY <1>1, <1>2, <1>3, <1>4, <1>5, <1>6, <1>7 DEF AmNext

LEMMA AmRecvStarts == init_AM79C => AmRecvInv
<1> SUFFICES ASSUME init_AM79C PROVE AmRecvInv
  OBVIOUS
<1>1. /\ recv_own = 0..Ring - 1 /\ recv_mem = [u \in Memory |-> <<0, 0>>] /\ recv_good = [i \in 0..Ring - 1 |-> FALSE]
      /\ card_recv = 0 /\ currentRecvBuffer = 0 /\ am_step = "idle" /\ accepted = <<>> /\ taken = <<>> /\ late = FALSE
  BY DEF init_AM79C
<1>2. PICK z \in Nat : z = 0
  OBVIOUS
<1> DEFINE where == <<>>
<1>3. Ring \in Nat \ {0} /\ z % Ring = 0
  BY <1>2, AmAssumption
<1>4. z <= z /\ z <= z + Ring
  BY <1>2, <1>3
<1>5. AmRing(z, z)
  <2>1. Filled(z, z) = {}
    BY <1>4, FilledPlaces
  <2>2. recv_mem \in [Memory -> Frames]
    BY <1>1 DEF Frames
  <2> QED BY <1>1, <1>3, <1>4, <2>1, <2>2 DEF AmRing
<1>6. AmOrder(z, z, where)
  <2>1. where \in [Len(taken) + 1..Len(accepted) -> z..z - 1]
    BY <1>1, <1>2
  <2> QED BY <1>1, <1>2, <2>1 DEF AmOrder
<1>7. AmComes(z, z)
  BY <1>1 DEF AmComes
<1> QED BY <1>5, <1>6, <1>7 DEF AmRecvInv, AmRecvAt

\* The packets given to the network are those the card accepted, in order and each once and whole
\* unless another was stored while one waited; and with the card's bits acknowledged none waits but
\* one that came just before that (AM97C_ISR, AM79C_receive).
THEOREM RingPacketsReceived == AmSpec => []RingInOrder
<1>1. AmRecvInv => RingInOrder
  <2> SUFFICES ASSUME NEW r \in Nat, NEW s \in Nat, NEW where, AmRecvAt(r, s, where) PROVE RingInOrder
    BY DEF AmRecvInv
  <2>1. /\ Len(taken) <= Len(accepted) /\ \A i \in 1..Len(taken) : taken[i] = i \/ i \in unread
        /\ where \in [Len(taken) + 1..Len(accepted) -> r..s - 1] /\ Len(taken) \in Nat /\ Len(accepted) \in Nat
    BY DEF AmRecvAt, AmOrder
  <2>2. ASSUME am_step = "idle", "RECV" \notin csr, ~late PROVE Len(taken) = Len(accepted)
    <3>1. r = s
      BY <2>2 DEF AmRecvAt, AmComes
    <3>2. SUFFICES ASSUME Len(taken) < Len(accepted) PROVE FALSE
      BY <2>1
    <3>3. Len(taken) + 1 \in Len(taken) + 1..Len(accepted)
      BY <2>1, <3>2
    <3>4. where[Len(taken) + 1] \in r..s - 1
      BY <2>1, <3>3
    <3> QED BY <3>1, <3>4
  <2> QED BY <2>1, <2>2 DEF RingInOrder
<1>2. AmSpec => []AmRecvInv
  BY AmRecvStarts, AmRecvStep, PTL DEF AmSpec
<1> QED BY <1>1, <1>2, PTL

-----------------------------------------------------------------------------
(* The clock. *)

Names == {"second", "minute", "hour", "year"}
Modes == [binary : BOOLEAN, hours24 : BOOLEAN]

\* a field n as its register has it in mode m, and as rtc_read understands that
Encoded(m, r, n) ==
  LET k == IF r = "hour" /\ ~m.hours24 THEN Hour12(n) ELSE n
      pm == IF r = "hour" /\ ~m.hours24 /\ n >= 12 THEN 128 ELSE 0
  IN  pm + IF m.binary THEN k ELSE Bcd(k)
Plain(m, r, v) == IF m.binary THEN v ELSE IF r = "hour" THEN FromBcdHour(v) ELSE FromBcd(v)
HourOf(m, h) == IF ~m.hours24 /\ h >= 128 THEN ((h % 128) + 12) % 24 ELSE h
YearOf(n) == n + IF n < 21 THEN 2100 ELSE 2000

\* the registers read, one after the other, each at a time of a..b
PassFrom(m, regs, a, b) == \A i \in 1..Len(regs) : \E t \in a..b : regs[i] = Encoded(m, Registers[i], Fields(t)[Registers[i]])
Upto == IF updating THEN now + 1 ELSE now
RtcTypes ==
  /\ now \in Nat /\ begun \in Nat /\ begun <= now /\ now <= begun + MaxUpdates
  /\ updating \in BOOLEAN /\ (updating => now < begun + MaxUpdates) /\ mode \in Modes
  /\ reading \in [step : {"poll", "read", "done"}, regs : Seq(Int), last : Seq(Int)]
RtcPasses ==
  /\ Len(reading.regs) <= 4 /\ Len(reading.last) \in {0, 4}
  /\ reading.step = "poll" => reading.regs = <<>> /\ PassFrom(mode, reading.last, begun, Upto)
  /\ reading.step = "read" =>
       \E p \in begun..now : PassFrom(mode, reading.last, begun, p) /\ PassFrom(mode, reading.regs, p, Upto)
RtcInv == RtcTypes /\ RtcPasses /\ ClockRead

\* a quotient times its divisor and the rest
LEMMA Quotient ==
  ASSUME NEW K \in Nat \ {0}, NEW t \in Nat
  PROVE  t \div K \in Nat /\ t % K \in 0..K - 1 /\ t = (t \div K) * K + (t % K)
<1>1. K \in Int /\ K > 0 /\ t \in Int /\ t >= 0
  OBVIOUS
<1>2. t \div K \in Int /\ t % K \in 0..K - 1
  BY <1>1
<1>3. t = (t \div K) * K + (t % K)
  BY <1>1
<1>4. t \div K >= 0
  BY <1>1
<1> QED BY <1>2, <1>3, <1>4

LEMMA QuotientUp ==
  ASSUME NEW K \in Nat \ {0}, NEW a \in Nat, NEW b \in Nat, a <= b
  PROVE  a \div K <= b \div K /\ (b - a < K => b \div K <= a \div K + 1)
<1>1. PICK u \in Nat, r \in 0..K - 1 : u = a \div K /\ r = a % K /\ a = u * K + r
  BY Quotient
<1>2. PICK v \in Nat, s \in 0..K - 1 : v = b \div K /\ s = b % K /\ b = v * K + s
  BY Quotient
<1>3. u <= v
  <2>1. SUFFICES ASSUME v + 1 <= u PROVE FALSE
    OBVIOUS
  <2>2. (v + 1) * K <= u * K
    BY <2>1
  <2>3. (v + 1) * K = v * K + K /\ v * K \in Nat /\ u * K \in Nat
    OBVIOUS
  <2> QED BY <1>1, <1>2, <2>2, <2>3
<1>4. b - a < K => v <= u + 1
  <2>1. SUFFICES ASSUME b - a < K, u + 2 <= v PROVE FALSE
    OBVIOUS
  <2>2. (u + 2) * K <= v * K
    BY <2>1
  <2>3. (u + 2) * K = u * K + K + K /\ v * K \in Nat /\ u * K \in Nat
    OBVIOUS
  <2> QED BY <1>1, <1>2, <2>1, <2>2, <2>3
<1> QED BY <1>1, <1>2, <1>3, <1>4

LEMMA SameRest ==
  ASSUME NEW M \in Nat \ {0}, NEW x \in Nat, NEW y \in Nat, NEW z \in Nat,
         x <= y, y <= z, z <= x + 1, x % M = z % M
  PROVE  y % M = x % M
<1>1. CASE z = x
  <2>1. y = x
    BY <1>1
  <2> QED BY <2>1
<1>2. CASE z = x + 1
  <2>1. PICK u \in Nat, r \in 0..M - 1 : u = x \div M /\ r = x % M /\ x = u * M + r
    BY Quotient
  <2>2. PICK v \in Nat, s \in 0..M - 1 : v = z \div M /\ s = z % M /\ z = v * M + s
    BY Quotient
  <2>3. u * M + r + 1 = v * M + r
    BY <1>2, <2>1, <2>2
  <2>4. v * M = u * M + 1 /\ u * M \in Nat /\ v * M \in Nat
    BY <2>3
  <2>5. v = u + 1
    <3>1. v > u
      <4>1. SUFFICES ASSUME v <= u PROVE FALSE
        OBVIOUS
      <4>2. v * M <= u * M
        BY <4>1
      <4> QED BY <2>4, <4>2
    <3>2. v < u + 2
      <4>1. SUFFICES ASSUME u + 2 <= v PROVE FALSE
        OBVIOUS
      <4>2. (u + 2) * M <= v * M /\ (u + 2) * M = u * M + M + M
        BY <4>1
      <4> QED BY <2>4, <4>2
    <3> QED BY <3>1, <3>2
  <2>6. M = 1
    <3>1. (u + 1) * M = u * M + M
      OBVIOUS
    <3> QED BY <2>4, <2>5, <3>1
  <2>7. x % M = 0 /\ y % M = 0
    BY <2>6
  <2> QED BY <2>7
<1> QED BY <1>1, <1>2

\* a field that is the same at two times less than a minute apart is the same in between
LEMMA FieldBetween ==
  ASSUME NEW K \in Nat \ {0}, NEW M \in Nat \ {0}, NEW a \in Nat, NEW p \in Nat, NEW b \in Nat,
         a <= p, p <= b, b - a < K, (a \div K) % M = (b \div K) % M
  PROVE  (p \div K) % M = (a \div K) % M
<1>1. a \div K \in Nat /\ p \div K \in Nat /\ b \div K \in Nat
  BY Quotient
<1>2. a \div K <= p \div K /\ p \div K <= b \div K
  BY QuotientUp
<1>3. b \div K <= a \div K + 1
  <2>1. a <= b
    OBVIOUS
  <2> QED BY <2>1, QuotientUp
<1> QED BY <1>1, <1>2, <1>3, SameRest

LEMMA SecondBetween ==
  ASSUME NEW K \in Nat \ {0}, NEW a \in Nat, NEW p \in Nat, NEW b \in Nat,
         a <= p, p <= b, b - a < K, a % K = b % K
  PROVE  p = a
<1>1. PICK u \in Nat, r \in 0..K - 1 : u = a \div K /\ r = a % K /\ a = u * K + r
  BY Quotient
<1>2. PICK v \in Nat, s \in 0..K - 1 : v = b \div K /\ s = b % K /\ b = v * K + s
  BY Quotient
<1>3. v * K - u * K < K /\ v * K \in Nat /\ u * K \in Nat
  BY <1>1, <1>2
<1>4. v <= u
  <2>1. SUFFICES ASSUME u + 1 <= v PROVE FALSE
    OBVIOUS
  <2>2. (u + 1) * K <= v * K /\ (u + 1) * K = u * K + K
    BY <2>1
  <2> QED BY <1>3, <2>2
<1>5. v * K <= u * K
  BY <1>4
<1> QED BY <1>1, <1>2, <1>3, <1>5

LEMMA ClockUnits ==
  /\ Seconds \in Nat \ {0} /\ Seconds * Minutes \in Nat \ {0} /\ Day \in Nat \ {0}
  /\ Seconds <= Seconds * Minutes /\ Seconds <= Day /\ Minutes \in Nat \ {0}
<1>1. Seconds \in Nat \ {0} /\ Minutes \in Nat \ {0}
  BY RtcAssumption
<1>2. PICK h : h = Seconds * Minutes
  OBVIOUS
<1>3. h \in Nat /\ Seconds <= h
  <2>1. Seconds * 1 <= Seconds * Minutes /\ Seconds * Minutes \in Nat
    BY <1>1
  <2> QED BY <1>1, <1>2, <2>1
<1>4. Day = h * 24
  BY <1>2 DEF Day
<1> QED BY <1>1, <1>2, <1>3, <1>4

LEMMA FieldsAre ==
  ASSUME NEW t \in Nat
  PROVE  /\ Fields(t).second = t % Seconds /\ Fields(t).second \in Nat
         /\ Fields(t).minute = (t \div Seconds) % Minutes /\ Fields(t).minute \in Nat
         /\ Fields(t).hour = (t \div (Seconds * Minutes)) % 24 /\ Fields(t).hour \in 0..23
         /\ Fields(t).year = (t \div Day) % 100 /\ Fields(t).year \in 0..99
<1>1. /\ Fields(t).second = t % Seconds /\ Fields(t).minute = (t \div Seconds) % Minutes
      /\ Fields(t).hour = (t \div (Seconds * Minutes)) % 24 /\ Fields(t).year = (t \div Day) % 100
  BY DEF Fields
<1>2. t % Seconds \in Nat /\ t \div Seconds \in Nat /\ t \div (Seconds * Minutes) \in Nat /\ t \div Day \in Nat
  BY ClockUnits, Quotient
<1>3. (t \div Seconds) % Minutes \in Nat
  BY <1>2, ClockUnits, Quotient
<1>4. (t \div (Seconds * Minutes)) % 24 \in 0..24 - 1
  <2>1. PICK x \in Nat : x = t \div (Seconds * Minutes)
    BY <1>2
  <2>2. x % 24 \in 0..24 - 1
    OBVIOUS
  <2> QED BY <2>1, <2>2
<1>5. (t \div Day) % 100 \in 0..100 - 1
  <2>1. PICK x \in Nat : x = t \div Day
    BY <1>2
  <2>2. x % 100 \in 0..100 - 1
    OBVIOUS
  <2> QED BY <2>1, <2>2
<1> QED BY <1>1, <1>2, <1>3, <1>4, <1>5

LEMMA SameBetween ==
  ASSUME NEW a \in Nat, NEW p \in Nat, NEW b \in Nat, a <= p, p <= b, b - a < Seconds,
         NEW r \in Names, Fields(a)[r] = Fields(b)[r]
  PROVE  Fields(p)[r] = Fields(a)[r]
<1>1. CASE r = "second"
  <2>1. a % Seconds = b % Seconds
    BY <1>1, FieldsAre
  <2>2. p = a
    BY <2>1, SecondBetween, ClockUnits
  <2> QED BY <2>2
<1>2. CASE r = "minute"
  <2>1. (a \div Seconds) % Minutes = (b \div Seconds) % Minutes
    BY <1>2, FieldsAre
  <2>2. (p \div Seconds) % Minutes = (a \div Seconds) % Minutes
    BY <2>1, FieldBetween, ClockUnits
  <2> QED BY <1>2, <2>2, FieldsAre
<1>3. CASE r = "hour"
  <2>k. PICK K : K = Seconds * Minutes
    OBVIOUS
  <2>1. K \in Nat \ {0} /\ b - a < K /\ (a \div K) % 24 = (b \div K) % 24
    <3>1. K \in Nat \ {0} /\ Seconds <= K /\ Seconds \in Nat
      BY <2>k, ClockUnits
    <3>2. (a \div K) % 24 = (b \div K) % 24
      BY <1>3, <2>k, FieldsAre
    <3> QED BY <3>1, <3>2
  <2>2. (p \div K) % 24 = (a \div K) % 24
    BY <2>1, FieldBetween
  <2> QED BY <1>3, <2>2, <2>k, FieldsAre
<1>4. CASE r = "year"
  <2>k. PICK K : K = Day
    OBVIOUS
  <2>1. K \in Nat \ {0} /\ b - a < K /\ (a \div K) % 100 = (b \div K) % 100
    <3>1. K \in Nat \ {0} /\ Seconds <= K /\ Seconds \in Nat
      BY <2>k, ClockUnits
    <3>2. (a \div K) % 100 = (b \div K) % 100
      BY <1>4, <2>k, FieldsAre
    <3> QED BY <3>1, <3>2
  <2>2. (p \div K) % 100 = (a \div K) % 100
    BY <2>1, FieldBetween
  <2> QED BY <1>4, <2>2, <2>k, FieldsAre
<1> QED BY <1>1, <1>2, <1>3, <1>4 DEF Names

LEMMA BcdBack ==
  ASSUME NEW n \in Nat
  PROVE  Bcd(n) \in Nat /\ FromBcd(Bcd(n)) = n
<1>1. PICK u \in Nat, r \in 0..9 : u = n \div 10 /\ r = n % 10 /\ n = u * 10 + r
  <2>1. n \div 10 \in Nat /\ n % 10 \in 0..10 - 1 /\ n = (n \div 10) * 10 + (n % 10)
    BY Quotient
  <2> QED BY <2>1
<1>2. Bcd(n) = u * 16 + r
  BY <1>1 DEF Bcd
<1>3. (u * 16 + r) \div 16 = u /\ (u * 16 + r) % 16 = r
  BY <1>1
<1> QED BY <1>1, <1>2, <1>3 DEF FromBcd

LEMMA HourBack ==
  ASSUME NEW m \in Modes, NEW n \in 0..23
  PROVE  /\ Encoded(m, "hour", n) \in Nat
         /\ HourOf(m, Plain(m, "hour", Encoded(m, "hour", n))) = IF m.hours24 \/ n \notin {0, 12} THEN n ELSE 12 - n
<1>1. m.binary \in BOOLEAN /\ m.hours24 \in BOOLEAN
  BY DEF Modes
<1>2. ASSUME NEW k \in 0..23 PROVE Bcd(k) \in 0..35 /\ FromBcdHour(Bcd(k)) = k /\ FromBcdHour(128 + Bcd(k)) = 128 + k
  BY DEF Bcd, FromBcdHour
<1>3. Hour12(n) \in 1..12 /\ Hour12(n) = IF n = 0 THEN 12 ELSE IF n <= 12 THEN n ELSE n - 12
  BY DEF Hour12
<1>4. CASE m.hours24
  <2>1. Encoded(m, "hour", n) = IF m.binary THEN n ELSE Bcd(n)
    <3>1. Encoded(m, "hour", n) = 0 + IF m.binary THEN n ELSE Bcd(n)
      BY <1>4 DEF Encoded
    <3> QED BY <1>1, <1>2, <3>1
  <2>2. Plain(m, "hour", Encoded(m, "hour", n)) = n
    BY <1>1, <1>2, <2>1 DEF Plain
  <2>3. HourOf(m, n) = n
    BY <1>4 DEF HourOf
  <2> QED BY <1>1, <1>2, <1>4, <2>1, <2>2, <2>3
<1>5. CASE ~m.hours24
  <2> DEFINE pm == IF n >= 12 THEN 128 ELSE 0
             k == Hour12(n)
  <2>1. Encoded(m, "hour", n) = pm + IF m.binary THEN k ELSE Bcd(k)
    BY <1>5 DEF Encoded
  <2>2. pm \in {0, 128} /\ k \in 0..23 /\ k \in 1..12
    BY <1>3
  <2>3. k = IF n = 0 THEN 12 ELSE IF n <= 12 THEN n ELSE n - 12
    BY <1>3
  <2>4. Plain(m, "hour", Encoded(m, "hour", n)) = pm + k /\ Encoded(m, "hour", n) \in Nat
    <3> HIDE DEF pm, k
    <3>1. CASE m.binary
      BY <2>1, <2>2, <3>1 DEF Plain
    <3>2. CASE ~m.binary
      <4>1. Encoded(m, "hour", n) = pm + Bcd(k)
        BY <2>1, <3>2
      <4>2. Bcd(k) \in 0..35 /\ FromBcdHour(Bcd(k)) = k /\ FromBcdHour(128 + Bcd(k)) = 128 + k
        BY <1>2, <2>2
      <4>3. Plain(m, "hour", Encoded(m, "hour", n)) = FromBcdHour(Encoded(m, "hour", n))
        BY <3>2 DEF Plain
      <4>4. CASE pm = 0
        BY <2>2, <4>1, <4>2, <4>3, <4>4
      <4>5. CASE pm = 128
        BY <2>2, <4>1, <4>2, <4>3, <4>5
      <4> QED BY <2>2, <4>4, <4>5
    <3> QED BY <3>1, <3>2
  <2>5. HourOf(m, pm + k) = IF pm + k >= 128 THEN (((pm + k) % 128) + 12) % 24 ELSE pm + k
    BY <1>5 DEF HourOf
  <2>6. CASE n >= 12
    <3>1. pm = 128 /\ k = IF n = 12 THEN 12 ELSE n - 12
      BY <2>3, <2>6
    <3>2. pm + k = 128 + k /\ (128 + k) % 128 = k /\ 128 + k >= 128
      BY <2>2, <3>1
    <3>3. (k + 12) % 24 = IF n = 12 THEN 0 ELSE n
      <4> HIDE DEF k, pm
      <4>1. CASE n = 12
        BY <3>1, <4>1
      <4>2. CASE n # 12
        BY <2>6, <3>1, <4>2
      <4> QED BY <4>1, <4>2
    <3> HIDE DEF k, pm
    <3>4. HourOf(m, pm + k) = IF n = 12 THEN 0 ELSE n
      BY <2>5, <3>2, <3>3
    <3> QED BY <1>5, <2>4, <2>6, <3>4
  <2>7. CASE ~ n >= 12
    <3>1. pm = 0 /\ k = IF n = 0 THEN 12 ELSE n
      BY <2>3, <2>7
    <3> HIDE DEF k, pm
    <3>2. HourOf(m, pm + k) = k
      BY <2>2, <2>5, <3>1
    <3> QED BY <1>5, <2>4, <2>7, <3>1, <3>2
  <2> QED BY <2>6, <2>7
<1> QED BY <1>4, <1>5

LEMMA FieldBack ==
  ASSUME NEW m \in Modes, NEW n \in Nat, NEW r \in {"second", "minute", "year"}
  PROVE  Encoded(m, r, n) \in Nat /\ Plain(m, r, Encoded(m, r, n)) = n
<1>1. Encoded(m, r, n) = IF m.binary THEN n ELSE Bcd(n)
  <2>1. Encoded(m, r, n) = 0 + IF m.binary THEN n ELSE Bcd(n)
    BY DEF Encoded
  <2>2. Bcd(n) \in Nat
    BY BcdBack
  <2> QED BY <2>1, <2>2
<1>2. Plain(m, r, Encoded(m, r, n)) = IF m.binary THEN Encoded(m, r, n) ELSE FromBcd(Encoded(m, r, n))
  BY DEF Plain
<1> QED BY <1>1, <1>2, BcdBack

\* what the registers say tells the field
LEMMA EncodedOnce ==
  ASSUME NEW m \in Modes, NEW r \in Names, NEW a \in Nat, NEW b \in Nat,
         Encoded(m, r, Fields(a)[r]) = Encoded(m, r, Fields(b)[r])
  PROVE  Fields(a)[r] = Fields(b)[r]
<1>1. CASE r = "hour"
  <2>1. PICK x \in 0..23, y \in 0..23 : x = Fields(a)[r] /\ y = Fields(b)[r]
    BY <1>1, FieldsAre
  <2>2. (IF m.hours24 \/ x \notin {0, 12} THEN x ELSE 12 - x) = (IF m.hours24 \/ y \notin {0, 12} THEN y ELSE 12 - y)
    BY <1>1, <2>1, HourBack, ZenonT(60)
  <2>3. m.hours24 \in BOOLEAN
    BY DEF Modes
  <2> QED BY <2>1, <2>2, <2>3
<1>2. CASE r # "hour"
  <2>1. r \in {"second", "minute", "year"}
    BY <1>2 DEF Names
  <2>2. Fields(a)[r] \in Nat /\ Fields(b)[r] \in Nat
    <3>1. CASE r = "second"
      BY <3>1, FieldsAre
    <3>2. CASE r = "minute"
      BY <3>2, FieldsAre
    <3>3. CASE r = "year"
      <4>1. Fields(a).year \in 0..99 /\ Fields(b).year \in 0..99
        BY FieldsAre
      <4> QED BY <3>3, <4>1
    <3> QED BY <2>1, <3>1, <3>2, <3>3
  <2>3. /\ Plain(m, r, Encoded(m, r, Fields(a)[r])) = Fields(a)[r]
        /\ Plain(m, r, Encoded(m, r, Fields(b)[r])) = Fields(b)[r]
    BY <2>1, <2>2, FieldBack
  <2> QED BY <2>3
<1> QED BY <1>1, <1>2

\* the two passes agree: each register is as at the time between them
LEMMA PassesAgree ==
  ASSUME NEW m \in Modes, NEW regs \in Seq(Int), Len(regs) = 4, NEW a \in Nat, NEW p \in Nat, NEW b \in Nat,
         b - a < Seconds, PassFrom(m, regs, a, p), PassFrom(m, regs, p, b)
  PROVE  \A i \in 1..4 : regs[i] = Encoded(m, Registers[i], Fields(p)[Registers[i]])
<1> SUFFICES ASSUME NEW i \in 1..4 PROVE regs[i] = Encoded(m, Registers[i], Fields(p)[Registers[i]])
  OBVIOUS
<1>r. PICK r \in Names : r = Registers[i]
  BY DEF Names, Registers
<1>1. PICK t \in a..p : regs[i] = Encoded(m, r, Fields(t)[r])
  BY <1>r DEF PassFrom
<1>2. PICK s \in p..b : regs[i] = Encoded(m, r, Fields(s)[r])
  BY <1>r DEF PassFrom
<1>3. t \in Nat /\ s \in Nat /\ t <= p /\ p <= s /\ s - t < Seconds
  BY RtcAssumption
<1>4. Fields(t)[r] = Fields(s)[r]
  <2>1. Encoded(m, r, Fields(t)[r]) = Encoded(m, r, Fields(s)[r])
    BY <1>1, <1>2, Zenon
  <2>2. t \in Nat /\ s \in Nat
    BY <1>3
  <2> QED BY <2>1, <2>2, EncodedOnce, ZenonT(60)
<1>5. Fields(p)[r] = Fields(t)[r]
  BY <1>3, <1>4, SameBetween
<1> QED BY <1>1, <1>5, <1>r

LEMMA TwoChanged ==
  ASSUME NEW s, NEW mi, NEW h, NEW y, NEW A, NEW B, NEW f, f = [second |-> s, minute |-> mi, hour |-> h, year |-> y],
         NEW k, k = [f EXCEPT !.hour = A, !.year = B]
  PROVE  k = [second |-> s, minute |-> mi, hour |-> A, year |-> B]
<1>1. [f EXCEPT !.hour = A, !.year = B] = [[f EXCEPT !.hour = A] EXCEPT !.year = B]
  OBVIOUS
<1>2. PICK g : g = [f EXCEPT !.hour = A]
  OBVIOUS
<1>3. g = [second |-> s, minute |-> mi, hour |-> A, year |-> y]
  BY <1>2
<1>4. [g EXCEPT !.year = B] = [second |-> s, minute |-> mi, hour |-> A, year |-> B]
  BY <1>3
<1> QED BY <1>1, <1>2, <1>4

LEMMA DecodedShown ==
  ASSUME mode \in Modes, NEW regs \in Seq(Int), NEW p \in Nat,
         \A i \in 1..4 : regs[i] = Encoded(mode, Registers[i], Fields(p)[Registers[i]])
  PROVE  Decoded([second |-> regs[1], minute |-> regs[2], hour |-> regs[3], year |-> regs[4]]) = Shown(p)
<1> DEFINE f == Fields(p)
<1>1. PICK s, mi, h, y : s = f.second /\ mi = f.minute /\ h = f.hour /\ y = f.year
  OBVIOUS
<1>2. f = [second |-> s, minute |-> mi, hour |-> h, year |-> y] /\ s \in Nat /\ mi \in Nat /\ h \in 0..23 /\ y \in 0..99
  <2>1. f = [second |-> f.second, minute |-> f.minute, hour |-> f.hour, year |-> f.year]
    BY DEF Fields
  <2> QED BY <1>1, <2>1, FieldsAre
<1> HIDE DEF f
<1>3. regs[1] = Encoded(mode, "second", s) /\ regs[2] = Encoded(mode, "minute", mi)
      /\ regs[3] = Encoded(mode, "hour", h) /\ regs[4] = Encoded(mode, "year", y)
  <2>1. Registers[1] = "second" /\ Registers[2] = "minute" /\ Registers[3] = "hour" /\ Registers[4] = "year"
    BY DEF Registers
  <2>2. 1 \in 1..4 /\ 2 \in 1..4 /\ 3 \in 1..4 /\ 4 \in 1..4
    OBVIOUS
  <2> QED BY <1>1, <2>1, <2>2 DEF f
<1>4. Plain(mode, "second", regs[1]) = s /\ Plain(mode, "minute", regs[2]) = mi /\ Plain(mode, "year", regs[4]) = y
  <2>1. s \in Nat /\ mi \in Nat /\ y \in Nat
    <3>1. s \in Nat /\ mi \in Nat /\ y \in 0..99
      BY <1>2, Zenon
    <3> QED BY <3>1
  <2>2. /\ Plain(mode, "second", Encoded(mode, "second", s)) = s /\ Plain(mode, "minute", Encoded(mode, "minute", mi)) = mi
        /\ Plain(mode, "year", Encoded(mode, "year", y)) = y
    BY <2>1, FieldBack
  <2> QED BY <1>3, <2>2
<1>5. PICK w : w = Plain(mode, "hour", regs[3])
  OBVIOUS
<1>6. HourOf(mode, w) = IF mode.hours24 \/ h \notin {0, 12} THEN h ELSE 12 - h
  BY <1>2, <1>3, <1>5, HourBack
<1>7. PICK given : given = [second |-> regs[1], minute |-> regs[2], hour |-> regs[3], year |-> regs[4]]
  OBVIOUS
<1>8. PICK plain : plain = [r \in DOMAIN given |-> IF mode.binary THEN given[r]
                                             ELSE IF r = "hour" THEN FromBcdHour(given[r]) ELSE FromBcd(given[r])]
  OBVIOUS
<1>9. plain = [second |-> s, minute |-> mi, hour |-> w, year |-> y]
  <2>1. DOMAIN given = {"second", "minute", "hour", "year"}
    BY <1>7
  <2>2. /\ plain["second"] = Plain(mode, "second", regs[1]) /\ plain["minute"] = Plain(mode, "minute", regs[2])
        /\ plain["hour"] = Plain(mode, "hour", regs[3]) /\ plain["year"] = Plain(mode, "year", regs[4])
    BY <1>7, <1>8, <2>1 DEF Plain
  <2>3. plain = [r \in {"second", "minute", "hour", "year"} |-> plain[r]]
    BY <1>8, <2>1
  <2> QED BY <1>4, <1>5, <2>2, <2>3
<1> DEFINE read_hour == IF ~mode.hours24 /\ plain.hour >= 128 THEN ((plain.hour % 128) + 12) % 24 ELSE plain.hour
           read_year == IF plain.year + (2021 \div 100) * 100 < 2021
                        THEN plain.year + (2021 \div 100) * 100 + 100 ELSE plain.year + (2021 \div 100) * 100
<1>10. Decoded(given) = [plain EXCEPT !.hour = read_hour, !.year = read_year]
  BY <1>8 DEF Decoded, CURRENT_YEAR
<1>11. Decoded(given) = [second |-> s, minute |-> mi, hour |-> HourOf(mode, w), year |-> YearOf(y)]
  <2>1. (IF y + (2021 \div 100) * 100 < 2021 THEN y + (2021 \div 100) * 100 + 100 ELSE y + (2021 \div 100) * 100) = YearOf(y)
    <3>1. (2021 \div 100) * 100 = 2000
      OBVIOUS
    <3> QED BY <1>2, <3>1 DEF YearOf
  <2>2. plain.hour = w /\ plain.year = y
    BY <1>9
  <2>3. read_hour = HourOf(mode, w) /\ read_year = YearOf(y)
    <3>1. read_hour = HourOf(mode, w)
      BY <2>2 DEF HourOf
    <3>2. read_year = YearOf(y)
      BY <2>1, <2>2
    <3> QED BY <3>1, <3>2
  <2> HIDE DEF read_hour, read_year
  <2>6. [plain EXCEPT !.hour = read_hour, !.year = read_year] = [second |-> s, minute |-> mi, hour |-> read_hour, year |-> read_year]
    <3>1. PICK k : k = [plain EXCEPT !.hour = read_hour, !.year = read_year]
      OBVIOUS
    <3>2. k = [second |-> s, minute |-> mi, hour |-> read_hour, year |-> read_year]
      BY <1>9, <3>1, TwoChanged
    <3> QED BY <3>1, <3>2
  <2> QED BY <1>10, <2>3, <2>6
<1>12. Shown(p) = [second |-> s, minute |-> mi, hour |-> HourOf(mode, w), year |-> YearOf(y)]
  <2> DEFINE shown_hour == IF mode.hours24 \/ f.hour \notin {0, 12} THEN f.hour ELSE 12 - f.hour
             shown_year == f.year + IF f.year < 2021 % 100 THEN 2100 ELSE 2000
  <2>1. Shown(p) = [f EXCEPT !.hour = shown_hour, !.year = shown_year]
    BY DEF Shown, f, CURRENT_YEAR
  <2>2. 2021 % 100 = 21
    OBVIOUS
  <2>3. y + (IF y < 2021 % 100 THEN 2100 ELSE 2000) = YearOf(y)
    BY <2>2 DEF YearOf
  <2>4. f.hour = h /\ f.year = y
    BY <1>2
  <2>5. shown_hour = HourOf(mode, w) /\ shown_year = YearOf(y)
    <3>1. shown_hour = HourOf(mode, w)
      BY <1>6, <2>4
    <3>2. shown_year = YearOf(y)
      BY <2>3, <2>4
    <3> QED BY <3>1, <3>2
  <2> HIDE DEF shown_hour, shown_year
  <2>6. [f EXCEPT !.hour = shown_hour, !.year = shown_year] = [second |-> s, minute |-> mi, hour |-> shown_hour, year |-> shown_year]
    <3>1. PICK k : k = [f EXCEPT !.hour = shown_hour, !.year = shown_year]
      OBVIOUS
    <3>2. k = [second |-> s, minute |-> mi, hour |-> shown_hour, year |-> shown_year]
      BY <1>2, <3>1, TwoChanged
    <3> QED BY <3>1, <3>2
  <2> QED BY <2>1, <2>5, <2>6
<1> QED BY <1>7, <1>11, <1>12

LEMMA RegisterIs ==
  ASSUME NEW t, NEW r
  PROVE  Register(t, r) = Encoded(mode, r, Fields(t)[r])
BY DEF Register, Encoded

LEMMA EncodedInt ==
  ASSUME NEW m \in Modes, NEW r \in Names, NEW t \in Nat
  PROVE  Encoded(m, r, Fields(t)[r]) \in Int
<1>1. CASE r = "hour"
  <2>1. Fields(t).hour \in 0..23
    BY FieldsAre
  <2> QED BY <1>1, <2>1, HourBack
<1>2. CASE r = "year"
  <2>1. Fields(t).year \in 0..99
    BY FieldsAre
  <2> QED BY <1>2, <2>1, FieldBack, SMTT(60)
<1>3. CASE r \in {"second", "minute"}
  <2>1. Fields(t)[r] \in Nat
    BY <1>3, FieldsAre
  <2> QED BY <1>3, <2>1, FieldBack
<1> QED BY <1>1, <1>2, <1>3 DEF Names

LEMMA PassWider ==
  ASSUME NEW m, NEW regs, NEW a \in Int, NEW b \in Int, NEW c \in Int, PassFrom(m, regs, a, b), b <= c
  PROVE  PassFrom(m, regs, a, c)
<1>1. a..b \subseteq a..c
  OBVIOUS
<1> QED BY <1>1 DEF PassFrom

LEMMA ClockStart == RtcInit => RtcInv
<1> SUFFICES ASSUME RtcInit PROVE RtcInv
  OBVIOUS
<1>1. <<>> \in Seq(Int) /\ Len(<<>>) = 0
  OBVIOUS
<1>2. RtcTypes
  <2>1. now \in Nat /\ begun = now /\ updating = FALSE /\ mode \in Modes
    BY RtcAssumption DEF RtcInit, Modes
  <2>2. now <= begun + MaxUpdates /\ begun <= now
    BY <2>1, RtcAssumption
  <2>3. reading \in [step : {"poll", "read", "done"}, regs : Seq(Int), last : Seq(Int)]
    BY <1>1 DEF RtcInit
  <2> QED BY <2>1, <2>2, <2>3 DEF RtcTypes
<1>3. RtcPasses
  BY <1>1 DEF RtcInit, RtcPasses, PassFrom
<1>4. ClockRead
  BY DEF RtcInit, ClockRead
<1> QED BY <1>2, <1>3, <1>4 DEF RtcInv

LEMMA ClockStep ==
  ASSUME RtcInv, [RtcNext]_rtcvars
  PROVE  RtcInv'
<1>0. MaxUpdates \in Nat /\ MaxUpdates < Seconds /\ Seconds \in Nat
  BY RtcAssumption
<1>1. CASE UNCHANGED rtcvars
  <2>1. UNCHANGED <<now, updating, mode, reading, begun, result>>
    BY <1>1 DEF rtcvars
  <2>2. RtcTypes' /\ Upto' = Upto
    BY <2>1 DEF RtcInv, RtcTypes, Upto
  <2>3. RtcPasses'
    BY <2>1, <2>2 DEF RtcInv, RtcPasses
  <2>4. \A t : Shown(t)' = Shown(t)
    BY <2>1 DEF Shown, Fields
  <2>5. ClockRead'
    BY <2>1, <2>4 DEF RtcInv, ClockRead
  <2> QED BY <2>2, <2>3, <2>5 DEF RtcInv
<1>2. CASE UpdateBegins
  <2>1. ~updating /\ reading.step # "done" /\ now < begun + MaxUpdates /\ updating' = TRUE
        /\ UNCHANGED <<now, mode, reading, begun, result>>
    BY <1>2 DEF UpdateBegins
  <2>2. RtcTypes'
    BY <2>1 DEF RtcInv, RtcTypes
  <2>3. Upto \in Int /\ Upto' \in Int /\ Upto <= Upto' /\ begun \in Int /\ now \in Int
    BY <2>1 DEF RtcInv, RtcTypes, Upto
  <2>4. RtcPasses'
    <3>1. CASE reading.step = "poll"
      <4>1. PassFrom(mode, reading.last, begun, Upto')
        BY <2>3, <3>1, PassWider DEF RtcInv, RtcPasses
      <4> QED BY <2>1, <3>1, <4>1 DEF RtcInv, RtcPasses
    <3>2. CASE reading.step = "read"
      <4>1. PICK p \in begun..now : PassFrom(mode, reading.last, begun, p) /\ PassFrom(mode, reading.regs, p, Upto)
        BY <3>2 DEF RtcInv, RtcPasses
      <4>2. PassFrom(mode, reading.regs, p, Upto')
        BY <2>3, <4>1, PassWider
      <4> QED BY <2>1, <3>2, <4>1, <4>2 DEF RtcInv, RtcPasses
    <3> QED BY <2>1, <3>1, <3>2 DEF RtcInv, RtcTypes
  <2>5. ClockRead'
    BY <2>1 DEF ClockRead
  <2> QED BY <2>2, <2>4, <2>5 DEF RtcInv
<1>3. CASE UpdateEnds
  <2>1. updating /\ updating' = FALSE /\ now' = now + 1 /\ UNCHANGED <<mode, reading, begun, result>>
    BY <1>3 DEF UpdateEnds
  <2>2. RtcTypes'
    <3>1. now \in Nat /\ begun \in Nat /\ begun <= now /\ now < begun + MaxUpdates
      BY <2>1 DEF RtcInv, RtcTypes
    <3>2. now' \in Nat /\ begun <= now' /\ now' <= begun + MaxUpdates
      BY <1>0, <2>1, <3>1
    <3> QED BY <2>1, <3>1, <3>2 DEF RtcInv, RtcTypes
  <2>3. Upto' = Upto /\ begun..now \subseteq (begun..now)'
    BY <2>1 DEF RtcInv, RtcTypes, Upto
  <2>4. RtcPasses'
    <3>1. CASE reading.step = "poll"
      BY <2>1, <2>3, <3>1 DEF RtcInv, RtcPasses
    <3>2. CASE reading.step = "read"
      <4>1. PICK p \in begun..now : PassFrom(mode, reading.last, begun, p) /\ PassFrom(mode, reading.regs, p, Upto)
        BY <3>2 DEF RtcInv, RtcPasses
      <4>2. p \in (begun..now)'
        BY <2>3
      <4> QED BY <2>1, <2>3, <3>2, <4>1, <4>2 DEF RtcInv, RtcPasses
    <3>3. CASE reading.step = "done"
      BY <2>1, <3>3 DEF RtcInv, RtcPasses
    <3> QED BY <2>1, <3>1, <3>2, <3>3 DEF RtcInv, RtcTypes
  <2>5. ClockRead'
    <3> SUFFICES ASSUME reading.step = "done" PROVE \E t \in (begun..now)' : result' = Shown(t)'
      BY <2>1 DEF ClockRead
    <3>1. PICK t \in begun..now : result = Shown(t)
      BY DEF RtcInv, ClockRead
    <3>2. Shown(t)' = Shown(t)
      BY <2>1 DEF Shown, Fields
    <3> QED BY <2>1, <2>3, <3>1, <3>2
  <2> QED BY <2>2, <2>4, <2>5 DEF RtcInv
<1>4. CASE rtc_get_update_in_progres_flag
  <2>1. reading.step = "poll" /\ ~updating /\ reading' = [reading EXCEPT !.step = "read"]
        /\ UNCHANGED <<now, updating, mode, begun, result>>
    BY <1>4 DEF rtc_get_update_in_progres_flag
  <2>2. reading' = [step |-> "read", regs |-> reading.regs, last |-> reading.last]
    BY <2>1 DEF RtcInv, RtcTypes
  <2>3. RtcTypes'
    BY <2>1, <2>2 DEF RtcInv, RtcTypes
  <2>4. reading.regs = <<>> /\ PassFrom(mode, reading.last, begun, now) /\ now \in begun..now
    BY <2>1 DEF RtcInv, RtcPasses, RtcTypes, Upto
  <2>5. PassFrom(mode, <<>>, now, Upto')
    BY DEF PassFrom
  <2>6. RtcPasses'
    BY <2>1, <2>2, <2>4, <2>5 DEF RtcInv, RtcPasses
  <2>7. ClockRead'
    BY <2>2 DEF ClockRead
  <2> QED BY <2>3, <2>6, <2>7 DEF RtcInv
<1>5. CASE rtc_read_reg
  <2>1. reading.step = "read" /\ Len(reading.regs) < 4 /\ UNCHANGED <<now, updating, mode, begun, result>>
    BY <1>5 DEF rtc_read_reg, Registers
  <2>2. PICK t \in {now, IF updating THEN now + 1 ELSE now} :
          reading' = [reading EXCEPT !.regs = Append(@, Register(t, Registers[Len(reading.regs) + 1]))]
    BY <1>5 DEF rtc_read_reg
  <2>3. PICK k \in 0..3 : k = Len(reading.regs) /\ reading.regs \in Seq(Int)
    <3>1. reading.regs \in Seq(Int)
      BY DEF RtcInv, RtcTypes
    <3>2. Len(reading.regs) \in 0..3
      <4>1. \A n \in Nat : n < 4 => n \in 0..3
        OBVIOUS
      <4>2. Len(reading.regs) \in Nat
        BY <3>1
      <4> QED BY <2>1, <4>1, <4>2
    <3> QED BY <3>1, <3>2
  <2>4. Registers[k + 1] \in Names
    <3>1. k = 0 \/ k = 1 \/ k = 2 \/ k = 3
      OBVIOUS
    <3> QED BY <3>1 DEF Registers, Names
  <2>5. PICK v : v = Encoded(mode, Registers[k + 1], Fields(t)[Registers[k + 1]])
    OBVIOUS
  <2>6. t \in Nat /\ now <= t /\ t <= Upto /\ Upto \in Int /\ mode \in Modes
    BY <2>2 DEF RtcInv, RtcTypes, Upto
  <2>7. v \in Int
    BY <2>4, <2>5, <2>6, EncodedInt
  <2>8. PICK regs : regs = Append(reading.regs, v)
    OBVIOUS
  <2>9. reading' = [step |-> "read", regs |-> regs, last |-> reading.last]
    <3>1. Register(t, Registers[Len(reading.regs) + 1]) = v
      BY <2>3, <2>5, RegisterIs
    <3> QED BY <2>1, <2>2, <2>8, <3>1 DEF RtcInv, RtcTypes
  <2>10. regs \in Seq(Int) /\ Len(regs) = k + 1 /\ regs[k + 1] = v /\ \A i \in 1..k : regs[i] = reading.regs[i]
    BY <2>3, <2>7, <2>8
  <2>11. RtcTypes'
    BY <2>1, <2>9, <2>10 DEF RtcInv, RtcTypes
  <2>12. PICK p \in begun..now : PassFrom(mode, reading.last, begun, p) /\ PassFrom(mode, reading.regs, p, Upto)
    BY <2>1 DEF RtcInv, RtcPasses
  <2>13. PassFrom(mode, regs, p, Upto)
    <3> SUFFICES ASSUME NEW i \in 1..k + 1
                 PROVE  \E u \in p..Upto : regs[i] = Encoded(mode, Registers[i], Fields(u)[Registers[i]])
      BY <2>10 DEF PassFrom
    <3>1. CASE i = k + 1
      <4>1. t \in p..Upto
        BY <2>6, <2>12 DEF RtcInv, RtcTypes
      <4> QED BY <2>5, <2>10, <3>1, <4>1
    <3>2. CASE i \in 1..k
      BY <2>3, <2>10, <2>12, <3>2 DEF PassFrom
    <3> QED BY <3>1, <3>2
  <2>14. Upto' = Upto
    BY <2>1 DEF Upto
  <2>15. RtcPasses'
    BY <2>1, <2>9, <2>10, <2>12, <2>13, <2>14 DEF RtcInv, RtcPasses
  <2>16. ClockRead'
    BY <2>9 DEF ClockRead
  <2> QED BY <2>11, <2>15, <2>16 DEF RtcInv
<1>6. CASE rtc_read
  <2>1. reading.step = "read" /\ Len(reading.regs) = 4 /\ UNCHANGED <<now, updating, mode, begun>>
    BY <1>6 DEF rtc_read, Registers
  <2>2. PICK p \in begun..now : PassFrom(mode, reading.last, begun, p) /\ PassFrom(mode, reading.regs, p, Upto)
    BY <2>1 DEF RtcInv, RtcPasses
  <2>t. /\ begun \in Nat /\ p \in Nat /\ now \in Nat /\ Upto \in Nat /\ Upto - begun < Seconds /\ mode \in Modes
        /\ reading.regs \in Seq(Int) /\ reading.last \in Seq(Int) /\ begun <= p
    BY <1>0, <2>2 DEF RtcInv, RtcTypes, Upto
  <2>3. CASE reading.regs = reading.last
    <3>1. /\ reading' = [reading EXCEPT !.step = "done"]
          /\ result' = Decoded([second |-> reading.regs[1], minute |-> reading.regs[2],
                                hour |-> reading.regs[3], year |-> reading.regs[4]])
      BY <1>6, <2>3 DEF rtc_read, SameAsLast
    <3>2. \A i \in 1..4 : reading.regs[i] = Encoded(mode, Registers[i], Fields(p)[Registers[i]])
      BY <2>1, <2>2, <2>3, <2>t, PassesAgree
    <3>3. result' = Shown(p)
      BY <2>t, <3>1, <3>2, DecodedShown
    <3>4. reading' = [step |-> "done", regs |-> reading.regs, last |-> reading.last]
      BY <3>1 DEF RtcInv, RtcTypes
    <3>5. RtcTypes'
      BY <2>1, <3>4 DEF RtcInv, RtcTypes
    <3>6. RtcPasses'
      BY <2>1, <3>4 DEF RtcInv, RtcPasses
    <3>7. Shown(p)' = Shown(p)
      BY <2>1 DEF Shown, Fields
    <3>8. ClockRead'
      BY <2>1, <2>2, <3>3, <3>7 DEF ClockRead
    <3> QED BY <3>5, <3>6, <3>8 DEF RtcInv
  <2>4. CASE reading.regs # reading.last
    <3>1. reading' = [step |-> "poll", regs |-> <<>>, last |-> reading.regs] /\ UNCHANGED result
      BY <1>6, <2>4 DEF rtc_read, SameAsLast
    <3>2. RtcTypes'
      <4>1. <<>> \in Seq(Int)
        OBVIOUS
      <4> QED BY <2>1, <2>t, <3>1, <4>1 DEF RtcInv, RtcTypes
    <3>3. PassFrom(mode, reading.regs, begun, Upto)
      <4>1. p..Upto \subseteq begun..Upto
        BY <2>t
      <4> QED BY <2>2, <4>1 DEF PassFrom
    <3>4. Upto' = Upto /\ Len(<<>>) = 0
      BY <2>1 DEF Upto
    <3>5. RtcPasses'
      BY <2>1, <3>1, <3>3, <3>4 DEF RtcInv, RtcPasses
    <3>6. ClockRead'
      BY <3>1 DEF ClockRead
    <3> QED BY <3>2, <3>5, <3>6 DEF RtcInv
  <2> QED BY <2>3, <2>4
<1> QED BY <1>1, <1>2, <1>3, <1>4, <1>5, <1>6 DEF RtcNext

(* The time that rtc_read returns is one the clock showed while it read, whatever the interrupts
   that come between its port accesses and the updates that cut into both passes, in binary or BCD
   and in either hour mode, while fewer updates than a minute has seconds come in the reading. *)
THEOREM ClockReadIsShown == RtcSpec => []ClockRead
<1>1. RtcInv => ClockRead
  BY DEF RtcInv
<1> QED BY <1>1, ClockStart, ClockStep, PTL DEF RtcSpec

-----------------------------------------------------------------------------
(* Power management. *)

PowerStates == {"standby", "suspend", "off"}
Words == {"check", "checkOnce", "connectOnce", "enableOnce", "reconnect", "connect", "disconnect", "version",
          "enable", "disable"} \cup PowerStates
Silent(t) == \A i \in 1..Len(t) : t[i] \notin PowerStates

(* The calls t still to come end by asking for a state, once; before that, power management is
   enabled, unless it was, and before that the interface connected, unless it was. *)
Asking(t, state) ==
  LET n == Len(t)
  IN /\ t \in Seq(Words) /\ n >= 1 /\ t[n] = state /\ state \in PowerStates
     /\ \A i \in 1..n - 1 : t[i] \notin PowerStates
     /\ n >= 2 => t[n - 1] \in {"enable", "enableOnce"}
     /\ n >= 3 => t[n - 2] \in {"connectOnce", "connect"}

ApmTypes ==
  /\ bios \in [apm : BOOLEAN, connected : BOOLEAN, pm : BOOLEAN] /\ isAPM \in BOOLEAN /\ failed \in BOOLEAN
  /\ todo \in Seq(Words) /\ operation \in DOMAIN Calls \cup {"none"}
ApmFlags == is_apm_connected = bios.connected /\ isPM = bios.pm /\ (isAPM => bios.apm)
ApmTask ==
  /\ todo # <<>> => Head(todo) \in {"check", "checkOnce"} \/ isAPM
  /\ todo # <<>> => power = NoState
  /\ operation \notin DOMAIN States => Silent(todo) /\ power = NoState
  /\ (operation \in DOMAIN States /\ todo # <<>>) =>
       /\ Asking(todo, States[operation])
       /\ Len(todo) = 1 => failed \/ (bios.connected /\ bios.pm)
       /\ Len(todo) = 2 => failed \/ bios.connected
  /\ (operation \in DOMAIN States /\ todo = <<>>) =>
       \/ power = NoState /\ ~bios.apm
       \/ bios.apm /\ power.state = States[operation] /\ (power.ready \/ failed)
ApmInv == ApmTypes /\ ApmFlags /\ ApmTask

LEMMA Together ==
  ASSUME NEW p \in Seq(Words), NEW t \in Seq(Words)
  PROVE  /\ p \o t \in Seq(Words) /\ Len(p \o t) = Len(p) + Len(t) /\ Len(p) \in Nat /\ Len(t) \in Nat
         /\ \A i \in 1..Len(p) + Len(t) : (p \o t)[i] = IF i <= Len(p) THEN p[i] ELSE t[i - Len(p)]
<1>1. /\ p \o t \in Seq(Words) /\ Len(p \o t) = Len(p) + Len(t)
      /\ \A i \in 1..Len(p) + Len(t) : (p \o t)[i] = IF i <= Len(p) THEN p[i] ELSE t[i - Len(p)]
  BY ConcatProperties
<1> QED BY <1>1

\* calls put before others that ask for a state
LEMMA AskedBefore ==
  ASSUME NEW p \in Seq(Words), Silent(p), NEW t, NEW state, Asking(t, state),
         Len(t) = 1 => Len(p) >= 2 /\ p[Len(p)] \in {"enable", "enableOnce"} /\ p[Len(p) - 1] \in {"connectOnce", "connect"},
         Len(t) = 2 => Len(p) >= 1 /\ p[Len(p)] \in {"connectOnce", "connect"}
  PROVE  Asking(p \o t, state) /\ Len(p \o t) = Len(p) + Len(t)
<1>1. t \in Seq(Words) /\ Len(t) \in Nat /\ Len(t) >= 1
  BY DEF Asking
<1>2. /\ p \o t \in Seq(Words) /\ Len(p \o t) = Len(p) + Len(t) /\ Len(p) \in Nat
      /\ \A i \in 1..Len(p) + Len(t) : (p \o t)[i] = IF i <= Len(p) THEN p[i] ELSE t[i - Len(p)]
  BY <1>1, Together
<1>q. PICK q : q = p \o t
  OBVIOUS
<1>n. PICK n \in Nat, m \in Nat : n = Len(p) /\ m = Len(t)
  BY <1>1, <1>2
<1>3. /\ q \in Seq(Words) /\ Len(q) = n + m /\ m >= 1
      /\ \A i \in 1..n : q[i] = p[i]
      /\ \A i \in 1..m : q[n + i] = t[i]
  <2>1. ASSUME NEW i \in 1..n PROVE q[i] = p[i]
    BY <1>2, <1>q, <1>n
  <2>2. ASSUME NEW i \in 1..m PROVE q[n + i] = t[i]
    <3>1. n + i \in 1..n + m /\ ~ n + i <= n /\ (n + i) - n = i
      OBVIOUS
    <3> QED BY <3>1, <1>2, <1>q, <1>n
  <2> QED BY <2>1, <2>2, <1>1, <1>2, <1>q, <1>n
<1>4. q[n + m] = state /\ state \in PowerStates
  BY <1>3, <1>n DEF Asking
<1>5. ASSUME NEW i \in 1..n + m - 1 PROVE q[i] \notin PowerStates
  <2>1. CASE i <= n
    BY <2>1, <1>3, <1>n DEF Silent
  <2>2. CASE ~ i <= n
    <3>1. i - n \in 1..m - 1 /\ i - n \in 1..m /\ n + (i - n) = i
      BY <2>2
    <3>2. t[i - n] \notin PowerStates
      BY <3>1, <1>n DEF Asking
    <3> QED BY <3>1, <3>2, <1>3
  <2> QED BY <2>1, <2>2
<1>6. n + m >= 2 => q[n + m - 1] \in {"enable", "enableOnce"}
  <2>1. CASE m = 1
    <3>1. n + m - 1 = n /\ n >= 2 /\ n \in 1..n
      BY <2>1, <1>n
    <3> QED BY <3>1, <2>1, <1>3, <1>n
  <2>2. CASE m >= 2
    <3>1. n + m - 1 = n + (m - 1) /\ m - 1 \in 1..m
      BY <2>2
    <3>2. t[m - 1] \in {"enable", "enableOnce"}
      BY <2>2, <1>n DEF Asking
    <3> QED BY <3>1, <3>2, <1>3
  <2> QED BY <2>1, <2>2, <1>3
<1>7. n + m >= 3 => q[n + m - 2] \in {"connectOnce", "connect"}
  <2>1. CASE m = 1
    <3>1. n + m - 2 = n - 1 /\ n >= 2 /\ n - 1 \in 1..n
      BY <2>1, <1>n
    <3> QED BY <3>1, <2>1, <1>3, <1>n
  <2>2. CASE m = 2
    <3>1. n + m - 2 = n /\ n >= 1 /\ n \in 1..n
      BY <2>2, <1>n
    <3> QED BY <3>1, <2>2, <1>3, <1>n
  <2>3. CASE m >= 3
    <3>1. n + m - 2 = n + (m - 2) /\ m - 2 \in 1..m
      BY <2>3
    <3>2. t[m - 2] \in {"connectOnce", "connect"}
      BY <2>3, <1>n DEF Asking
    <3> QED BY <3>1, <3>2, <1>3
  <2> QED BY <2>1, <2>2, <2>3, <1>3
<1>8. Asking(q, state)
  <2>1. Len(q) = n + m /\ n + m >= 1
    BY <1>3
  <2> QED BY <2>1, <1>3, <1>4, <1>5, <1>6, <1>7 DEF Asking
<1> QED BY <1>8, <1>q, <1>2

\* and the first one taken off
LEMMA AskedAfter ==
  ASSUME NEW t, NEW state, Asking(t, state)
  PROVE  /\ Tail(t) \in Seq(Words) /\ Len(Tail(t)) = Len(t) - 1 /\ Len(t) \in Nat /\ Len(t) >= 1 /\ Head(t) = t[1]
         /\ Len(t) >= 2 => Asking(Tail(t), state) /\ Head(t) \notin PowerStates
         /\ Len(t) = 1 => Head(t) = state
         /\ Len(t) = 2 => Head(t) \in {"enable", "enableOnce"}
         /\ Len(t) = 3 => Head(t) \in {"connectOnce", "connect"}
<1>1. t \in Seq(Words) /\ Len(t) \in Nat /\ Len(t) >= 1 /\ t # <<>>
  BY DEF Asking
<1>n. PICK n \in Nat : n = Len(t)
  BY <1>1
<1>q. PICK q : q = Tail(t)
  OBVIOUS
<1>2. q \in Seq(Words) /\ Len(q) = n - 1 /\ (\A i \in 1..n - 1 : q[i] = t[i + 1]) /\ Head(t) = t[1]
  BY <1>1, <1>n, <1>q
<1>3. n >= 2 => Asking(q, state)
  <2> SUFFICES ASSUME n >= 2 PROVE Asking(q, state)
    OBVIOUS
  <2>1. /\ n - 1 \in 1..n - 1 /\ (n - 1) + 1 = n /\ n - 1 >= 1
        /\ n - 1 >= 2 => n - 1 - 1 \in 1..n - 1 /\ (n - 1 - 1) + 1 = n - 1 /\ n >= 2
        /\ n - 1 >= 3 => n - 1 - 2 \in 1..n - 1 /\ (n - 1 - 2) + 1 = n - 2 /\ n >= 3
    OBVIOUS
  <2>2. q[n - 1] = state /\ state \in PowerStates
    BY <2>1, <1>2, <1>n DEF Asking
  <2>3. ASSUME NEW i \in 1..n - 1 - 1 PROVE q[i] \notin PowerStates
    <3>1. i \in 1..n - 1 /\ i + 1 \in 1..n - 1
      OBVIOUS
    <3> QED BY <3>1, <1>2, <1>n DEF Asking
  <2>4. n - 1 >= 2 => q[n - 1 - 1] \in {"enable", "enableOnce"}
    BY <2>1, <1>2, <1>n DEF Asking
  <2>5. n - 1 >= 3 => q[n - 1 - 2] \in {"connectOnce", "connect"}
    BY <2>1, <1>2, <1>n DEF Asking
  <2> QED BY <1>2, <2>1, <2>2, <2>3, <2>4, <2>5 DEF Asking
<1>4. /\ n >= 2 => t[1] \notin PowerStates
      /\ n = 1 => t[1] = state
      /\ n = 2 => t[1] \in {"enable", "enableOnce"}
      /\ n = 3 => t[1] \in {"connectOnce", "connect"}
  <2>1. n >= 2 => 1 \in 1..n - 1
    OBVIOUS
  <2>2. n >= 2 => t[1] \notin PowerStates
    BY <2>1, <1>n DEF Asking
  <2>3. n = 1 => t[1] = state
    BY <1>n DEF Asking
  <2>4. n = 2 => t[n - 1] \in {"enable", "enableOnce"} /\ n - 1 = 1
    BY <1>n DEF Asking
  <2>5. n = 3 => t[n - 2] \in {"connectOnce", "connect"} /\ n - 2 = 1
    BY <1>n DEF Asking
  <2> QED BY <2>2, <2>3, <2>4, <2>5
<1> QED BY <1>1, <1>2, <1>3, <1>4, <1>n, <1>q

LEMMA CallsAre ==
  ASSUME NEW o \in DOMAIN Calls
  PROVE  /\ Calls[o] \in Seq(Words) /\ Calls[o] # <<>> /\ Head(Calls[o]) \in {"check", "checkOnce"}
         /\ o \in DOMAIN States => Asking(Calls[o], States[o]) /\ Len(Calls[o]) >= 3
         /\ o \notin DOMAIN States => Silent(Calls[o])
<1>1. ASSUME NEW state \in PowerStates
      PROVE  Asking(setPowerState(state), state) /\ Len(setPowerState(state)) = 4
  BY DEF setPowerState, Asking, Words, PowerStates
<1>2. ASSUME NEW state \in PowerStates, NEW p, p \in Seq(Words), Silent(p), Len(p) >= 3, p[1] \in {"check", "checkOnce"},
             NEW t, Asking(t, state), Len(t) >= 3
      PROVE  /\ p \o t \in Seq(Words) /\ p \o t # <<>> /\ Head(p \o t) \in {"check", "checkOnce"}
             /\ Asking(p \o t, state) /\ Len(p \o t) >= 3
  <2>0. Len(t) # 1 /\ Len(t) # 2
    <3>1. PICK n : n = Len(t)
      OBVIOUS
    <3>2. n \in Nat /\ n >= 3
      BY <1>2, <3>1 DEF Asking
    <3> QED BY <3>1, <3>2
  <2>1. Asking(p \o t, state) /\ Len(p \o t) = Len(p) + Len(t)
    BY <1>2, <2>0, AskedBefore
  <2>2. t \in Seq(Words) /\ Len(t) \in Nat /\ Len(p) \in Nat
    BY <1>2 DEF Asking
  <2>3. (p \o t)[1] = p[1] /\ p \o t \in Seq(Words)
    <3>1. 1 \in 1..Len(p) + Len(t) /\ 1 <= Len(p)
      BY <1>2, <2>2
    <3> QED BY <1>2, <2>2, <3>1, Together
  <2>4. PICK q : q = p \o t
    OBVIOUS
  <2>5. q \in Seq(Words) /\ Len(q) >= 3 /\ q[1] \in {"check", "checkOnce"}
    BY <1>2, <2>1, <2>2, <2>3, <2>4
  <2>6. q # <<>> /\ Head(q) = q[1]
    BY <2>5
  <2> QED BY <2>1, <2>4, <2>5, <2>6
<1>3. ASSUME NEW state \in PowerStates
      PROVE  /\ To(state) \in Seq(Words) /\ To(state) # <<>> /\ Head(To(state)) \in {"check", "checkOnce"}
             /\ Asking(To(state), state) /\ Len(To(state)) >= 3
  <2>1. PICK p : p = <<"check", "connectOnce", "enableOnce">>
    OBVIOUS
  <2>2. p \in Seq(Words) /\ Silent(p) /\ Len(p) >= 3 /\ p[1] \in {"check", "checkOnce"}
    BY <2>1 DEF Words, Silent, PowerStates
  <2>3. To(state) = p \o setPowerState(state)
    BY <2>1 DEF To
  <2>4. PICK t : t = setPowerState(state)
    OBVIOUS
  <2>5. Asking(t, state) /\ Len(t) >= 3
    <3>1. Asking(t, state) /\ Len(t) = 4
      BY <1>1, <2>4
    <3> QED BY <3>1
  <2> QED BY <1>2, <2>2, <2>3, <2>4, <2>5
<1>4. CASE o \in {"standby", "shutdown", "restart"}
  <2>1. States[o] \in {"standby", "off"} /\ States[o] \in PowerStates /\ Calls[o] = To(States[o]) /\ o \in DOMAIN States
    BY <1>4 DEF Calls, States, PowerStates
  <2> QED BY <2>1, <1>3
<1>5. CASE o = "suspend"
  <2>1. PICK p : p = <<"check", "reconnect", "enableOnce">>
    OBVIOUS
  <2>2. p \in Seq(Words) /\ Silent(p) /\ Len(p) >= 3 /\ p[1] \in {"check", "checkOnce"}
    BY <2>1 DEF Words, Silent, PowerStates
  <2>3. Calls[o] = p \o setPowerState("suspend") /\ o \in DOMAIN States /\ States[o] = "suspend" /\ "suspend" \in PowerStates
    BY <1>5, <2>1 DEF Calls, States, PowerStates
  <2>4. PICK t : t = setPowerState("suspend")
    OBVIOUS
  <2>5. Asking(t, "suspend") /\ Len(t) >= 3
    <3>1. Asking(t, "suspend") /\ Len(t) = 4
      BY <1>1, <2>3, <2>4
    <3> QED BY <3>1
  <2> QED BY <1>2, <2>2, <2>3, <2>4, <2>5
<1>6. CASE o = "init_apm"
  <2>1. PICK p : p = <<"check", "checkOnce", "connect", "checkOnce", "connectOnce", "version">> \o chPM("enable")
    OBVIOUS
  <2>2. p \in Seq(Words) /\ Silent(p) /\ Len(p) >= 3 /\ p[1] \in {"check", "checkOnce"}
    <3>1. PICK u, w : u = <<"check", "checkOnce", "connect", "checkOnce", "connectOnce", "version">> /\ w = chPM("enable")
      OBVIOUS
    <3>2. u \in Seq(Words) /\ w \in Seq(Words) /\ Len(u) = 6 /\ Len(w) = 3 /\ Silent(u) /\ Silent(w) /\ u[1] = "check"
      BY <3>1 DEF chPM, Words, Silent, PowerStates
    <3>3. p = u \o w
      BY <2>1, <3>1
    <3>4. p \in Seq(Words) /\ Len(p) = 9 /\ \A i \in 1..9 : p[i] = IF i <= 6 THEN u[i] ELSE w[i - 6]
      <4>1. PICK k \in Nat, l \in Nat : k = Len(u) /\ l = Len(w) /\ k = 6 /\ l = 3
        BY <3>2
      <4>2. /\ p \in Seq(Words) /\ Len(p) = k + l
            /\ \A i \in 1..k + l : p[i] = IF i <= k THEN u[i] ELSE w[i - k]
        <5>1. /\ u \o w \in Seq(Words) /\ Len(u \o w) = Len(u) + Len(w)
              /\ \A i \in 1..Len(u) + Len(w) : (u \o w)[i] = IF i <= Len(u) THEN u[i] ELSE w[i - Len(u)]
          BY <3>2, Together
        <5> QED BY <3>3, <4>1, <5>1
      <4>3. k + l = 9 /\ k = 6
        BY <4>1
      <4>4. ASSUME NEW i \in 1..9 PROVE p[i] = IF i <= 6 THEN u[i] ELSE w[i - 6]
        <5>1. i \in 1..k + l /\ (i <= k <=> i <= 6) /\ i - k = i - 6
          BY <4>3
        <5> QED BY <4>2, <5>1, Zenon
      <4> QED BY <4>2, <4>3, <4>4
    <3>5. \A i \in 1..9 : (i <= 6 => i \in 1..6) /\ (~ i <= 6 => i - 6 \in 1..3)
      OBVIOUS
    <3>6. Silent(p)
      BY <3>2, <3>4, <3>5 DEF Silent
    <3>7. p[1] = "check"
      BY <3>2, <3>4
    <3> QED BY <3>4, <3>6, <3>7
  <2>3. Calls[o] = p \o To("standby") /\ o \in DOMAIN States /\ States[o] = "standby" /\ "standby" \in PowerStates
    BY <1>6, <2>1 DEF Calls, States, PowerStates
  <2>4. PICK t : t = To("standby")
    OBVIOUS
  <2>5. Asking(t, "standby") /\ Len(t) >= 3
    BY <1>3, <2>3, <2>4
  <2> QED BY <1>2, <2>2, <2>3, <2>4, <2>5
<1>7. CASE o \in {"connect_interface", "disconnect_interface", "chVersion", "chPM1", "chPM0"}
  <2>1. PICK t : t = Calls[o]
    OBVIOUS
  <2>2. \/ t = <<"checkOnce", "connect">> \/ t = <<"checkOnce", "disconnect">>
        \/ t = <<"checkOnce", "connectOnce", "version">> \/ t = <<"checkOnce", "connectOnce", "enable">>
        \/ t = <<"checkOnce", "connectOnce", "disable">>
    BY <1>7, <2>1 DEF Calls, chPM
  <2>3. t \in Seq(Words) /\ t # <<>> /\ Head(t) = "checkOnce" /\ Silent(t)
    <3>1. CASE t = <<"checkOnce", "connect">>
      BY <3>1 DEF Words, Silent, PowerStates
    <3>2. CASE t = <<"checkOnce", "disconnect">>
      BY <3>2 DEF Words, Silent, PowerStates
    <3>3. CASE t = <<"checkOnce", "connectOnce", "version">>
      BY <3>3 DEF Words, Silent, PowerStates
    <3>4. CASE t = <<"checkOnce", "connectOnce", "enable">>
      BY <3>4 DEF Words, Silent, PowerStates
    <3>5. CASE t = <<"checkOnce", "connectOnce", "disable">>
      BY <3>5 DEF Words, Silent, PowerStates
    <3> QED BY <2>2, <3>1, <3>2, <3>3, <3>4, <3>5
  <2>4. o \notin DOMAIN States
    BY <1>7 DEF States
  <2> QED BY <2>1, <2>3, <2>4
<1> QED BY <1>4, <1>5, <1>6, <1>7 DEF Calls

LEMMA SilentAfter ==
  ASSUME NEW t \in Seq(Words), t # <<>>, Silent(t)
  PROVE  Silent(Tail(t)) /\ Head(t) \notin PowerStates
<1>1. Len(t) \in Nat /\ 1 \in 1..Len(t) /\ Head(t) = t[1]
  OBVIOUS
<1>2. Tail(t) \in Seq(Words) /\ Len(Tail(t)) = Len(t) - 1 /\ \A i \in 1..Len(Tail(t)) : Tail(t)[i] = t[i + 1]
  BY HeadTailProperties
<1>3. \A i \in 1..Len(t) - 1 : i + 1 \in 1..Len(t)
  BY <1>1
<1> QED BY <1>1, <1>2, <1>3 DEF Silent

\* a call is done and no other is put before those to come
LEMMA TakeCall ==
  ASSUME ApmInv, todo # <<>>, Head(todo) \notin PowerStates, todo' = Later, operation' = operation, power' = power,
         ApmTypes', ApmFlags', isAPM',
         operation \in DOMAIN States =>
           /\ Len(todo) = 2 => failed' \/ (bios'.connected /\ bios'.pm)
           /\ Len(todo) = 3 => failed' \/ bios'.connected
  PROVE  ApmInv'
<1>1. todo \in Seq(Words) /\ Len(todo) \in Nat /\ power = NoState
  BY DEF ApmInv, ApmTypes, ApmTask
<1>2. CASE operation \notin DOMAIN States
  BY <1>1, <1>2, SilentAfter DEF ApmInv, ApmTask, Later
<1>3. CASE operation \in DOMAIN States
  <2>1. Asking(todo, States[operation])
    BY <1>3 DEF ApmInv, ApmTask
  <2>2. PICK n \in Nat : n = Len(todo) /\ n >= 1
    BY <2>1, AskedAfter
  <2>3. n >= 2
    <3>1. States[operation] \in PowerStates
      BY <2>1 DEF Asking
    <3>2. n # 1
      BY <2>1, <2>2, <3>1, AskedAfter
    <3> QED BY <2>2, <3>2
  <2>4. Len(todo') = n - 1 /\ Asking(todo', States[operation]) /\ todo' \in Seq(Words)
    BY <2>1, <2>2, <2>3, AskedAfter DEF Later
  <2>5. todo' # <<>> /\ (Len(todo') = 1 => n = 2) /\ (Len(todo') = 2 => n = 3)
    BY <2>2, <2>3, <2>4
  <2> QED BY <1>1, <1>3, <2>2, <2>4, <2>5 DEF ApmInv, ApmTask
<1> QED BY <1>2, <1>3

\* a call is replaced by others
LEMMA PutCalls ==
  ASSUME ApmInv, todo # <<>>, Head(todo) \in {"connectOnce", "enableOnce", "reconnect"},
         NEW p \in Seq(Words), Silent(p), Len(p) >= 1, todo' = p \o Later,
         UNCHANGED <<isAPM, is_apm_connected, isPM, bios, operation, failed, power>>,
         operation \in DOMAIN States =>
           /\ Len(todo) = 2 => Len(p) >= 2 /\ p[Len(p)] \in {"enable", "enableOnce"} /\ p[Len(p) - 1] \in {"connectOnce", "connect"}
           /\ Len(todo) = 3 => p[Len(p)] \in {"connectOnce", "connect"}
  PROVE  ApmInv'
<1>1. todo \in Seq(Words) /\ Len(todo) \in Nat /\ power = NoState /\ isAPM /\ Head(todo) \notin PowerStates /\ Len(p) \in Nat
  BY DEF ApmInv, ApmTypes, ApmTask, PowerStates
<1>2. Later \in Seq(Words)
  BY <1>1 DEF Later
<1>3. ApmTypes' /\ ApmFlags'
  <2>1. todo' \in Seq(Words)
    BY <1>2, Together
  <2> QED BY <2>1 DEF ApmInv, ApmTypes, ApmFlags
<1>4. CASE operation \notin DOMAIN States
  <2>1. Silent(Later)
    BY <1>1, <1>4, SilentAfter DEF ApmInv, ApmTask, Later
  <2>t. PICK t : t = Later
    OBVIOUS
  <2>2. /\ Len(todo') = Len(p) + Len(t) /\ Len(t) \in Nat
        /\ \A i \in 1..Len(p) + Len(t) : todo'[i] = IF i <= Len(p) THEN p[i] ELSE t[i - Len(p)]
    BY <1>2, <2>t, Together
  <2>3. \A i \in 1..Len(p) + Len(t) : (i <= Len(p) => i \in 1..Len(p)) /\ (~ i <= Len(p) => i - Len(p) \in 1..Len(t))
    BY <1>1, <2>2
  <2>4. Silent(todo')
    BY <2>1, <2>t, <2>2, <2>3 DEF Silent
  <2> QED BY <1>1, <1>3, <1>4, <2>4 DEF ApmInv, ApmTask
<1>5. CASE operation \in DOMAIN States
  <2>1. Asking(todo, States[operation])
    BY <1>5 DEF ApmInv, ApmTask
  <2>2. PICK n \in Nat : n = Len(todo) /\ n >= 1
    BY <2>1, AskedAfter
  <2>3. n >= 2
    <3>1. States[operation] \in PowerStates
      BY <2>1 DEF Asking
    <3>2. n # 1
      BY <1>1, <2>1, <2>2, <3>1, AskedAfter
    <3> QED BY <2>2, <3>2
  <2>4. Len(Later) = n - 1 /\ Asking(Later, States[operation])
    BY <2>1, <2>2, <2>3, AskedAfter DEF Later
  <2>5. /\ Len(Later) = 1 => Len(p) >= 2 /\ p[Len(p)] \in {"enable", "enableOnce"} /\ p[Len(p) - 1] \in {"connectOnce", "connect"}
        /\ Len(Later) = 2 => Len(p) >= 1 /\ p[Len(p)] \in {"connectOnce", "connect"}
    <3>1. (n - 1 = 1 => n = 2) /\ (n - 1 = 2 => n = 3)
      BY <2>2
    <3> QED BY <1>5, <2>2, <2>4, <3>1
  <2>6. Asking(todo', States[operation]) /\ Len(todo') = Len(p) + Len(Later)
    BY <2>4, <2>5, AskedBefore
  <2>7. Len(todo') >= 3 /\ todo' # <<>>
    <3>1. Len(p) + (n - 1) >= 3 /\ Len(todo') = Len(p) + (n - 1)
      <4>1. n - 1 = 1 => Len(p) >= 2
        BY <2>4, <2>5
      <4> QED BY <1>1, <2>2, <2>3, <2>4, <2>6, <4>1
    <3> QED BY <3>1
  <2> QED BY <1>1, <1>3, <1>5, <2>6, <2>7 DEF ApmInv, ApmTask
<1> QED BY <1>4, <1>5

\* what is first of the calls to come tells how many they are
LEMMA FirstTells ==
  ASSUME ApmInv, todo # <<>>, operation \in DOMAIN States
  PROVE  /\ Len(todo) = 1 => Head(todo) = States[operation] /\ (failed \/ (bios.connected /\ bios.pm))
         /\ Len(todo) = 2 => Head(todo) \in {"enable", "enableOnce"} /\ (failed \/ bios.connected)
         /\ Len(todo) = 3 => Head(todo) \in {"connectOnce", "connect"}
         /\ Len(todo) # 1 => Head(todo) \notin PowerStates
<1>1. Asking(todo, States[operation])
  BY DEF ApmInv, ApmTask
<1>2. Len(todo) \in Nat /\ Len(todo) >= 1
  BY <1>1, AskedAfter
<1>3. Len(todo) # 1 => Len(todo) >= 2
  <2>1. PICK n \in Nat : n = Len(todo) /\ n >= 1
    BY <1>2
  <2>2. n # 1 => n >= 2
    BY <2>1
  <2> QED BY <2>1, <2>2
<1>4. /\ Len(todo) = 1 => failed \/ (bios.connected /\ bios.pm)
      /\ Len(todo) = 2 => failed \/ bios.connected
  BY DEF ApmInv, ApmTask
<1> QED BY <1>1, <1>3, <1>4, AskedAfter

LEMMA PmBegin ==
  ASSUME ApmInv, NEW o \in DOMAIN Calls, Begin(o)
  PROVE  ApmInv'
<1>1. /\ todo' = Calls[o] /\ operation' = o /\ failed' = FALSE /\ power' = NoState
      /\ UNCHANGED <<isAPM, is_apm_connected, isPM, bios>>
  BY DEF Begin
<1>2. /\ Calls[o] \in Seq(Words) /\ Calls[o] # <<>> /\ Head(Calls[o]) \in {"check", "checkOnce"}
      /\ o \in DOMAIN States => Asking(Calls[o], States[o]) /\ Len(Calls[o]) >= 3
      /\ o \notin DOMAIN States => Silent(Calls[o])
  BY CallsAre
<1>3. ApmTypes' /\ ApmFlags'
  BY <1>1, <1>2 DEF ApmInv, ApmTypes, ApmFlags
<1>4. ApmTask'
  <2>1. o \in DOMAIN States => Len(Calls[o]) # 1 /\ Len(Calls[o]) # 2
    <3>1. PICK t : t = Calls[o]
      OBVIOUS
    <3>2. t \in Seq(Words) /\ (o \in DOMAIN States => Len(t) >= 3)
      BY <1>2, <3>1
    <3>3. o \in DOMAIN States => Len(t) # 1 /\ Len(t) # 2
      <4>1. PICK n : n = Len(t)
        OBVIOUS
      <4>2. n \in Nat /\ (o \in DOMAIN States => n >= 3)
        BY <3>2, <4>1
      <4>3. n >= 3 => n # 1 /\ n # 2
        BY <4>2
      <4> QED BY <4>1, <4>2, <4>3
    <3> QED BY <3>1, <3>3
  <2> QED BY <1>1, <1>2, <2>1, Zenon DEF ApmTask
<1> QED BY <1>3, <1>4 DEF ApmInv

LEMMA PmCheck ==
  ASSUME ApmInv, check
  PROVE  ApmInv'
<1>1. /\ todo # <<>> /\ Head(todo) \in {"check", "checkOnce"}
      /\ UNCHANGED <<is_apm_connected, isPM, bios, operation, failed, power>>
  BY DEF check
<1>2. todo \in Seq(Words) /\ power = NoState /\ isAPM \in BOOLEAN /\ bios.apm \in BOOLEAN
  BY <1>1 DEF ApmInv, ApmTypes, ApmTask
<1>3. \/ todo' = Later /\ isAPM' = TRUE /\ bios.apm
      \/ todo' = <<>> /\ isAPM' = FALSE /\ ~bios.apm
  <2>1. CASE Head(todo) = "checkOnce" /\ isAPM
    BY <1>2, <2>1 DEF check, ApmInv, ApmFlags
  <2>2. CASE ~(Head(todo) = "checkOnce" /\ isAPM)
    <3>1. isAPM' = bios.apm /\ todo' = IF bios.apm THEN Later ELSE <<>>
      BY <2>2 DEF check
    <3> QED BY <1>2, <3>1
  <2> QED BY <2>1, <2>2
<1>4. CASE todo' = Later /\ isAPM' = TRUE /\ bios.apm
  <2>1. todo' \in Seq(Words)
    BY <1>1, <1>2, <1>4 DEF Later
  <2>2. ApmTypes' /\ ApmFlags' /\ isAPM'
    BY <1>1, <1>4, <2>1 DEF ApmInv, ApmTypes, ApmFlags
  <2>3. operation \in DOMAIN States => Len(todo) # 2 /\ Len(todo) # 3
    BY <1>1, FirstTells
  <2>4. Head(todo) \notin PowerStates
    BY <1>1 DEF PowerStates
  <2> QED BY <1>1, <1>4, <2>2, <2>3, <2>4, TakeCall
<1>5. CASE todo' = <<>> /\ isAPM' = FALSE /\ ~bios.apm
  <2>1. ApmTypes' /\ ApmFlags'
    <3>1. <<>> \in Seq(Words)
      OBVIOUS
    <3> QED BY <1>1, <1>5, <3>1 DEF ApmInv, ApmTypes, ApmFlags
  <2>2. Silent(<<>>)
    BY DEF Silent
  <2>3. ApmTask'
    BY <1>1, <1>2, <1>5, <2>2 DEF ApmTask
  <2> QED BY <2>1, <2>3 DEF ApmInv
<1> QED BY <1>3, <1>4, <1>5

LEMMA PmDecide ==
  ASSUME ApmInv, decide
  PROVE  ApmInv'
<1>1. /\ todo # <<>> /\ UNCHANGED <<isAPM, is_apm_connected, isPM, bios, operation, failed, power>>
      /\ Head(todo) \in {"connectOnce", "enableOnce", "reconnect"}
      /\ Head(todo) = "connectOnce" => todo' = (IF is_apm_connected THEN <<>> ELSE <<"connect">>) \o Later
      /\ Head(todo) = "enableOnce" => todo' = (IF isPM THEN <<>> ELSE chPM("enable")) \o Later
      /\ Head(todo) = "reconnect" => todo' = (IF is_apm_connected THEN <<"disconnect">> ELSE <<>>) \o <<"connect">> \o Later
  BY DEF decide
<1>2. /\ todo \in Seq(Words) /\ isAPM /\ Later \in Seq(Words) /\ Head(todo) \notin PowerStates
      /\ is_apm_connected \in BOOLEAN /\ isPM \in BOOLEAN /\ is_apm_connected = bios.connected /\ isPM = bios.pm
  BY <1>1 DEF ApmInv, ApmTypes, ApmTask, ApmFlags, Later, PowerStates
<1>3. <<>> \o Later = Later
  BY <1>2, ConcatEmptySeq
<1>4. operation \in DOMAIN States =>
        /\ Len(todo) = 2 => Head(todo) \in {"enable", "enableOnce"} /\ (failed \/ bios.connected)
        /\ Len(todo) = 3 => Head(todo) \in {"connectOnce", "connect"}
  BY <1>1, FirstTells
<1>5. todo' = Later => (ApmTypes' /\ ApmFlags')
  BY <1>1, <1>2 DEF ApmInv, ApmTypes, ApmFlags
<1>6. CASE Head(todo) = "connectOnce" /\ is_apm_connected
  <2>1. todo' = Later
    BY <1>1, <1>3, <1>6
  <2>2. operation \in DOMAIN States => Len(todo) # 2
    BY <1>4, <1>6
  <2>3. bios'.connected /\ isAPM' /\ operation' = operation /\ power' = power
    BY <1>1, <1>2, <1>6
  <2> QED BY <1>1, <1>2, <1>5, <2>1, <2>2, <2>3, TakeCall
<1>7. CASE Head(todo) = "connectOnce" /\ ~is_apm_connected
  <2>1. PICK p : p = <<"connect">>
    OBVIOUS
  <2>2. p \in Seq(Words) /\ Silent(p) /\ Len(p) = 1 /\ p[1] = "connect" /\ Len(p) >= 1
    BY <2>1 DEF Words, Silent, PowerStates
  <2>3. todo' = p \o Later
    BY <1>1, <1>7, <2>1
  <2>4. operation \in DOMAIN States => Len(todo) # 2
    BY <1>4, <1>7
  <2> QED BY <1>1, <2>2, <2>3, <2>4, PutCalls
<1>8. CASE Head(todo) = "enableOnce" /\ isPM
  <2>1. todo' = Later
    BY <1>1, <1>3, <1>8
  <2>2. operation \in DOMAIN States => Len(todo) # 3
    BY <1>4, <1>8
  <2>3. operation \in DOMAIN States /\ Len(todo) = 2 => failed' \/ (bios'.connected /\ bios'.pm)
    BY <1>1, <1>2, <1>4, <1>8
  <2>4. isAPM' /\ operation' = operation /\ power' = power
    BY <1>1, <1>2
  <2> QED BY <1>1, <1>2, <1>5, <2>1, <2>2, <2>3, <2>4, TakeCall
<1>9. CASE Head(todo) = "enableOnce" /\ ~isPM
  <2>1. PICK p : p = chPM("enable")
    OBVIOUS
  <2>2. p \in Seq(Words) /\ Silent(p) /\ Len(p) = 3 /\ p[3] = "enable" /\ p[3 - 1] = "connectOnce" /\ Len(p) >= 1 /\ Len(p) >= 2
    BY <2>1 DEF chPM, Words, Silent, PowerStates
  <2>3. todo' = p \o Later
    BY <1>1, <1>9, <2>1
  <2>4. operation \in DOMAIN States => Len(todo) # 3
    BY <1>4, <1>9
  <2>5. p[Len(p)] \in {"enable", "enableOnce"} /\ p[Len(p) - 1] \in {"connectOnce", "connect"}
    BY <2>2
  <2> QED BY <1>1, <2>2, <2>3, <2>4, <2>5, PutCalls
<1>10. CASE Head(todo) = "reconnect"
  <2>1. PICK p : p = (IF is_apm_connected THEN <<"disconnect">> ELSE <<>>) \o <<"connect">>
    OBVIOUS
  <2>2. p \in Seq(Words) /\ Silent(p) /\ Len(p) >= 1
    <3>1. p = <<"disconnect">> \o <<"connect">> \/ p = <<"connect">>
      <4>1. <<>> \o <<"connect">> = <<"connect">>
        <5>1. <<"connect">> \in Seq({"connect"})
          OBVIOUS
        <5> QED BY <5>1, ConcatEmptySeq
      <4> QED BY <2>1, <4>1
    <3>2. CASE p = <<"disconnect">> \o <<"connect">>
      <4>1. PICK u, w : u = <<"disconnect">> /\ w = <<"connect">>
        OBVIOUS
      <4>2. u \in Seq(Words) /\ w \in Seq(Words) /\ Len(u) = 1 /\ Len(w) = 1 /\ u[1] = "disconnect" /\ w[1] = "connect"
        BY <4>1 DEF Words
      <4>3. /\ p \in Seq(Words) /\ Len(p) = Len(u) + Len(w)
            /\ \A i \in 1..Len(u) + Len(w) : p[i] = IF i <= Len(u) THEN u[i] ELSE w[i - Len(u)]
        BY <3>2, <4>1, <4>2, Together
      <4>4. Len(u) + Len(w) = 2
        BY <4>2
      <4>5. ASSUME NEW i \in 1..2 PROVE p[i] \in {"disconnect", "connect"}
        <5>1. (i <= 1 => i = 1) /\ (~ i <= 1 => i - 1 = 1)
          OBVIOUS
        <5> QED BY <4>2, <4>3, <4>4, <5>1
      <4> QED BY <4>3, <4>4, <4>5 DEF Silent, PowerStates
    <3>3. CASE p = <<"connect">>
      BY <3>3 DEF Words, Silent, PowerStates
    <3> QED BY <3>1, <3>2, <3>3
  <2>3. todo' = p \o Later
    BY <1>1, <1>10, <2>1
  <2>4. operation \in DOMAIN States => Len(todo) # 2 /\ Len(todo) # 3
    BY <1>4, <1>10
  <2> QED BY <1>1, <2>2, <2>3, <2>4, PutCalls
<1> QED BY <1>1, <1>6, <1>7, <1>8, <1>9, <1>10

LEMMA PmConnect ==
  ASSUME ApmInv, connect
  PROVE  ApmInv'
<1>1. /\ todo # <<>> /\ Head(todo) = "connect" /\ todo' = Later /\ UNCHANGED <<isAPM, isPM, operation, power>>
      /\ \/ bios' = [bios EXCEPT !.connected = TRUE] /\ is_apm_connected' = TRUE /\ failed' = failed
         \/ failed' = TRUE /\ UNCHANGED <<bios, is_apm_connected>>
  BY DEF connect
<1>2. /\ todo \in Seq(Words) /\ isAPM /\ Later \in Seq(Words) /\ Head(todo) \notin PowerStates
      /\ bios \in [apm : BOOLEAN, connected : BOOLEAN, pm : BOOLEAN]
  BY <1>1 DEF ApmInv, ApmTypes, ApmTask, Later, PowerStates
<1>3. ApmTypes' /\ ApmFlags' /\ isAPM' /\ (failed' \/ bios'.connected)
  BY <1>1, <1>2 DEF ApmInv, ApmTypes, ApmFlags
<1>4. operation \in DOMAIN States => Len(todo) # 2
  BY <1>1, FirstTells
<1> QED BY <1>1, <1>2, <1>3, <1>4, TakeCall

LEMMA PmDisconnect ==
  ASSUME ApmInv, disconnect
  PROVE  ApmInv'
<1>1. /\ todo # <<>> /\ Head(todo) = "disconnect" /\ todo' = Later /\ UNCHANGED <<isAPM, isPM, operation, power>>
  BY DEF disconnect
<1>2. /\ todo \in Seq(Words) /\ isAPM /\ Later \in Seq(Words) /\ Head(todo) \notin PowerStates
      /\ bios \in [apm : BOOLEAN, connected : BOOLEAN, pm : BOOLEAN] /\ is_apm_connected = bios.connected /\ failed \in BOOLEAN
  BY <1>1 DEF ApmInv, ApmTypes, ApmTask, ApmFlags, Later, PowerStates
<1>3. PICK error \in IF bios.connected THEN {0, 1} ELSE {3} :
        /\ bios' = IF error = 0 THEN [bios EXCEPT !.connected = FALSE] ELSE bios
        /\ is_apm_connected' = IF error \notin {0, 3} THEN is_apm_connected ELSE FALSE
        /\ failed' = (failed \/ error = 1)
  BY DEF disconnect, GivesUp
<1>4. bios' \in [apm : BOOLEAN, connected : BOOLEAN, pm : BOOLEAN] /\ bios'.apm = bios.apm /\ bios'.pm = bios.pm
  BY <1>2, <1>3
<1>5. is_apm_connected' = bios'.connected
  <2>1. CASE error = 0
    <3>1. bios'.connected = FALSE /\ is_apm_connected' = FALSE
      BY <1>2, <1>3, <2>1
    <3> QED BY <3>1
  <2>2. CASE error = 1
    BY <1>2, <1>3, <2>2
  <2>3. CASE error = 3
    <3>1. is_apm_connected' = FALSE /\ ~bios.connected /\ bios' = bios
      BY <1>3, <2>3
    <3> QED BY <1>2, <3>1
  <2> QED BY <1>3, <2>1, <2>2, <2>3
<1>6. failed' \in BOOLEAN
  BY <1>3
<1>7. ApmTypes' /\ ApmFlags' /\ isAPM'
  BY <1>1, <1>2, <1>4, <1>5, <1>6 DEF ApmInv, ApmTypes, ApmFlags
<1>8. operation \in DOMAIN States => Len(todo) # 2 /\ Len(todo) # 3
  BY <1>1, FirstTells
<1> QED BY <1>1, <1>2, <1>7, <1>8, TakeCall

LEMMA PmVersion ==
  ASSUME ApmInv, chVersion
  PROVE  ApmInv'
<1>1. /\ todo # <<>> /\ Head(todo) = "version" /\ todo' = Later /\ failed' \in {failed, TRUE}
      /\ UNCHANGED <<isAPM, is_apm_connected, isPM, bios, operation, power>>
  BY DEF chVersion
<1>2. todo \in Seq(Words) /\ isAPM /\ Later \in Seq(Words) /\ Head(todo) \notin PowerStates
  BY <1>1 DEF ApmInv, ApmTypes, ApmTask, Later, PowerStates
<1>3. ApmTypes' /\ ApmFlags' /\ isAPM'
  BY <1>1, <1>2 DEF ApmInv, ApmTypes, ApmFlags
<1>4. operation \in DOMAIN States => Len(todo) # 2 /\ Len(todo) # 3
  BY <1>1, FirstTells
<1> QED BY <1>1, <1>2, <1>3, <1>4, TakeCall

LEMMA PmSetPM ==
  ASSUME ApmInv, SetPM
  PROVE  ApmInv'
<1>1. /\ todo # <<>> /\ Head(todo) \in {"enable", "disable"} /\ todo' = Later
      /\ UNCHANGED <<isAPM, is_apm_connected, operation, power>>
      /\ \/ bios.connected /\ isPM' = (Head(todo) = "enable") /\ bios' = [bios EXCEPT !.pm = isPM'] /\ failed' = failed
         \/ failed' = TRUE /\ UNCHANGED <<isPM, bios>>
  BY DEF SetPM
<1>2. /\ todo \in Seq(Words) /\ isAPM /\ Later \in Seq(Words) /\ Head(todo) \notin PowerStates
      /\ bios \in [apm : BOOLEAN, connected : BOOLEAN, pm : BOOLEAN]
  BY <1>1 DEF ApmInv, ApmTypes, ApmTask, Later, PowerStates
<1>3. CASE bios.connected /\ isPM' = (Head(todo) = "enable") /\ bios' = [bios EXCEPT !.pm = isPM'] /\ failed' = failed
  <2>1. isPM' \in BOOLEAN
    BY <1>3
  <2>2. PICK b \in BOOLEAN : b = isPM'
    BY <2>1
  <2>3. bios' \in [apm : BOOLEAN, connected : BOOLEAN, pm : BOOLEAN] /\ bios'.apm = bios.apm /\ bios'.connected = bios.connected /\ bios'.pm = b
    BY <1>2, <1>3, <2>2
  <2>4. ApmTypes' /\ ApmFlags' /\ isAPM'
    BY <1>1, <1>2, <1>3, <2>2, <2>3 DEF ApmInv, ApmTypes, ApmFlags
  <2>5. operation \in DOMAIN States =>
          /\ Len(todo) = 2 => Head(todo) = "enable"
          /\ Len(todo) # 3
    BY <1>1, FirstTells
  <2>6. Head(todo) = "enable" => bios'.connected /\ bios'.pm
    BY <1>3, <2>2, <2>3
  <2> QED BY <1>1, <1>2, <2>4, <2>5, <2>6, TakeCall
<1>4. CASE failed' = TRUE /\ UNCHANGED <<isPM, bios>>
  <2>1. ApmTypes' /\ ApmFlags' /\ isAPM'
    BY <1>1, <1>2, <1>4 DEF ApmInv, ApmTypes, ApmFlags
  <2> QED BY <1>1, <1>2, <1>4, <2>1, TakeCall
<1> QED BY <1>1, <1>3, <1>4

LEMMA PmSetState ==
  ASSUME ApmInv, SetState
  PROVE  ApmInv'
<1>1. /\ todo # <<>> /\ Head(todo) \in PowerStates /\ todo' = Later
      /\ power' = [state |-> Head(todo), ready |-> bios.connected /\ bios.pm] /\ failed' \in {failed, TRUE}
      /\ UNCHANGED <<isAPM, is_apm_connected, isPM, bios, operation>>
  BY DEF SetState, PowerStates
<1>2. todo \in Seq(Words) /\ isAPM /\ bios.apm /\ Later \in Seq(Words)
  <2>1. todo \in Seq(Words) /\ isAPM
    BY <1>1 DEF ApmInv, ApmTypes, ApmTask, PowerStates
  <2> QED BY <1>1, <2>1 DEF ApmInv, ApmFlags, Later
<1>3. operation \in DOMAIN States
  BY <1>1, <1>2, SilentAfter DEF ApmInv, ApmTask
<1>4. Len(todo) = 1 /\ Head(todo) = States[operation] /\ (failed \/ (bios.connected /\ bios.pm))
  BY <1>1, <1>3, FirstTells
<1>5. todo' = <<>>
  BY <1>1, <1>2, <1>4 DEF Later
<1>6. ApmTypes' /\ ApmFlags'
  BY <1>1, <1>2 DEF ApmInv, ApmTypes, ApmFlags
<1>7. bios'.apm /\ power'.state = States[operation] /\ (power'.ready \/ failed')
  <2>1. power'.state = Head(todo) /\ power'.ready = (bios.connected /\ bios.pm)
    BY <1>1
  <2>2. failed => failed'
    BY <1>1
  <2>3. bios'.apm
    BY <1>1, <1>2
  <2> QED BY <1>4, <2>1, <2>2, <2>3, Zenon
<1>8. ApmTask'
  BY <1>1, <1>3, <1>5, <1>7 DEF ApmTask
<1> QED BY <1>6, <1>8 DEF ApmInv

LEMMA PmStep ==
  ASSUME ApmInv, [ApmNext]_apmvars
  PROVE  ApmInv'
<1>1. ASSUME NEW o \in DOMAIN Calls, Begin(o) PROVE ApmInv'
  BY <1>1, PmBegin
<1>2. CASE UNCHANGED apmvars
  BY <1>2 DEF apmvars, ApmInv, ApmTypes, ApmFlags, ApmTask
<1> QED BY <1>1, <1>2, PmCheck, PmDecide, PmConnect, PmDisconnect, PmVersion, PmSetPM, PmSetState DEF ApmNext

LEMMA PmStart ==
  ASSUME ApmInit
  PROVE  ApmInv
<1>1. ApmTypes /\ ApmFlags
  <2>1. <<>> \in Seq(Words)
    OBVIOUS
  <2>2. bios \in [apm : BOOLEAN, connected : BOOLEAN, pm : BOOLEAN] /\ bios.connected = FALSE /\ bios.pm = FALSE
    BY DEF ApmInit
  <2> QED BY <2>1, <2>2 DEF ApmInit, ApmTypes, ApmFlags
<1>2. Silent(<<>>) /\ "none" \notin DOMAIN States
  BY DEF Silent, States
<1>3. ApmTask
  BY <1>2 DEF ApmInit, ApmTask
<1> QED BY <1>1, <1>3 DEF ApmInv

LEMMA PmAsked ==
  ASSUME ApmInv
  PROVE  PowerAsAsked
<1>1. NoState.state = "none"
  BY DEF NoState
<1>2. is_apm_connected = bios.connected /\ isPM = bios.pm /\ (isAPM => bios.apm)
  BY DEF ApmInv, ApmFlags
<1>3. power.state # "none" => bios.apm /\ power.state = States[operation] /\ (power.ready \/ failed)
  BY <1>1 DEF ApmInv, ApmTask
<1>4. (todo = <<>> /\ operation \in DOMAIN States /\ bios.apm) => power.state = States[operation]
  BY DEF ApmInv, ApmTask
<1> QED BY <1>2, <1>3, <1>4 DEF PowerAsAsked

(* Whatever the BIOS refuses, the flags of the driver say how the BIOS is, an operation that means
   to change the power state asks for that state, and only where there is APM, and the BIOS is then
   connected and managing power unless a call failed (apm.c). *)
THEOREM PowerStateAsAsked == ApmSpec => []PowerAsAsked
<1>1. ApmInit => ApmInv
  BY PmStart
<1>2. ApmInv /\ [ApmNext]_apmvars => ApmInv'
  BY PmStep
<1>3. ApmInv => PowerAsAsked
  BY PmAsked
<1> QED BY <1>1, <1>2, <1>3, PTL DEF ApmSpec

-----------------------------------------------------------------------------
(* The PCI bus. *)

ScanFrame == [bus : Nat, device : 0..DEV_PER_BUS, function : 0..FUNC_PER_DEV - 1, returned : BOOLEAN]
Entered(f) == f.device < DEV_PER_BUS /\ get_device_type(Here(f)) = "bridge"
Ahead(x, f) == f.device < x.at[2] \/ (f.device = x.at[2] /\ f.function <= x.at[3])

(* What a search has come to: all scans but the innermost one wait behind a bridge, and the outermost
   one has not passed a device on bus 0 that is looked for; for the other roots there is none. *)
Ongoing(s) ==
  /\ s \in [id : Cards, root : Nat, frames : Seq(ScanFrame)]
  /\ \A i \in 1..Len(s.frames) - 1 : Entered(s.frames[i])
  /\ \A x \in present : x.at[1] = 0 /\ x.id = s.id =>
       s.root = 0 /\ s.frames # <<>> /\ s.frames[1].bus = 0 /\ Ahead(x, s.frames[1])

\* Cards on bus 0 that the enumeration has passed were found or are looked for.
Passed(x) == slot[1] > 0 \/ Before(x.at, slot)
Sought ==
  \A x \in present : x.at[1] = 0 /\ x.id \in Cards /\ Enumerated(x) /\ Passed(x) =>
    search.id = x.id \/ \E d \in driven : d.id = x.id
Deep == \E b \in present : b.bridge /\ \A x \in present : x.at[1] = 0 /\ x.id = search.id => ~Before(x.at, b.at)

PciInv ==
  /\ present \in Machines
  /\ slot \in Nat \X (0..DEV_PER_BUS - 1) \X (0..Functions - 1)
  /\ search = NoSearch \/ Ongoing(search)
  /\ Sought
  /\ \A d \in driven : Id(d.at) = d.id
  /\ bstatus \in {"ok", "deep"} /\ (bstatus = "deep" => search # NoSearch /\ Deep)

LEMMA ShortRemainder == ASSUME NEW n \in Nat, NEW k \in 0..n - 1 PROVE k % n = k
OBVIOUS

LEMMA RemainderAtMost == ASSUME NEW n \in Nat \ {0}, NEW k \in Nat PROVE k % n <= k /\ k % n \in Nat
<1>1. k % n \in 0..n - 1 /\ k = n * (k \div n) + (k % n)
  OBVIOUS
<1>2. k \div n \in Nat
  OBVIOUS
<1>3. n * (k \div n) \in Nat
  BY <1>2
<1> QED BY <1>1, <1>3

LEMMA DeviceFacts ==
  ASSUME present \in Machines, NEW x \in present
  PROVE  /\ x.at \in Nat \X (0..DEV_PER_BUS - 1) \X (0..Functions - 1)
         /\ x.at = <<x.at[1], x.at[2], x.at[3]>> /\ x.at[1] \in Nat /\ x.at[2] \in 0..DEV_PER_BUS - 1 /\ x.at[3] \in 0..Functions - 1
         /\ IsPresent(x.at) /\ Reg(x.at) = x /\ Id(x.at) = x.id /\ x.id # "none"
         /\ x.id \in Cards => x.at # <<0, 0, 0>>
         /\ x.at[3] # 0 => IsPresent(At(x.at[1], x.at[2], 0)) /\ Reg(At(x.at[1], x.at[2], 0)).header >= 128
         /\ At(x.at[1], x.at[2], x.at[3]) = x.at
<1>1. /\ x.at \in Nat \X (0..DEV_PER_BUS - 1) \X (0..Functions - 1)
      /\ x.id # "none" /\ (x.id \in Cards => x.at # <<0, 0, 0>>)
      /\ x.at[3] # 0 => \E y \in present : y.at = <<x.at[1], x.at[2], 0>> /\ y.header >= 128
  BY PciAssumption
<1>2. x.at = <<x.at[1], x.at[2], x.at[3]>> /\ x.at[1] \in Nat /\ x.at[2] \in 0..DEV_PER_BUS - 1 /\ x.at[3] \in 0..Functions - 1
  BY <1>1
<1>3. ASSUME NEW y \in present PROVE IsPresent(y.at) /\ Reg(y.at) = y /\ Id(y.at) = y.id
  <2>1. \A z \in present : z.at = y.at => z = y
    BY PciAssumption
  <2> QED BY <2>1 DEF IsPresent, Reg, Id
<1>4. x.at[3] % Functions = x.at[3] /\ 0 % Functions = 0
  BY <1>2, ShortRemainder, PciAssumption
<1>5. x.at[3] # 0 => IsPresent(At(x.at[1], x.at[2], 0)) /\ Reg(At(x.at[1], x.at[2], 0)).header >= 128
  BY <1>1, <1>3, <1>4 DEF At
<1>6. At(x.at[1], x.at[2], x.at[3]) = x.at
  BY <1>2, <1>4 DEF At
<1> QED BY <1>1, <1>2, <1>3, <1>5, <1>6

\* A scan does not pass a function before it has looked at it.
LEMMA NotPassed ==
  ASSUME present \in Machines, NEW x \in present, x.id \in Cards, NEW f \in ScanFrame, f.device < DEV_PER_BUS,
         Here(f) # x.at, f.bus = 0, x.at[1] = 0, Ahead(x, f)
  PROVE  Ahead(x, IF EmptySlot(f) THEN NextDevice(f) ELSE NextFunction(f))
<1>1. /\ f = [bus |-> f.bus, device |-> f.device, function |-> f.function, returned |-> f.returned]
      /\ f.device \in 0..DEV_PER_BUS /\ f.function \in 0..FUNC_PER_DEV - 1
  BY DEF ScanFrame
<1>2. /\ NextDevice(f).device = f.device + 1 /\ NextDevice(f).function = 0
      /\ [f EXCEPT !.function = @ + 1, !.returned = FALSE].device = f.device
      /\ [f EXCEPT !.function = @ + 1, !.returned = FALSE].function = f.function + 1
  BY <1>1 DEF NextDevice
<1>3. CASE f.device < x.at[2]
  <2>1. Ahead(x, NextDevice(f))
    BY <1>1, <1>2, <1>3, DeviceFacts, PciAssumption DEF Ahead
  <2>2. Ahead(x, [f EXCEPT !.function = @ + 1, !.returned = FALSE])
    BY <1>1, <1>2, <1>3, DeviceFacts, PciAssumption DEF Ahead
  <2> QED BY <2>1, <2>2 DEF NextFunction
<1>4. CASE f.device = x.at[2] /\ f.function <= x.at[3]
  <2>1. Here(f) = <<0, x.at[2], f.function>>
    BY <1>1, <1>4, DeviceFacts, ShortRemainder, PciAssumption DEF Here, At
  <2>2. f.function < x.at[3]
    BY <1>1, <1>4, <2>1, DeviceFacts
  <2>3. ~(f.function = 0 /\ pci_reach_end(f.bus, f.device))
    <3>1. Reg(At(0, x.at[2], 0)).header # 0
      BY <2>2, <1>1, DeviceFacts, PciAssumption
    <3> QED BY <1>4, <3>1 DEF pci_reach_end
  <2>4. ~EmptySlot(f)
    <3>1. SUFFICES ASSUME f.function = 0 PROVE Id(Here(f)) # "none"
      BY DEF EmptySlot
    <3>2. IsPresent(At(0, x.at[2], 0)) /\ Reg(At(0, x.at[2], 0)) \in present
      BY <2>2, <3>1, DeviceFacts DEF IsPresent, Reg
    <3>3. Here(f) = At(0, x.at[2], 0)
      BY <3>1, <1>4 DEF Here
    <3> QED BY <3>2, <3>3, DeviceFacts DEF Id
  <2>5. f.function + 1 # FUNC_PER_DEV /\ f.function + 1 <= x.at[3]
    BY <1>1, <2>2, DeviceFacts, PciAssumption
  <2> QED BY <1>2, <1>4, <2>3, <2>4, <2>5 DEF NextFunction, Ahead
<1> QED BY <1>3, <1>4 DEF Ahead

LEMMA ScanFrames ==
  ASSUME NEW s \in Seq(ScanFrame), s # <<>>
  PROVE  LET n == Len(s) b == SubSeq(s, 1, n - 1) IN
         /\ n \in Nat /\ n >= 1 /\ s[n] \in ScanFrame /\ s[1] \in ScanFrame
         /\ b \in Seq(ScanFrame) /\ Len(b) = n - 1 /\ (\A i \in 1..n - 1 : b[i] = s[i]) /\ (b = <<>> <=> n = 1)
         /\ \A g \in ScanFrame :
              /\ Append(b, g) \in Seq(ScanFrame) /\ Append(b, g) # <<>> /\ Len(Append(b, g)) = n /\ Append(b, g)[n] = g
              /\ \A i \in 1..n - 1 : Append(b, g)[i] = s[i]
<1> DEFINE n == Len(s)  b == SubSeq(s, 1, n - 1)
<1>1. n \in Nat /\ n >= 1 /\ s[n] \in ScanFrame /\ s[1] \in ScanFrame
  OBVIOUS
<1>2. b \in Seq(ScanFrame) /\ Len(b) = n - 1 /\ \A i \in 1..n - 1 : b[i] = s[i]
  <2>1. n - 1 \in Int /\ 1 \in Int /\ \A i \in 1..n - 1 : s[i] \in ScanFrame
    BY <1>1
  <2>2. Len(b) = IF 1 <= n - 1 THEN (n - 1) - 1 + 1 ELSE 0
    BY <2>1, SubSeqProperties
  <2>3. b \in Seq(ScanFrame) /\ \A i \in 1..(n - 1) - 1 + 1 : b[i] = s[1 + i - 1]
    BY <2>1, SubSeqProperties
  <2>4. \A i \in 1..n - 1 : i \in 1..(n - 1) - 1 + 1 /\ 1 + i - 1 = i
    BY <1>1
  <2>5. Len(b) = n - 1
    <3> HIDE DEF b, n
    <3>1. CASE n = 1
      BY <2>2, <3>1
    <3>2. CASE n >= 2
      BY <1>1, <2>2, <3>2
    <3> QED BY <1>1, <3>1, <3>2
  <2> HIDE DEF b
  <2> QED BY <2>3, <2>4, <2>5
<1>3. b = <<>> <=> n = 1
  <2>1. b = <<>> => Len(b) = 0
    BY EmptySeq
  <2>2. Len(b) = 0 => b = <<>>
    BY <1>2, EmptySeq
  <2> HIDE DEF b
  <2> QED BY <1>1, <1>2, <2>1, <2>2
<1> HIDE DEF b
<1>4. ASSUME NEW g \in ScanFrame
      PROVE  /\ Append(b, g) \in Seq(ScanFrame) /\ Append(b, g) # <<>> /\ Len(Append(b, g)) = n /\ Append(b, g)[n] = g
             /\ \A i \in 1..n - 1 : Append(b, g)[i] = s[i]
  <2>1. Append(b, g) \in Seq(ScanFrame) /\ Len(Append(b, g)) = n /\ Append(b, g)[n] = g
    BY <1>1, <1>2, AppendProperties
  <2>2. \A i \in 1..n - 1 : Append(b, g)[i] = s[i]
    BY <1>1, <1>2, AppendProperties
  <2>3. Append(b, g) # <<>>
    BY <1>1, <2>1, EmptySeq
  <2> QED BY <2>1, <2>2, <2>3
<1> QED BY <1>1, <1>2, <1>3, <1>4 DEF b

\* The innermost scan goes on to g,
LEMMA Continues ==
  ASSUME NEW q, Ongoing(q), NEW s, s = q.frames, s # <<>>, NEW top, top = s[Len(s)], NEW g \in ScanFrame,
         \A x \in present : x.at[1] = 0 /\ x.id = q.id /\ top.bus = 0 /\ Ahead(x, top) => g.bus = 0 /\ Ahead(x, g)
  PROVE  Ongoing([q EXCEPT !.frames = Append(SubSeq(s, 1, Len(s) - 1), g)])
<1>1. PICK n, t : n = Len(s) /\ t = Append(SubSeq(s, 1, Len(s) - 1), g)
  OBVIOUS
<1>2. PICK r : r = [q EXCEPT !.frames = t]
  OBVIOUS
<1>3. s \in Seq(ScanFrame) /\ q \in [id : Cards, root : Nat, frames : Seq(ScanFrame)]
  BY DEF Ongoing
<1>4. /\ n \in Nat /\ n >= 1 /\ t \in Seq(ScanFrame) /\ t # <<>> /\ Len(t) = n /\ t[n] = g
      /\ \A i \in 1..n - 1 : t[i] = s[i]
  BY <1>1, <1>3, ScanFrames
<1>5. /\ r \in [id : Cards, root : Nat, frames : Seq(ScanFrame)]
      /\ r.id = q.id /\ r.root = q.root /\ r.frames = t
  BY <1>2, <1>3, <1>4
<1>6. ASSUME NEW i \in 1..Len(r.frames) - 1 PROVE Entered(r.frames[i])
  <2>1. r.frames[i] = s[i]
    BY <1>4, <1>5
  <2> QED BY <2>1, <1>1, <1>4, <1>5 DEF Ongoing
<1>7. ASSUME NEW x \in present, x.at[1] = 0, x.id = q.id
      PROVE  q.root = 0 /\ t[1].bus = 0 /\ Ahead(x, t[1])
  <2>1. q.root = 0 /\ s[1].bus = 0 /\ Ahead(x, s[1])
    BY <1>7 DEF Ongoing
  <2>2. CASE n = 1
    BY <1>1, <1>4, <1>7, <2>1, <2>2
  <2>3. CASE n # 1
    BY <1>4, <2>1, <2>3
  <2> QED BY <2>2, <2>3
<1>8. Ongoing(r)
  BY <1>4, <1>5, <1>6, <1>7 DEF Ongoing
<1> QED BY <1>1, <1>2, <1>8

\* enters a bridge
LEMMA GoesDeeper ==
  ASSUME NEW q, Ongoing(q), NEW s, s = q.frames, s # <<>>, Entered(s[Len(s)]), NEW g \in ScanFrame
  PROVE  Ongoing([q EXCEPT !.frames = Append(s, g)])
<1>1. PICK n, t : n = Len(s) /\ t = Append(s, g)
  OBVIOUS
<1>2. PICK r : r = [q EXCEPT !.frames = t]
  OBVIOUS
<1>3. s \in Seq(ScanFrame) /\ q \in [id : Cards, root : Nat, frames : Seq(ScanFrame)]
  BY DEF Ongoing
<1>4. n \in Nat /\ n >= 1
  BY <1>1, <1>3
<1>5. t \in Seq(ScanFrame) /\ t # <<>> /\ Len(t) = n + 1 /\ \A i \in 1..n : t[i] = s[i]
  BY <1>1, <1>3, AppendProperties
<1>6. /\ r \in [id : Cards, root : Nat, frames : Seq(ScanFrame)]
      /\ r.id = q.id /\ r.root = q.root /\ r.frames = t
  BY <1>2, <1>3, <1>5
<1>7. ASSUME NEW i \in 1..Len(r.frames) - 1 PROVE Entered(r.frames[i])
  <2>1. i \in 1..n /\ r.frames[i] = s[i]
    BY <1>4, <1>5, <1>6
  <2>2. CASE i = n
    BY <1>1, <2>1, <2>2
  <2>3. CASE i # n
    BY <1>1, <1>4, <2>1, <2>3 DEF Ongoing
  <2> QED BY <2>2, <2>3
<1>8. t[1] = s[1]
  BY <1>4, <1>5
<1>9. Ongoing(r)
  BY <1>5, <1>6, <1>7, <1>8 DEF Ongoing
<1> QED BY <1>1, <1>2, <1>9

\* or returns.
LEMMA Returns ==
  ASSUME NEW q, Ongoing(q), NEW s, s = q.frames, s # <<>>,
         Len(s) = 1 => \A x \in present : ~(x.at[1] = 0 /\ x.id = q.id)
  PROVE  Ongoing([q EXCEPT !.frames = SubSeq(s, 1, Len(s) - 1)])
<1>1. PICK n, t : n = Len(s) /\ t = SubSeq(s, 1, Len(s) - 1)
  OBVIOUS
<1>2. PICK r : r = [q EXCEPT !.frames = t]
  OBVIOUS
<1>3. s \in Seq(ScanFrame) /\ q \in [id : Cards, root : Nat, frames : Seq(ScanFrame)]
  BY DEF Ongoing
<1>4. /\ n \in Nat /\ n >= 1 /\ t \in Seq(ScanFrame) /\ Len(t) = n - 1 /\ (t = <<>> <=> n = 1)
      /\ \A i \in 1..n - 1 : t[i] = s[i]
  BY <1>1, <1>3, ScanFrames
<1>5. /\ r \in [id : Cards, root : Nat, frames : Seq(ScanFrame)]
      /\ r.id = q.id /\ r.root = q.root /\ r.frames = t
  BY <1>2, <1>3, <1>4
<1>6. ASSUME NEW i \in 1..Len(r.frames) - 1 PROVE Entered(r.frames[i])
  <2>1. i \in 1..n - 1 /\ r.frames[i] = s[i]
    BY <1>4, <1>5
  <2> QED BY <1>1, <2>1 DEF Ongoing
<1>7. n # 1 => t # <<>> /\ t[1] = s[1]
  BY <1>4
<1>8. Ongoing(r)
  BY <1>1, <1>5, <1>6, <1>7 DEF Ongoing
<1> QED BY <1>1, <1>2, <1>8

\* A step of a search that finds nothing.
LEMMA SearchGoesOn ==
  ASSUME PciInv, Searching, UNCHANGED <<present, slot, driven, bstatus>>,
         \/ Ongoing(search') /\ search'.id = search.id
         \/ search' = NoSearch /\ \A x \in present : ~(x.at[1] = 0 /\ x.id = search.id)
  PROVE  PciInv'
<1>1. \A q : Ongoing(q)' <=> Ongoing(q)
  BY DEF Ongoing, Entered, get_device_type, Here, At, IsPresent, Reg
<1>2. (search = NoSearch \/ Ongoing(search))'
  <2>1. CASE Ongoing(search')
    BY <1>1, <2>1 DEF Ongoing, Entered, get_device_type, Here, At, IsPresent, Reg
  <2>2. CASE search' = NoSearch
    BY <2>2 DEF NoSearch
  <2> QED BY <2>1, <2>2, SMTT(30)
<1>3. \A x \in present : (Enumerated(x)' <=> Enumerated(x)) /\ (Passed(x)' <=> Passed(x))
  BY DEF Enumerated, Passed, Before, DeviceHasFunctions, At, IsPresent, Reg
<1>4. Sought'
  BY <1>3 DEF PciInv, Sought
<1>5. \A d \in driven : Id(d.at)' = d.id
  BY DEF PciInv, Id, IsPresent, Reg
<1> QED BY <1>2, <1>4, <1>5 DEF PciInv, Searching

LEMMA ScanTop ==
  ASSUME Ongoing(search), search.frames # <<>>
  PROVE  /\ Top \in ScanFrame /\ Top.device \in 0..DEV_PER_BUS /\ search.id \in Cards /\ search.root \in Nat
         /\ Below = SubSeq(search.frames, 1, Len(search.frames) - 1) /\ Top = search.frames[Len(search.frames)]
         /\ \A x \in present : x.at[1] = 0 /\ x.id = search.id =>
              search.root = 0 /\ search.frames[1].bus = 0 /\ Ahead(x, search.frames[1])
<1>1. PICK s : s = search.frames /\ s \in Seq(ScanFrame) /\ s # <<>>
  BY DEF Ongoing
<1>2. Top \in ScanFrame
  BY <1>1, ScanFrames DEF Top
<1> QED BY <1>2 DEF Top, Below, Ongoing, ScanFrame

LEMMA NextFrame ==
  ASSUME NEW f \in ScanFrame, f.device < DEV_PER_BUS
  PROVE  /\ NextDevice(f) \in ScanFrame /\ NextFunction(f) \in ScanFrame /\ [f EXCEPT !.returned = TRUE] \in ScanFrame
         /\ NextDevice(f).bus = f.bus /\ NextFunction(f).bus = f.bus
<1>1. FUNC_PER_DEV \in Nat /\ FUNC_PER_DEV >= 1 /\ DEV_PER_BUS \in Nat
  BY PciAssumption
<1>2. NextDevice(f) \in ScanFrame /\ NextDevice(f).bus = f.bus
  <2>1. PICK d, D, F : d = f.device + 1 /\ D = 0..DEV_PER_BUS /\ F = 0..FUNC_PER_DEV - 1
    OBVIOUS
  <2>2. d \in D /\ 0 \in F
    BY <1>1, <2>1 DEF ScanFrame
  <2>3. f \in [bus : Nat, device : D, function : F, returned : BOOLEAN]
    BY <2>1 DEF ScanFrame
  <2>4. LET g == [f EXCEPT !.device = d, !.function = 0, !.returned = FALSE]
        IN  g \in [bus : Nat, device : D, function : F, returned : BOOLEAN] /\ g.bus = f.bus
    BY <2>2, <2>3
  <2> QED BY <2>1, <2>4, Zenon DEF ScanFrame, NextDevice
<1>3. ASSUME f.function + 1 # FUNC_PER_DEV
      PROVE  LET g == [f EXCEPT !.function = @ + 1, !.returned = FALSE] IN g \in ScanFrame /\ g.bus = f.bus
  <2>1. PICK k, D, F : k = f.function + 1 /\ D = 0..DEV_PER_BUS /\ F = 0..FUNC_PER_DEV - 1
    OBVIOUS
  <2>2. k \in F
    BY <1>1, <1>3, <2>1 DEF ScanFrame
  <2>3. f \in [bus : Nat, device : D, function : F, returned : BOOLEAN]
    BY <2>1 DEF ScanFrame
  <2>4. LET g == [f EXCEPT !.function = k, !.returned = FALSE]
        IN  g \in [bus : Nat, device : D, function : F, returned : BOOLEAN] /\ g.bus = f.bus
    BY <2>2, <2>3
  <2> QED BY <2>1, <2>4, Zenon DEF ScanFrame
<1>4. [f EXCEPT !.returned = TRUE] \in ScanFrame
  BY DEF ScanFrame
<1> QED BY <1>2, <1>3, <1>4 DEF NextFunction

LEMMA ScanStep == ASSUME PciInv, pci_scan_device PROVE PciInv'
<1>1. Searching /\ Ongoing(search) /\ search.frames # <<>> /\ Top.device < DEV_PER_BUS /\ present \in Machines
  BY DEF PciInv, pci_scan_device, Searching
<1> DEFINE g == IF EmptySlot(Top) THEN NextDevice(Top) ELSE NextFunction(Top)
<1>2. g \in ScanFrame /\ g.bus = Top.bus
  BY <1>1, ScanTop, NextFrame
<1>3. ASSUME NEW x \in present, x.at[1] = 0, x.id = search.id, Top.bus = 0, Ahead(x, Top)
      PROVE  g.bus = 0 /\ Ahead(x, g)
  <2>1. Id(x.at) = x.id /\ x.id # "none" /\ x.id \in Cards /\ x.at # <<0, 0, 0>>
    BY <1>1, <1>3, DeviceFacts, ScanTop
  <2>2. Here(Top) # x.at
    BY <1>3, <2>1 DEF pci_scan_device, EmptySlot, IsMatch
  <2>3. Ahead(x, g)
    BY <1>1, <1>3, <2>1, <2>2, NotPassed, ScanTop
  <2> QED BY <1>2, <1>3, <2>3
<1> HIDE DEF g
<1>4. Ongoing([search EXCEPT !.frames = Append(Below, g)])
  <2>1. PICK s, top : s = search.frames /\ top = s[Len(s)]
    OBVIOUS
  <2>2. top = Top /\ Below = SubSeq(s, 1, Len(s) - 1) /\ s # <<>>
    BY <2>1, <1>1 DEF Top, Below
  <2>3. Ongoing([search EXCEPT !.frames = Append(SubSeq(s, 1, Len(s) - 1), g)])
    BY <1>1, <1>2, <1>3, <2>1, <2>2, Continues
  <2> QED BY <2>2, <2>3
<1>5. search' = [search EXCEPT !.frames = Append(Below, g)]
  BY DEF pci_scan_device, g
<1>6. search'.id = search.id
  BY <1>1, <1>5 DEF Ongoing
<1> QED BY <1>1, <1>4, <1>5, <1>6, SearchGoesOn DEF pci_scan_device

LEMMA BridgeStep == ASSUME PciInv, EnterBridge PROVE PciInv'
<1>1. /\ Searching /\ Ongoing(search) /\ search.frames # <<>> /\ Top.device < DEV_PER_BUS /\ present \in Machines
      /\ EntersBridge(Top) /\ UNCHANGED <<present, slot, driven>>
  BY DEF PciInv, EnterBridge, Searching
<1>2. /\ Top \in ScanFrame /\ search.id \in Cards /\ search \in [id : Cards, root : Nat, frames : Seq(ScanFrame)]
      /\ Entered(Top)
  BY <1>1, ScanTop DEF EntersBridge, Entered, Ongoing
<1>3. Reg(Here(Top)) \in present /\ Reg(Here(Top)).bridge /\ Reg(Here(Top)).at = Here(Top)
  BY <1>1 DEF EntersBridge, get_device_type, IsPresent, Reg
<1>4. CASE Len(search.frames) < MaxDepth
  <2> DEFINE g == [Top EXCEPT !.returned = TRUE]  t == Append(Below, g)  h == Scan(get_secondary_bus(Here(Top)))
             q == [search EXCEPT !.frames = t]
  <2>1. g \in ScanFrame /\ g.bus = Top.bus /\ g.device = Top.device /\ g.function = Top.function
    BY <1>1, <1>2, NextFrame DEF ScanFrame
  <2>2. h \in ScanFrame
    BY <1>1, <1>3, PciAssumption DEF Scan, ScanFrame, get_secondary_bus
  <2> HIDE DEF g, h
  <2>3. Ongoing(q) /\ q.frames = t /\ t # <<>> /\ t[Len(t)] = g
    <3>1. PICK s, top : s = search.frames /\ top = s[Len(s)]
      OBVIOUS
    <3>2. top = Top /\ Below = SubSeq(s, 1, Len(s) - 1) /\ s # <<>> /\ s \in Seq(ScanFrame)
      BY <3>1, <1>1, <1>2 DEF Top, Below
    <3>3. \A x \in present : x.at[1] = 0 /\ x.id = search.id /\ top.bus = 0 /\ Ahead(x, top) => g.bus = 0 /\ Ahead(x, g)
      BY <2>1, <3>2 DEF Ahead
    <3>4. Ongoing([search EXCEPT !.frames = Append(SubSeq(s, 1, Len(s) - 1), g)])
      BY <1>1, <2>1, <3>1, <3>2, <3>3, Continues
    <3>5. t # <<>> /\ t[Len(t)] = g
      BY <2>1, <3>2, ScanFrames
    <3>6. q.frames = t
      BY <1>2
    <3> QED BY <3>2, <3>4, <3>5, <3>6
  <2>4. Entered(g)
    BY <1>2, <2>1 DEF Entered, Here
  <2>5. PICK u, v : u = t /\ v = q
    OBVIOUS
  <2>6. Ongoing([v EXCEPT !.frames = Append(u, h)])
    BY <2>2, <2>3, <2>4, <2>5, GoesDeeper
  <2>7. search' = [v EXCEPT !.frames = Append(u, h)]
    <3>1. search' = [search EXCEPT !.frames = Append(t, h)]
      BY <1>4 DEF EnterBridge, g, h
    <3>2. \A w : [[search EXCEPT !.frames = t] EXCEPT !.frames = w] = [search EXCEPT !.frames = w]
      BY <1>2
    <3> QED BY <2>5, <3>1, <3>2
  <2>8. search'.id = search.id
    <3>1. v.id = search.id /\ v \in [id : Cards, root : Nat, frames : Seq(ScanFrame)]
      BY <1>2, <2>3, <2>5 DEF Ongoing
    <3> QED BY <2>7, <3>1
  <2>9. bstatus' = bstatus
    BY <1>4 DEF EnterBridge
  <2> QED BY <1>1, <2>6, <2>7, <2>8, <2>9, SearchGoesOn
<1>5. CASE ~(Len(search.frames) < MaxDepth)
  <2>1. search' = search /\ bstatus' = "deep"
    BY <1>5 DEF EnterBridge
  <2>2. Deep
    <3>0. PICK n : n = Len(search.frames)
      OBVIOUS
    <3>1. n \in Nat /\ n >= 1 /\ search.frames[1] \in ScanFrame
      BY <1>1, <1>2, <3>0, ScanFrames
    <3>2. Entered(search.frames[1])
      <4>1. CASE n = 1
        <5>1. Top = search.frames[1]
          BY <3>0, <4>1 DEF Top
        <5> QED BY <1>2, <5>1
      <4>2. CASE n # 1
        <5>1. 1 \in 1..n - 1
          BY <3>1, <4>2
        <5>2. \A i \in 1..n - 1 : Entered(search.frames[i])
          BY <1>1, <3>0 DEF Ongoing
        <5> QED BY <5>1, <5>2
      <4> QED BY <4>1, <4>2
    <3> DEFINE b == Reg(Here(search.frames[1]))
    <3>3. b \in present /\ b.bridge /\ b.at = Here(search.frames[1])
      BY <3>2 DEF Entered, get_device_type, IsPresent, Reg
    <3>4. ASSUME NEW x \in present, x.at[1] = 0, x.id = search.id PROVE ~Before(x.at, b.at)
      <4>1. PICK f : f = search.frames[1] /\ f \in ScanFrame
        BY <3>1
      <4>2. f.device \in 0..DEV_PER_BUS /\ f.function \in 0..FUNC_PER_DEV - 1 /\ Ahead(x, f)
        BY <1>1, <3>4, <4>1 DEF Ongoing, ScanFrame
      <4>3. b.at[2] = f.device /\ b.at[3] = f.function % Functions
        BY <3>3, <4>1 DEF Here, At
      <4>4. f.function % Functions <= f.function
        BY <4>2, PciAssumption, RemainderAtMost
      <4>5. x.at[2] \in Nat /\ x.at[3] \in Nat /\ f.function % Functions \in Nat
        BY <1>1, <4>2, DeviceFacts, PciAssumption, RemainderAtMost
      <4> QED BY <4>2, <4>3, <4>4, <4>5 DEF Before, Ahead
    <3> HIDE DEF b
    <3> QED BY <3>3, <3>4 DEF Deep
  <2>3. Deep' /\ Sought'
    BY <1>1, <2>1, <2>2 DEF Deep, Before, PciInv, Sought, Passed, Enumerated, DeviceHasFunctions, At, IsPresent, Reg
  <2>4. Ongoing(search)'
    BY <1>1, <2>1 DEF Ongoing, Entered, get_device_type, Here, At, IsPresent, Reg
  <2>5. (\A d \in driven : Id(d.at) = d.id)'
    BY <1>1 DEF PciInv, Id, IsPresent, Reg
  <2> QED BY <1>1, <2>1, <2>3, <2>4, <2>5 DEF PciInv, Searching
<1> QED BY <1>4, <1>5

LEMMA FoundStep == ASSUME PciInv, Found PROVE PciInv'
<1>1. /\ Searching /\ Ongoing(search) /\ search.frames # <<>> /\ present \in Machines /\ UNCHANGED <<present, slot, bstatus>>
      /\ Id(Here(Top)) = search.id
  BY DEF PciInv, Found, Searching, IsMatch
<1>2. /\ search.id \in Cards /\ search \in [id : Cards, root : Nat, frames : Seq(ScanFrame)]
      /\ search.frames \in Seq(ScanFrame)
  BY <1>1 DEF Ongoing
<1>3. CASE Below = <<>>
  <2>1. search' = NoSearch /\ driven' = driven \cup {[id |-> search.id, at |-> Here(Top)]}
    BY <1>3 DEF Found
  <2>2. \A x \in present : (Enumerated(x)' <=> Enumerated(x)) /\ (Passed(x)' <=> Passed(x))
    BY <1>1 DEF Enumerated, Passed, Before, DeviceHasFunctions, At, IsPresent, Reg
  <2>3. [id |-> search.id, at |-> Here(Top)] \in driven' /\ driven \subseteq driven'
    BY <2>1
  <2>4. Sought'
    BY <1>1, <2>2, <2>3 DEF PciInv, Sought
  <2>5. \A d \in driven' : Id(d.at) = d.id
    BY <1>1, <2>1 DEF PciInv
  <2>6. \A a : Id(a)' = Id(a)
    BY <1>1 DEF Id, IsPresent, Reg
  <2>7. (search = NoSearch)'
    BY <2>1 DEF NoSearch
  <2> QED BY <1>1, <2>4, <2>5, <2>6, <2>7 DEF PciInv, Searching
<1>4. CASE Below # <<>>
  <2>1. search' = [search EXCEPT !.frames = Below] /\ UNCHANGED driven
    BY <1>4 DEF Found
  <2>2. PICK s : s = search.frames
    OBVIOUS
  <2>3. Len(s) # 1
    BY <1>1, <1>2, <1>4, <2>2, ScanFrames DEF Below
  <2>4. Ongoing([search EXCEPT !.frames = SubSeq(s, 1, Len(s) - 1)])
    BY <1>1, <2>2, <2>3, Returns
  <2>5. search' = [search EXCEPT !.frames = SubSeq(s, 1, Len(s) - 1)]
    BY <2>1, <2>2 DEF Below
  <2>6. search'.id = search.id
    BY <1>2, <2>5
  <2> QED BY <1>1, <2>1, <2>4, <2>5, <2>6, SearchGoesOn
<1> QED BY <1>3, <1>4

LEMMA EndStep == ASSUME PciInv, ScanEnds PROVE PciInv'
<1>1. /\ Searching /\ Ongoing(search) /\ search.frames # <<>> /\ present \in Machines
      /\ Top.device = DEV_PER_BUS /\ search' = [search EXCEPT !.frames = Below]
  BY DEF PciInv, ScanEnds, Searching
<1>2. search.id \in Cards /\ search \in [id : Cards, root : Nat, frames : Seq(ScanFrame)]
  BY <1>1 DEF Ongoing
<1>3. PICK s : s = search.frames
  OBVIOUS
<1>4. Len(s) = 1 => \A x \in present : ~(x.at[1] = 0 /\ x.id = search.id)
  <2>1. SUFFICES ASSUME Len(s) = 1, NEW x \in present, x.at[1] = 0, x.id = search.id PROVE FALSE
    OBVIOUS
  <2>2. Ahead(x, Top)
    BY <1>1, <1>3, <2>1 DEF Ongoing, Top
  <2>3. x.at[2] \in Nat /\ x.at[2] < DEV_PER_BUS
    BY <1>1, DeviceFacts, PciAssumption
  <2> QED BY <1>1, <2>2, <2>3, PciAssumption DEF Ahead
<1>5. Ongoing([search EXCEPT !.frames = SubSeq(s, 1, Len(s) - 1)])
  BY <1>1, <1>3, <1>4, Returns
<1>6. search' = [search EXCEPT !.frames = SubSeq(s, 1, Len(s) - 1)]
  BY <1>1, <1>3 DEF Below
<1>7. search'.id = search.id
  BY <1>2, <1>6
<1> QED BY <1>1, <1>5, <1>6, <1>7, SearchGoesOn DEF ScanEnds

LEMMA RootStep == ASSUME PciInv, pci_get_device PROVE PciInv'
<1>1. Searching /\ Ongoing(search) /\ search.frames = <<>>
  BY DEF PciInv, pci_get_device, Searching
<1>2. search.id \in Cards /\ search.root \in Nat /\ search \in [id : Cards, root : Nat, frames : Seq(ScanFrame)]
  BY <1>1 DEF Ongoing
<1>3. \A x \in present : ~(x.at[1] = 0 /\ x.id = search.id)
  BY <1>1 DEF Ongoing
<1>4. PICK r : r = search.root + 1
  OBVIOUS
<1>5. CASE search' = NoSearch
  BY <1>1, <1>3, <1>5, SearchGoesOn DEF pci_get_device
<1>6. CASE search' = [search EXCEPT !.root = r, !.frames = <<Scan(r)>>]
  <2>1. PICK t : t = <<Scan(r)>>
    OBVIOUS
  <2>2. Scan(r) \in ScanFrame
    BY <1>2, <1>4, PciAssumption DEF Scan, ScanFrame
  <2>3. t \in Seq(ScanFrame) /\ Len(t) = 1
    BY <2>1, <2>2
  <2>4. PICK q : q = search'
    OBVIOUS
  <2>5. /\ q \in [id : Cards, root : Nat, frames : Seq(ScanFrame)]
        /\ q.id = search.id /\ q.frames = t
    <3>1. q = [search EXCEPT !.root = r, !.frames = t]
      BY <1>6, <2>1, <2>4
    <3>2. r \in Nat
      BY <1>2, <1>4
    <3> QED BY <1>2, <2>3, <3>1, <3>2
  <2>6. Ongoing(q) /\ q.id = search.id
    <3>1. \A i \in 1..Len(t) - 1 : FALSE
      BY <2>3
    <3> QED BY <1>3, <2>5, <3>1 DEF Ongoing
  <2> QED BY <1>1, <2>4, <2>6, SearchGoesOn DEF pci_get_device
<1> QED BY <1>4, <1>5, <1>6 DEF pci_get_device

\* What the enumeration leaves out between a slot and the next one was not there.
LEMMA SlotGoesOn ==
  ASSUME present \in Machines, NEW s \in Nat \X (0..DEV_PER_BUS - 1) \X (0..Functions - 1)
  PROVE  /\ SlotAfter(s) \in Nat \X (0..DEV_PER_BUS - 1) \X (0..Functions - 1)
         /\ \A x \in present : /\ x.at[1] = 0 /\ Enumerated(x) /\ x.at # s
                               /\ SlotAfter(s)[1] > 0 \/ Before(x.at, SlotAfter(s))
              => s[1] > 0 \/ Before(x.at, s)
<1>1. PICK b \in Nat, d \in 0..DEV_PER_BUS - 1, f \in 0..Functions - 1 : s = <<b, d, f>>
  OBVIOUS
<1>2. DEV_PER_BUS \in Nat /\ DEV_PER_BUS >= 1 /\ Functions \in Nat /\ Functions >= 1
  BY PciAssumption
<1>3. s[1] = b /\ s[2] = d /\ s[3] = f
  BY <1>1
<1> DEFINE many == IF DeviceHasFunctions(b, d) THEN Functions ELSE 1
           next == Id(s) # "none" /\ f + 1 < many
<1>4. SlotAfter(s) = IF next THEN <<b, d, f + 1>> ELSE IF d + 1 < DEV_PER_BUS THEN <<b, d + 1, 0>> ELSE <<b + 1, 0, 0>>
  BY <1>3 DEF SlotAfter
<1>5. next => f + 1 \in 0..Functions - 1
  BY <1>1, <1>2
<1>6. SlotAfter(s) \in Nat \X (0..DEV_PER_BUS - 1) \X (0..Functions - 1)
  <2> HIDE DEF next
  <2>1. CASE next
    BY <1>1, <1>2, <1>4, <1>5, <2>1
  <2>2. CASE ~next /\ d + 1 < DEV_PER_BUS
    BY <1>1, <1>2, <1>4, <2>2
  <2>3. CASE ~next /\ ~(d + 1 < DEV_PER_BUS)
    BY <1>1, <1>2, <1>4, <2>3
  <2> QED BY <2>1, <2>2, <2>3
<1>7. ASSUME NEW x \in present, x.at[1] = 0, Enumerated(x), x.at # s, SlotAfter(s)[1] > 0 \/ Before(x.at, SlotAfter(s))
      PROVE  s[1] > 0 \/ Before(x.at, s)
  <2>1. SUFFICES ASSUME b = 0, ~Before(x.at, s) PROVE FALSE
    BY <1>1, <1>3
  <2>2. PICK xd \in 0..DEV_PER_BUS - 1, xf \in 0..Functions - 1 : x.at = <<0, xd, xf>> /\ x.at[2] = xd /\ x.at[3] = xf
    BY <1>7, DeviceFacts
  <2>3. ~(xd < d \/ (xd = d /\ xf < f)) /\ ~(xd = d /\ xf = f)
    BY <1>1, <1>3, <1>7, <2>1, <2>2 DEF Before
  <2>4. xd > d \/ (xd = d /\ xf > f)
    BY <1>1, <2>2, <2>3
  <2>5. CASE xd > d
    <3>1. d + 1 < DEV_PER_BUS
      BY <1>1, <1>2, <2>2, <2>5
    <3>2. SlotAfter(s)[1] = 0 /\ (SlotAfter(s)[2] = d \/ (SlotAfter(s)[2] = d + 1 /\ SlotAfter(s)[3] = 0))
      BY <1>4, <2>1, <3>1
    <3> QED BY <1>1, <1>7, <2>2, <2>5, <3>2 DEF Before
  <2>6. CASE xd = d /\ xf > f
    <3>1. DeviceHasFunctions(b, d) /\ IsPresent(At(0, d, f))
      BY <1>1, <1>7, <2>1, <2>2, <2>6 DEF Enumerated
    <3>2. At(0, d, f) = s
      BY <1>1, <1>2, <2>1, ShortRemainder DEF At
    <3>3. Id(s) # "none"
      BY <3>1, <3>2, DeviceFacts DEF Id, IsPresent, Reg
    <3>4. next
      BY <1>1, <1>2, <2>2, <2>6, <3>1, <3>3
    <3>5. SlotAfter(s)[1] = 0 /\ SlotAfter(s)[2] = d /\ SlotAfter(s)[3] = f + 1
      BY <1>4, <2>1, <3>4
    <3> QED BY <1>1, <1>7, <2>2, <2>6, <3>5 DEF Before
  <2> QED BY <2>4, <2>5, <2>6
<1> QED BY <1>6, <1>7

LEMMA EnumerateStep == ASSUME PciInv, enumerate_pci_devices PROVE PciInv'
<1>1. /\ present \in Machines /\ search = NoSearch /\ bstatus = "ok" /\ UNCHANGED <<present, driven, bstatus>>
      /\ slot \in Nat \X (0..DEV_PER_BUS - 1) \X (0..Functions - 1) /\ slot' = SlotAfter(slot)
      /\ search' = identify_pci_device(slot)
  BY DEF PciInv, enumerate_pci_devices
<1>2. slot' \in Nat \X (0..DEV_PER_BUS - 1) \X (0..Functions - 1)
  BY <1>1, SlotGoesOn
<1>3. (search = NoSearch \/ Ongoing(search))'
  <2>1. CASE Id(slot) \notin Cards
    BY <1>1, <2>1 DEF identify_pci_device, NoSearch
  <2>2. CASE Id(slot) \in Cards
    <3>1. PICK t : t = <<Scan(0)>>
      OBVIOUS
    <3>2. Scan(0) \in ScanFrame
      BY PciAssumption DEF Scan, ScanFrame
    <3>3. t \in Seq(ScanFrame) /\ Len(t) = 1 /\ t # <<>> /\ t[1] = Scan(0)
      BY <3>1, <3>2
    <3>4. PICK q : q = search'
      OBVIOUS
    <3>5. q = [id |-> Id(slot), root |-> 0, frames |-> t]
      BY <1>1, <2>2, <3>1, <3>4 DEF identify_pci_device, NoSearch
    <3>6. \A x \in present : Ahead(x, Scan(0))
      BY <1>1, DeviceFacts DEF Ahead, Scan
    <3>7. \A i \in 1..Len(t) - 1 : FALSE
      BY <3>3
    <3>8. q \in [id : Cards, root : Nat, frames : Seq(ScanFrame)] /\ q.frames = t /\ q.root = 0
      BY <2>2, <3>3, <3>5
    <3>9. Ongoing(q)
      <4>1. Scan(0).bus = 0
        BY DEF Scan
      <4> QED BY <3>3, <3>6, <3>7, <3>8, <4>1 DEF Ongoing
    <3>10. Ongoing(q)' <=> Ongoing(q)
      BY <1>1 DEF Ongoing, Entered, get_device_type, Here, At, IsPresent, Reg
    <3> QED BY <3>4, <3>9, <3>10
  <2> QED BY <2>1, <2>2
<1>4. Sought'
  <2>1. SUFFICES ASSUME NEW x \in present, x.at[1] = 0, x.id \in Cards, Enumerated(x), Passed(x)'
                 PROVE  search'.id = x.id \/ \E d \in driven : d.id = x.id
    BY <1>1 DEF Sought, Enumerated, DeviceHasFunctions, At, IsPresent, Reg
  <2>2. CASE x.at = slot
    <3>1. Id(slot) = x.id
      BY <1>1, <2>2, DeviceFacts
    <3> QED BY <1>1, <2>1, <3>1 DEF identify_pci_device, NoSearch
  <2>3. CASE x.at # slot
    <3>1. Passed(x)
      BY <1>1, <2>1, <2>3, SlotGoesOn DEF Passed
    <3>2. "none" # x.id
      BY <2>1, PciAssumption
    <3> QED BY <1>1, <2>1, <3>1, <3>2 DEF PciInv, Sought, NoSearch
  <2> QED BY <2>2, <2>3
<1>5. (\A d \in driven : Id(d.at) = d.id)'
  BY <1>1 DEF PciInv, Id, IsPresent, Reg
<1> QED BY <1>1, <1>2, <1>3, <1>4, <1>5 DEF PciInv

(* What init_pci and the drivers of network cards make of a machine, whatever it has on its buses:
   a driver gets its own device, no enumerated card on bus 0 is missed, and a search
   that runs out of stack did so in a bridge before what it looks for. *)
THEOREM CardsAreFound == PciSpec => []DeviceFound
<1>1. PciInit => PciInv
  <2>1. SUFFICES ASSUME PciInit PROVE PciInv
    OBVIOUS
  <2>2. slot \in Nat \X (0..DEV_PER_BUS - 1) \X (0..Functions - 1)
    BY <2>1, PciAssumption DEF PciInit
  <2>3. Sought
    BY <2>1, DeviceFacts DEF PciInit, Sought, Passed, Before
  <2> QED BY <2>1, <2>2, <2>3 DEF PciInit, PciInv
<1>2. PciInv /\ [PciNext]_pcivars => PciInv'
  <2>1. SUFFICES ASSUME PciInv, [PciNext]_pcivars PROVE PciInv'
    OBVIOUS
  <2>2. CASE UNCHANGED pcivars
    <3>1. UNCHANGED <<present, slot, search, driven, bstatus>>
      BY <2>2 DEF pcivars
    <3>2. Ongoing(search)' <=> Ongoing(search)
      BY <3>1 DEF Ongoing, Entered, get_device_type, Here, At, IsPresent, Reg
    <3>3. Sought' <=> Sought
      BY <3>1 DEF Sought, Passed, Before, Enumerated, DeviceHasFunctions, At, IsPresent, Reg
    <3>4. Deep' <=> Deep
      BY <3>1 DEF Deep
    <3>5. (\A d \in driven : Id(d.at) = d.id)' <=> \A d \in driven : Id(d.at) = d.id
      BY <3>1 DEF Id, IsPresent, Reg
    <3> QED BY <2>1, <3>1, <3>2, <3>3, <3>4, <3>5 DEF PciInv
  <2>3. CASE PciNext
    BY <2>1, <2>3, ScanStep, BridgeStep, FoundStep, EndStep, RootStep, EnumerateStep DEF PciNext
  <2> QED BY <2>1, <2>2, <2>3
<1>3. PciInv => DeviceFound
  <2>1. SUFFICES ASSUME PciInv PROVE DeviceFound
    OBVIOUS
  <2>2. ASSUME Visited, search = NoSearch, NEW x \in present, x.id \in Cards, x.at[1] = 0, Enumerated(x)
        PROVE  \E d \in driven : d.id = x.id
    <3>1. Passed(x)
      BY <2>2, PciAssumption DEF Visited, Passed
    <3>2. search.id # x.id
      BY <2>2, PciAssumption DEF NoSearch
    <3> QED BY <2>1, <2>2, <3>1, <3>2 DEF PciInv, Sought
  <2>3. bstatus = "deep" => Deep
    BY <2>1 DEF PciInv
  <2> QED BY <2>1, <2>2, <2>3 DEF PciInv, DeviceFound, Deep
<1> QED BY <1>1, <1>2, <1>3, PTL DEF PciSpec

-----------------------------------------------------------------------------
(* The machine: a behaviour of MCSpec is one of the part it steps, so what the parts keep, it keeps. *)

LEMMA MachineSteps ==
  /\ MCInit => PagingInit /\ NicInit /\ init_AM79C /\ RtcInit /\ PciInit /\ ApmInit
  /\ [PagingStep \/ NicStep \/ AmStep \/ RtcStep \/ PciStep \/ ApmStep]_MCVars
       => [PagingNext]_pagevars /\ [NicNext]_nicvars /\ [AmNext]_amvars
            /\ [RtcNext]_rtcvars /\ [PciNext]_pcivars /\ [ApmNext]_apmvars
BY Zenon DEF MCInit, MCVars, PagingStep, NicStep, AmStep, RtcStep, PciStep, ApmStep

\* Paging, over all steps of the machine (create_page_dir, copy_page_dir, init_paging).
THEOREM MachineKeepsFrames == MCSpec => [](FramesApart /\ KernelShared)
<1>1. MCSpec => PagingSpec
  BY MachineSteps, PTL DEF MCSpec, PagingSpec
<1> QED BY <1>1, FramesStayApart, KernelStaysShared, PTL

(* Whichever card the machine has, the packets given to the network are those the card accepted, in
   order and each once, whole unless they waited together (rtl8139_handler, AM97C_ISR). *)
THEOREM MachineReceives == MCSpec => []PacketsInOrder
<1>1. MCSpec => NicSpec
  BY MachineSteps, PTL DEF MCSpec, NicSpec
<1>2. MCSpec => AmSpec
  BY MachineSteps, PTL DEF MCSpec, AmSpec
<1>3. ReceivedInOrder /\ RingInOrder => PacketsInOrder
  BY DEF PacketsInOrder
<1> QED BY <1>1, <1>2, <1>3, PacketsReceivedInOrder, RingPacketsReceived, PTL

(* and the frames on the wire are those the kernel started, while no more are under way than there
   are descriptors and no send is cut by another (rtl8139_send, AM79C_send). *)
THEOREM MachineSends == MCSpec => []FramesInOrder
<1>1. MCSpec => NicSpec
  BY MachineSteps, PTL DEF MCSpec, NicSpec
<1>2. MCSpec => AmSpec
  BY MachineSteps, PTL DEF MCSpec, AmSpec
<1>3. SentInOrder /\ RingSends => FramesInOrder
  BY DEF FramesInOrder
<1> QED BY <1>1, <1>2, <1>3, FramesSentInOrder, RingFramesSent, PTL

\* The time read is one the clock showed (rtc_read),
THEOREM MachineClock == MCSpec => []ClockRead
<1>1. MCSpec => RtcSpec
  BY MachineSteps, PTL DEF MCSpec, RtcSpec
<1> QED BY <1>1, ClockReadIsShown, PTL

\* the cards on the bus are found (pci.c),
THEOREM MachineFinds == MCSpec => []DeviceFound
<1>1. MCSpec => PciSpec
  BY MachineSteps, PTL DEF MCSpec, PciSpec
<1> QED BY <1>1, CardsAreFound, PTL

\* and power is managed as in a machine that does nothing else (apm.c).
THEOREM MachinePower == MCSpec => []PowerAsAsked
<1>1. MCSpec => ApmSpec
  BY MachineSteps, PTL DEF MCSpec, ApmSpec
<1> QED BY <1>1, PowerStateAsAsked, PTL

-----------------------------------------------------------------------------
(* The text screen. What it shows is read off the paper that paper follows: InStep says which part of
   it stands on the screen at each step of putchar and of clear, as long as no handler cut in, and
   Kept where the cursor can be whoever did. *)
Cells == (0..Height) \X (0..Width - 1)
TopRow(y) == IF y >= Height THEN y - (Height - 1) ELSE 0
Heading(c, p) == IF c \in Printable THEN <<p.x + 1, p.y>> ELSE Moved(c, p.x, p.y)
Onward(c, p) == LET to == Heading(c, p) IN [x |-> Wrapped(to[1], to[2])[1], y |-> Wrapped(to[1], to[2])[2]]

\* f[n] is where the paper of s has its cursor after n characters
Trail(f, s) ==
  /\ s \in Seq(Characters) /\ Len(s) <= MaxPrinted
  /\ f[0] = [x |-> 0, y |-> 0] /\ \A n \in 1..Len(s) : f[n] = Onward(s[n], f[n - 1])
Marks(f, s, y, x) == {n \in 1..Len(s) : s[n] \in Printable /\ f[n - 1] = [x |-> x, y |-> y]}
Drawn(f, s, y, x) ==
  LET writes == Marks(f, s, y, x)
  IN  IF writes = {} THEN Blank ELSE s[CHOOSE n \in writes : \A m \in writes : m <= n]

\* the rows of v from row top of the paper on; k of them were already moved up
OnScreen(f, s, v, top, k) ==
  \A r \in 0..Height - 1, c \in 0..Width - 1 : v[r, c] = Drawn(f, s, (IF r < k THEN r + 1 ELSE r) + top, c)

AtRest(f, s, v, x, y) ==
  LET e == f[Len(s)] IN x = e.x /\ y = e.y - TopRow(e.y) /\ OnScreen(f, s, v, TopRow(e.y), 0)
Drawing(f, s, v, x, y) ==
  LET p == f[Len(s) - 1] IN
  s # <<>> /\ s[Len(s)] \in Printable /\ x = p.x /\ y = p.y - TopRow(p.y) /\ OnScreen(f, s, v, TopRow(p.y), 0)
Moving(f, s, v, x, y) ==
  LET p == f[Len(s) - 1]  to == Heading(s[Len(s)], p) IN
  s # <<>> /\ x = to[1] /\ y = to[2] - TopRow(p.y) /\ OnScreen(f, s, v, TopRow(p.y), 0)
Testing(f, s, v, x, y, k) ==
  LET p == f[Len(s) - 1]  e == f[Len(s)] IN
  s # <<>> /\ x = e.x /\ y = e.y - TopRow(p.y) /\ OnScreen(f, s, v, TopRow(p.y), k)
Clearing(f, s, v) == s = <<>> /\ OnScreen(f, s, v, 0, 0)

\* what the screen shows of the paper at each step of putchar
InStep(f, s, v, x, y, st, k) ==
  /\ st = "idle"    => AtRest(f, s, v, x, y)
  /\ st = "advance" => Drawing(f, s, v, x, y)
  /\ st = "wrap"    => Moving(f, s, v, x, y)
  /\ st = "test"    => Testing(f, s, v, x, y, 0)
  /\ st = "copy"    => Testing(f, s, v, x, y, k) /\ y = Height
  /\ st = "home"    => Clearing(f, s, v)

\* where the cursor can be at each step, whoever cut in
Kept(x, y, st, k) ==
  /\ st \in {"idle", "advance", "wrap", "test", "copy", "home"}
  /\ st \in {"idle", "advance", "home"} => x \in 0..Width - 1 /\ y \in 0..Height - 1
  /\ st = "wrap" => \/ x \in 0..2 * Width - 1 /\ y \in 0..Height - 1
                    \/ x \in 0..Width - 1 /\ y = Height
  /\ st \in {"test", "copy"} => x \in 0..Width - 1 /\ y \in 0..Height
  /\ st = "copy" => k \in 0..Height - 1
Reaches(low, torn) == low \in Nat /\ low <= IF torn THEN Height ELSE Height - 1

SInv ==
  /\ DOMAIN vidmem = Cells
  /\ printed \in Seq(Characters) /\ Len(printed) <= MaxPrinted /\ cut \in BOOLEAN
  /\ Kept(cursorx, cursory, step, row)
  /\ Reaches(lowest, cut)
  /\ ~cut => InStep(paper, printed, vidmem, cursorx, cursory, step, row)

LEMMA ScreenSizes == Width \in Nat /\ Width > 0 /\ Height \in Nat /\ Height > 0 /\ Tab \in Nat /\ Tab > 0 /\ Tab <= Width /\ MaxPrinted \in Nat
BY ScreenAssumption

Spot(p) == p = [x |-> p.x, y |-> p.y] /\ p.x \in 0..Width - 1 /\ p.y \in Nat

LEMMA Tabbed ==
  ASSUME NEW x \in 0..Width - 1
  PROVE  ((x + Tab) \div Tab) * Tab \in 0..2 * Width - 1
<1>1. PICK q \in Nat, r \in 0..Tab - 1 : x + Tab = q * Tab + r /\ (x + Tab) \div Tab = q
  BY ScreenSizes
<1>2. q * Tab \in Int
  BY <1>1, ScreenSizes
<1>3. PICK m \in Int : m = q * Tab
  BY <1>2
<1>4. m >= 0 /\ m <= x + Tab
  BY <1>1, <1>3, ScreenSizes
<1> QED BY <1>1, <1>3, <1>4, ScreenSizes

LEMMA MovedIs ==
  ASSUME NEW c, NEW x \in 0..Width - 1, NEW y \in Nat
  PROVE  /\ Moved(c, x, y)[1] \in 0..2 * Width - 1
         /\ Moved(c, x, y)[2] = IF c = "NL" THEN y + 1 ELSE y
         /\ c = "NL" => Moved(c, x, y)[1] = 0
         /\ \A z : Moved(c, x, z)[1] = Moved(c, x, y)[1]
<1>1. PICK t : t = ((x + Tab) \div Tab) * Tab
  OBVIOUS
<1>2. t \in 0..2 * Width - 1
  BY <1>1, Tabbed
<1>3. \A z : Moved(c, x, z) = CASE c = "BS"  -> <<IF x > 0 THEN x - 1 ELSE 0, z>>
                                [] c = "TAB" -> <<t, z>>
                                [] c = "CR"  -> <<0, z>>
                                [] c = "NL"  -> <<0, z + 1>>
                                [] OTHER     -> <<x, z>>
  BY <1>1 DEF Moved
<1>4. CASE c = "BS"
  BY <1>3, <1>4, ScreenSizes
<1>5. CASE c = "TAB"
  BY <1>2, <1>3, <1>5
<1>6. CASE c = "CR"
  BY <1>3, <1>6, ScreenSizes
<1>7. CASE c = "NL"
  BY <1>3, <1>7, ScreenSizes
<1>8. CASE c \notin {"BS", "TAB", "CR", "NL"}
  BY <1>3, <1>8, ScreenSizes
<1> QED BY <1>4, <1>5, <1>6, <1>7, <1>8

LEMMA WrappedIs ==
  ASSUME NEW x \in 0..2 * Width - 1, NEW y \in Int
  PROVE  /\ Wrapped(x, y)[1] \in 0..Width - 1
         /\ Wrapped(x, y)[2] = IF x >= Width THEN y + 1 ELSE y
         /\ Wrapped(x, y)[1] = IF x >= Width THEN 0 ELSE x
BY ScreenSizes DEF Wrapped

LEMMA HeadingIs ==
  ASSUME NEW c, NEW p, Spot(p), NEW to, to = Heading(c, p)
  PROVE  /\ to[1] \in 0..2 * Width - 1
         /\ to[2] \in p.y..p.y + 1 /\ (to[2] # p.y => to[1] = 0)
<1>1. p.x \in 0..Width - 1 /\ p.y \in Nat
  BY DEF Spot
<1>2. CASE c \in Printable
  BY <1>1, <1>2, ScreenSizes DEF Heading
<1>3. CASE c \notin Printable
  <2>1. to = Moved(c, p.x, p.y)
    BY <1>3 DEF Heading
  <2> QED BY <1>1, <2>1, MovedIs
<1> QED BY <1>2, <1>3

LEMMA AfterIs ==
  ASSUME NEW c, NEW p, Spot(p), NEW e, e = Onward(c, p), NEW to, to = Heading(c, p)
  PROVE  /\ Spot(e) /\ e.y \in p.y..p.y + 1
         /\ e.x = Wrapped(to[1], to[2])[1] /\ e.y = Wrapped(to[1], to[2])[2]
<1>1. p.y \in Nat
  BY DEF Spot
<1>2. to[1] \in 0..2 * Width - 1 /\ to[2] \in p.y..p.y + 1 /\ (to[2] # p.y => to[1] = 0)
  BY HeadingIs
<1>3. PICK a, b : a = to[1] /\ b = to[2]
  OBVIOUS
<1>4. a \in 0..2 * Width - 1 /\ b \in Int
  BY <1>1, <1>2, <1>3
<1>5. PICK u, w : u = Wrapped(a, b)[1] /\ w = Wrapped(a, b)[2]
  OBVIOUS
<1>6. u \in 0..Width - 1 /\ w = IF a >= Width THEN b + 1 ELSE b
  BY <1>4, <1>5, WrappedIs
<1>7. w \in p.y..p.y + 1
  BY <1>1, <1>2, <1>3, <1>6, ScreenSizes
<1>8. e = [x |-> u, y |-> w]
  BY <1>3, <1>5 DEF Onward
<1>9. e.x = u /\ e.y = w /\ e = [x |-> e.x, y |-> e.y]
  BY <1>8
<1>10. w \in Nat
  BY <1>1, <1>7
<1> QED BY <1>3, <1>5, <1>6, <1>7, <1>9, <1>10 DEF Spot

(* The places on the paper: it is only written downwards. *)
LEMMA TrailSpots ==
  ASSUME NEW f, NEW s, Trail(f, s)
  PROVE  /\ Len(s) \in Nat
         /\ \A n \in 0..Len(s) : Spot(f[n]) /\ \A m \in 0..n : f[m].y <= f[n].y
<1>1. Len(s) \in Nat
  BY DEF Trail
<1> DEFINE S == {n \in 0..Len(s) : \A m \in 0..n : Spot(f[m]) /\ f[m].y <= f[n].y}
<1>2. 0 \in S
  <2>1. f[0] = [x |-> 0, y |-> 0]
    BY DEF Trail
  <2>2. f[0].x = 0 /\ f[0].y = 0
    BY <2>1
  <2>3. Spot(f[0])
    BY <2>1, <2>2, ScreenSizes DEF Spot
  <2>4. \A m \in 0..0 : m = 0
    OBVIOUS
  <2> QED BY <1>1, <2>2, <2>3, <2>4
<1>3. ASSUME NEW n \in 0 + 1..Len(s), n - 1 \in S PROVE n \in S
  <2>1. n \in 1..Len(s) /\ n \in 0..Len(s) /\ n - 1 \in 0..n - 1
    BY <1>1
  <2>2. f[n] = Onward(s[n], f[n - 1])
    BY <2>1 DEF Trail
  <2>3. PICK p, e : p = f[n - 1] /\ e = f[n]
    OBVIOUS
  <2>4. Spot(p) /\ \A m \in 0..n - 1 : Spot(f[m]) /\ f[m].y <= p.y
    BY <1>3, <2>1, <2>3
  <2>5. Spot(e) /\ e.y \in p.y..p.y + 1
    BY <2>2, <2>3, <2>4, AfterIs
  <2>6. p.y \in Nat /\ e.y \in Nat /\ p.y <= e.y
    BY <2>4, <2>5 DEF Spot
  <2>7. ASSUME NEW m \in 0..n PROVE Spot(f[m]) /\ f[m].y <= e.y
    <3>1. CASE m = n
      BY <2>3, <2>5, <2>6, <3>1
    <3>2. CASE m # n
      <4>1. m \in 0..n - 1
        BY <1>1, <2>1, <3>2
      <4>2. PICK a : a = f[m].y
        OBVIOUS
      <4>3. Spot(f[m]) /\ a <= p.y
        BY <2>4, <4>1, <4>2
      <4>4. a \in Nat
        BY <4>2, <4>3 DEF Spot
      <4>5. a <= e.y
        BY <2>6, <4>3, <4>4
      <4> QED BY <4>2, <4>3, <4>5
    <3> QED BY <3>1, <3>2
  <2> QED BY <2>1, <2>3, <2>7
<1>4. \A n \in 0..Len(s) : n \in S
  <2>1. PICK L \in Nat : L = Len(s)
    BY <1>1
  <2>2. \A v \in 0 + 1..L : v - 1 \in S => v \in S
    BY <1>3, <2>1
  <2> HIDE DEF S
  <2>3. \A v \in 0..L : v \in S
    BY <1>2, <2>2, RangeInduct
  <2> QED BY <2>1, <2>3
<1>5. ASSUME NEW n \in 0..Len(s) PROVE Spot(f[n]) /\ \A m \in 0..n : f[m].y <= f[n].y
  <2>1. n \in 0..n
    BY <1>1
  <2> QED BY <1>4, <2>1
<1> QED BY <1>1, <1>5

(* The characters drawn on the paper, and one more. *)
LEMMA LastOf ==
  ASSUME NEW S, NEW L \in Nat, S \subseteq 1..L, S # {}
  PROVE  LET k == CHOOSE n \in S : \A m \in S : m <= n IN k \in S /\ \A m \in S : m <= k
<1> DEFINE T == {L - n : n \in S}
<1>1. T \in SUBSET Int /\ T # {} /\ \A t \in T : 0 <= t
  <2>1. ASSUME NEW t \in T PROVE t \in Int /\ 0 <= t
    <3>1. PICK n \in S : t = L - n
      OBVIOUS
    <3>2. n \in 1..L
      OBVIOUS
    <3> QED BY <3>1, <3>2
  <2>2. T # {}
    OBVIOUS
  <2> QED BY <2>1, <2>2
<1>2. PICK t \in T : \A u \in T : t <= u
  <2>1. PICK R, a : R = T /\ a = 0
    OBVIOUS
  <2>2. R \in SUBSET Int /\ a \in Int /\ R # {} /\ \A v \in R : a <= v
    BY <1>1, <2>1
  <2>3. \E v \in R : \A u \in R : v <= u
    BY <2>2, LeastOf
  <2> QED BY <2>1, <2>3
<1>3. PICK n \in S : t = L - n
  OBVIOUS
<1>4. \A m \in S : m <= n
  <2>1. SUFFICES ASSUME NEW m \in S PROVE m <= n
    OBVIOUS
  <2>2. L - m \in T /\ m \in Int /\ n \in Int
    OBVIOUS
  <2> HIDE DEF T
  <2>3. L - n <= L - m
    BY <1>2, <1>3, <2>2
  <2> QED BY <2>2, <2>3
<1> QED BY <1>4

LEMMA DrawnIs ==
  ASSUME NEW f, NEW s, Trail(f, s), NEW y, NEW x
  PROVE  \/ Marks(f, s, y, x) = {} /\ Drawn(f, s, y, x) = Blank
         \/ \E k \in Marks(f, s, y, x) : Drawn(f, s, y, x) = s[k] /\ \A m \in Marks(f, s, y, x) : m <= k
<1>1. PICK W : W = Marks(f, s, y, x)
  OBVIOUS
<1>2. Drawn(f, s, y, x) = IF W = {} THEN Blank ELSE s[CHOOSE n \in W : \A m \in W : m <= n]
  BY <1>1 DEF Drawn
<1>3. Len(s) \in Nat /\ W \subseteq 1..Len(s)
  BY <1>1 DEF Marks, Trail
<1>4. CASE W = {}
  BY <1>1, <1>2, <1>4
<1>5. CASE W # {}
  <2>1. PICK k : k = CHOOSE n \in W : \A m \in W : m <= n
    OBVIOUS
  <2>2. k \in W /\ \A m \in W : m <= k
    BY <1>3, <1>5, <2>1, LastOf
  <2>3. Drawn(f, s, y, x) = s[k]
    BY <1>2, <1>5, <2>1
  <2> QED BY <1>1, <2>2, <2>3
<1> QED BY <1>4, <1>5

\* one character more
More(s, c, t) == t = Append(s, c)
LEMMA TrailMore ==
  ASSUME NEW f, NEW s, Trail(f, s), NEW c, NEW t, More(s, c, t), NEW g, Trail(g, t)
  PROVE  /\ Len(s) \in Nat /\ Len(t) = Len(s) + 1 /\ t[Len(t)] = c /\ t # <<>>
         /\ \A n \in 1..Len(s) : t[n] = s[n]
         /\ \A n \in 0..Len(s) : g[n] = f[n]
<1>1. PICK L \in Nat : L = Len(s)
  BY DEF Trail
<1>2. Len(t) = L + 1 /\ t[L + 1] = c /\ \A n \in 1..L : t[n] = s[n]
  BY <1>1 DEF Trail, More
<1>3. t # <<>>
  <2>1. Len(<<>>) = 0
    OBVIOUS
  <2> QED BY <1>1, <1>2, <2>1
<1> DEFINE S == {n \in 0..L : g[n] = f[n]}
<1>4. 0 \in S
  BY <1>1 DEF Trail
<1>5. ASSUME NEW n \in 0 + 1..L, n - 1 \in S PROVE n \in S
  <2>1. n \in 1..Len(s) /\ n \in 1..Len(t) /\ n \in 0..L
    BY <1>1, <1>2
  <2>2. f[n] = Onward(s[n], f[n - 1])
    BY <2>1 DEF Trail
  <2>3. g[n] = Onward(t[n], g[n - 1])
    BY <2>1 DEF Trail
  <2>4. t[n] = s[n] /\ g[n - 1] = f[n - 1]
    BY <1>1, <1>2, <1>5, <2>1
  <2> QED BY <2>1, <2>2, <2>3, <2>4
<1>6. \A n \in 0..L : n \in S
  <2>1. \A v \in 0 + 1..L : v - 1 \in S => v \in S
    BY <1>5
  <2> HIDE DEF S
  <2> QED BY <1>4, <2>1, RangeInduct
<1> QED BY <1>1, <1>2, <1>3, <1>6

Stands(p, y, x) == p = [x |-> x, y |-> y]
LEMMA DrawnMore ==
  ASSUME NEW f, NEW s, Trail(f, s), NEW c, NEW t, More(s, c, t), NEW g, Trail(g, t), NEW y, NEW x
  PROVE  Drawn(g, t, y, x) = IF c \in Printable /\ Stands(f[Len(s)], y, x) THEN c ELSE Drawn(f, s, y, x)
<1>1. PICK L \in Nat : L = Len(s)
  BY DEF Trail
<1>2. Len(t) = L + 1 /\ t[L + 1] = c /\ (\A n \in 1..L : t[n] = s[n]) /\ \A n \in 0..L : g[n] = f[n]
  BY <1>1, TrailMore
<1>3. PICK W, V, p : W = Marks(f, s, y, x) /\ V = Marks(g, t, y, x) /\ p = [x |-> x, y |-> y]
  OBVIOUS
<1>4. \A n \in 1..L : n - 1 \in 0..L
  OBVIOUS
<1>5. L + 1 \in 1..L + 1 /\ (L + 1) - 1 = L /\ L \in 0..L
  OBVIOUS
<1>6. \A n : n \in V <=> (n \in W \/ (n = L + 1 /\ c \in Printable /\ f[L] = p))
  <2>1. \A n \in 1..L : n \in V <=> n \in W
    BY <1>1, <1>2, <1>3, <1>4 DEF Marks
  <2>2. L + 1 \in V <=> (c \in Printable /\ f[L] = p)
    BY <1>2, <1>3, <1>5 DEF Marks
  <2>3. \A n : (n \in V => n \in 1..L + 1) /\ (n \in W => n \in 1..L)
    BY <1>1, <1>2, <1>3 DEF Marks
  <2>4. \A n : n \in 1..L + 1 <=> (n \in 1..L \/ n = L + 1)
    OBVIOUS
  <2>5. L + 1 \notin 1..L
    OBVIOUS
  <2> QED BY <2>1, <2>2, <2>3, <2>4, <2>5
<1>7. \/ V = {} /\ Drawn(g, t, y, x) = Blank
      \/ \E k \in V : Drawn(g, t, y, x) = t[k] /\ \A m \in V : m <= k
  BY <1>3, DrawnIs
<1>8. \/ W = {} /\ Drawn(f, s, y, x) = Blank
      \/ \E k \in W : Drawn(f, s, y, x) = s[k] /\ \A m \in W : m <= k
  BY <1>3, DrawnIs
<1>9. \A n \in W : n \in 1..L
  BY <1>1, <1>3 DEF Marks
<1>10. CASE c \in Printable /\ f[L] = p
  <2>1. L + 1 \in V
    BY <1>6, <1>10
  <2>2. PICK k \in V : Drawn(g, t, y, x) = t[k] /\ \A m \in V : m <= k
    BY <1>7, <2>1
  <2>3. k = L + 1
    <3>1. k \in 1..L + 1 /\ L + 1 <= k
      BY <1>5, <1>6, <1>9, <2>1, <2>2
    <3> QED BY <3>1
  <2> QED BY <1>1, <1>2, <1>3, <1>10, <2>2, <2>3 DEF Stands
<1>11. CASE ~(c \in Printable /\ f[L] = p)
  <2>1. V = W
    BY <1>6, <1>11
  <2>2. Drawn(g, t, y, x) = Drawn(f, s, y, x)
    <3>1. CASE W = {}
      BY <1>7, <1>8, <2>1, <3>1
    <3>2. CASE W # {}
      <4>1. PICK k \in V : Drawn(g, t, y, x) = t[k] /\ \A m \in V : m <= k
        BY <1>7, <2>1, <3>2
      <4>2. PICK j \in W : Drawn(f, s, y, x) = s[j] /\ \A m \in W : m <= j
        BY <1>8, <3>2
      <4>3. k \in 1..L /\ j \in 1..L /\ j <= k /\ k <= j
        BY <1>9, <2>1, <4>1, <4>2
      <4>4. k = j
        BY <4>3
      <4> QED BY <1>2, <4>1, <4>2, <4>3, <4>4
    <3> QED BY <3>1, <3>2
  <2> QED BY <1>1, <1>3, <1>11, <2>2 DEF Stands
<1> QED BY <1>10, <1>11

\* nothing is drawn below the row of the last character's start
LEMMA DrawnBelow ==
  ASSUME NEW f, NEW s, Trail(f, s), NEW y \in Int, NEW x,
         \A n \in 1..Len(s) : f[n - 1].y < y
  PROVE  Drawn(f, s, y, x) = Blank
<1>1. Marks(f, s, y, x) = {}
  <2>1. SUFFICES ASSUME NEW n \in 1..Len(s), f[n - 1] = [x |-> x, y |-> y] PROVE FALSE
    BY DEF Marks
  <2>2. f[n - 1].y = y
    BY <2>1
  <2>3. f[n - 1].y < y
    OBVIOUS
  <2> QED BY <2>2, <2>3
<1> QED BY <1>1 DEF Drawn

LEMMA PaperExists ==
  ASSUME NEW s
  PROVE  \E f : f = [n \in 0..MaxPrinted |-> IF n = 0 THEN [x |-> 0, y |-> 0] ELSE Onward(s[n], f[n - 1])]
<1> DEFINE Is(f, n) == f[n] = IF n = 0 THEN [x |-> 0, y |-> 0] ELSE Onward(s[n], f[n - 1])
           M == MaxPrinted
           S == {k \in 0..M : \E f : f = [n \in 0..M |-> f[n]] /\ \A n \in 0..k : Is(f, n)}
<1>0. M \in Nat /\ 0 \in 0..M
  BY ScreenSizes
<1>1. 0 \in S
  <2> DEFINE f == [n \in 0..M |-> [x |-> 0, y |-> 0]]
  <2>1. f = [n \in 0..M |-> f[n]]
    OBVIOUS
  <2>2. \A n \in 0..0 : Is(f, n)
    <3>1. \A n \in 0..0 : n = 0 /\ n \in 0..M
      BY <1>0
    <3> QED BY <3>1
  <2> HIDE DEF f, Is, M
  <2> QED BY <1>0, <2>1, <2>2
<1>2. ASSUME NEW k \in 0 + 1..M, k - 1 \in S PROVE k \in S
  <2>1. PICK h : h = [n \in 0..M |-> h[n]] /\ \A n \in 0..k - 1 : Is(h, n)
    BY <1>2
  <2>2. k \in 0..M /\ k # 0 /\ k - 1 \in 0..M
    BY <1>0
  <2> DEFINE y == Onward(s[k], h[k - 1])
             f == [h EXCEPT ![k] = y]
  <2>3. DOMAIN h = 0..M
    BY <2>1
  <2>4. f[k] = y /\ f = [n \in 0..M |-> f[n]] /\ \A n \in 0..M : n # k => f[n] = h[n]
    BY <2>2, <2>3
  <2> HIDE DEF f
  <2>5. ASSUME NEW n \in 0..k PROVE Is(f, n)
    <3>1. CASE n = k
      <4>1. k - 1 # k
        BY <2>2
      <4>2. f[k - 1] = h[k - 1]
        BY <2>2, <2>4, <4>1
      <4> QED BY <2>2, <2>4, <3>1, <4>2
    <3>2. CASE n # k
      <4>1. n \in 0..k - 1 /\ n \in 0..M /\ (n # 0 => n - 1 \in 0..M /\ n - 1 # k)
        BY <1>0, <2>2, <3>2
      <4>2. f[n] = h[n] /\ (n # 0 => f[n - 1] = h[n - 1])
        BY <2>4, <3>2, <4>1
      <4>3. Is(h, n)
        BY <2>1, <4>1
      <4> QED BY <4>2, <4>3
    <3> QED BY <3>1, <3>2
  <2> HIDE DEF Is, M
  <2> QED BY <2>2, <2>4, <2>5
<1>3. \A k \in 0..M : k \in S
  <2> HIDE DEF S, M
  <2> QED BY <1>0, <1>1, <1>2, RangeInduct
<1>4. PICK f : f = [n \in 0..M |-> f[n]] /\ \A n \in 0..M : Is(f, n)
  <2>1. M \in S
    BY <1>0, <1>3
  <2> QED BY <2>1
<1>5. [n \in 0..M |-> f[n]] = [n \in 0..M |-> IF n = 0 THEN [x |-> 0, y |-> 0] ELSE Onward(s[n], f[n - 1])]
  <2> HIDE DEF M
  <2> QED BY <1>4
<1> QED BY <1>4, <1>5

LEMMA TrailOf ==
  ASSUME NEW s \in Seq(Characters), Len(s) <= MaxPrinted,
         NEW f, f = [n \in 0..MaxPrinted |-> IF n = 0 THEN [x |-> 0, y |-> 0] ELSE Onward(s[n], f[n - 1])]
  PROVE  Trail(f, s)
<1>1. Len(s) \in Nat /\ 0 \in 0..MaxPrinted
  BY ScreenSizes
<1>2. \A n \in 1..Len(s) : n \in 0..MaxPrinted /\ n # 0
  BY <1>1, ScreenSizes
<1>3. f[0] = [x |-> 0, y |-> 0]
  BY <1>1
<1>4. \A n \in 1..Len(s) : f[n] = Onward(s[n], f[n - 1])
  BY <1>2
<1> QED BY <1>3, <1>4 DEF Trail

LEMMA PaperNow == paper = [n \in 0..MaxPrinted |-> IF n = 0 THEN [x |-> 0, y |-> 0] ELSE Onward(printed[n], paper[n - 1])]
<1>1. PICK f : f = [n \in 0..MaxPrinted |-> IF n = 0 THEN [x |-> 0, y |-> 0] ELSE Onward(printed[n], f[n - 1])]
  BY PaperExists, Zenon
<1>2. paper = CHOOSE h : h = [n \in 0..MaxPrinted |-> IF n = 0 THEN [x |-> 0, y |-> 0] ELSE Onward(printed[n], h[n - 1])]
  BY Zenon DEF paper, Onward, Heading
<1> QED BY <1>1, <1>2, Zenon

(* What a step does to the screen and to the paper. *)
LEMMA TopIs ==
  ASSUME NEW y \in Nat
  PROVE  /\ TopRow(y) \in Nat /\ TopRow(y) <= y /\ y - TopRow(y) \in 0..Height - 1
         /\ \A z \in y..y + 1 : /\ z - TopRow(y) < Height => TopRow(z) = TopRow(y)
                                /\ z - TopRow(y) = Height => TopRow(z) = TopRow(y) + 1 /\ y < z
BY ScreenSizes DEF TopRow

\* a character that is not printed changes nothing on the paper
LEMMA OnScreenSame ==
  ASSUME NEW f, NEW s, Trail(f, s), NEW c, c \notin Printable, NEW t, More(s, c, t), NEW g, Trail(g, t),
         NEW v, NEW top, NEW k, OnScreen(f, s, v, top, k)
  PROVE  OnScreen(g, t, v, top, k)
<1>1. ASSUME NEW y, NEW x PROVE Drawn(g, t, y, x) = Drawn(f, s, y, x)
  <2>1. Drawn(g, t, y, x) = IF c \in Printable /\ Stands(f[Len(s)], y, x) THEN c ELSE Drawn(f, s, y, x)
    BY DrawnMore
  <2> QED BY <2>1
<1> QED BY <1>1 DEF OnScreen

Framed(v) == DOMAIN v = Cells
LEMMA CellIs ==
  ASSUME NEW x \in 0..Width - 1, NEW y \in Nat
  PROVE  Cell(x, y) = <<y, x>>
BY ScreenSizes DEF Cell

PutsAt(w, v, c, x, y) ==
  \A r \in 0..Height, col \in 0..Width - 1 : w[r, col] = IF r = y /\ col = x THEN c ELSE v[r, col]
LEMMA PutIs ==
  ASSUME NEW v, Framed(v), NEW c, NEW x \in 0..Width - 1, NEW y \in 0..Height, NEW w, w = Put(v, c, x, y)
  PROVE  PutsAt(w, v, c, x, y)
<1>1. PICK cell : cell = <<y, x>>
  OBVIOUS
<1>2. cell \in DOMAIN v
  BY <1>1 DEF Cells, Framed
<1>3. Cell(x, y) = cell
  <2>1. y \in Nat
    BY ScreenSizes
  <2> QED BY <1>1, <2>1, CellIs
<1>4. w = [v EXCEPT ![cell] = c]
  BY <1>3 DEF Put
<1>5. \A p \in DOMAIN v : w[p] = IF p = cell THEN c ELSE v[p]
  BY <1>2, <1>4
<1>6. ASSUME NEW r \in 0..Height, NEW col \in 0..Width - 1 PROVE w[r, col] = IF r = y /\ col = x THEN c ELSE v[r, col]
  <2>1. PICK p : p = <<r, col>>
    OBVIOUS
  <2>2. p \in DOMAIN v /\ (p = cell <=> r = y /\ col = x)
    BY <1>1, <2>1 DEF Cells, Framed
  <2>3. w[p] = IF p = cell THEN c ELSE v[p]
    BY <1>5, <2>2
  <2> QED BY <2>1, <2>2, <2>3
<1> QED BY <1>6 DEF PutsAt

RowsUp(w, v, k) ==
  \A r \in 0..Height, c \in 0..Width - 1 : w[r, c] = IF r = k THEN v[r + 1, c] ELSE v[r, c]
LEMMA RowUpIs ==
  ASSUME NEW v, Framed(v), NEW k \in 0..Height - 1, NEW w, w = RowUp(v, k)
  PROVE  RowsUp(w, v, k)
BY ScreenSizes DEF RowsUp, RowUp, Cells, Framed

LEMMA LastBlankIs ==
  ASSUME NEW v, Framed(v), NEW w, w = LastBlank(v)
  PROVE  \A r \in 0..Height, c \in 0..Width - 1 : w[r, c] = IF r = Height - 1 THEN Blank ELSE v[r, c]
BY ScreenSizes DEF LastBlank, Cells, Framed

LEMMA StepPut ==
  ASSUME NEW f, NEW s, Trail(f, s), NEW c, c \in Printable, NEW t, More(s, c, t), NEW g, Trail(g, t),
         NEW v, Framed(v), NEW x, NEW y, AtRest(f, s, v, x, y), NEW w, w = Put(v, c, x, y)
  PROVE  Drawing(g, t, w, x, y)
<1>0. Len(s) \in Nat
  BY TrailMore
<1>1. PICK L, e : L \in Nat /\ L = Len(s) /\ e = f[L]
  BY <1>0
<1>2. Len(t) = L + 1 /\ t[L + 1] = c /\ t # <<>> /\ g[L] = e
  <2>1. Len(t) = Len(s) + 1 /\ t[Len(t)] = c /\ t # <<>> /\ \A n \in 0..Len(s) : g[n] = f[n]
    BY TrailMore
  <2>2. L \in 0..L
    BY <1>1
  <2> QED BY <1>1, <2>1, <2>2
<1>3. Spot(e)
  <2>1. \A n \in 0..Len(s) : Spot(f[n])
    BY TrailSpots
  <2> QED BY <1>1, <2>1
<1>4. PICK T \in Nat, ey \in Nat, ex \in 0..Width - 1 :
        T = TopRow(e.y) /\ ey = e.y /\ ex = e.x /\ e = [x |-> ex, y |-> ey]
  BY <1>3, TopIs DEF Spot
<1>5. x = ex /\ y = ey - T /\ OnScreen(f, s, v, T, 0)
  BY <1>1, <1>4 DEF AtRest
<1>6. y \in 0..Height - 1
  BY <1>4, <1>5, TopIs
<1>7. \A r \in 0..Height, col \in 0..Width - 1 : w[r, col] = IF r = y /\ col = x THEN c ELSE v[r, col]
  <2>1. PICK a \in 0..Width - 1, b \in 0..Height : a = x /\ b = y
    BY <1>4, <1>5, <1>6, ScreenSizes
  <2>2. w = Put(v, c, a, b)
    BY <2>1
  <2>3. PutsAt(w, v, c, a, b)
    BY <2>2, PutIs
  <2> QED BY <2>1, <2>3 DEF PutsAt
<1>8. ASSUME NEW r \in 0..Height - 1, NEW col \in 0..Width - 1 PROVE w[r, col] = Drawn(g, t, r + T, col)
  <2>1. PICK q \in Int : q = r + T
    BY <1>4
  <2>2. Drawn(g, t, q, col) = IF c \in Printable /\ Stands(f[Len(s)], q, col) THEN c ELSE Drawn(f, s, q, col)
    BY DrawnMore
  <2>3. Stands(f[Len(s)], q, col) <=> ex = col /\ ey = q
    <3>1. f[Len(s)] = [x |-> ex, y |-> ey]
      BY <1>1, <1>4
    <3> QED BY <3>1 DEF Stands
  <2>4. v[r, col] = Drawn(f, s, q, col)
    <3>1. ~(r < 0)
      BY ScreenSizes
    <3> QED BY <1>5, <2>1, <3>1 DEF OnScreen
  <2>5. ey = q <=> r = y
    BY <1>4, <1>5, <2>1, ScreenSizes
  <2>6. r \in 0..Height
    BY ScreenSizes
  <2>7. w[r, col] = IF r = y /\ col = x THEN c ELSE v[r, col]
    BY <1>7, <2>6
  <2>8. CASE r = y /\ col = x
    BY <1>5, <2>1, <2>2, <2>3, <2>5, <2>7, <2>8
  <2>9. CASE ~(r = y /\ col = x)
    BY <1>5, <2>1, <2>2, <2>3, <2>4, <2>5, <2>7, <2>9
  <2> QED BY <2>8, <2>9
<1>9. OnScreen(g, t, w, T, 0)
  <2>1. \A r \in 0..Height - 1 : (IF r < 0 THEN r + 1 ELSE r) = r
    BY ScreenSizes
  <2> QED BY <1>8, <2>1 DEF OnScreen
<1>10. g[Len(t) - 1] = e
  BY <1>1, <1>2
<1> QED BY <1>2, <1>4, <1>5, <1>9, <1>10 DEF Drawing

LEMMA StepMove ==
  ASSUME NEW f, NEW s, Trail(f, s), NEW c, c \notin Printable, NEW t, More(s, c, t), NEW g, Trail(g, t),
         NEW v, NEW x, NEW y, AtRest(f, s, v, x, y), NEW a, NEW b, a = Moved(c, x, y)[1], b = Moved(c, x, y)[2]
  PROVE  Moving(g, t, v, a, b)
<1>0. Len(s) \in Nat
  BY TrailMore
<1>1. PICK L, e : L \in Nat /\ L = Len(s) /\ e = f[L]
  BY <1>0
<1>2. Len(t) = L + 1 /\ t[L + 1] = c /\ t # <<>> /\ g[L] = e
  <2>1. Len(t) = Len(s) + 1 /\ t[Len(t)] = c /\ t # <<>> /\ \A n \in 0..Len(s) : g[n] = f[n]
    BY TrailMore
  <2>2. L \in 0..L
    BY <1>1
  <2> QED BY <1>1, <2>1, <2>2
<1>3. Spot(e)
  <2>1. \A n \in 0..Len(s) : Spot(f[n])
    BY TrailSpots
  <2> QED BY <1>1, <2>1
<1>4. PICK T \in Nat, ey \in Nat, ex \in 0..Width - 1 : T = TopRow(e.y) /\ ey = e.y /\ ex = e.x
  BY <1>3, TopIs DEF Spot
<1>5. x = ex /\ y = ey - T /\ OnScreen(f, s, v, T, 0)
  BY <1>1, <1>4 DEF AtRest
<1>6. y \in Nat
  <2>1. ey - TopRow(ey) \in 0..Height - 1
    BY TopIs
  <2>2. T = TopRow(ey)
    BY <1>4
  <2> QED BY <1>5, <2>1, <2>2
<1>7. PICK to : to = Heading(c, e)
  OBVIOUS
<1>8. to = Moved(c, ex, ey)
  BY <1>4, <1>7 DEF Heading
<1>9. a = to[1] /\ b = to[2] - T
  <2>1. PICK z \in Nat : z = y
    BY <1>6
  <2>2. a = Moved(c, ex, z)[1] /\ b = Moved(c, ex, z)[2]
    BY <1>5, <2>1
  <2>3. Moved(c, ex, z)[2] = (IF c = "NL" THEN z + 1 ELSE z) /\ \A u : Moved(c, ex, u)[1] = Moved(c, ex, z)[1]
    BY MovedIs
  <2>4. Moved(c, ex, ey)[2] = IF c = "NL" THEN ey + 1 ELSE ey
    BY MovedIs
  <2>5. a = to[1]
    BY <1>8, <2>2, <2>3
  <2>6. z = ey - T
    BY <1>5, <2>1
  <2>7. b = to[2] - T
    BY <1>4, <1>8, <2>2, <2>3, <2>4, <2>6
  <2> QED BY <2>5, <2>7
<1>10. OnScreen(g, t, v, T, 0)
  BY <1>5, OnScreenSame
<1>11. g[Len(t) - 1] = e /\ t[Len(t)] = c
  BY <1>1, <1>2
<1> QED BY <1>2, <1>4, <1>7, <1>9, <1>10, <1>11 DEF Moving

LEMMA EndIs ==
  ASSUME NEW f, NEW s, Trail(f, s), s # <<>>, NEW L, L = Len(s), NEW p, p = f[L - 1], NEW e, e = f[L],
         NEW to, to = Heading(s[L], p)
  PROVE  /\ L \in Nat /\ Spot(p) /\ Spot(e) /\ e.y \in p.y..p.y + 1
         /\ e.x = Wrapped(to[1], to[2])[1] /\ e.y = Wrapped(to[1], to[2])[2]
         /\ \A n \in 1..L : f[n - 1].y <= p.y
<1>1. L \in Nat /\ L # 0
  BY DEF Trail
<1>2. L - 1 \in 0..Len(s) /\ L \in 1..Len(s)
  BY <1>1
<1>3. \A n \in 0..Len(s) : Spot(f[n]) /\ \A m \in 0..n : f[m].y <= f[n].y
  BY TrailSpots
<1>4. Spot(p)
  BY <1>2, <1>3
<1>5. e = Onward(s[L], p)
  BY <1>2 DEF Trail
<1>6. Spot(e) /\ e.y \in p.y..p.y + 1 /\ e.x = Wrapped(to[1], to[2])[1] /\ e.y = Wrapped(to[1], to[2])[2]
  <2>1. PICK c : c = s[L]
    OBVIOUS
  <2>2. e = Onward(c, p) /\ to = Heading(c, p)
    BY <1>5, <2>1
  <2> QED BY <1>4, <2>2, AfterIs
<1>7. \A n \in 1..L : n - 1 \in 0..L - 1
  BY <1>1
<1> QED BY <1>1, <1>2, <1>3, <1>4, <1>6, <1>7

LEMMA StepAdvance ==
  ASSUME NEW f, NEW s, Trail(f, s), NEW v, NEW x, NEW y, Drawing(f, s, v, x, y)
  PROVE  Moving(f, s, v, x + 1, y)
<1>1. PICK c, p, to : c = s[Len(s)] /\ p = f[Len(s) - 1] /\ to = Heading(c, p)
  OBVIOUS
<1>2. c \in Printable /\ x = p.x /\ y = p.y - TopRow(p.y)
  BY <1>1 DEF Drawing
<1>3. to = <<p.x + 1, p.y>>
  BY <1>1, <1>2 DEF Heading
<1>4. x + 1 = to[1] /\ y = to[2] - TopRow(p.y)
  BY <1>2, <1>3
<1> QED BY <1>1, <1>4 DEF Drawing, Moving

LEMMA StepWrap ==
  ASSUME NEW f, NEW s, Trail(f, s), NEW v, NEW x, NEW y, Moving(f, s, v, x, y),
         NEW a, NEW b, a = Wrapped(x, y)[1], b = Wrapped(x, y)[2]
  PROVE  Testing(f, s, v, a, b, 0)
<1>1. s # <<>>
  BY DEF Moving
<1>2. PICK L, p, e, to, T : L = Len(s) /\ p = f[L - 1] /\ e = f[L] /\ to = Heading(s[L], p) /\ T = TopRow(p.y)
  OBVIOUS
<1>3. x = to[1] /\ y = to[2] - T /\ OnScreen(f, s, v, T, 0)
  BY <1>2 DEF Moving
<1>4. Spot(p) /\ e.x = Wrapped(to[1], to[2])[1] /\ e.y = Wrapped(to[1], to[2])[2]
  BY <1>1, <1>2, EndIs
<1>5. to[1] \in 0..2 * Width - 1 /\ to[2] \in p.y..p.y + 1
  BY <1>2, <1>4, HeadingIs
<1>6. p.y \in Nat /\ T \in Nat
  <2>1. p.y \in Nat
    BY <1>4 DEF Spot
  <2> QED BY <1>2, <2>1, TopIs
<1>7. PICK u \in 0..2 * Width - 1, w \in Int, z \in Int : u = to[1] /\ w = to[2] /\ z = y
  BY <1>3, <1>5, <1>6
<1>8. /\ Wrapped(u, w)[2] = (IF u >= Width THEN w + 1 ELSE w) /\ Wrapped(u, w)[1] = IF u >= Width THEN 0 ELSE u
      /\ Wrapped(u, z)[2] = (IF u >= Width THEN z + 1 ELSE z) /\ Wrapped(u, z)[1] = IF u >= Width THEN 0 ELSE u
  BY WrappedIs
<1>9. a = Wrapped(u, z)[1] /\ b = Wrapped(u, z)[2] /\ e.x = Wrapped(u, w)[1] /\ e.y = Wrapped(u, w)[2] /\ z = w - T
  BY <1>3, <1>4, <1>7
<1>10. a = e.x /\ b = e.y - T
  BY <1>6, <1>8, <1>9
<1> QED BY <1>1, <1>2, <1>3, <1>10 DEF Testing

LEMMA StepTest ==
  ASSUME NEW f, NEW s, Trail(f, s), NEW v, NEW x, NEW y \in 0..Height, Testing(f, s, v, x, y, 0)
  PROVE  y < Height => AtRest(f, s, v, x, y)
<1>1. SUFFICES ASSUME y < Height PROVE AtRest(f, s, v, x, y)
  OBVIOUS
<1>2. s # <<>>
  BY DEF Testing
<1>3. PICK L, p, e, to, T : L = Len(s) /\ p = f[L - 1] /\ e = f[L] /\ to = Heading(s[L], p) /\ T = TopRow(p.y)
  OBVIOUS
<1>4. x = e.x /\ y = e.y - T /\ OnScreen(f, s, v, T, 0)
  BY <1>3 DEF Testing
<1>5. Spot(p) /\ e.y \in p.y..p.y + 1
  BY <1>2, <1>3, EndIs
<1>6. PICK py \in Nat, ey \in Nat : py = p.y /\ ey = e.y /\ ey \in py..py + 1
  BY <1>5 DEF Spot
<1>7. TopRow(ey) = T
  <2>1. ey - TopRow(py) < Height
    BY <1>1, <1>3, <1>4, <1>6
  <2> QED BY <1>3, <1>6, <2>1, TopIs
<1>8. TopRow(e.y) = T
  BY <1>6, <1>7
<1> QED BY <1>3, <1>4, <1>8 DEF AtRest

LEMMA StepCopy ==
  ASSUME NEW f, NEW s, NEW v, Framed(v), NEW x, NEW y, NEW k \in 0..Height - 1, k < Height - 1,
         Testing(f, s, v, x, y, k), NEW w, w = RowUp(v, k)
  PROVE  Testing(f, s, w, x, y, k + 1)
<1>1. PICK T : T = TopRow(f[Len(s) - 1].y)
  OBVIOUS
<1>2. OnScreen(f, s, v, T, k)
  BY <1>1 DEF Testing
<1>3. RowsUp(w, v, k)
  BY RowUpIs
<1>4. OnScreen(f, s, w, T, k + 1)
  <2>1. SUFFICES ASSUME NEW r \in 0..Height - 1, NEW c \in 0..Width - 1
                 PROVE  w[r, c] = Drawn(f, s, (IF r < k + 1 THEN r + 1 ELSE r) + T, c)
    BY DEF OnScreen
  <2>2. r \in 0..Height
    BY ScreenSizes
  <2>3. w[r, c] = IF r = k THEN v[r + 1, c] ELSE v[r, c]
    BY <1>3, <2>2 DEF RowsUp
  <2>4. CASE r = k
    <3>1. PICK q \in 0..Height - 1 : q = r + 1
      BY <2>4, ScreenSizes
    <3>2. ~(q < k) /\ r < k + 1
      BY <2>4, <3>1
    <3>3. v[q, c] = Drawn(f, s, q + T, c)
      BY <1>2, <3>2 DEF OnScreen
    <3> QED BY <2>3, <2>4, <3>1, <3>2, <3>3
  <2>5. CASE r # k
    <3>1. r < k <=> r < k + 1
      BY <2>5
    <3>2. v[r, c] = Drawn(f, s, (IF r < k THEN r + 1 ELSE r) + T, c)
      BY <1>2 DEF OnScreen
    <3> QED BY <2>3, <2>5, <3>1, <3>2
  <2> QED BY <2>4, <2>5
<1> QED BY <1>1, <1>4 DEF Testing

LEMMA StepEnd ==
  ASSUME NEW f, NEW s, Trail(f, s), NEW v, Framed(v), NEW x, Testing(f, s, v, x, Height, Height - 1),
         NEW w, w = LastBlank(v)
  PROVE  AtRest(f, s, w, x, Height - 1)
<1>1. s # <<>>
  BY DEF Testing
<1>2. PICK L, p, e, to, T : L = Len(s) /\ p = f[L - 1] /\ e = f[L] /\ to = Heading(s[L], p) /\ T = TopRow(p.y)
  OBVIOUS
<1>3. x = e.x /\ Height = e.y - T /\ OnScreen(f, s, v, T, Height - 1)
  BY <1>2 DEF Testing
<1>4. Spot(p) /\ e.y \in p.y..p.y + 1 /\ L \in Nat /\ \A n \in 1..L : f[n - 1].y <= p.y
  BY <1>1, <1>2, EndIs
<1>5. PICK py \in Nat, ey \in Nat : py = p.y /\ ey = e.y /\ ey \in py..py + 1
  BY <1>4 DEF Spot
<1>6. T \in Nat /\ TopRow(ey) = T + 1 /\ py < ey /\ ey = Height + T /\ ey \in Int
  <2>1. T = TopRow(py)
    BY <1>2, <1>5
  <2>2. T \in Nat
    BY <2>1, TopIs
  <2>3. ey - TopRow(py) = Height /\ ey = Height + T /\ ey \in Int
    BY <1>3, <1>5, <2>1, <2>2, ScreenSizes
  <2> QED BY <1>5, <2>1, <2>2, <2>3, TopIs
<1>7. \A r \in 0..Height, c \in 0..Width - 1 : w[r, c] = IF r = Height - 1 THEN Blank ELSE v[r, c]
  BY LastBlankIs
<1>8. ASSUME NEW c PROVE Drawn(f, s, ey, c) = Blank
  <2>1. \A n \in 1..Len(s) : f[n - 1].y < ey
    <3>1. ASSUME NEW n \in 1..L PROVE f[n - 1].y < ey
      <4>1. PICK q : q = f[n - 1].y
        OBVIOUS
      <4>2. q <= py
        BY <1>4, <1>5, <4>1
      <4>3. q \in Nat
        <5>1. n - 1 \in 0..Len(s)
          BY <1>2, <1>4
        <5>2. Spot(f[n - 1])
          <6>1. \A i \in 0..Len(s) : Spot(f[i])
            BY TrailSpots
          <6> QED BY <5>1, <6>1
        <5> QED BY <4>1, <5>2 DEF Spot
      <4>4. q < ey
        BY <1>6, <4>2, <4>3
      <4> QED BY <4>1, <4>4
    <3> QED BY <1>2, <3>1
  <2>2. ey \in Int
    BY <1>6
  <2> QED BY <2>1, <2>2, DrawnBelow
<1>9. OnScreen(f, s, w, T + 1, 0)
  <2>1. SUFFICES ASSUME NEW r \in 0..Height - 1, NEW c \in 0..Width - 1
                 PROVE  w[r, c] = Drawn(f, s, (IF r < 0 THEN r + 1 ELSE r) + (T + 1), c)
    BY DEF OnScreen
  <2>2. r \in 0..Height /\ ~(r < 0)
    BY ScreenSizes
  <2>3. w[r, c] = IF r = Height - 1 THEN Blank ELSE v[r, c]
    BY <1>7, <2>2
  <2>4. PICK q \in Int : q = r + (T + 1)
    BY <1>6
  <2>5. CASE r = Height - 1
    <3>1. q = ey
      BY <1>6, <2>4, <2>5, ScreenSizes
    <3>2. Drawn(f, s, q, c) = Blank
      BY <1>8, <3>1
    <3> QED BY <2>2, <2>3, <2>4, <2>5, <3>2
  <2>6. CASE r # Height - 1
    <3>1. r < Height - 1 /\ (r + 1) + T = q
      BY <1>6, <2>4, <2>6, ScreenSizes
    <3>2. v[r, c] = Drawn(f, s, (r + 1) + T, c)
      BY <1>3, <3>1 DEF OnScreen
    <3> QED BY <2>2, <2>3, <2>4, <2>6, <3>1, <3>2
  <2> QED BY <2>5, <2>6
<1>10. TopRow(e.y) = T + 1 /\ e.y = Height + T
  BY <1>5, <1>6
<1>11. Height - 1 = e.y - (T + 1)
  BY <1>6, <1>10, ScreenSizes
<1> QED BY <1>2, <1>3, <1>9, <1>10, <1>11 DEF AtRest

LEMMA StepClear ==
  ASSUME NEW f, NEW v, Framed(v), NEW w, w = [p \in DOMAIN v |-> IF p[1] < Height THEN Blank ELSE v[p]]
  PROVE  Clearing(f, <<>>, w)
<1>1. ASSUME NEW y, NEW x PROVE Drawn(f, <<>>, y, x) = Blank
  <2>1. Marks(f, <<>>, y, x) = {}
    BY DEF Marks
  <2> QED BY <2>1 DEF Drawn
<1>2. ASSUME NEW r \in 0..Height - 1, NEW c \in 0..Width - 1 PROVE w[r, c] = Blank
  <2>1. PICK p : p = <<r, c>>
    OBVIOUS
  <2>2. p \in DOMAIN v /\ p[1] < Height
    BY <2>1, ScreenSizes DEF Framed, Cells
  <2>3. w[p] = Blank
    BY <2>2
  <2> QED BY <2>1, <2>3
<1>3. OnScreen(f, <<>>, w, 0, 0)
  BY <1>1, <1>2 DEF OnScreen
<1> QED BY <1>3 DEF Clearing

LEMMA StepHome ==
  ASSUME NEW f, NEW s, Trail(f, s), NEW v, Clearing(f, s, v)
  PROVE  AtRest(f, s, v, 0, 0)
<1>1. s = <<>> /\ OnScreen(f, s, v, 0, 0)
  BY DEF Clearing
<1>2. Len(s) = 0
  BY <1>1
<1>3. PICK e : e = f[Len(s)]
  OBVIOUS
<1>4. e = [x |-> 0, y |-> 0]
  BY <1>2, <1>3 DEF Trail
<1>5. e.x = 0 /\ e.y = 0 /\ TopRow(e.y) = 0
  BY <1>4, ScreenSizes DEF TopRow
<1> QED BY <1>1, <1>3, <1>5 DEF AtRest

(* The paper of the characters printed, and where a step leaves the cursor. *)
LEMMA PaperTrail == printed \in Seq(Characters) /\ Len(printed) <= MaxPrinted => Trail(paper, printed)
<1>1. PICK f, s : f = paper /\ s = printed
  OBVIOUS
<1>2. f = [n \in 0..MaxPrinted |-> IF n = 0 THEN [x |-> 0, y |-> 0] ELSE Onward(s[n], f[n - 1])]
  BY <1>1, PaperNow, Zenon
<1>3. s \in Seq(Characters) /\ Len(s) <= MaxPrinted => Trail(f, s)
  BY <1>2, TrailOf
<1> QED BY <1>1, <1>3, Zenon

LEMMA PaperNext == paper' = [n \in 0..MaxPrinted |-> IF n = 0 THEN [x |-> 0, y |-> 0] ELSE Onward(printed'[n], paper'[n - 1])]
<1>1. PICK f : f = [n \in 0..MaxPrinted |-> IF n = 0 THEN [x |-> 0, y |-> 0] ELSE Onward(printed'[n], f[n - 1])]
  BY PaperExists, Zenon
<1>2. paper' = CHOOSE h : h = [n \in 0..MaxPrinted |-> IF n = 0 THEN [x |-> 0, y |-> 0] ELSE Onward(printed'[n], h[n - 1])]
  BY Zenon DEF paper, Onward, Heading
<1> QED BY <1>1, <1>2, Zenon

LEMMA PaperTrailNext == printed' \in Seq(Characters) /\ Len(printed') <= MaxPrinted => Trail(paper', printed')
<1>1. PICK f, s : f = paper' /\ s = printed'
  OBVIOUS
<1>2. f = [n \in 0..MaxPrinted |-> IF n = 0 THEN [x |-> 0, y |-> 0] ELSE Onward(s[n], f[n - 1])]
  BY <1>1, PaperNext, Zenon
<1>3. s \in Seq(Characters) /\ Len(s) <= MaxPrinted => Trail(f, s)
  BY <1>2, TrailOf
<1> QED BY <1>1, <1>3, Zenon

LEMMA PaperKept == printed' = printed => paper' = paper
BY DEF paper

LEMMA MovedFar ==
  ASSUME NEW c, NEW x \in Nat, NEW y \in Nat
  PROVE  /\ Moved(c, x, y)[1] \in Nat /\ Moved(c, x, y)[2] \in Nat
<1>1. PICK t : t = ((x + Tab) \div Tab) * Tab
  OBVIOUS
<1>2. t \in Nat
  <2>1. PICK q \in Nat, r \in 0..Tab - 1 : x + Tab = q * Tab + r /\ (x + Tab) \div Tab = q
    BY ScreenSizes
  <2>2. q * Tab \in Nat
    BY <2>1, ScreenSizes
  <2> QED BY <1>1, <2>1, <2>2
<1>3. \A z : Moved(c, x, z) = CASE c = "BS"  -> <<IF x > 0 THEN x - 1 ELSE 0, z>>
                                [] c = "TAB" -> <<t, z>>
                                [] c = "CR"  -> <<0, z>>
                                [] c = "NL"  -> <<0, z + 1>>
                                [] OTHER     -> <<x, z>>
  BY <1>1 DEF Moved
<1> QED BY <1>2, <1>3

Further(low, r) == IF r > low THEN r ELSE low

LEMMA KeptAll ==
  ASSUME NEW x, NEW y, NEW st, NEW k, Kept(x, y, st, k)
  PROVE  x \in 0..2 * Width - 1 /\ y \in 0..Height /\ (x < Width \/ y < Height)
BY ScreenSizes DEF Kept

LEMMA CellLow ==
  ASSUME NEW x \in 0..2 * Width - 1, NEW y \in 0..Height, x < Width \/ y < Height
  PROVE  Cell(x, y)[1] \in 0..Height /\ (x < Width => Cell(x, y)[1] = y)
<1>1. Cell(x, y)[1] = y + (x \div Width)
  BY DEF Cell
<1>2. x < Width => x \div Width = 0
  BY ScreenSizes
<1>3. x >= Width => x \div Width = 1
  BY ScreenSizes
<1> QED BY <1>1, <1>2, <1>3, ScreenSizes

LEMMA KeptPut ==
  ASSUME NEW x, NEW y, NEW k, Kept(x, y, "idle", k), NEW low, NEW torn, Reaches(low, torn)
  PROVE  Kept(x, y, "advance", k) /\ Reaches(Further(low, Cell(x, y)[1]), torn)
<1>1. PICK a \in 0..2 * Width - 1, b \in 0..Height : a = x /\ b = y /\ a < Width /\ b < Height
  BY ScreenSizes DEF Kept
<1>2. Cell(x, y)[1] = b
  BY <1>1, CellLow
<1> QED BY <1>1, <1>2, ScreenSizes DEF Kept, Reaches, Further

LEMMA KeptMove ==
  ASSUME NEW c, NEW x, NEW y, NEW k, Kept(x, y, "idle", k), NEW a, a = Moved(c, x, y)[1], NEW b, b = Moved(c, x, y)[2]
  PROVE  Kept(a, b, "wrap", k)
<1>1. PICK p \in 0..Width - 1, q \in Nat : p = x /\ q = y /\ q < Height
  BY ScreenSizes DEF Kept
<1>2. a = Moved(c, p, q)[1] /\ b = Moved(c, p, q)[2]
  BY <1>1
<1>3. a \in 0..2 * Width - 1 /\ b = (IF c = "NL" THEN q + 1 ELSE q) /\ (c = "NL" => a = 0)
  BY <1>2, MovedIs
<1> QED BY <1>1, <1>3, ScreenSizes DEF Kept

LEMMA KeptAdvance ==
  ASSUME NEW x, NEW y, NEW k, Kept(x, y, "advance", k)
  PROVE  Kept(x + 1, y, "wrap", k)
BY ScreenSizes DEF Kept

LEMMA KeptWrap ==
  ASSUME NEW x, NEW y, NEW k, Kept(x, y, "wrap", k), NEW a, a = Wrapped(x, y)[1], NEW b, b = Wrapped(x, y)[2]
  PROVE  Kept(a, b, "test", k)
<1>1. PICK p \in 0..2 * Width - 1, q \in Int : p = x /\ q = y /\ q \in 0..Height /\ (p < Width \/ q < Height)
  BY KeptAll
<1>2. a = Wrapped(p, q)[1] /\ b = Wrapped(p, q)[2]
  BY <1>1
<1>3. a \in 0..Width - 1 /\ b = IF p >= Width THEN q + 1 ELSE q
  BY <1>2, WrappedIs
<1> QED BY <1>1, <1>3, ScreenSizes DEF Kept

Lands(c, x, y, a, b) ==
  LET to == IF c \in Printable THEN <<x + 1, y>> ELSE Moved(c, x, y)
      turned == Wrapped(to[1], to[2])
  IN  a = turned[1] /\ b = IF Scrolls(turned[2]) THEN Height - 1 ELSE turned[2]
\* wherever a handler prints, it leaves the cursor on the screen
LEMMA KeptCut ==
  ASSUME NEW c, NEW x, NEW y, NEW st, NEW k, Kept(x, y, st, k), NEW low, NEW torn, Reaches(low, torn),
         NEW a, NEW b, Lands(c, x, y, a, b)
  PROVE  /\ Kept(a, b, st, k)
         /\ low \in 0..Height /\ Further(low, Cell(x, y)[1]) \in 0..Height
<1>0. PICK to, u, w : to = (IF c \in Printable THEN <<x + 1, y>> ELSE Moved(c, x, y)) /\ u = to[1] /\ w = to[2]
  OBVIOUS
<1>1. PICK p \in 0..2 * Width - 1, q \in 0..Height : p = x /\ q = y /\ (p < Width \/ q < Height)
  BY KeptAll
<1>2. p \in Nat /\ q \in Nat
  BY <1>1, ScreenSizes
<1>3. PICK d : d = Wrapped(u, w)[2]
  OBVIOUS
<1>4. a = Wrapped(u, w)[1] /\ b = IF Scrolls(d) THEN Height - 1 ELSE d
  BY <1>0, <1>3 DEF Lands
<1>5. u \in Nat /\ w \in Nat
  <2>1. CASE c \in Printable
    <3>1. to = <<x + 1, y>>
      BY <1>0, <2>1
    <3> QED BY <1>0, <1>1, <1>2, <3>1
  <2>2. CASE c \notin Printable
    <3>1. to = Moved(c, p, q)
      BY <1>0, <1>1, <2>2
    <3> QED BY <1>0, <1>2, <3>1, MovedFar
  <2> QED BY <2>1, <2>2
<1>6. a \in 0..Width - 1 /\ d \in Nat
  BY <1>3, <1>4, <1>5, ScreenSizes DEF Wrapped
<1>7. b \in 0..Height - 1
  BY <1>4, <1>6, ScreenSizes DEF Scrolls
<1>8. Kept(a, b, st, k)
  BY <1>6, <1>7, ScreenSizes DEF Kept
<1>9. low \in 0..Height
  BY ScreenSizes DEF Reaches
<1>10. Cell(x, y)[1] \in 0..Height
  BY <1>1, CellLow
<1>11. Further(low, Cell(x, y)[1]) \in 0..Height
  BY <1>9, <1>10 DEF Further
<1> QED BY <1>8, <1>9, <1>11

\* the last part of SInv; the rest of it is kept whatever the screen shows
Untorn(f, s, v, x, y, st, k, torn) == ~torn => InStep(f, s, v, x, y, st, k)

LEMMA SInvParts ==
  SInv <=> /\ Framed(vidmem) /\ printed \in Seq(Characters) /\ Len(printed) <= MaxPrinted /\ cut \in BOOLEAN
           /\ Kept(cursorx, cursory, step, row) /\ Reaches(lowest, cut)
           /\ Untorn(paper, printed, vidmem, cursorx, cursory, step, row, cut)
BY DEF SInv, Framed, Untorn

LEMMA SInvPartsNext ==
  SInv' <=> /\ Framed(vidmem') /\ printed' \in Seq(Characters) /\ Len(printed') <= MaxPrinted /\ cut' \in BOOLEAN
            /\ Kept(cursorx', cursory', step', row') /\ Reaches(lowest', cut')
            /\ Untorn(paper', printed', vidmem', cursorx', cursory', step', row', cut')
BY DEF SInv, Framed, Untorn

LEMMA FramedPut ==
  ASSUME NEW v, Framed(v), NEW c, NEW x, NEW y
  PROVE  Framed(Put(v, c, x, y))
BY DEF Framed, Put

LEMMA FramedScroll ==
  ASSUME NEW v, Framed(v), NEW k
  PROVE  /\ Framed(RowUp(v, k)) /\ Framed(LastBlank(v)) /\ Framed(Scrolled(v))
         /\ Framed([p \in DOMAIN v |-> IF p[1] < Height THEN Blank ELSE v[p]])
BY DEF Framed, RowUp, LastBlank, Scrolled

LEMMA Longer ==
  ASSUME NEW s, s \in Seq(Characters), NEW c, c \in Characters, Len(s) < MaxPrinted, NEW t, More(s, c, t)
  PROVE  t \in Seq(Characters) /\ Len(t) <= MaxPrinted
BY ScreenSizes DEF More

LEMMA SInvPutchar == ASSUME SInv, NEW c \in Characters, putchar(c) PROVE SInv'
<1>1. PICK f, s, v, x, y, k, low, torn : f = paper /\ s = printed /\ v = vidmem /\ x = cursorx /\ y = cursory
                                         /\ k = row /\ low = lowest /\ torn = cut
  OBVIOUS
<1>2. PICK g, t : g = paper' /\ t = printed'
  OBVIOUS
<1>3. step = "idle" /\ Len(s) < MaxPrinted /\ More(s, c, t) /\ row' = k /\ cut' = torn
  BY <1>1, <1>2 DEF putchar, More
<1>4. /\ Framed(v) /\ s \in Seq(Characters) /\ Len(s) <= MaxPrinted /\ torn \in BOOLEAN
      /\ Kept(x, y, "idle", k) /\ Reaches(low, torn) /\ Untorn(f, s, v, x, y, "idle", k, torn)
  BY <1>1, <1>3, SInvParts, Zenon
<1>5. Trail(f, s)
  BY <1>1, <1>4, PaperTrail, Zenon
<1>6. t \in Seq(Characters) /\ Len(t) <= MaxPrinted
  BY <1>3, <1>4, Longer
<1>7. Trail(g, t)
  BY <1>2, <1>6, PaperTrailNext, Zenon
<1>8. ~torn => AtRest(f, s, v, x, y)
  BY <1>4 DEF Untorn, InStep
<1>9. CASE c \in Printable
  <2>1. PICK w : w = Put(v, c, x, y)
    OBVIOUS
  <2>2. vidmem' = w /\ cursorx' = x /\ cursory' = y /\ step' = "advance" /\ lowest' = Further(low, Cell(x, y)[1])
    BY <1>1, <1>9, <2>1 DEF putchar, Deeper, Further
  <2>3. Framed(w)
    BY <1>4, <2>1, FramedPut
  <2>4. Kept(x, y, "advance", k) /\ Reaches(Further(low, Cell(x, y)[1]), torn)
    BY <1>4, KeptPut
  <2>5. ~torn => Drawing(g, t, w, x, y)
    BY <1>3, <1>4, <1>5, <1>7, <1>8, <1>9, <2>1, StepPut
  <2>6. Untorn(g, t, w, x, y, "advance", k, torn)
    BY <2>5 DEF Untorn, InStep
  <2> QED BY <1>2, <1>3, <1>4, <1>6, <2>2, <2>3, <2>4, <2>6, SInvPartsNext, Zenon
<1>10. CASE c \notin Printable
  <2>1. PICK a, b : a = Moved(c, x, y)[1] /\ b = Moved(c, x, y)[2]
    OBVIOUS
  <2>2. vidmem' = v /\ cursorx' = a /\ cursory' = b /\ step' = "wrap" /\ lowest' = low
    BY <1>1, <1>10, <2>1 DEF putchar
  <2>3. Kept(a, b, "wrap", k)
    BY <1>4, <2>1, KeptMove
  <2>4. ~torn => Moving(g, t, v, a, b)
    BY <1>3, <1>5, <1>7, <1>8, <1>10, <2>1, StepMove
  <2>5. Untorn(g, t, v, a, b, "wrap", k, torn)
    BY <2>4 DEF Untorn, InStep
  <2> QED BY <1>2, <1>3, <1>4, <1>6, <2>2, <2>3, <2>5, SInvPartsNext, Zenon
<1> QED BY <1>9, <1>10

LEMMA SInvInterrupt == ASSUME SInv, NEW c \in Characters, Interrupt(c) PROVE SInv'
<1>1. PICK s, v, x, y, st, k, low, torn : s = printed /\ v = vidmem /\ x = cursorx /\ y = cursory
                                         /\ st = step /\ k = row /\ low = lowest /\ torn = cut
  OBVIOUS
<1>2. PICK g, t, drawn, to, a, d, b :
        /\ g = paper' /\ t = printed' /\ drawn = IF c \in Printable THEN Put(v, c, x, y) ELSE v
        /\ to = IF c \in Printable THEN <<x + 1, y>> ELSE Moved(c, x, y)
        /\ a = Wrapped(to[1], to[2])[1] /\ d = Wrapped(to[1], to[2])[2] /\ b = IF Scrolls(d) THEN Height - 1 ELSE d
  OBVIOUS
<1>3. /\ Len(s) < MaxPrinted /\ More(s, c, t) /\ cut' = TRUE /\ step' = st /\ row' = k
      /\ lowest' = (IF c \in Printable THEN Further(low, Cell(x, y)[1]) ELSE low)
      /\ vidmem' = (IF Scrolls(d) THEN Scrolled(drawn) ELSE drawn) /\ cursorx' = a /\ cursory' = b
  BY <1>1, <1>2 DEF Interrupt, More, Deeper, Further
<1>4. /\ Framed(v) /\ s \in Seq(Characters) /\ Kept(x, y, st, k) /\ Reaches(low, torn)
  BY <1>1, SInvParts, Zenon
<1>5. t \in Seq(Characters) /\ Len(t) <= MaxPrinted
  BY <1>3, <1>4, Longer
<1>6. Framed(vidmem')
  <2>1. Framed(drawn)
    <3>1. Framed(Put(v, c, x, y))
      BY <1>4, FramedPut
    <3> QED BY <1>2, <1>4, <3>1
  <2>2. Framed(Scrolled(drawn))
    BY <2>1, FramedScroll
  <2> QED BY <1>3, <2>1, <2>2
<1>7. Kept(a, b, st, k) /\ low \in 0..Height /\ Further(low, Cell(x, y)[1]) \in 0..Height
  <2>1. Lands(c, x, y, a, b)
    BY <1>2 DEF Lands
  <2> QED BY <1>4, <2>1, KeptCut
<1>8. Kept(cursorx', cursory', step', row') /\ Reaches(lowest', cut') /\ cut' \in BOOLEAN
  <2>1. PICK q : q = lowest'
    OBVIOUS
  <2>2. q = low \/ q = Further(low, Cell(x, y)[1])
    BY <1>3, <2>1
  <2>3. q \in 0..Height
    BY <1>7, <2>2
  <2>4. Reaches(q, TRUE)
    BY <2>3, ScreenSizes DEF Reaches
  <2> QED BY <1>3, <1>7, <2>1, <2>4, Zenon
<1>9. Untorn(paper', printed', vidmem', cursorx', cursory', step', row', cut')
  <2>1. cut' = TRUE
    BY Zenon DEF Interrupt
  <2>2. cut'
    BY <2>1, Zenon
  <2> QED BY <2>2, Zenon DEF Untorn
<1> QED BY <1>2, <1>5, <1>6, <1>8, <1>9, SInvPartsNext, Zenon

LEMMA SInvSteps == ASSUME SInv, advance \/ wrap \/ scroll_test \/ scroll_copy \/ scroll_end PROVE SInv'
<1>1. PICK f, s, v, x, y, st, k, low, torn : f = paper /\ s = printed /\ v = vidmem /\ x = cursorx /\ y = cursory
                                         /\ st = step /\ k = row /\ low = lowest /\ torn = cut
  OBVIOUS
<1>2. /\ Framed(v) /\ s \in Seq(Characters) /\ Len(s) <= MaxPrinted /\ torn \in BOOLEAN
      /\ Kept(x, y, st, k) /\ Reaches(low, torn) /\ Untorn(f, s, v, x, y, st, k, torn)
  BY <1>1, SInvParts, Zenon
<1>3. Trail(f, s)
  BY <1>1, <1>2, PaperTrail, Zenon
<1>4. printed' = s /\ cut' = torn /\ lowest' = low
  BY <1>1 DEF advance, wrap, scroll_test, scroll_copy, scroll_end
<1>5. paper' = f
  BY <1>1, <1>4, PaperKept
<1>6. ASSUME NEW w, NEW a, NEW b, NEW st2, NEW k2,
             vidmem' = w /\ cursorx' = a /\ cursory' = b /\ step' = st2 /\ row' = k2,
             Framed(w), Kept(a, b, st2, k2), Untorn(f, s, w, a, b, st2, k2, torn)
      PROVE  SInv'
  BY <1>2, <1>4, <1>5, <1>6, SInvPartsNext, Zenon
<1>7. CASE advance
  <2>1. st = "advance" /\ vidmem' = v /\ cursorx' = x + 1 /\ cursory' = y /\ step' = "wrap" /\ row' = k
    BY <1>1, <1>7 DEF advance
  <2>2. Kept(x, y, "advance", k)
    BY <1>2, <2>1
  <2>3. Kept(x + 1, y, "wrap", k)
    BY <2>2, KeptAdvance
  <2>4. ~torn => Drawing(f, s, v, x, y)
    BY <1>2, <2>1 DEF Untorn, InStep
  <2>5. ~torn => Moving(f, s, v, x + 1, y)
    BY <1>3, <2>4, StepAdvance
  <2>6. Untorn(f, s, v, x + 1, y, "wrap", k, torn)
    BY <2>5 DEF Untorn, InStep
  <2> QED BY <1>2, <1>6, <2>1, <2>3, <2>6, Zenon
<1>8. CASE wrap
  <2>1. PICK a, b : a = Wrapped(x, y)[1] /\ b = Wrapped(x, y)[2]
    OBVIOUS
  <2>2. st = "wrap" /\ vidmem' = v /\ cursorx' = a /\ cursory' = b /\ step' = "test" /\ row' = k
    BY <1>1, <1>8, <2>1 DEF wrap
  <2>3. Kept(x, y, "wrap", k)
    BY <1>2, <2>2
  <2>4. Kept(a, b, "test", k)
    BY <2>1, <2>3, KeptWrap
  <2>5. ~torn => Moving(f, s, v, x, y)
    BY <1>2, <2>2 DEF Untorn, InStep
  <2>6. ~torn => Testing(f, s, v, a, b, 0)
    BY <1>3, <2>1, <2>5, StepWrap
  <2>7. Untorn(f, s, v, a, b, "test", k, torn)
    BY <2>6 DEF Untorn, InStep
  <2> QED BY <1>2, <1>6, <2>2, <2>4, <2>7, Zenon
<1>9. CASE scroll_test
  <2>1. PICK st2 : st2 = IF Scrolls(y) THEN "copy" ELSE "idle"
    OBVIOUS
  <2>2. st = "test" /\ vidmem' = v /\ cursorx' = x /\ cursory' = y /\ step' = st2 /\ row' = 0
    BY <1>1, <1>9, <2>1 DEF scroll_test
  <2>3. x \in 0..Width - 1 /\ y \in 0..Height
    BY <1>2, <2>2 DEF Kept
  <2>4. Kept(x, y, st2, 0)
    BY <2>1, <2>3, ScreenSizes DEF Kept, Scrolls
  <2>5. ~torn => Testing(f, s, v, x, y, 0)
    BY <1>2, <2>2 DEF Untorn, InStep
  <2>6. CASE y < Height
    <3>1. st2 = "idle"
      BY <2>1, <2>3, <2>6, ScreenSizes DEF Scrolls
    <3>2. ~torn => AtRest(f, s, v, x, y)
      <4>1. ASSUME ~torn PROVE AtRest(f, s, v, x, y)
        <5>1. Testing(f, s, v, x, y, 0)
          BY <2>5, <4>1
        <5>2. y \in 0..Height
          BY <2>3
        <5> QED BY <1>3, <2>6, <5>1, <5>2, StepTest
      <4> QED BY <4>1
    <3>3. Untorn(f, s, v, x, y, st2, 0, torn)
      BY <3>1, <3>2 DEF Untorn, InStep
    <3> QED BY <1>2, <1>6, <2>2, <2>4, <3>3, Zenon
  <2>7. CASE ~(y < Height)
    <3>1. st2 = "copy" /\ y = Height
      BY <2>1, <2>3, <2>7, ScreenSizes DEF Scrolls
    <3>2. Untorn(f, s, v, x, y, st2, 0, torn)
      BY <2>5, <3>1 DEF Untorn, InStep
    <3> QED BY <1>2, <1>6, <2>2, <2>4, <3>2, Zenon
  <2> QED BY <2>6, <2>7
<1>10. CASE scroll_copy
  <2>1. PICK w : w = RowUp(v, k)
    OBVIOUS
  <2>2. st = "copy" /\ k < Height - 1 /\ vidmem' = w /\ cursorx' = x /\ cursory' = y /\ step' = "copy" /\ row' = k + 1
    BY <1>1, <1>10, <2>1 DEF scroll_copy
  <2>3. Kept(x, y, "copy", k)
    BY <1>2, <2>2
  <2>4. k \in 0..Height - 1 /\ Kept(x, y, "copy", k + 1)
    BY <2>2, <2>3, ScreenSizes DEF Kept
  <2>5. Framed(w)
    BY <1>2, <2>1, FramedScroll
  <2>6. ~torn => Testing(f, s, v, x, y, k) /\ y = Height
    BY <1>2, <2>2 DEF Untorn, InStep
  <2>7. ~torn => Testing(f, s, w, x, y, k + 1)
    BY <1>2, <2>1, <2>2, <2>4, <2>6, StepCopy
  <2>8. Untorn(f, s, w, x, y, "copy", k + 1, torn)
    BY <2>6, <2>7 DEF Untorn, InStep
  <2> QED BY <1>6, <2>2, <2>4, <2>5, <2>8, Zenon
<1>11. CASE scroll_end
  <2>1. PICK w, b : w = LastBlank(v) /\ b = Height - 1
    OBVIOUS
  <2>2. st = "copy" /\ k = b /\ vidmem' = w /\ cursorx' = x /\ cursory' = b /\ step' = "idle" /\ row' = k
    BY <1>1, <1>11, <2>1 DEF scroll_end
  <2>3. Kept(x, y, "copy", k)
    BY <1>2, <2>2
  <2>4. Kept(x, b, "idle", k)
    BY <2>1, <2>3, ScreenSizes DEF Kept
  <2>5. Framed(w)
    BY <1>2, <2>1, FramedScroll
  <2>6. ~torn => Testing(f, s, v, x, Height, Height - 1)
    BY <1>2, <2>1, <2>2 DEF Untorn, InStep
  <2>7. ~torn => AtRest(f, s, w, x, Height - 1)
    BY <1>2, <1>3, <2>1, <2>6, StepEnd
  <2>8. Untorn(f, s, w, x, b, "idle", k, torn)
    BY <2>1, <2>7 DEF Untorn, InStep
  <2> QED BY <1>6, <2>2, <2>4, <2>5, <2>8, Zenon
<1> QED BY <1>7, <1>8, <1>9, <1>10, <1>11

LEMMA SInvClear == ASSUME SInv, clear \/ clear_home PROVE SInv'
<1>1. PICK f, s, v, x, y, st, k, low, torn : f = paper /\ s = printed /\ v = vidmem /\ x = cursorx /\ y = cursory
                                         /\ st = step /\ k = row /\ low = lowest /\ torn = cut
  OBVIOUS
<1>2. /\ Framed(v) /\ s \in Seq(Characters) /\ Len(s) <= MaxPrinted /\ torn \in BOOLEAN
      /\ Kept(x, y, st, k) /\ Reaches(low, torn) /\ Untorn(f, s, v, x, y, st, k, torn)
  BY <1>1, SInvParts, Zenon
<1>3. CASE clear
  <2>1. PICK w, g : w = [p \in DOMAIN v |-> IF p[1] < Height THEN Blank ELSE v[p]] /\ g = paper'
    OBVIOUS
  <2>2. /\ st = "idle" /\ vidmem' = w /\ cursorx' = x /\ cursory' = y /\ step' = "home" /\ row' = k
        /\ printed' = <<>> /\ cut' = FALSE /\ lowest' = 0
    BY <1>1, <1>3, <2>1 DEF clear
  <2>3. Kept(x, y, "idle", k)
    BY <1>2, <2>2
  <2>4. Kept(x, y, "home", k) /\ Reaches(0, FALSE)
    BY <2>3, ScreenSizes DEF Kept, Reaches
  <2>5. Framed(w)
    BY <1>2, <2>1, FramedScroll
  <2>6. Clearing(g, <<>>, w)
    BY <1>2, <2>1, StepClear
  <2>7. Untorn(g, <<>>, w, x, y, "home", k, FALSE)
    BY <2>6 DEF Untorn, InStep
  <2>8. <<>> \in Seq(Characters) /\ Len(<<>>) <= MaxPrinted
    BY ScreenSizes
  <2> QED BY <2>1, <2>2, <2>4, <2>5, <2>7, <2>8, SInvPartsNext, Zenon
<1>4. CASE clear_home
  <2>1. /\ st = "home" /\ vidmem' = v /\ cursorx' = 0 /\ cursory' = 0 /\ step' = "idle" /\ row' = k
        /\ printed' = s /\ cut' = torn /\ lowest' = low
    BY <1>1, <1>4 DEF clear_home
  <2>2. paper' = f
    BY <1>1, <2>1, PaperKept
  <2>3. Trail(f, s)
    BY <1>1, <1>2, PaperTrail, Zenon
  <2>4. Kept(0, 0, "idle", k)
    BY ScreenSizes DEF Kept
  <2>5. ~torn => Clearing(f, s, v)
    BY <1>2, <2>1 DEF Untorn, InStep
  <2>6. ~torn => AtRest(f, s, v, 0, 0)
    BY <2>3, <2>5, StepHome
  <2>7. Untorn(f, s, v, 0, 0, "idle", k, torn)
    BY <2>6 DEF Untorn, InStep
  <2> QED BY <1>2, <2>1, <2>2, <2>4, <2>7, SInvPartsNext, Zenon
<1> QED BY <1>3, <1>4

LEMMA SInvInit == ScreenInit => SInv
<1> SUFFICES ASSUME ScreenInit PROVE SInv
  OBVIOUS
<1>1. PICK f, v : f = paper /\ v = vidmem
  OBVIOUS
<1>2. /\ v = EmptyScreen /\ cursorx = 0 /\ cursory = 0 /\ step = "idle" /\ row = 0
      /\ printed = <<>> /\ cut = FALSE /\ lowest = 0
  BY <1>1 DEF ScreenInit
<1>3. Framed(v)
  BY <1>2 DEF EmptyScreen, Framed, Cells
<1>4. <<>> \in Seq(Characters) /\ Len(<<>>) <= MaxPrinted
  BY ScreenSizes
<1>5. Trail(f, <<>>)
  BY <1>1, <1>2, <1>4, PaperTrail, Zenon
<1>6. Clearing(f, <<>>, v)
  <2>1. ASSUME NEW y, NEW x PROVE Drawn(f, <<>>, y, x) = Blank
    <3>1. Marks(f, <<>>, y, x) = {}
      BY DEF Marks
    <3> QED BY <3>1 DEF Drawn
  <2>2. ASSUME NEW r \in 0..Height - 1, NEW c \in 0..Width - 1 PROVE v[r, c] = Blank
    <3>1. PICK p : p = <<r, c>>
      OBVIOUS
    <3>2. p \in (0..Height) \X (0..Width - 1)
      BY <3>1, ScreenSizes
    <3>3. v[p] = Blank
      BY <1>2, <3>2 DEF EmptyScreen
    <3> QED BY <3>1, <3>3
  <2>3. OnScreen(f, <<>>, v, 0, 0)
    BY <2>1, <2>2 DEF OnScreen
  <2> QED BY <2>3 DEF Clearing
<1>7. AtRest(f, <<>>, v, 0, 0)
  BY <1>5, <1>6, StepHome
<1>8. Untorn(f, <<>>, v, 0, 0, "idle", 0, FALSE)
  BY <1>7 DEF Untorn, InStep
<1>9. Kept(0, 0, "idle", 0) /\ Reaches(0, FALSE)
  BY ScreenSizes DEF Kept, Reaches
<1> QED BY <1>1, <1>2, <1>3, <1>4, <1>8, <1>9, SInvParts, Zenon

LEMMA SInvNext == SInv /\ [ScreenNext]_screenvars => SInv'
<1> SUFFICES ASSUME SInv, [ScreenNext]_screenvars PROVE SInv'
  OBVIOUS
<1>1. ASSUME NEW c \in Characters, putchar(c) PROVE SInv'
  BY <1>1, SInvPutchar
<1>2. ASSUME NEW c \in Characters, Interrupt(c) PROVE SInv'
  BY <1>2, SInvInterrupt
<1>3. CASE advance \/ wrap \/ scroll_test \/ scroll_copy \/ scroll_end
  BY <1>3, SInvSteps
<1>4. CASE clear \/ clear_home
  BY <1>4, SInvClear
<1>5. CASE UNCHANGED screenvars
  <2>1. /\ vidmem' = vidmem /\ cursorx' = cursorx /\ cursory' = cursory /\ step' = step /\ row' = row
        /\ printed' = printed /\ cut' = cut /\ lowest' = lowest
    BY <1>5 DEF screenvars
  <2>2. paper' = paper
    BY <2>1, PaperKept
  <2> QED BY <2>1, <2>2, SInvParts, SInvPartsNext, Zenon
<1> QED BY <1>1, <1>2, <1>3, <1>4, <1>5 DEF ScreenNext

LEMMA OnPaperIs ==
  ASSUME NEW y, NEW x
  PROVE  OnPaper(y, x) = Drawn(paper, printed, y, x)
BY Zenon DEF OnPaper, Drawn, Marks

LEMMA ShowsOf == SInv => ScreenShows
<1> SUFFICES ASSUME SInv PROVE ScreenShows
  OBVIOUS
<1>1. PICK f, s, v, x, y, st, k, low, torn : f = paper /\ s = printed /\ v = vidmem /\ x = cursorx /\ y = cursory
                                         /\ st = step /\ k = row /\ low = lowest /\ torn = cut
  OBVIOUS
<1>2. Reaches(low, torn) /\ Untorn(f, s, v, x, y, st, k, torn)
  BY <1>1, SInvParts, Zenon
<1>3. low <= IF torn THEN Height ELSE Height - 1
  BY <1>2 DEF Reaches
<1>4. ASSUME ~torn /\ st = "idle"
      PROVE  /\ x = f[Len(s)].x /\ y = f[Len(s)].y - TopRow(f[Len(s)].y)
             /\ \A r \in 0..Height - 1, c \in 0..Width - 1 : v[r, c] = Drawn(f, s, r + TopRow(f[Len(s)].y), c)
  <2>1. AtRest(f, s, v, x, y)
    BY <1>2, <1>4 DEF Untorn, InStep
  <2>2. PICK T : T = TopRow(f[Len(s)].y)
    OBVIOUS
  <2>3. x = f[Len(s)].x /\ y = f[Len(s)].y - T /\ OnScreen(f, s, v, T, 0)
    BY <2>1, <2>2 DEF AtRest
  <2>4. ASSUME NEW r \in 0..Height - 1, NEW c \in 0..Width - 1 PROVE v[r, c] = Drawn(f, s, r + T, c)
    <3>1. ~(r < 0)
      BY ScreenSizes
    <3> QED BY <2>3, <3>1 DEF OnScreen
  <2> QED BY <2>2, <2>3, <2>4
<1>5. ASSUME ~cut /\ step = "idle"
      PROVE  /\ cursorx = paper[Len(printed)].x
             /\ cursory = paper[Len(printed)].y - TopRow(paper[Len(printed)].y)
             /\ \A r \in 0..Height - 1, c \in 0..Width - 1 :
                  vidmem[r, c] = OnPaper(r + TopRow(paper[Len(printed)].y), c)
  <2>1. ~torn /\ st = "idle"
    BY <1>1, <1>5
  <2>2. \A u, w : OnPaper(u, w) = Drawn(f, s, u, w)
    BY <1>1, OnPaperIs, Zenon
  <2> QED BY <1>1, <1>4, <2>1, <2>2, Zenon
<1>6. lowest <= IF cut THEN Height ELSE Height - 1
  BY <1>1, <1>3, Zenon
<1> QED BY <1>5, <1>6, Zenon DEF ScreenShows, TopRow

(* SInv is inductive: every step of putchar and clear, and a handler between any two of them, keeps it
   (putchar, scroll, clear). *)
THEOREM ScreenInvariant == ScreenSpec => []SInv
BY SInvInit, SInvNext, PTL DEF ScreenSpec

(* Between two characters the screen is the last rows of the paper printed on since the last clear and
   the cursor is where the next one goes, unless a handler printed in the middle of one; and nothing
   is written more than one row below the screen (putchar, scroll). *)
THEOREM ScreenShowsPaper == ScreenSpec => []ScreenShows
BY ScreenInvariant, ShowsOf, PTL
=============================================================================
