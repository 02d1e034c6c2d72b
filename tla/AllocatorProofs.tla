-------------------------- MODULE AllocatorProofs --------------------------
(***************************************************************************)
(* What the allocator promises: allocations never share an address, and    *)
(* each holds what its caller wrote, also after it was moved.  KHeap       *)
(* implements Allocator (KHeapProofs), so the heap inherits both.          *)
(***************************************************************************)
EXTENDS Allocator, Integers, SequenceTheorems, TLAPS

\* Addresses are numbers and no allocation is empty.
Addressed == Cells \subseteq Nat /\ Lengths \subseteq Nat \ {0}

\* Every allocation is the caller's pattern, at some length.
AInv ==
  /\ DOMAIN owned \subseteq Cells
  /\ \A a \in DOMAIN owned : \E n \in Nat \ {0} : owned[a] = Filled(n)
  /\ Disjoint

-----------------------------------------------------------------------------
LEMMA FilledSeq ==
  ASSUME NEW n \in Nat
  PROVE  Filled(n) \in Seq(Nat) /\ Len(Filled(n)) = n /\ \A i \in 1 .. n : Filled(n)[i] = i
  BY DEF Filled

LEMMA KeptFromPattern == ASSUME AInv PROVE Kept /\ TypeOK
  BY FilledSeq DEF AInv, Kept, TypeOK

\* A kept prefix, and the rest filled in by the caller, is the pattern again.
LEMMA Refilled ==
  ASSUME NEW l \in Nat, NEW n \in Nat,
         NEW kept, kept = SubSeq(Filled(l), 1, IF n < l THEN n ELSE l)
  PROVE  kept \o [i \in 1 .. n - Len(kept) |-> Len(kept) + i] = Filled(n)
<1> DEFINE k    == IF n < l THEN n ELSE l
           rest == [i \in 1 .. n - k |-> k + i]
<1>1. k \in Nat /\ k <= l /\ k <= n /\ n - k \in Nat
  OBVIOUS
<1>2. kept \in Seq(Nat) /\ Len(kept) = k /\ \A i \in 1 .. k : kept[i] = i
  <2>1. Filled(l) \in Seq(Nat) /\ Len(Filled(l)) = l /\ \A i \in 1 .. l : Filled(l)[i] = i
    BY FilledSeq
  <2>2. 1 \in 1 .. l + 1 /\ k \in 0 .. l
    BY <1>1
  <2> HIDE DEF k
  <2>3. /\ SubSeq(Filled(l), 1, k) \in Seq(Nat)
        /\ Len(SubSeq(Filled(l), 1, k)) = k
        /\ \A i \in 1 .. k : SubSeq(Filled(l), 1, k)[i] = Filled(l)[i]
    BY <2>1, <2>2
  <2>4. kept = SubSeq(Filled(l), 1, k)
    BY DEF k
  <2> QED
    BY <1>1, <2>1, <2>3, <2>4
<1>3. rest \in Seq(Nat) /\ Len(rest) = n - k /\ \A i \in 1 .. n - k : rest[i] = k + i
  BY <1>1
<1> HIDE DEF k, rest
<1>4. /\ kept \o rest \in Seq(Nat) /\ Len(kept \o rest) = n
      /\ \A i \in 1 .. n : (kept \o rest)[i] = i
  <2>1. /\ kept \o rest \in Seq(Nat) /\ Len(kept \o rest) = Len(kept) + Len(rest)
        /\ \A i \in 1 .. Len(kept) + Len(rest) : (kept \o rest)[i] =
             IF i <= Len(kept) THEN kept[i] ELSE rest[i - Len(kept)]
    BY <1>2, <1>3, ConcatProperties
  <2>2. k + (n - k) = n
    BY <1>1
  <2>3. ASSUME NEW i \in 1 .. n PROVE (kept \o rest)[i] = i
    <3>1. CASE i <= k
      BY <1>1, <1>2, <1>3, <2>1, <3>1
    <3>2. CASE ~(i <= k)
      <4>1. i - k \in 1 .. n - k /\ k + (i - k) = i
        BY <1>1, <3>2
      <4>2. rest[i - k] = i
        <5> DEFINE j == i - k
        <5>1. j \in 1 .. n - k /\ k + j = i
          BY <4>1
        <5> HIDE DEF j
        <5>2. rest[j] = k + j
          BY <1>3, <5>1
        <5> QED
          BY <5>1, <5>2 DEF j
      <4>3. (kept \o rest)[i] = rest[i - k]
        BY <1>1, <1>2, <1>3, <2>1, <2>2, <3>2
      <4> QED
        BY <4>2, <4>3
    <3> QED
      BY <3>1, <3>2
  <2> QED
    BY <1>2, <1>3, <2>1, <2>2, <2>3
<1>5. kept \o rest = Filled(n)
  BY <1>4, FilledSeq, SeqEqual
<1> QED
  BY <1>2, <1>5 DEF rest

\* A range in free room, and the ranges that were disjoint before, are disjoint.
LEMMA HoldingInv ==
  ASSUME Addressed, AInv, NEW others \in SUBSET DOMAIN owned, NEW b \in Cells, NEW n \in Nat \ {0},
         b \notin others, Room(b, n, others),
         owned' = Holding(others, b, Filled(n))
  PROVE  AInv'
<1>1. /\ DOMAIN owned' = others \cup {b} /\ owned'[b] = Filled(n)
      /\ \A c \in others : owned'[c] = owned[c]
  BY DEF Holding
<1>2. Len(Filled(n)) = n
  BY FilledSeq
<1>3. \A c \in others : Covers(b, Filled(n)) \cap Covers(c, owned[c]) = {}
  BY <1>2 DEF Room, Covers
<1>4. Disjoint'
  BY <1>1, <1>3 DEF Disjoint, AInv
<1>5. /\ DOMAIN owned' \subseteq Cells
      /\ \A a \in DOMAIN owned' : \E m \in Nat \ {0} : owned'[a] = Filled(m)
  BY <1>1 DEF AInv
<1> QED
  BY <1>4, <1>5 DEF AInv

\* Free room for at least one cell starts where no allocation does.
LEMMA RoomIsFresh ==
  ASSUME Addressed, AInv, NEW others \in SUBSET DOMAIN owned, NEW b \in Cells, NEW n \in Nat \ {0},
         Room(b, n, others)
  PROVE  b \notin others
<1>1. SUFFICES ASSUME b \in others PROVE FALSE
  OBVIOUS
<1>2. PICK m \in Nat \ {0} : owned[b] = Filled(m)
  BY <1>1 DEF AInv
<1>3. Len(owned[b]) = m
  BY <1>2, FilledSeq
<1>4. b \in Nat
  BY DEF Addressed
<1>5. b \in Extent(b, n) /\ b \in Covers(b, owned[b])
  BY <1>3, <1>4 DEF Extent, Covers
<1> QED
  BY <1>1, <1>5 DEF Room

\* Every operation keeps the pattern and the ranges apart.
LEMMA NextAInv == ASSUME Addressed, AInv, [Next]_owned PROVE AInv'
<1>1. ASSUME NEW a \in Cells, NEW n \in Lengths, Malloc(a, n) PROVE AInv'
  <2>1. n \in Nat \ {0}
    BY DEF Addressed
  <2> QED
    BY <1>1, <2>1, RoomIsFresh, HoldingInv DEF Malloc
<1>2. ASSUME NEW a \in Cells, Free(a) PROVE AInv'
  BY <1>2 DEF Free, AInv, Disjoint
<1>3. ASSUME NEW a \in Cells, NEW b \in Cells, NEW n \in Lengths, Realloc(a, b, n) PROVE AInv'
  <2> DEFINE others == DOMAIN owned \ {a}
  <2>1. PICK l \in Nat \ {0} : owned[a] = Filled(l)
    BY <1>3 DEF Realloc, AInv
  <2>2. Len(owned[a]) = l /\ n \in Nat \ {0}
    BY <2>1, FilledSeq DEF Addressed
  <2> DEFINE kept == SubSeq(Filled(l), 1, IF n < l THEN n ELSE l)
  <2>3. /\ Room(b, n, others)
        /\ owned' = Holding(others, b, kept \o [i \in 1 .. n - Len(kept) |-> Len(kept) + i])
    BY <1>3, <2>1, <2>2 DEF Realloc
  <2>4. kept \o [i \in 1 .. n - Len(kept) |-> Len(kept) + i] = Filled(n)
    <3>1. l \in Nat /\ n \in Nat
      BY <2>2
    <3> QED
      BY <3>1, Refilled
  <2>5. others \in SUBSET DOMAIN owned
    OBVIOUS
  <2> QED
    BY <2>2, <2>3, <2>4, <2>5, RoomIsFresh, HoldingInv
<1>4. CASE UNCHANGED owned
  BY <1>4 DEF AInv, Disjoint
<1> QED
  BY <1>1, <1>2, <1>3, <1>4 DEF Next

LEMMA InitAInv == ASSUME Init PROVE AInv
  BY DEF Init, AInv, Disjoint

-----------------------------------------------------------------------------
(***************************************************************************)
(* No two allocations share an address: what malloc, free and realloc of   *)
(* kheap.c promise, and every user of the kernel heap relies on.           *)
(***************************************************************************)
THEOREM AllocationsDisjoint == Addressed => (Spec => []Disjoint)
<1>1. ASSUME Addressed PROVE Spec => []Disjoint
  <2>1. Init => AInv
    BY InitAInv
  <2>2. AInv /\ [Next]_owned => AInv'
    BY <1>1, NextAInv
  <2>3. AInv => Disjoint
    BY DEF AInv
  <2> QED
    BY <2>1, <2>2, <2>3, PTL DEF Spec
<1> QED
  BY <1>1

(***************************************************************************)
(* An allocation holds what its caller wrote until it is freed, also after *)
(* realloc of kheap.c moved, grew or shrank it.                            *)
(***************************************************************************)
THEOREM AllocationsKept == Addressed => (Spec => []Kept)
<1>1. ASSUME Addressed PROVE Spec => []Kept
  <2>1. Init => AInv
    BY InitAInv
  <2>2. AInv /\ [Next]_owned => AInv'
    BY <1>1, NextAInv
  <2>3. AInv => Kept
    BY KeptFromPattern
  <2> QED
    BY <2>1, <2>2, <2>3, PTL DEF Spec
<1> QED
  BY <1>1
=============================================================================
