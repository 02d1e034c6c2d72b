----------------------------- MODULE Allocator -----------------------------
(***************************************************************************)
(* What a caller of kmalloc, kfree and krealloc relies on: an allocation   *)
(* is a range of memory nobody else uses, it stays where it is and keeps   *)
(* what was written to it until it is freed, and a reallocation keeps the  *)
(* common prefix.  KHeap implements it.                                    *)
(***************************************************************************)
EXTENDS Naturals, Sequences

CONSTANTS
  Cells,  \* addresses of memory, a set of natural numbers
  Lengths \* lengths an allocation may have, positive

VARIABLE owned \* the contents of each allocation, by its first address

Extent(a, n) == a .. (a + n - 1)
Covers(a, s) == Extent(a, Len(s))

\* The caller fills what it is given with these values.
Filled(n) == [i \in 1 .. n |-> i]

Holding(dom, a, s) == [b \in dom \cup {a} |-> IF b = a THEN s ELSE owned[b]]

\* Room for n cells at a, next to the allocations at `others`.
Room(a, n, others) ==
  /\ Extent(a, n) \subseteq Cells
  /\ \A b \in others : Extent(a, n) \cap Covers(b, owned[b]) = {}

Init == owned = [a \in {} |-> <<>>]

Malloc(a, n) ==
  /\ Room(a, n, DOMAIN owned)
  /\ owned' = Holding(DOMAIN owned, a, Filled(n))

Free(a) ==
  /\ a \in DOMAIN owned
  /\ owned' = [b \in DOMAIN owned \ {a} |-> owned[b]]

\* The block may move, also to a place that overlaps the old one; the caller
\* fills what is new.
Realloc(a, b, n) ==
  /\ a \in DOMAIN owned
  /\ LET others == DOMAIN owned \ {a}
         kept   == SubSeq(owned[a], 1, IF n < Len(owned[a]) THEN n ELSE Len(owned[a]))
     IN /\ Room(b, n, others)
        /\ owned' = Holding(others, b, kept \o [i \in 1 .. n - Len(kept) |-> Len(kept) + i])

Next ==
  \/ \E a \in Cells, n \in Lengths : Malloc(a, n)
  \/ \E a \in Cells : Free(a)
  \/ \E a, b \in Cells, n \in Lengths : Realloc(a, b, n)

Spec == Init /\ [][Next]_owned

TypeOK ==
  /\ DOMAIN owned \subseteq Cells
  /\ \A a \in DOMAIN owned : owned[a] \in Seq(Nat)

\* No address belongs to two allocations.
Disjoint ==
  \A a, b \in DOMAIN owned : a # b => Covers(a, owned[a]) \cap Covers(b, owned[b]) = {}

\* An allocation holds what its caller wrote.
Kept == \A a \in DOMAIN owned : owned[a] = Filled(Len(owned[a]))
=============================================================================
