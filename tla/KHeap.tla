------------------------------- MODULE KHeap -------------------------------
(***************************************************************************)
(* The kernel heap (mem/kheap.c) and ksbrk (mem/paging.c).                 *)
(*                                                                         *)
(* Sizes are counted in units of 16 bytes: every payload is a whole number *)
(* of units and OVERHEAD, the header plus the trailing size, is one.  Cell *)
(* c stands for the 16 bytes that end 4 bytes before unit boundary c + 1,  *)
(* so the cell at a block holds the trailing size of the block before it   *)
(* and the block's own header, and the cells after it are its payload.     *)
(*                                                                         *)
(* The free list's next and prev pointers are a sequence.  A boundary tag  *)
(* swallowed by a larger block is forgotten, and so are the contents of    *)
(* memory nobody owns: reading either is reading arbitrary bytes.          *)
(***************************************************************************)
EXTENDS Integers, Sequences, SequencesExt, FiniteSetsExt

CONSTANTS
  HeapMax,     \* units below heap_max
  HeapInitial, \* units mapped by kernelmain
  PageUnits,   \* units in a page, 256 in the code
  Sizes,       \* sizes that are asked for, in units
  Calls        \* entry points in use

ASSUME SizeAssumption ==
  /\ HeapMax \in Nat /\ HeapInitial \in 0 .. HeapMax /\ PageUnits \in Nat \ {0}
  /\ Sizes \subseteq Nat
ASSUME CallAssumption == Calls \subseteq {"kmalloc", "kmalloc_a", "kfree", "krealloc"}

NULL   == -1
NoTag  == -1
Cells  == 0 .. (HeapMax + PageUnits)   \* heap_end is rounded up to a page
Virgin == [size |-> NoTag, free |-> FALSE]

VARIABLES
  heap,   \* the memory and the globals of kheap.c
  live,   \* the callers' pointers: by block, first cell, cells, aligned or not
  shrunk, \* history: realloc has given back the end of the last block
  status  \* "ok", "panic" or "wild" once arbitrary memory was taken for a block

vars == <<heap, live, shrunk, status>>

EmptyHeap ==
  [hd |-> [c \in Cells |-> Virgin],     \* headers
   ft |-> [c \in Cells |-> NoTag],      \* trailing sizes, at the next block's cell
   data |-> [c \in Cells |-> 0],        \* what callers wrote, 0 for anything else
   head |-> NULL, tail |-> NULL, freeList |-> <<>>,
   curr |-> 0, end |-> HeapInitial]

-----------------------------------------------------------------------------
\* Mutants: the tail test dropped, the ends of the heap confused, a node unlinked
\* only at the front of the list, trailing sizes of allocated blocks forgotten,
\* the tail never moved, the last unit not copied.
GetNextUnbounded(H, b) == b + 1 + H.hd[b].size
UnlinkAtFront(H, b) == [H EXCEPT !.freeList = IF @ # <<>> /\ Head(@) = b THEN Tail(@) ELSE @]
TagHeader(H, b, n, free) ==
  [H EXCEPT !.hd = [c \in Cells |-> IF c = b THEN [size |-> n, free |-> free]
                                    ELSE IF c \in (b + 1) .. (b + n) THEN Virgin ELSE @[c]]]
CopyLess(H, to, from, n) ==
  [H EXCEPT !.data = [c \in Cells |-> IF c \in (to + 1) .. (to + n - 1) THEN @[c - to + from] ELSE @[c]]]

-----------------------------------------------------------------------------
IsFree(H, b) == b # NULL /\ b \in Cells /\ H.hd[b].free
GetNext(H, b) == IF b = H.tail THEN NULL ELSE b + 1 + H.hd[b].size
GetPrev(H, b) == IF b = H.head THEN NULL ELSE b - 1 - H.ft[b]

\* unlinks the node of the list that is block b
RemoveFromList(H, b) ==
  LET i == CHOOSE i \in DOMAIN H.freeList : H.freeList[i] = b
  IN [H EXCEPT !.freeList = IF b \in ToSet(@) THEN RemoveAt(@, i) ELSE @]
AddToList(H, b) == [H EXCEPT !.freeList = <<b>> \o @]

\* The tail moves when the block it names became part of another.
Retail(H, gone, now) == [H EXCEPT !.tail = IF @ = gone THEN now ELSE @]

\* Header and trailing size of a block of n units at b.
Tag(H, b, n, free) ==
  LET inside == (b + 1) .. (b + n)
  IN [H EXCEPT
       !.hd = [c \in Cells |-> IF c = b THEN [size |-> n, free |-> free]
                               ELSE IF c \in inside THEN Virgin ELSE @[c]],
       !.ft = [c \in Cells |-> IF c = b + 1 + n THEN n
                               ELSE IF c \in inside THEN NoTag ELSE @[c]],
       !.data = [c \in Cells |-> IF c \in {b, b + 1 + n} THEN 0 ELSE @[c]]]

\* The first of the smallest free blocks that hold n, in list order.
Fits(H, n) == {i \in DOMAIN H.freeList : H.hd[H.freeList[i]].size >= n}
BestFit(H, n) ==
  LET size(i) == H.hd[H.freeList[i]].size
      best == {i \in Fits(H, n) : \A j \in Fits(H, n) : size(i) <= size(j)}
  IN IF best = {} THEN NULL ELSE H.freeList[Min(best)]

\* ksbrk maps pages until the new boundary is covered.
Grow(H, units) ==
  LET boundary == H.curr + units
      pages == (boundary - H.end + PageUnits - 1) \div PageUnits
  IN [H EXCEPT !.curr = boundary,
               !.end = IF boundary <= @ THEN @ ELSE @ + pages * PageUnits]
Exhausted(H, units) == H.curr + units > H.end /\ H.curr + units > HeapMax

\* What is left of block b beyond n units becomes a free block, together with
\* the block after it when that is free.
SplitRest(H, b, n) ==
  LET rest == H.hd[b].size - n
      next == GetNext(H, b)
      t    == b + 1 + n
      H1   == Tag(H, b, n, FALSE)
  IN IF b # H.tail /\ IsFree(H, next)
     THEN LET H2 == Tag(RemoveFromList(H1, next), t, rest + H.hd[next].size, TRUE)
          IN AddToList(Retail(H2, next, t), t)
     ELSE AddToList(Tag(H1, t, rest - 1, TRUE), t)

Splits(H, b, n) == H.hd[b].size - n >= 2

\* malloc of n > 0 units: the heap after it and the block, NULL when ksbrk fails.
Malloc(H, n) ==
  LET best == BestFit(H, n)
      tailed == [Grow(H, n + 1) EXCEPT !.tail = H.curr,
                                       !.head = IF @ = NULL THEN H.curr ELSE @]
  IN IF best # NULL
     THEN [blk |-> best,
           heap |-> RemoveFromList(
             IF Splits(H, best, n)
             THEN Retail(SplitRest(H, best, n), best, best + 1 + n)
             ELSE Tag(H, best, H.hd[best].size, FALSE), best)]
     ELSE IF Exhausted(H, n + 1) THEN [blk |-> NULL, heap |-> H]
     ELSE [blk |-> H.curr, heap |-> Tag(tailed, H.curr, n, FALSE)]

\* free joins the block with whichever neighbours are free.
Free(H, b) ==
  LET prev == GetPrev(H, b)
      next == GetNext(H, b)
      size == H.hd[b].size
      both == Tag(H, prev, H.hd[prev].size + 2 + size + H.hd[next].size, TRUE)
      left == Tag(H, prev, H.hd[prev].size + 1 + size, TRUE)
      right == Tag(H, b, size + 1 + H.hd[next].size, TRUE)
  IN CASE IsFree(H, prev) /\ IsFree(H, next) ->
            RemoveFromList(Retail(both, next, prev), next)
       [] IsFree(H, prev) /\ ~IsFree(H, next) ->
            Retail(left, b, prev)
       [] ~IsFree(H, prev) /\ IsFree(H, next) ->
            AddToList(RemoveFromList(Retail(right, next, b), next), b)
       [] OTHER -> AddToList(Tag(H, b, size, TRUE), b)

\* memcpy of n units between payloads, lowest address first.
Copy(H, to, from, n) ==
  [H EXCEPT !.data = [c \in Cells |-> IF c \in (to + 1) .. (to + n) THEN @[c - to + from] ELSE @[c]]]

GrowsRight(H, b, n) ==
  LET next == GetNext(H, b)
  IN b # H.tail /\ IsFree(H, next) /\ H.hd[b].size + 1 + H.hd[next].size >= n
GrowsLeft(H, b, n) ==
  LET prev == GetPrev(H, b)
  IN b # H.head /\ IsFree(H, prev) /\ H.hd[b].size + 1 + H.hd[prev].size >= n

\* realloc of block b to a larger size: into the block after it, into the one
\* before it, or into a new one.
ReallocLarger(H, b, n) ==
  LET next == GetNext(H, b)
      prev == GetPrev(H, b)
      size == H.hd[b].size
      moved == Malloc(H, n)
  IN IF GrowsRight(H, b, n)
     THEN [blk |-> b,
           heap |-> Retail(Tag(RemoveFromList(H, next), b, size + 1 + H.hd[next].size, FALSE), next, b)]
     ELSE IF GrowsLeft(H, b, n)
     THEN LET H1 == Tag(RemoveFromList(H, prev), prev, size + 1 + H.hd[prev].size, FALSE)
          IN [blk |-> prev, heap |-> Copy(Retail(H1, b, prev), prev, b, size)]
     ELSE IF moved.blk = NULL THEN moved
     ELSE [blk |-> moved.blk, heap |-> Free(Copy(moved.heap, moved.blk, b, size), b)]

\* realloc to a smaller size gives the end of the block back.  When that is now
\* the last block, the tail stays where it was.
ReallocSmaller(H, b, n) ==
  [blk |-> b, heap |-> IF Splits(H, b, n) THEN SplitRest(H, b, n) ELSE H]

Realloc(H, b, n) ==
  IF H.hd[b].size < n THEN ReallocLarger(H, b, n) ELSE ReallocSmaller(H, b, n)

-----------------------------------------------------------------------------
(* Where the code reads the header after block b, and b is the last block  *)
(* without being the tail, it reads memory that never held a header.       *)
PastLast(H, b) == LET next == GetNext(H, b) IN next # NULL /\ (next \notin Cells \/ H.hd[next] = Virgin)
MallocReadsPast(H, n) ==
  LET best == BestFit(H, n) IN best # NULL /\ Splits(H, best, n) /\ PastLast(H, best)
ReallocReadsPast(H, b, n) ==
  \/ H.hd[b].size < n /\ PastLast(H, b)
  \/ /\ H.hd[b].size < n /\ ~GrowsRight(H, b, n) /\ ~GrowsLeft(H, b, n)
     /\ MallocReadsPast(H, n)
  \/ H.hd[b].size > n /\ Splits(H, b, n) /\ PastLast(H, b)


-----------------------------------------------------------------------------
Region(p) == p.at .. (p.at + p.len - 1)
Plain(b, n) == [at |-> b + 1, len |-> n, aligned |-> FALSE]

\* kmalloc_a's pointer is the next page boundary; the 4 bytes before it belong
\* to the same cell, so its n units touch n + 1 cells.
PageAligned(b, n) == [at |-> (b \div PageUnits + 1) * PageUnits, len |-> n + 1, aligned |-> TRUE]

\* The caller of block b holds lv[b], of which the first `kept` cells were
\* written before, and writes the others.
Return(H, lv, b, kept) ==
  LET fresh == (lv[b].at + kept) .. (lv[b].at + lv[b].len - 1)
      used  == UNION {Region(lv[c]) : c \in DOMAIN lv}
  IN /\ live' = lv
     /\ heap' = [H EXCEPT !.data = [c \in Cells |-> IF c \in fresh THEN c - lv[b].at + 1
                                                  ELSE IF c \in used THEN @[c] ELSE 0]]
     /\ UNCHANGED status

With(lv, b, p) == [c \in DOMAIN lv \cup {b} |-> IF c = b THEN p ELSE lv[c]]
Without(lv, b) == [c \in DOMAIN lv \ {b} |-> lv[c]]

Init == heap = EmptyHeap /\ live = [b \in {} |-> <<>>] /\ shrunk = FALSE /\ status = "ok"

KMalloc(n) ==
  /\ "kmalloc" \in Calls /\ status = "ok" /\ n > 0
  /\ LET r == Malloc(heap, n)
     IN r.blk # NULL /\ Return(r.heap, With(live, r.blk, Plain(r.blk, n)), r.blk, 0)
  /\ UNCHANGED shrunk

KMallocA(n) ==
  /\ "kmalloc_a" \in Calls /\ status = "ok" /\ n > 0
  /\ LET r == Malloc(heap, n + PageUnits)
     IN r.blk # NULL /\ Return(r.heap, With(live, r.blk, PageAligned(r.blk, n)), r.blk, 0)
  /\ UNCHANGED shrunk

KFree(b) ==
  /\ "kfree" \in Calls /\ status = "ok" /\ ~live[b].aligned
  /\ heap' = [Free(heap, b) EXCEPT !.data = [c \in Cells |-> IF c \in Region(live[b]) THEN 0 ELSE @[c]]]
  /\ live' = Without(live, b)
  /\ UNCHANGED <<shrunk, status>>

KRealloc(b, n) ==
  /\ "krealloc" \in Calls /\ status = "ok" /\ n > 0 /\ ~live[b].aligned
  /\ LET r == Realloc(heap, b, n)
     IN /\ r.blk # NULL
        /\ Return(r.heap, With(Without(live, b), r.blk, Plain(r.blk, n)), r.blk,
                  IF live[b].len < n THEN live[b].len ELSE n)
  /\ shrunk' = (shrunk \/ (heap.hd[b].size >= n /\ Splits(heap, b, n) /\ b + 1 + heap.hd[b].size = heap.curr))

\* krealloc(ptr, 0) frees.
KReallocZero(b) == "krealloc" \in Calls /\ KFree(b)

Stops(why) == status = "ok" /\ status' = why /\ UNCHANGED <<heap, live, shrunk>>

\* malloc asserts that ksbrk found room.
OutOfSpace ==
  /\ \/ \E n \in Sizes \ {0} : "kmalloc" \in Calls /\ Malloc(heap, n).blk = NULL
     \/ \E n \in Sizes \ {0} : "kmalloc_a" \in Calls /\ Malloc(heap, n + PageUnits).blk = NULL
     \/ \E b \in DOMAIN live, n \in Sizes \ {0} :
          "krealloc" \in Calls /\ ~live[b].aligned /\ Realloc(heap, b, n).blk = NULL
  /\ Stops("panic")

\* The bytes after the last block are taken for a free block, or not mapped.
ReadsPast ==
  /\ \/ \E n \in Sizes \ {0} : "kmalloc" \in Calls /\ MallocReadsPast(heap, n)
     \/ \E n \in Sizes \ {0} : "kmalloc_a" \in Calls /\ MallocReadsPast(heap, n + PageUnits)
     \/ \E b \in DOMAIN live : "kfree" \in Calls /\ ~live[b].aligned /\ PastLast(heap, b)
     \/ \E b \in DOMAIN live, n \in Sizes \ {0} :
          "krealloc" \in Calls /\ ~live[b].aligned /\ ReallocReadsPast(heap, b, n)
  /\ Stops("wild")

Next ==
  \/ \E n \in Sizes : KMalloc(n) \/ KMallocA(n)
  \/ \E b \in DOMAIN live : KFree(b) \/ KReallocZero(b)
  \/ \E b \in DOMAIN live, n \in Sizes : KRealloc(b, n)
  \/ OutOfSpace
  \/ ReadsPast

Spec == Init /\ [][Next]_vars

-----------------------------------------------------------------------------
Blocks == {c \in Cells : heap.hd[c] # Virgin}
FreeBlocks == {b \in Blocks : heap.hd[b].free}

\* The blocks tile the heap from its start to heap_curr with nothing between
\* them, whatever was split, merged or moved, and each has the trailing size
\* getPrevBlock finds it by.
Tiling ==
  LET after(b) == b + 1 + heap.hd[b].size
  IN /\ (heap.curr > 0) => (heap.head = 0 /\ 0 \in Blocks)
     /\ \A b \in Blocks : after(b) = heap.curr \/ after(b) \in Blocks
     /\ \A b \in Blocks : heap.ft[after(b)] = heap.hd[b].size
     /\ \A b, c \in Blocks : b < c => after(b) <= c

\* The free list names each free block once, and a block is free or held by a
\* caller, never both and never neither: nothing leaks. Until realloc gives back
\* the end of the last block, no two neighbours are free: malloc, free and
\* realloc merge all they can.
NoAdjacentFree == \A b \in FreeBlocks : b + 1 + heap.hd[b].size \notin FreeBlocks
FreeListExact ==
  /\ IsInjective(heap.freeList)
  /\ ToSet(heap.freeList) = FreeBlocks
  /\ Blocks \ FreeBlocks = DOMAIN live
  /\ ~shrunk => NoAdjacentFree

\* Until then, the tail is the last block, and no call on a pointer that was
\* allocated takes the bytes past it for a header (getNextBlock).
TailIsLast == heap.tail # NULL => heap.tail + 1 + heap.hd[heap.tail].size = heap.curr
NeverWild == ~shrunk => TailIsLast /\ status # "wild"

\* The heap implements the allocator its callers rely on.
Owned ==
  [a \in {live[b].at : b \in DOMAIN live} |->
     LET p == live[CHOOSE b \in DOMAIN live : live[b].at = a]
     IN [i \in 1 .. p.len |-> heap.data[a + i - 1]]]

Promise == INSTANCE Allocator WITH
  Cells <- Cells, Lengths <- 1 .. (HeapMax + PageUnits), owned <- Owned
AllocatorSpec == Promise!Spec
=============================================================================
