----------------------------- MODULE LinkedList -----------------------------
(***************************************************************************)
(* The doubly linked list of common/structures/list.c, used by the process *)
(* list, the timer's wakeup list, the interface list, the children of a    *)
(* tree node and the token lists of str_split.                             *)
(*                                                                         *)
(* A node is its address, NULL included: page 0 is mapped, so the code     *)
(* reads and writes through a NULL pointer without a fault.  kfree leaves  *)
(* a node's links as they were and kcalloc, which clears them, may hand    *)
(* the node out again.  A node that is popped stays allocated.             *)
(***************************************************************************)
EXTENDS Integers, Sequences

CONSTANTS
  Node,   \* addresses the heap can give to nodes
  NULL,
  Calls   \* the list operations the owner of the list uses

ASSUME NullAssumption == NULL \notin Node
ASSUME CallAssumption == Calls \subseteq
  {"insert_front", "insert_back", "remove_node", "remove_by_index", "pop"}

Pointer == Node \cup {NULL}

VARIABLES
  head, tail, size, \* list_t
  next, prev,       \* the links in memory, freed nodes and address 0 included
  allocated,        \* nodes the heap has handed out
  items             \* history: the nodes the owner put in and has not taken out

vars == <<head, tail, size, next, prev, allocated, items>>

\* list_create clears the list; address 0 holds whatever the BIOS left there.
Init ==
  /\ head = NULL /\ tail = NULL /\ size = 0
  /\ next = [n \in Pointer |-> NULL]
  /\ prev \in {f \in [Pointer -> Pointer] : \A n \in Node : f[n] = NULL}
  /\ allocated = {} /\ items = <<>>

-----------------------------------------------------------------------------
\* Mutants: the link forward forgotten, a last node that stays the head or
\* the tail.
UnlinkBackwards(n) == prev' = [prev EXCEPT ![next[n]] = prev[n]] /\ UNCHANGED next
RemoveFrontKeepsHead ==
  /\ head' = IF next[head] = NULL THEN head ELSE next[head]
  /\ prev' = IF next[head] = NULL THEN prev ELSE [prev EXCEPT ![next[head]] = NULL]
  /\ allocated' = allocated \ {head}
  /\ UNCHANGED <<tail, next>>
PopKeepsTail ==
  /\ "pop" \in Calls /\ size > 0 /\ head # NULL
  /\ size' = size - 1
  /\ items' = SubSeq(items, 1, Len(items) - 1)
  /\ UNCHANGED <<head, tail, next, prev, allocated>>

-----------------------------------------------------------------------------
\* list_insert_front writes the old head's prev even when there is no head.
InsertFront(n) ==
  /\ "insert_front" \in Calls /\ n \notin allocated
  /\ prev' = [prev EXCEPT ![n] = NULL, ![head] = n]
  /\ next' = [next EXCEPT ![n] = head]
  /\ tail' = IF head = NULL THEN n ELSE tail
  /\ head' = n /\ size' = size + 1
  /\ allocated' = allocated \cup {n}
  /\ items' = <<n>> \o items

InsertBack(n) ==
  /\ "insert_back" \in Calls /\ n \notin allocated
  /\ prev' = [prev EXCEPT ![n] = tail]
  /\ next' = IF tail = NULL THEN [next EXCEPT ![n] = NULL]
             ELSE [next EXCEPT ![n] = NULL, ![tail] = n]
  /\ head' = IF head = NULL THEN n ELSE head
  /\ tail' = n /\ size' = size + 1
  /\ allocated' = allocated \cup {n}
  /\ items' = Append(items, n)

RemoveFront ==
  /\ head' = next[head]
  /\ prev' = IF next[head] = NULL THEN prev ELSE [prev EXCEPT ![next[head]] = NULL]
  /\ allocated' = allocated \ {head}
  /\ UNCHANGED <<tail, next>>

RemoveBack ==
  /\ tail' = prev[tail]
  /\ next' = IF prev[tail] = NULL THEN next ELSE [next EXCEPT ![prev[tail]] = NULL]
  /\ allocated' = allocated \ {tail}
  /\ UNCHANGED <<head, prev>>

Unlink(n) ==
  /\ prev' = [prev EXCEPT ![next[n]] = prev[n]]
  /\ next' = [next EXCEPT ![prev[n]] = next[n]]

RemoveMiddle(n) ==
  /\ Unlink(n)
  /\ allocated' = allocated \ {n}
  /\ UNCHANGED <<head, tail>>

Decremented == size - 1

\* list_remove_node of a node the owner still has in the list.
Detach(n) ==
  /\ \/ n = head /\ RemoveFront
     \/ n # head /\ n = tail /\ RemoveBack
     \/ n # head /\ n # tail /\ RemoveMiddle(n)
  /\ size' = Decremented

\* The owner's view after the node at place i was taken out.
Without(s, i) == SubSeq(s, 1, i - 1) \o SubSeq(s, i + 1, Len(s))

RemoveNode(i) ==
  /\ "remove_node" \in Calls
  /\ Detach(items[i])
  /\ items' = Without(items, i)

\* list_get_node_by_index follows next from the head.
Walk(w, i) == w[1] = head /\ \A j \in 1 .. i - 1 : w[j + 1] = next[w[j]]

RemoveByIndex(i) ==
  /\ "remove_by_index" \in Calls /\ i <= size
  /\ \E w \in [1 .. i -> Node] : Walk(w, i) /\ Detach(w[i])
  /\ items' = Without(items, i)

\* list_pop as str_split and list2str call it, when list_size is not 0.  It
\* does not clear the head when it takes the last node.
Pop ==
  /\ "pop" \in Calls /\ size > 0 /\ head # NULL
  /\ tail' = prev[tail]
  /\ next' = IF prev[tail] = NULL THEN next ELSE [next EXCEPT ![prev[tail]] = NULL]
  /\ size' = size - 1
  /\ items' = SubSeq(items, 1, Len(items) - 1)
  /\ UNCHANGED <<head, prev, allocated>>

Next ==
  \/ \E n \in Node : InsertFront(n) \/ InsertBack(n)
  \/ \E i \in 1 .. Len(items) : RemoveNode(i) \/ RemoveByIndex(i)
  \/ Pop

Spec == Init /\ [][Next]_vars

-----------------------------------------------------------------------------
TypeOK ==
  /\ head \in Pointer /\ tail \in Pointer /\ size \in Nat
  /\ next \in [Pointer -> Pointer] /\ prev \in [Pointer -> Pointer]
  /\ allocated \subseteq Node
  /\ items \in Seq(Node)

\* foreach visits exactly what the owner put in and has not removed, in order.
ForwardWalk ==
  /\ size = Len(items)
  /\ head = IF items = <<>> THEN NULL ELSE items[1]
  /\ \A i \in 1 .. Len(items) :
       next[items[i]] = IF i = Len(items) THEN NULL ELSE items[i + 1]

\* Popping visits the same nodes in the opposite order.
BackwardWalk ==
  /\ size = Len(items)
  /\ items # <<>> => tail = items[Len(items)]
  /\ \A i \in 1 .. Len(items) :
       prev[items[i]] = IF i = 1 THEN NULL ELSE items[i - 1]

\* The nodes in the list are distinct and none of them was freed.
Members ==
  /\ \A i, j \in 1 .. Len(items) : items[i] = items[j] => i = j
  /\ \A i \in 1 .. Len(items) : items[i] \in allocated

\* No operation writes to a node that is freed and stays freed.
FreedUntouched ==
  [][\A n \in Node : n \notin allocated /\ n \notin allocated'
       => next'[n] = next[n] /\ prev'[n] = prev[n]]_vars
=============================================================================
