----------------------------- MODULE TreeProofs -----------------------------
(***************************************************************************)
(* The lists of the kernel and the mount tree that is built from them.     *)
(*                                                                         *)
(* The list is intact for every number of nodes, for the two ways the      *)
(* kernel uses it.  The owner of the process list or of a tree node only   *)
(* inserts at the front and removes; str_split and list2str only push and  *)
(* pop.  Neither proof goes through when insertion at the back and removal *)
(* are mixed: then the list writes to a freed node.                        *)
(*                                                                         *)
(* In the mount tree every path is answered by the nearest entry above it, *)
(* SORFS only from the root mounted last, and reference counts agree with  *)
(* the users of a node, for every set of paths, devices and disks.         *)
(***************************************************************************)
EXTENDS MCLists, Vfs, SequenceTheorems, WellFoundedInduction, TLAPS

Owned  == Calls \subseteq {"insert_front", "remove_node", "remove_by_index"}

OwnedInv == TypeOK /\ ForwardWalk /\ BackwardWalk /\ Members

\* An emptied token list has no tail, whatever its head says.
TokenInv ==
  /\ Tokens!TypeOK /\ Tokens!BackwardWalk /\ Tokens!Members
  /\ titems = <<>> => ttail = NULL
  /\ thead = NULL => titems = <<>>

-----------------------------------------------------------------------------
(***************************************************************************)
(* A node put in front of the others moves each of them up by one.         *)
(***************************************************************************)
LEMMA InFront ==
  ASSUME NEW S, NEW s \in Seq(S), NEW x \in S
  PROVE  /\ <<x>> \o s \in Seq(S)
         /\ <<x>> \o s # <<>>
         /\ Len(<<x>> \o s) = Len(s) + 1
         /\ \A i \in 1 .. Len(s) + 1 : (<<x>> \o s)[i] = IF i = 1 THEN x ELSE s[i - 1]
PROOF
<1>1. <<x>> \in Seq(S) /\ Len(<<x>>) = 1 /\ <<x>>[1] = x
  OBVIOUS
<1>2. /\ <<x>> \o s \in Seq(S)
      /\ Len(<<x>> \o s) = Len(<<x>>) + Len(s)
      /\ \A i \in 1 .. Len(<<x>>) + Len(s) : (<<x>> \o s)[i] =
           IF i <= Len(<<x>>) THEN <<x>>[i] ELSE s[i - Len(<<x>>)]
  BY <1>1, ConcatProperties
<1>3. Len(s) \in Nat
  OBVIOUS
<1>4. \A i \in 1 .. Len(s) + 1 : (<<x>> \o s)[i] = IF i = 1 THEN x ELSE s[i - 1]
  BY <1>1, <1>2, <1>3
<1>5. Len(<<x>> \o s) # 0
  BY <1>1, <1>2, <1>3
<1> QED
  BY <1>1, <1>2, <1>3, <1>4, <1>5

(***************************************************************************)
(* Taking out the node at place i moves the later ones down by one.        *)
(***************************************************************************)
LEMMA TakenOut ==
  ASSUME NEW S, NEW s \in Seq(S), NEW i \in 1 .. Len(s)
  PROVE  /\ Without(s, i) \in Seq(S)
         /\ Len(Without(s, i)) = Len(s) - 1
         /\ \A j \in 1 .. Len(s) - 1 :
              Without(s, i)[j] = IF j < i THEN s[j] ELSE s[j + 1]
PROOF
<1> DEFINE a == SubSeq(s, 1, i - 1)
           b == SubSeq(s, i + 1, Len(s))
<1>1. Len(s) \in Nat /\ i \in Int /\ 1 <= i /\ i <= Len(s)
  OBVIOUS
<1>2. \A k \in 1 .. Len(s) : s[k] \in S
  BY ElementOfSeq
<1>3. /\ a \in Seq(S)
      /\ Len(a) = i - 1
      /\ \A k \in 1 .. i - 1 : a[k] = s[k]
  <2>1. \A k \in 1 .. i - 1 : s[k] \in S
    BY <1>1, <1>2
  <2>2. /\ a \in Seq(S)
        /\ Len(a) = IF 1 <= i - 1 THEN i - 1 - 1 + 1 ELSE 0
        /\ \A k \in 1 .. i - 1 - 1 + 1 : a[k] = s[1 + k - 1]
    BY <1>1, <2>1, SubSeqProperties
  <2> HIDE DEF a
  <2> QED
    BY <1>1, <2>2
<1>4. /\ b \in Seq(S)
      /\ Len(b) = Len(s) - i
      /\ \A k \in 1 .. Len(s) - i : b[k] = s[i + k]
  <2>1. \A k \in i + 1 .. Len(s) : s[k] \in S
    BY <1>1, <1>2
  <2>2. /\ b \in Seq(S)
        /\ Len(b) = IF i + 1 <= Len(s) THEN Len(s) - (i + 1) + 1 ELSE 0
        /\ \A k \in 1 .. Len(s) - (i + 1) + 1 : b[k] = s[i + 1 + k - 1]
    BY <1>1, <2>1, SubSeqProperties
  <2> HIDE DEF b
  <2> QED
    BY <1>1, <2>2
<1>5. /\ a \o b \in Seq(S)
      /\ Len(a \o b) = Len(a) + Len(b)
      /\ \A k \in 1 .. Len(a) + Len(b) : (a \o b)[k] =
           IF k <= Len(a) THEN a[k] ELSE b[k - Len(a)]
  BY <1>3, <1>4, ConcatProperties
<1>6. Without(s, i) = a \o b
  BY DEF Without
<1>7. \A j \in 1 .. Len(s) - 1 : (a \o b)[j] = IF j < i THEN s[j] ELSE s[j + 1]
  <2> HIDE DEF a, b
  <2> SUFFICES ASSUME NEW j \in 1 .. Len(s) - 1
               PROVE  (a \o b)[j] = IF j < i THEN s[j] ELSE s[j + 1]
    OBVIOUS
  <2>1. CASE j < i
    BY <1>1, <1>3, <1>4, <1>5, <2>1
  <2>2. CASE ~(j < i)
    <3>1. /\ j - (i - 1) \in 1 .. Len(s) - i
          /\ i + (j - (i - 1)) = j + 1
          /\ (a \o b)[j] = b[j - (i - 1)]
      BY <1>1, <1>3, <1>4, <1>5, <2>2
    <3> QED
      BY <1>4, <2>2, <3>1
  <2> QED
    BY <2>1, <2>2
<1> HIDE DEF a, b
<1>8. a \o b \in Seq(S) /\ Len(a \o b) = Len(s) - 1
  BY <1>1, <1>3, <1>4, <1>5
<1> QED
  BY <1>6, <1>7, <1>8

-----------------------------------------------------------------------------
(***************************************************************************)
(* list_insert_front keeps both chains, although it writes the prev of a   *)
(* head that may be NULL.                                                  *)
(***************************************************************************)
LEMMA InsertFrontInv ==
  ASSUME OwnedInv, NEW n \in Node, InsertFront(n)
  PROVE  OwnedInv'
PROOF
<1> USE NullAssumption DEF OwnedInv, Pointer
<1>1. /\ items' \in Seq(Node) /\ items' # <<>>
      /\ Len(items') = Len(items) + 1
      /\ \A i \in 1 .. Len(items) + 1 : items'[i] = IF i = 1 THEN n ELSE items[i - 1]
  BY InFront DEF InsertFront, TypeOK
<1>2. /\ Len(items) \in Nat
      /\ \A i \in 1 .. Len(items) : items[i] \in Node /\ items[i] # n /\ items[i] # NULL
  BY ElementOfSeq DEF InsertFront, TypeOK, Members
<1>3. TypeOK'
  <2>1. next' \in [Pointer -> Pointer] /\ prev' \in [Pointer -> Pointer]
    BY DEF InsertFront, TypeOK
  <2>2. head' \in Pointer /\ tail' \in Pointer /\ size' \in Nat /\ allocated' \subseteq Node
    BY DEF InsertFront, TypeOK
  <2> QED
    BY <1>1, <2>1, <2>2 DEF TypeOK
<1>4. items = <<>> <=> Len(items) = 0
  BY DEF TypeOK
<1>5. Members'
  BY <1>1, <1>2, SMTT(60) DEF InsertFront, Members
<1>6. ForwardWalk'
  <2>1. \A i \in 1 .. Len(items') :
          next'[items'[i]] = IF i = Len(items') THEN NULL ELSE items'[i + 1]
    BY <1>1, <1>2, <1>4 DEF InsertFront, TypeOK, ForwardWalk
  <2>2. size' = Len(items') /\ head' = items'[1]
    BY <1>1, <1>2 DEF InsertFront, ForwardWalk
  <2> QED
    BY <1>1, <2>1, <2>2 DEF ForwardWalk
<1>7. BackwardWalk'
  <2>1. CASE items = <<>>
    <3>1. head = NULL /\ Len(items) = 0
      BY <1>4, <2>1 DEF ForwardWalk
    <3> QED
      BY <1>1, <2>1, <3>1 DEF InsertFront, TypeOK, BackwardWalk
  <2>2. CASE items # <<>>
    <3>1. head = items[1] /\ 1 <= Len(items)
      BY <1>2, <1>4, <2>2 DEF ForwardWalk
    <3>2. tail' = items'[Len(items')]
      BY <1>1, <1>2, <2>2, <3>1 DEF InsertFront, BackwardWalk
    <3>3. \A i \in 1 .. Len(items') : prev'[items'[i]] = IF i = 1 THEN NULL ELSE items'[i - 1]
      <4> SUFFICES ASSUME NEW i \in 1 .. Len(items')
                   PROVE  prev'[items'[i]] = IF i = 1 THEN NULL ELSE items'[i - 1]
        OBVIOUS
      <4>1. CASE i = 1
        BY <1>1, <1>2, <3>1, <4>1 DEF InsertFront, TypeOK
      <4>2. CASE i = 2
        BY <1>1, <1>2, <3>1, <4>2 DEF InsertFront, TypeOK
      <4>3. CASE i > 2
        <5>1. /\ i - 1 \in 1 .. Len(items) /\ i - 1 # 1
              /\ items'[i] = items[i - 1] /\ items'[i - 1] = items[i - 2]
          BY <1>1, <1>2, <4>3
        <5>2. items[i - 1] # head /\ items[i - 1] # n /\ items[i - 1] \in Node
          BY <1>2, <3>1, <5>1 DEF Members
        <5> QED
          BY <4>3, <5>1, <5>2, SMTT(60) DEF InsertFront, TypeOK, BackwardWalk
      <4> QED
        BY <1>1, <1>2, <4>1, <4>2, <4>3
    <3> QED
      BY <1>1, <1>2, <3>2, <3>3 DEF InsertFront, BackwardWalk
  <2> QED
    BY <2>1, <2>2
<1> QED
  BY <1>3, <1>5, <1>6, <1>7

(***************************************************************************)
(* list_remove_node keeps both chains, whichever of its three branches the *)
(* node takes.                                                             *)
(***************************************************************************)
LEMMA RemoveInv ==
  ASSUME OwnedInv, NEW i \in 1 .. Len(items), Detach(items[i]), items' = Without(items, i)
  PROVE  OwnedInv'
PROOF
<1> USE NullAssumption DEF OwnedInv, Pointer, Decremented
<1> DEFINE n == items[i]
           rear == Len(items)
<1>1. /\ items' \in Seq(Node) /\ Len(items') = rear - 1
      /\ \A j \in 1 .. rear - 1 : items'[j] = IF j < i THEN items[j] ELSE items[j + 1]
  BY TakenOut DEF TypeOK
<1>2. /\ rear \in Nat /\ 1 <= i /\ i <= rear /\ items # <<>>
      /\ \A j \in 1 .. rear : items[j] \in Node /\ items[j] # NULL
  BY ElementOfSeq DEF TypeOK
<1>3. /\ head = items[1] /\ tail = items[rear]
      /\ size' = Len(items')
      /\ \A j \in 1 .. rear : /\ items[j] = head <=> j = 1
                              /\ items[j] = tail <=> j = rear
                              /\ items[j] = n <=> j = i
  BY <1>1, <1>2 DEF ForwardWalk, BackwardWalk, Members, Detach
<1>4. \A j \in 1 .. rear : /\ next[items[j]] = IF j = rear THEN NULL ELSE items[j + 1]
                           /\ prev[items[j]] = IF j = 1 THEN NULL ELSE items[j - 1]
  BY DEF ForwardWalk, BackwardWalk
<1>14. rear = 1 \/ rear > 1
  <2>1. rear \in Nat /\ rear >= 1
    BY <1>2
  <2> HIDE DEF rear
  <2> QED
    BY <2>1
<1>5. items' = <<>> <=> rear = 1
  BY <1>1, <1>2, EmptySeq
<1>6. /\ size' \in Nat /\ head' \in Pointer /\ tail' \in Pointer
      /\ next' \in [Pointer -> Pointer] /\ prev' \in [Pointer -> Pointer]
      /\ allocated' = allocated \ {n}
  <2>1. n \in Node
    BY <1>2
  <2> QED
    BY <1>1, <1>2, <1>3, <2>1, SMTT(60)
       DEF Detach, RemoveFront, RemoveBack, RemoveMiddle, Unlink, TypeOK
<1>7. TypeOK'
  BY <1>1, <1>6 DEF TypeOK
<1>8. Members'
  <2>1. \A j, k \in 1 .. rear - 1 : items'[j] = items'[k] => j = k
    BY <1>1, <1>2 DEF Members
  <2>2. \A j \in 1 .. rear - 1 : items'[j] \in allocated'
    BY <1>1, <1>2, <1>3, <1>6 DEF Members
  <2> QED
    BY <1>1, <2>1, <2>2 DEF Members
<1>9. CASE n = head
  <2>1. i = 1
    BY <1>2, <1>3, <1>9
  <2>2. /\ head' = next[head] /\ tail' = tail /\ next' = next
        /\ prev' = IF next[head] = NULL THEN prev ELSE [prev EXCEPT ![next[head]] = NULL]
    BY <1>9 DEF Detach, RemoveFront
  <2>7. /\ next[head] = IF rear = 1 THEN NULL ELSE items[2]
        /\ rear > 1 => items[2] \in Node /\ items[2] # NULL
    <3>1. 1 \in 1 .. rear /\ (rear > 1 => 2 \in 1 .. rear)
      BY <1>2
    <3>2. next[items[1]] = IF 1 = rear THEN NULL ELSE items[1 + 1]
      BY <1>4, <3>1
    <3>3. rear > 1 => items[2] \in Node /\ items[2] # NULL
      BY <1>2, <3>1
    <3>4. head = items[1] /\ 1 + 1 = 2
      BY <1>3
    <3> QED
      BY <3>2, <3>3, <3>4
  <2>3. \A j \in 1 .. rear - 1 : items'[j] = items[j + 1]
    BY <1>1, <2>1
  <2>4. ForwardWalk'
    <3>1. head' = IF items' = <<>> THEN NULL ELSE items'[1]
      <4>1. rear > 1 => items'[1] = items[2]
        <5>1. rear > 1 => 1 \in 1 .. rear - 1 /\ 1 + 1 = 2
          BY <1>2
        <5> QED
          BY <2>3, <5>1
      <4>2. rear = 1 \/ rear > 1
        BY <1>14
      <4> QED
        BY <1>5, <2>2, <2>7, <4>1, <4>2
    <3>2. \A j \in 1 .. rear - 1 :
            next'[items'[j]] = IF j = rear - 1 THEN NULL ELSE items'[j + 1]
      BY <1>2, <1>4, <2>2, <2>3
    <3> QED
      BY <1>1, <1>3, <3>1, <3>2 DEF ForwardWalk
  <2>5. BackwardWalk'
    <3>1. items' # <<>> => tail' = items'[rear - 1]
      <4>1. rear > 1 => rear - 1 \in 1 .. rear - 1 /\ rear - 1 + 1 = rear
        BY <1>2
      <4>2. rear > 1 => items'[rear - 1] = items[rear]
        BY <2>3, <4>1
      <4>3. rear = 1 \/ rear > 1
        BY <1>14
      <4> QED
        BY <1>3, <1>5, <2>2, <4>2, <4>3
    <3>2. \A j \in 1 .. rear - 1 : prev'[items'[j]] = IF j = 1 THEN NULL ELSE items'[j - 1]
      <4> SUFFICES ASSUME NEW j \in 1 .. rear - 1
                   PROVE  prev'[items'[j]] = IF j = 1 THEN NULL ELSE items'[j - 1]
        OBVIOUS
      <4>1. /\ next[head] = items[2] /\ items[2] # NULL /\ items[2] \in Node
            /\ prev' = [prev EXCEPT ![items[2]] = NULL]
        <5>1. rear > 1
          BY <1>2
        <5>2. rear # 1
          BY <1>2
        <5> QED
          BY <2>2, <2>7, <5>1, <5>2
      <4>2. items[j + 1] = items[2] <=> j = 1
        BY <1>2 DEF Members
      <4> QED
        BY <1>2, <1>4, <2>3, <4>1, <4>2 DEF TypeOK
    <3> QED
      BY <1>1, <1>3, <3>1, <3>2 DEF BackwardWalk
  <2> QED
    BY <1>7, <1>8, <2>4, <2>5
<1>10. CASE n # head /\ n = tail
  <2>1. i = rear /\ rear > 1
    BY <1>2, <1>3, <1>10
  <2>2. /\ tail' = prev[tail] /\ head' = head /\ prev' = prev
        /\ next' = IF prev[tail] = NULL THEN next ELSE [next EXCEPT ![prev[tail]] = NULL]
    BY <1>10 DEF Detach, RemoveBack, RemoveFront, RemoveMiddle
  <2>3. \A j \in 1 .. rear - 1 : items'[j] = items[j]
    BY <1>1, <2>1
  <2>4. /\ prev[tail] = items[rear - 1] /\ items[rear - 1] # NULL /\ items[rear - 1] \in Node
        /\ next' = [next EXCEPT ![items[rear - 1]] = NULL]
    <3>1. rear \in 1 .. rear /\ rear - 1 \in 1 .. rear /\ rear # 1
      BY <1>2, <2>1
    <3>2. prev[tail] = items[rear - 1] /\ items[rear - 1] # NULL /\ items[rear - 1] \in Node
      BY <1>2, <1>3, <1>4, <3>1
    <3> QED
      BY <2>2, <3>2
  <2>5. ForwardWalk'
    <3>1. \A j \in 1 .. rear - 1 : items[j] = items[rear - 1] <=> j = rear - 1
      BY <1>2 DEF Members
    <3>2. \A j \in 1 .. rear - 1 :
            next'[items'[j]] = IF j = rear - 1 THEN NULL ELSE items'[j + 1]
      <4> SUFFICES ASSUME NEW j \in 1 .. rear - 1
                   PROVE  next'[items'[j]] = IF j = rear - 1 THEN NULL ELSE items'[j + 1]
        OBVIOUS
      <4>1. CASE j = rear - 1
        BY <1>2, <2>3, <2>4, <4>1 DEF TypeOK
      <4>2. CASE j # rear - 1
        <5>1. j \in 1 .. rear /\ j # rear /\ j + 1 \in 1 .. rear - 1
          BY <1>2, <4>2
        <5>2. next'[items[j]] = next[items[j]]
          BY <1>2, <2>4, <3>1, <4>2, <5>1 DEF TypeOK
        <5> QED
          BY <1>4, <2>3, <4>2, <5>1, <5>2
      <4> QED
        BY <4>1, <4>2
    <3> QED
      BY <1>1, <1>2, <1>3, <1>5, <2>1, <2>2, <2>3, <3>2 DEF ForwardWalk
  <2>6. BackwardWalk'
    BY <1>1, <1>2, <1>3, <1>4, <1>5, <2>1, <2>2, <2>3, <2>4 DEF BackwardWalk
  <2> QED
    BY <1>7, <1>8, <2>5, <2>6
<1>11. CASE n # head /\ n # tail
  <2>1. 1 < i /\ i < rear
    BY <1>2, <1>3, <1>11
  <2>2. /\ head' = head /\ tail' = tail
        /\ prev' = [prev EXCEPT ![items[i + 1]] = items[i - 1]]
        /\ next' = [next EXCEPT ![items[i - 1]] = items[i + 1]]
    BY <1>2, <1>4, <1>11, <2>1 DEF Detach, RemoveMiddle, Unlink
  <2>3. \A j \in 1 .. rear : /\ items[j] = items[i + 1] <=> j = i + 1
                             /\ items[j] = items[i - 1] <=> j = i - 1
    BY <1>2, <2>1 DEF Members
  <2>4. ForwardWalk'
    <3>1. \A j \in 1 .. rear - 1 :
            next'[items'[j]] = IF j = rear - 1 THEN NULL ELSE items'[j + 1]
      <4> SUFFICES ASSUME NEW j \in 1 .. rear - 1
                   PROVE  next'[items'[j]] = IF j = rear - 1 THEN NULL ELSE items'[j + 1]
        OBVIOUS
      <4>1. CASE j < i - 1
        <5>1. /\ j \in 1 .. rear /\ j # rear /\ j # rear - 1 /\ j # i - 1
              /\ items'[j] = items[j] /\ items'[j + 1] = items[j + 1]
          BY <1>1, <1>2, <2>1, <4>1
        <5>2. next'[items[j]] = next[items[j]]
          BY <1>2, <2>2, <2>3, <5>1 DEF TypeOK
        <5> QED
          BY <1>4, <5>1, <5>2
      <4>2. CASE j = i - 1
        <5>1. items'[j] = items[i - 1] /\ items'[j + 1] = items[i + 1] /\ j # rear - 1
          BY <1>1, <1>2, <2>1, <4>2
        <5>2. items[i - 1] \in Node
          BY <1>2, <2>1
        <5> QED
          BY <2>2, <5>1, <5>2 DEF TypeOK
      <4>3. CASE j > i - 1
        <5>1. j + 1 \in 1 .. rear /\ j + 1 # i - 1 /\ items'[j] = items[j + 1]
          BY <1>1, <1>2, <4>3
        <5>2. next'[items'[j]] = next[items[j + 1]]
          BY <1>2, <2>2, <2>3, <5>1 DEF TypeOK
        <5>3. j # rear - 1 => items'[j + 1] = items[j + 2]
          BY <1>1, <1>2, <4>3
        <5> QED
          BY <1>2, <1>4, <5>1, <5>2, <5>3
      <4> QED
        BY <1>2, <4>1, <4>2, <4>3
    <3> QED
      BY <1>1, <1>2, <1>3, <1>5, <2>1, <2>2, <3>1 DEF ForwardWalk
  <2>5. BackwardWalk'
    <3>1. \A j \in 1 .. rear - 1 : prev'[items'[j]] = IF j = 1 THEN NULL ELSE items'[j - 1]
      <4> SUFFICES ASSUME NEW j \in 1 .. rear - 1
                   PROVE  prev'[items'[j]] = IF j = 1 THEN NULL ELSE items'[j - 1]
        OBVIOUS
      <4>1. CASE j < i
        <5>1. j # i + 1 /\ items'[j] = items[j] /\ (j # 1 => items'[j - 1] = items[j - 1])
          BY <1>1, <1>2, <4>1
        <5>2. j \in 1 .. rear
          BY <1>2
        <5>3. prev'[items[j]] = prev[items[j]]
          BY <1>2, <2>2, <2>3, <5>1, <5>2 DEF TypeOK
        <5> QED
          BY <1>4, <5>1, <5>2, <5>3
      <4>2. CASE j = i
        <5>1. items'[j] = items[i + 1] /\ items'[j - 1] = items[i - 1] /\ j # 1
          BY <1>1, <1>2, <2>1, <4>2
        <5>2. items[i + 1] \in Node
          BY <1>2, <2>1
        <5> QED
          BY <2>2, <5>1, <5>2 DEF TypeOK
      <4>3. CASE j > i
        <5>1. j + 1 \in 1 .. rear /\ j + 1 # i + 1 /\ items'[j] = items[j + 1] /\ items'[j - 1] = items[j]
          BY <1>1, <1>2, <4>3, SMTT(60)
        <5>2. prev'[items'[j]] = prev[items[j + 1]]
          BY <1>2, <2>2, <2>3, <5>1 DEF TypeOK
        <5> QED
          BY <1>2, <1>4, <4>3, <5>1, <5>2
      <4> QED
        BY <1>2, <4>1, <4>2, <4>3
    <3> QED
      BY <1>1, <1>2, <1>3, <1>5, <2>1, <2>2, <3>1 DEF BackwardWalk
  <2> QED
    BY <1>7, <1>8, <2>4, <2>5
<1> QED
  BY <1>9, <1>10, <1>11

(***************************************************************************)
(* list_get_node_by_index follows the chain to the node at that place.     *)
(***************************************************************************)
LEMMA WalkFinds ==
  ASSUME OwnedInv, NEW i \in 1 .. Len(items), NEW w \in [1 .. i -> Node], Walk(w, i)
  PROVE  w[i] = items[i]
PROOF
<1> USE DEF OwnedInv
<1> DEFINE Stray == {j \in 1 .. i : w[j] # items[j]}
<1>1. Len(items) \in Nat /\ i \in Nat /\ 1 <= i /\ i <= Len(items)
  BY DEF TypeOK
<1> SUFFICES ASSUME Stray # {}
             PROVE  FALSE
  BY <1>1
<1>2. PICK k \in Stray : \A j \in Stray : ~(<<j, k>> \in OpToRel(<, Nat))
  <2>1. Stray \subseteq Nat
    BY <1>1
  <2> HIDE DEF Stray
  <2> QED
    BY <2>1, NatLessThanWellFounded, WFMin
<1>3. k \in 1 .. i /\ w[k] # items[k]
  BY <1>2
<1>4. CASE k = 1
  <2>1. items # <<>>
    BY <1>1
  <2> QED
    BY <1>3, <1>4, <2>1 DEF Walk, ForwardWalk
<1>5. CASE k > 1
  <2>1. k - 1 \in 1 .. i - 1 /\ k - 1 \in 1 .. i /\ k - 1 \in Nat /\ k \in Nat /\ k - 1 < k
    BY <1>1, <1>3, <1>5
  <2>2. k - 1 \notin Stray
    <3> HIDE DEF Stray
    <3> QED
      BY <1>2, <2>1 DEF OpToRel
  <2>3. w[k - 1] = items[k - 1] /\ w[k - 1 + 1] = next[w[k - 1]]
    BY <2>1, <2>2 DEF Walk
  <2>4. k - 1 \in 1 .. Len(items) /\ k - 1 # Len(items) /\ k - 1 + 1 = k
    BY <1>1, <1>3, <2>1
  <2> QED
    BY <1>3, <2>3, <2>4 DEF ForwardWalk
<1> QED
  BY <1>1, <1>3, <1>4, <1>5

(***************************************************************************)
(* Every call an owner of a list makes keeps it intact.                    *)
(***************************************************************************)
LEMMA OwnedNext ==
  ASSUME Owned, OwnedInv, [Next]_vars
  PROVE  OwnedInv'
PROOF
<1>1. ASSUME NEW n \in Node, InsertFront(n)
      PROVE  OwnedInv'
  BY <1>1, InsertFrontInv
<1>2. ASSUME NEW i \in 1 .. Len(items), RemoveNode(i)
      PROVE  OwnedInv'
  BY <1>2, RemoveInv DEF RemoveNode
<1>3. ASSUME NEW i \in 1 .. Len(items), RemoveByIndex(i)
      PROVE  OwnedInv'
  <2>1. PICK w \in [1 .. i -> Node] : Walk(w, i) /\ Detach(w[i])
    BY <1>3 DEF RemoveByIndex
  <2>2. w[i] = items[i]
    BY <2>1, WalkFinds
  <2> QED
    BY <1>3, <2>1, <2>2, RemoveInv DEF RemoveByIndex
<1>4. CASE UNCHANGED vars
  BY <1>4 DEF OwnedInv, TypeOK, ForwardWalk, BackwardWalk, Members, vars
<1>5. ~Pop /\ \A n \in Node : ~InsertBack(n)
  BY DEF Owned, Pop, InsertBack
<1> QED
  BY <1>1, <1>2, <1>3, <1>4, <1>5 DEF Next

LEMMA OwnedStart ==
  ASSUME Init
  PROVE  OwnedInv
PROOF
  BY EmptySeq DEF Init, OwnedInv, TypeOK, ForwardWalk, BackwardWalk, Members, Pointer

(***************************************************************************)
(* The process list and the child lists are intact in every reachable      *)
(* state: foreach and the back links visit what was put in and not taken   *)
(* out, and no node in the list was freed.                                 *)
(***************************************************************************)
THEOREM OwnedListIntact ==
  ASSUME Owned
  PROVE  Spec => [](TypeOK /\ ForwardWalk /\ BackwardWalk /\ Members)
PROOF
<1>1. Init => OwnedInv
  BY OwnedStart
<1>2. OwnedInv /\ [Next]_vars => OwnedInv'
  BY OwnedNext
<1>3. OwnedInv => TypeOK /\ ForwardWalk /\ BackwardWalk /\ Members
  BY DEF OwnedInv
<1> QED
  BY <1>1, <1>2, <1>3, PTL DEF Spec

(***************************************************************************)
(* list.c never writes to a node it has freed while the owner uses it so.  *)
(***************************************************************************)
THEOREM OwnedFreedUntouched ==
  ASSUME Owned
  PROVE  Spec => FreedUntouched
PROOF
<1> DEFINE Kept == \A n \in Node : n \notin allocated /\ n \notin allocated'
                     => next'[n] = next[n] /\ prev'[n] = prev[n]
<1>1. Init => OwnedInv
  BY OwnedStart
<1>2. OwnedInv /\ [Next]_vars => OwnedInv'
  BY OwnedNext
<1>3. ASSUME OwnedInv, Next PROVE Kept
  <2> SUFFICES ASSUME NEW m \in Node, m \notin allocated, m \notin allocated'
               PROVE  next'[m] = next[m] /\ prev'[m] = prev[m]
    OBVIOUS
  <2> USE NullAssumption DEF OwnedInv, Pointer
  <2>1. \A j \in 1 .. Len(items) : items[j] # m
    BY <1>3 DEF Members
  <2>2. /\ head # m
        /\ \A j \in 1 .. Len(items) : next[items[j]] # m /\ prev[items[j]] # m
    <3>1. Len(items) \in Nat /\ (items = <<>> \/ 1 \in 1 .. Len(items))
      BY <1>3, EmptySeq DEF TypeOK
    <3>2. head # m
      BY <1>3, <2>1, <3>1 DEF ForwardWalk
    <3>3. ASSUME NEW j \in 1 .. Len(items)
          PROVE  next[items[j]] # m /\ prev[items[j]] # m
      <4>1. next[items[j]] = IF j = Len(items) THEN NULL ELSE items[j + 1]
        BY <1>3 DEF ForwardWalk
      <4>2. prev[items[j]] = IF j = 1 THEN NULL ELSE items[j - 1]
        BY <1>3 DEF BackwardWalk
      <4>3. /\ j # Len(items) => j + 1 \in 1 .. Len(items)
            /\ j # 1 => j - 1 \in 1 .. Len(items)
        BY <3>1
      <4> QED
        BY <2>1, <4>1, <4>2, <4>3
    <3> QED
      BY <3>2, <3>3
  <2>3. ASSUME NEW n \in Node, InsertFront(n)
        PROVE  next'[m] = next[m] /\ prev'[m] = prev[m]
    <3>1. n # m
      BY <2>3 DEF InsertFront
    <3> QED
      BY <1>3, <2>2, <2>3, <3>1 DEF InsertFront, TypeOK
  <2>4. ASSUME NEW i \in 1 .. Len(items), Detach(items[i])
        PROVE  next'[m] = next[m] /\ prev'[m] = prev[m]
    <3> DEFINE n == items[i]
    <3>1. next[n] # m /\ prev[n] # m
      BY <2>2
    <3>2. CASE n = head /\ RemoveFront
      BY <1>3, <3>1, <3>2 DEF RemoveFront, TypeOK
    <3>3. CASE n = tail /\ RemoveBack
      BY <1>3, <3>1, <3>3 DEF RemoveBack, TypeOK
    <3>4. CASE RemoveMiddle(n)
      BY <1>3, <3>1, <3>4 DEF RemoveMiddle, Unlink, TypeOK
    <3> QED
      BY <2>4, <3>2, <3>3, <3>4 DEF Detach
  <2>5. ASSUME NEW i \in 1 .. Len(items), RemoveByIndex(i)
        PROVE  Detach(items[i])
    BY <1>3, <2>5, WalkFinds DEF RemoveByIndex
  <2>6. ~Pop /\ \A n \in Node : ~InsertBack(n)
    BY DEF Owned, Pop, InsertBack
  <2> QED
    BY <1>3, <2>3, <2>4, <2>5, <2>6 DEF Next, RemoveNode
<1>4. OwnedInv /\ [Next]_vars => [Kept]_vars
  BY <1>3
<1>5. Spec => []OwnedInv
  BY <1>1, <1>2, PTL DEF Spec
<1> HIDE DEF OwnedInv, Next
<1> QED
  BY <1>4, <1>5, PTL DEF Spec, FreedUntouched

(***************************************************************************)
(* A token is appended to the memory of the list as list_insert_back does. *)
(***************************************************************************)
LEMMA InsertBackInv ==
  ASSUME TokenInv, NEW n \in TokenNode, Tokens!InsertBack(n)
  PROVE  TokenInv'
PROOF
<1> DEFINE rear == Len(titems)
<1> USE TokenAssumption DEF Tokens!Pointer
<1>1. /\ titems' \in Seq(TokenNode) /\ Len(titems') = rear + 1
      /\ titems'[rear + 1] = n
      /\ \A j \in 1 .. rear : titems'[j] = titems[j]
  BY AppendProperties DEF TokenInv, Tokens!TypeOK, Tokens!InsertBack
<1>2. /\ rear \in Nat /\ tsize = rear /\ n \notin tallocated
      /\ (titems = <<>> <=> rear = 0)
  BY EmptySeq DEF TokenInv, Tokens!TypeOK, Tokens!BackwardWalk, Tokens!InsertBack
<1>3. \A j \in 1 .. rear : titems[j] \in TokenNode /\ titems[j] \in tallocated /\ titems[j] # n
  BY <1>2, ElementOfSeq DEF TokenInv, Tokens!TypeOK, Tokens!Members
<1>4. Tokens!TypeOK'
  BY <1>1, <1>2 DEF TokenInv, Tokens!TypeOK, Tokens!InsertBack
<1>5. Tokens!Members'
  BY <1>1, <1>2, <1>3 DEF TokenInv, Tokens!Members, Tokens!InsertBack
<1>6. ttail' = n /\ thead' # NULL /\ tprev'[n] = ttail /\ tsize' = rear + 1
      /\ \A j \in 1 .. rear : tprev'[titems[j]] = tprev[titems[j]]
  BY <1>2, <1>3 DEF TokenInv, Tokens!TypeOK, Tokens!InsertBack
<1>7. ttail = IF rear = 0 THEN NULL ELSE titems[rear]
  BY <1>2 DEF TokenInv, Tokens!BackwardWalk
<1>8. Tokens!BackwardWalk'
  <2>1. \A j \in 1 .. rear : tprev'[titems'[j]] = IF j = 1 THEN NULL ELSE titems'[j - 1]
    <3> SUFFICES ASSUME NEW j \in 1 .. rear
                 PROVE  tprev'[titems'[j]] = IF j = 1 THEN NULL ELSE titems'[j - 1]
      OBVIOUS
    <3>1. tprev[titems[j]] = IF j = 1 THEN NULL ELSE titems[j - 1]
      BY DEF TokenInv, Tokens!BackwardWalk
    <3>2. j # 1 => j - 1 \in 1 .. rear
      BY <1>2
    <3> QED
      BY <1>1, <1>6, <3>1, <3>2
  <2>2. tprev'[titems'[rear + 1]] = IF rear + 1 = 1 THEN NULL ELSE titems'[rear + 1 - 1]
    <3>1. rear # 0 => rear \in 1 .. rear /\ rear + 1 - 1 = rear
      BY <1>2
    <3> QED
      BY <1>1, <1>2, <1>6, <1>7, <3>1
  <2>3. \A j \in 1 .. rear + 1 : j \in 1 .. rear \/ j = rear + 1
    BY <1>2
  <2> QED
    BY <1>1, <1>6, <2>1, <2>2, <2>3 DEF Tokens!BackwardWalk
<1>9. titems' # <<>>
  BY <1>1, <1>2, EmptySeq
<1> QED
  BY <1>4, <1>5, <1>6, <1>8, <1>9 DEF TokenInv

(***************************************************************************)
(* list_pop takes out the rear token and leaves the back links intact.     *)
(***************************************************************************)
LEMMA PopInv ==
  ASSUME TokenInv, Tokens!Pop
  PROVE  TokenInv'
PROOF
<1> DEFINE rear == Len(titems)
<1> USE TokenAssumption DEF Tokens!Pointer
<1>1. rear \in Nat /\ tsize = rear /\ 1 <= rear /\ (titems = <<>> <=> rear = 0)
  BY EmptySeq DEF TokenInv, Tokens!TypeOK, Tokens!BackwardWalk, Tokens!Pop
<1>2. \A j \in 1 .. rear : titems[j] \in TokenNode
  BY ElementOfSeq DEF TokenInv, Tokens!TypeOK
<1>3. /\ titems' \in Seq(TokenNode) /\ Len(titems') = rear - 1
      /\ \A j \in 1 .. rear - 1 : titems'[j] = titems[j]
  <2>1. \A j \in 1 .. rear - 1 : titems[j] \in TokenNode
    BY <1>1, <1>2
  <2>2. /\ SubSeq(titems, 1, rear - 1) \in Seq(TokenNode)
        /\ Len(SubSeq(titems, 1, rear - 1)) = IF 1 <= rear - 1 THEN rear - 1 - 1 + 1 ELSE 0
        /\ \A j \in 1 .. rear - 1 - 1 + 1 : SubSeq(titems, 1, rear - 1)[j] = titems[1 + j - 1]
    BY <1>1, <2>1, SubSeqProperties
  <2> QED
    BY <1>1, <2>2 DEF Tokens!Pop
<1>4. ttail = titems[rear] /\ rear \in 1 .. rear
  BY <1>1 DEF TokenInv, Tokens!BackwardWalk
<1>5. ttail' = (IF rear = 1 THEN NULL ELSE titems[rear - 1])
      /\ tprev' = tprev /\ thead' # NULL /\ tsize' = rear - 1 /\ tallocated' = tallocated
  BY <1>1, <1>4 DEF TokenInv, Tokens!BackwardWalk, Tokens!Pop
<1>6. Tokens!TypeOK'
  BY <1>1, <1>2, <1>3, <1>4, <1>5 DEF TokenInv, Tokens!TypeOK, Tokens!Pop
<1>7. Tokens!Members'
  BY <1>1, <1>3, <1>5 DEF TokenInv, Tokens!Members
<1>8. rear - 1 # 0 => ttail' = titems'[rear - 1]
  <2>1. rear - 1 # 0 => rear - 1 \in 1 .. rear - 1 /\ rear # 1
    BY <1>1
  <2> QED
    BY <1>3, <1>5, <2>1
<1>9. \A j \in 1 .. rear - 1 : tprev'[titems'[j]] = IF j = 1 THEN NULL ELSE titems'[j - 1]
  <2> SUFFICES ASSUME NEW j \in 1 .. rear - 1
               PROVE  tprev'[titems'[j]] = IF j = 1 THEN NULL ELSE titems'[j - 1]
    OBVIOUS
  <2>1. j \in 1 .. rear /\ (j # 1 => j - 1 \in 1 .. rear - 1)
    BY <1>1
  <2>2. tprev[titems[j]] = IF j = 1 THEN NULL ELSE titems[j - 1]
    BY <2>1 DEF TokenInv, Tokens!BackwardWalk
  <2> QED
    BY <1>3, <1>5, <2>1, <2>2
<1>10. titems' = <<>> <=> rear - 1 = 0
  BY <1>3, EmptySeq
<1>11. Tokens!BackwardWalk'
  BY <1>3, <1>5, <1>8, <1>9, <1>10 DEF Tokens!BackwardWalk
<1>12. titems' = <<>> => ttail' = NULL
  BY <1>1, <1>5, <1>10
<1> QED
  BY <1>5, <1>6, <1>7, <1>11, <1>12 DEF TokenInv

(***************************************************************************)
(* str_split and list2str do nothing else with their lists.                *)
(***************************************************************************)
LEMMA TokensStart ==
  ASSUME Tokens!Init
  PROVE  TokenInv
PROOF
  BY EmptySeq DEF Tokens!Init, TokenInv, Tokens!TypeOK, Tokens!BackwardWalk, Tokens!Members, Tokens!Pointer

LEMMA TokensNext ==
  ASSUME TokenInv, [Tokens!Next]_tvars
  PROVE  TokenInv'
PROOF
<1>1. CASE \E n \in TokenNode : Tokens!InsertBack(n)
  BY <1>1, InsertBackInv
<1>2. CASE Tokens!Pop
  BY <1>2, PopInv
<1>3. CASE UNCHANGED tvars
  BY <1>3 DEF TokenInv, Tokens!TypeOK, Tokens!BackwardWalk, Tokens!Members, tvars
<1>4. /\ \A n \in TokenNode : ~Tokens!InsertFront(n)
      /\ \A i \in 1 .. Len(titems) : ~Tokens!RemoveNode(i) /\ ~Tokens!RemoveByIndex(i)
  BY DEF Tokens!InsertFront, Tokens!RemoveNode, Tokens!RemoveByIndex
<1> QED
  BY <1>1, <1>2, <1>3, <1>4 DEF Tokens!Next

(***************************************************************************)
(* The token lists of str_split and list2str: list_pop hands out every     *)
(* token that was pushed, in the opposite order, also after the list was   *)
(* emptied and its head left behind.                                       *)
(***************************************************************************)
THEOREM TokenListIntact == Tokens!Spec => [](Tokens!TypeOK /\ Tokens!BackwardWalk /\ Tokens!Members)
PROOF
<1>1. Tokens!Init => TokenInv
  BY TokensStart
<1>2. TokenInv /\ [Tokens!Next]_tvars => TokenInv'
  BY TokensNext
<1>3. TokenInv => Tokens!TypeOK /\ Tokens!BackwardWalk /\ Tokens!Members
  BY DEF TokenInv
<1> QED
  BY <1>1, <1>2, <1>3, PTL DEF Tokens!Spec, Tokens!vars, tvars

(***************************************************************************)
(* Both lists together, each stepped by its owner.                         *)
(***************************************************************************)
THEOREM ListsIntact ==
  ASSUME Owned
  PROVE  MCSpec => [](ForwardWalk /\ BackwardWalk /\ Members /\ TokensBackward)
PROOF
<1>1. MCInit => OwnedInv /\ TokenInv
  BY OwnedStart, TokensStart DEF MCInit
<1>2. OwnedInv /\ TokenInv /\ [OwnedStep \/ TokenStep]_<<owner, vars, tvars>> => OwnedInv' /\ TokenInv'
  <2> SUFFICES ASSUME OwnedInv, TokenInv, [OwnedStep \/ TokenStep]_<<owner, vars, tvars>>
               PROVE  OwnedInv' /\ TokenInv'
    OBVIOUS
  <2>1. [Next]_vars /\ [Tokens!Next]_tvars
    BY DEF OwnedStep, TokenStep
  <2> QED
    BY <2>1, OwnedNext, TokensNext
<1>3. OwnedInv /\ TokenInv => ForwardWalk /\ BackwardWalk /\ Members /\ TokensBackward
  BY DEF OwnedInv, TokenInv, TokensBackward
<1> QED
  BY <1>1, <1>2, <1>3, PTL DEF MCSpec

-----------------------------------------------------------------------------
(* The mount tree. First two facts about ranges of numbers. *)

\* A set of integers that is bounded below has a least element.
LEMMA LeastOf ==
  ASSUME NEW S \in SUBSET Int, NEW a \in Int, \A s \in S : a <= s, S # {}
  PROVE  \E x \in S : \A y \in S : x <= y
<1> DEFINE T == {s - a : s \in S}
<1>1. T \in SUBSET Nat /\ T # {}
  <2>1. \A s \in S : s - a \in Nat
    OBVIOUS
  <2> QED BY <2>1
<1> HIDE DEF T
<1>2. PICK t \in T : \A u \in T : ~(<<u, t>> \in OpToRel(<, Nat))
  BY <1>1, NatLessThanWellFounded, WFMin
<1>3. \A u \in T : t <= u
  <2>1. SUFFICES ASSUME NEW u \in T, ~(t <= u) PROVE FALSE
    OBVIOUS
  <2>2. <<u, t>> \in OpToRel(<, Nat)
    BY <1>1, <2>1 DEF OpToRel
  <2> QED BY <1>2, <2>2
<1>4. PICK x \in S : t = x - a
  BY DEF T
<1>5. \A y \in S : y - a \in T
  BY DEF T
<1> QED BY <1>3, <1>4, <1>5

\* A set of integers that is bounded above has a greatest element.
LEMMA GreatestOf ==
  ASSUME NEW S \in SUBSET Int, NEW b \in Int, \A s \in S : s <= b, S # {}
  PROVE  \E x \in S : \A y \in S : x >= y
<1> DEFINE T == {-s : s \in S}
<1>1. T \in SUBSET Int /\ T # {} /\ -b \in Int /\ \A t \in T : -b <= t
  <2>1. \A s \in S : -s \in Int /\ -b <= -s
    OBVIOUS
  <2>2. T # {}
    OBVIOUS
  <2> QED BY <2>1, <2>2
<1>2. \A s \in S : -s \in T
  OBVIOUS
<1>3. \A t \in T : \E s \in S : t = -s
  OBVIOUS
<1> HIDE DEF T
<1>4. PICK t \in T : \A u \in T : t <= u
  BY <1>1, LeastOf
<1>5. PICK x \in S : t = -x
  BY <1>3
<1>6. \A y \in S : x >= y
  BY <1>2, <1>4, <1>5
<1> QED BY <1>6

\* What holds at the first number of a range and passes to the next holds in the range.
LEMMA RangeInduct ==
  ASSUME NEW a \in Int, NEW b \in Int, NEW S, a \in S, \A v \in a + 1..b : v - 1 \in S => v \in S
  PROVE  \A v \in a..b : v \in S
<1> DEFINE B == {v \in a..b : v \notin S}
<1>1. SUFFICES ASSUME B # {} PROVE FALSE
  OBVIOUS
<1>2. B \in SUBSET Int /\ \A v \in B : a <= v
  OBVIOUS
<1>3. PICK x \in B : \A y \in B : x <= y
  <2> HIDE DEF B
  <2> QED BY <1>1, <1>2, LeastOf
<1>4. x \in a + 1..b /\ x - 1 \in a..b /\ x \notin S
  BY <1>3
<1>5. x - 1 \notin B
  BY <1>2, <1>3, <1>4
<1> QED BY <1>4, <1>5

-----------------------------------------------------------------------------
(* Paths: the tokens above an entry. *)

Up(p, i) == SubSeq(p, 1, i)
\* The tokens the code itself uses are listed because the provers do not know that a literal is in STRING.
Names == STRING \cup {"proc", "dev", "kernel", "pci", "registers", NoName}
Strings == Seq(Names)

\* What the tokens above an entry are.
LEMMA UpIs ==
  ASSUME NEW p \in Strings, NEW i \in 0..Len(p)
  PROVE  /\ Up(p, i) \in Strings /\ Len(Up(p, i)) = i /\ \A k \in 1..i : Up(p, i)[k] = p[k]
         /\ Up(p, 0) = <<>> /\ Up(p, Len(p)) = p
<1>1. \A k \in 1..i : p[k] \in Names
  BY DEF Strings
<1>2. Up(p, i) \in Strings /\ Len(Up(p, i)) = i /\ \A k \in 1..i : Up(p, i)[k] = p[k]
  BY <1>1, SubSeqProperties DEF Up, Strings
<1>3. Up(p, 0) = <<>>
  BY SubSeqEmpty DEF Up
<1>4. Up(p, Len(p)) = p
  BY SubSeqFull DEF Up, Strings
<1> QED BY <1>2, <1>3, <1>4

\* An entry above an entry above a path is above the path.
LEMMA UpOfUp ==
  ASSUME NEW p \in Strings, NEW i \in 0..Len(p), NEW j \in 0..i
  PROVE  Up(Up(p, i), j) = Up(p, j)
<1>1. PICK x, y, q : q = Up(p, i) /\ x = Up(q, j) /\ y = Up(p, j)
  OBVIOUS
<1>2. q \in Strings /\ Len(q) = i /\ \A k \in 1..i : q[k] = p[k]
  BY <1>1, UpIs
<1>3. x \in Strings /\ Len(x) = j /\ \A k \in 1..j : x[k] = q[k]
  BY <1>1, <1>2, UpIs
<1>4. j \in 0..Len(p)
  BY DEF Strings
<1>5. y \in Strings /\ Len(y) = j /\ \A k \in 1..j : y[k] = p[k]
  BY <1>1, <1>4, UpIs
<1>6. \A k \in 1..j : x[k] = y[k]
  BY <1>2, <1>3, <1>5
<1>7. x = y
  BY <1>3, <1>5, <1>6, SeqEqual DEF Strings
<1> QED BY <1>1, <1>7

\* One token more.
LEMMA UpNext ==
  ASSUME NEW p \in Strings, NEW i \in 0..Len(p), i < Len(p)
  PROVE  Append(Up(p, i), p[i + 1]) = Up(p, i + 1)
<1>1. PICK a, b, u : u = Up(p, i) /\ a = Append(u, p[i + 1]) /\ b = Up(p, i + 1)
  OBVIOUS
<1>2. Len(p) \in Nat /\ i + 1 \in 1..Len(p) /\ p[i + 1] \in Names
  BY DEF Strings
<1>3. u \in Strings /\ Len(u) = i /\ \A k \in 1..i : u[k] = p[k]
  BY <1>1, UpIs
<1>4. a \in Strings /\ Len(a) = i + 1 /\ (\A k \in 1..i : a[k] = u[k]) /\ a[i + 1] = p[i + 1]
  BY <1>1, <1>2, <1>3, AppendProperties DEF Strings
<1>5. b \in Strings /\ Len(b) = i + 1 /\ \A k \in 1..i + 1 : b[k] = p[k]
  BY <1>1, <1>2, UpIs
<1>6. \A k \in 1..i + 1 : a[k] = b[k]
  BY <1>3, <1>4, <1>5
<1>7. a = b
  BY <1>4, <1>5, <1>6, SeqEqual DEF Strings
<1> QED BY <1>1, <1>7

\* A path is a prefix of another if it is the path of an entry above it.
LEMMA PrefixIs ==
  ASSUME NEW q \in Strings, NEW p \in Strings
  PROVE  IsPrefix(q, p) <=> (Len(q) <= Len(p) /\ q = Up(p, Len(q)))
<1>1. Up(q, Len(q)) = q
  BY UpIs DEF Strings
<1> QED BY <1>1 DEF IsPrefix, Up

-----------------------------------------------------------------------------
(* The descent along a path ends at the nearest entry. *)

TreeOk ==
  /\ DOMAIN tree \subseteq Strings /\ <<>> \in DOMAIN tree
  /\ \A q \in DOMAIN tree : \A i \in 0..Len(q) : Up(q, i) \in DOMAIN tree

\* the first empty token of a path is the s-th
PointAt(p, s) ==
  (\A k \in 1..s - 1 : p[k] # NoName) /\ (s <= Len(p) => p[s] = NoName) /\ Point(p) = Up(p, s - 1)

\* A mount point ends at the first empty token or at the end of the path.
LEMMA PointIs ==
  ASSUME NEW p \in Strings
  PROVE  \E s \in 1..Len(p) + 1 : PointAt(p, s)
<1>1. Len(p) \in Nat
  BY DEF Strings
<1>2. CASE Slashes(p) = {}
  <2>1. Point(p) = Up(p, Len(p))
    BY <1>2, UpIs, <1>1 DEF Point
  <2>2. \A k \in 1..Len(p) : p[k] # NoName
    BY <1>2 DEF Slashes
  <2>3. Len(p) + 1 - 1 = Len(p) /\ Len(p) + 1 \in 1..Len(p) + 1 /\ ~(Len(p) + 1 <= Len(p))
    BY <1>1
  <2>4. PointAt(p, Len(p) + 1)
    BY <2>1, <2>2, <2>3 DEF PointAt
  <2> QED BY <2>3, <2>4
<1>3. CASE Slashes(p) # {}
  <2>1. Slashes(p) \subseteq 1..Len(p) /\ Slashes(p) \in SUBSET Int /\ \A i \in Slashes(p) : 1 <= i
    BY <1>1 DEF Slashes
  <2>2. \E x \in Slashes(p) : \A y \in Slashes(p) : x <= y
    <3>0. PICK one \in Int : one = 1
      OBVIOUS
    <3>1. PICK S : S = Slashes(p)
      OBVIOUS
    <3>2. S \in SUBSET Int /\ S # {} /\ \A i \in S : one <= i
      BY <1>3, <2>1, <3>0, <3>1
    <3>3. \E x \in S : \A y \in S : x <= y
      BY <3>2, LeastOf
    <3> QED BY <3>1, <3>3
  <2>3. PICK s : s = Min(Slashes(p))
    OBVIOUS
  <2>4. s \in Slashes(p) /\ \A y \in Slashes(p) : s <= y
    BY <2>2, <2>3 DEF Min
  <2>5. Point(p) = Up(p, s - 1)
    BY <1>3, <2>3 DEF Point, Up
  <2>6. s \in 1..Len(p) + 1 /\ p[s] = NoName
    BY <1>1, <2>1, <2>4 DEF Slashes
  <2>7. \A k \in 1..s - 1 : p[k] # NoName
    <3>1. SUFFICES ASSUME NEW k \in 1..s - 1, p[k] = NoName PROVE FALSE
      OBVIOUS
    <3>2. k \in Slashes(p)
      BY <1>1, <2>6, <3>1 DEF Slashes
    <3> QED BY <2>4, <2>6, <3>1, <3>2
  <2> QED BY <2>5, <2>6, <2>7 DEF PointAt
<1> QED BY <1>2, <1>3

Stops(p, i) == i > Len(p) \/ p[i] = NoName \/ SubSeq(p, 1, i) \notin DOMAIN tree
StopAt(p, m) == Stops(p, m) /\ \A k \in 1..m - 1 : ~Stops(p, k)
\* stop of Descent
Falls(f, p) == f = [i \in 1..Len(p) + 1 |-> IF Stops(p, i) THEN i ELSE f[i + 1]]

\* the first index from i on that stops
NextStop(p, i) == CHOOSE m \in i..Len(p) + 1 : Stops(p, m) /\ \A k \in i..m - 1 : ~Stops(p, k)

\* The descent stops no later than behind the last token.
LEMMA NextStopIs ==
  ASSUME NEW p \in Strings, NEW i \in 1..Len(p) + 1
  PROVE  /\ NextStop(p, i) \in i..Len(p) + 1 /\ Stops(p, NextStop(p, i))
         /\ \A k \in i..NextStop(p, i) - 1 : ~Stops(p, k)
<1>1. PICK n \in Nat : n = Len(p)
  BY DEF Strings
<1> DEFINE S == {m \in i..n + 1 : Stops(p, m)}
<1>2. n + 1 \in S
  BY <1>1 DEF Stops
<1>3. S \in SUBSET Int /\ \A m \in S : i <= m
  OBVIOUS
<1>4. PICK x \in S : \A y \in S : x <= y
  <2> HIDE DEF S
  <2>1. S # {} /\ i \in Int
    BY <1>2
  <2> QED BY <1>3, <2>1, LeastOf
<1>5. x \in i..Len(p) + 1 /\ Stops(p, x)
  BY <1>1, <1>4
<1>6. \A k \in i..x - 1 : ~Stops(p, k)
  <2>1. SUFFICES ASSUME NEW k \in i..x - 1, Stops(p, k) PROVE FALSE
    OBVIOUS
  <2>2. k \in S
    BY <1>1, <1>5, <2>1
  <2> HIDE DEF S
  <2> QED BY <1>4, <1>5, <2>1, <2>2
<1>7. \E m \in i..Len(p) + 1 : Stops(p, m) /\ \A k \in i..m - 1 : ~Stops(p, k)
  BY <1>5, <1>6, Zenon
<1> QED BY <1>7, Zenon DEF NextStop

\* The function the descent is defined by gives the first place to stop.
LEMMA StopOf ==
  ASSUME NEW p \in Strings
  PROVE  /\ \E f : Falls(f, p)
         /\ \A f : Falls(f, p) => StopAt(p, f[1]) /\ f[1] \in 1..Len(p) + 1
<1>1. PICK n \in Nat : n = Len(p)
  BY DEF Strings
<1>2. \E f : Falls(f, p)
  <2> DEFINE h == [i \in 1..Len(p) + 1 |-> NextStop(p, i)]
  <2>1. ASSUME NEW i \in 1..Len(p) + 1 PROVE h[i] = IF Stops(p, i) THEN i ELSE h[i + 1]
    <3>1. CASE Stops(p, i)
      <4>1. PICK x : x = NextStop(p, i)
        OBVIOUS
      <4>2. x \in i..n + 1 /\ \A k \in i..x - 1 : ~Stops(p, k)
        BY <1>1, <4>1, NextStopIs
      <4>3. x = i
        BY <1>1, <3>1, <4>2
      <4> QED BY <3>1, <4>1, <4>3
    <3>2. CASE ~Stops(p, i)
      <4>1. i + 1 \in 1..Len(p) + 1
        <5>1. i # n + 1
          BY <1>1, <3>2 DEF Stops
        <5> QED BY <1>1, <5>1
      <4>2. PICK x, y : x = NextStop(p, i) /\ y = NextStop(p, i + 1)
        OBVIOUS
      <4>3. x \in i..n + 1 /\ Stops(p, x) /\ \A k \in i..x - 1 : ~Stops(p, k)
        BY <1>1, <4>2, NextStopIs
      <4>4. y \in i + 1..n + 1 /\ Stops(p, y) /\ \A k \in i + 1..y - 1 : ~Stops(p, k)
        BY <1>1, <4>1, <4>2, NextStopIs
      <4>5. x # i
        BY <3>2, <4>3
      <4>6. ~(x < y) /\ ~(y < x)
        BY <1>1, <4>3, <4>4, <4>5
      <4>7. x = y
        BY <1>1, <4>3, <4>4, <4>6
      <4> QED BY <3>2, <4>1, <4>2, <4>7
    <3> QED BY <3>1, <3>2
  <2>2. h = [i \in 1..Len(p) + 1 |-> h[i]]
    OBVIOUS
  <2> HIDE DEF h
  <2>3. h = [i \in 1..Len(p) + 1 |-> IF Stops(p, i) THEN i ELSE h[i + 1]]
    BY <2>1, <2>2, Zenon
  <2>4. Falls(h, p)
    BY <2>3, Zenon DEF Falls
  <2> QED BY <2>4
<1>3. ASSUME NEW f, Falls(f, p) PROVE StopAt(p, f[1]) /\ f[1] \in 1..Len(p) + 1
  <2>1. \A i \in 1..Len(p) + 1 : f[i] = IF Stops(p, i) THEN i ELSE f[i + 1]
    BY <1>3, Zenon DEF Falls
  <2>2. 1 \in 1..Len(p) + 1
    BY <1>1
  <2>3. PICK m : m = NextStop(p, 1)
    OBVIOUS
  <2>4. m \in 1..n + 1 /\ Stops(p, m) /\ \A k \in 1..m - 1 : ~Stops(p, k)
    BY <1>1, <2>2, <2>3, NextStopIs
  <2> DEFINE S == {i \in 1..m : f[i] = f[1]}
  <2>5. 1 \in S
    BY <1>1, <2>4
  <2>6. ASSUME NEW v \in 1 + 1..m, v - 1 \in S PROVE v \in S
    <3>1. PICK u : u = v - 1 /\ u \in 1..m - 1 /\ u + 1 = v /\ u \in 1..Len(p) + 1
      BY <1>1, <2>4, <2>6
    <3>2. f[u] = f[u + 1]
      BY <2>1, <2>4, <3>1
    <3> QED BY <2>6, <3>1, <3>2, <2>4
  <2>7. \A v \in 1..m : v \in S
    <3> HIDE DEF S
    <3> QED BY <1>1, <2>4, <2>5, <2>6, RangeInduct
  <2>8. f[m] = f[1] /\ f[m] = m
    BY <1>1, <2>1, <2>4, <2>7
  <2> QED BY <1>1, <2>4, <2>8 DEF StopAt
<1> QED BY <1>2, <1>3

\* Where the descent ends, by that place.
LEMMA DescentAt ==
  ASSUME NEW p \in Strings
  PROVE  \E m \in 1..Len(p) + 1 :
           /\ StopAt(p, m)
           /\ Descent(p).at = Up(p, m - 1)
           /\ Descent(p).rest = IF m <= Len(p) /\ p[m] = NoName THEN SubSeq(p, m + 1, Len(p)) ELSE SubSeq(p, m, Len(p))
<1>1. PICK f : f = CHOOSE g : Falls(g, p)
  OBVIOUS
<1>2. Falls(f, p)
  BY <1>1, StopOf, Zenon
<1>3. StopAt(p, f[1]) /\ f[1] \in 1..Len(p) + 1
  BY <1>2, StopOf
<1>4. Descent(p) =
        [at   |-> SubSeq(p, 1, f[1] - 1),
         rest |-> IF f[1] <= Len(p) /\ p[f[1]] = NoName THEN SubSeq(p, f[1] + 1, Len(p)) ELSE SubSeq(p, f[1], Len(p))]
  <2> DEFINE stop[i \in 1..Len(p) + 1] ==
        IF i > Len(p) \/ p[i] = NoName \/ SubSeq(p, 1, i) \notin DOMAIN tree THEN i ELSE stop[i + 1]
  <2>1. stop = f
    BY <1>1, Zenon DEF Falls, Stops
  <2>2. Descent(p) =
        [at   |-> SubSeq(p, 1, stop[1] - 1),
         rest |-> IF stop[1] <= Len(p) /\ p[stop[1]] = NoName THEN SubSeq(p, stop[1] + 1, Len(p)) ELSE SubSeq(p, stop[1], Len(p))]
    BY Zenon DEF Descent
  <2> HIDE DEF stop
  <2> QED BY <2>1, <2>2, Zenon
<1>5. PICK m : m = f[1]
  OBVIOUS
<1>6. /\ Descent(p).at = SubSeq(p, 1, m - 1)
      /\ Descent(p).rest = IF m <= Len(p) /\ p[m] = NoName THEN SubSeq(p, m + 1, Len(p)) ELSE SubSeq(p, m, Len(p))
  <2>1. PICK D : D = Descent(p)
    OBVIOUS
  <2>2. PICK a, r : /\ a = SubSeq(p, 1, m - 1)
                    /\ r = IF m <= Len(p) /\ p[m] = NoName THEN SubSeq(p, m + 1, Len(p)) ELSE SubSeq(p, m, Len(p))
    OBVIOUS
  <2>3. D = [at |-> a, rest |-> r]
    BY <1>4, <1>5, <2>1, <2>2, Zenon
  <2>4. D.at = a /\ D.rest = r
    BY <2>3
  <2> QED BY <2>1, <2>2, <2>4, Zenon
<1>7. Descent(p).at = Up(p, m - 1)
  BY <1>6 DEF Up
<1> QED BY <1>3, <1>5, <1>6, <1>7

IsNearest(p, q) ==
  q \in DOMAIN tree /\ IsPrefix(q, Point(p)) /\ \A r \in DOMAIN tree : IsPrefix(r, Point(p)) => Len(r) <= Len(q)

\* The entry the descent ends at is the nearest one, with the tokens that are left.
LEMMA DescentIs ==
  ASSUME TreeOk, NEW p \in Strings
  PROVE  /\ Descent(p).at = NearestEntry(p) /\ Descent(p).rest = Rest(p)
         /\ NearestEntry(p) \in DOMAIN tree /\ Rest(p) \in Strings
<1>0. PICK n \in Nat : n = Len(p)
  BY DEF Strings
<1>1. PICK m \in 1..n + 1 :
        /\ StopAt(p, m)
        /\ Descent(p).at = Up(p, m - 1)
        /\ Descent(p).rest = IF m <= n /\ p[m] = NoName THEN SubSeq(p, m + 1, n) ELSE SubSeq(p, m, n)
  BY <1>0, DescentAt
<1>2. PICK s \in 1..n + 1 : PointAt(p, s)
  BY <1>0, PointIs
<1>3. \A k \in 1..m - 1 : k <= n /\ p[k] # NoName /\ Up(p, k) \in DOMAIN tree
  BY <1>0, <1>1 DEF StopAt, Stops, Up
<1>4. m <= s
  <2>1. SUFFICES ASSUME s < m PROVE FALSE
    OBVIOUS
  <2>2. s \in 1..m - 1 /\ s <= n
    BY <1>1, <2>1
  <2> QED BY <1>0, <1>2, <1>3, <2>2 DEF PointAt
<1>5. PICK j \in 0..n : j = m - 1 /\ j <= s - 1
  BY <1>1, <1>4
<1>6. PICK e, pt : e = Up(p, j) /\ pt = Point(p) /\ pt = Up(p, s - 1)
  BY <1>2 DEF PointAt
<1>7. s - 1 \in 0..n /\ pt \in Strings /\ Len(pt) = s - 1
  <2>1. s - 1 \in 0..Len(p)
    BY <1>0
  <2> QED BY <1>0, <1>6, <2>1, UpIs
<1>8. e \in DOMAIN tree /\ e \in Strings /\ Len(e) = j
  <2>1. e \in Strings /\ Len(e) = j
    BY <1>0, <1>5, <1>6, UpIs
  <2>2. CASE j = 0
    BY <1>0, <1>6, <2>1, <2>2, UpIs DEF TreeOk
  <2>3. CASE j # 0
    <3>1. j \in 1..m - 1
      BY <1>5, <2>3
    <3> QED BY <1>3, <1>6, <2>1, <3>1
  <2> QED BY <2>1, <2>2, <2>3
<1>9. \A i \in 0..s - 1 : Up(pt, i) = Up(p, i)
  <2>1. s - 1 \in 0..Len(p)
    BY <1>0
  <2> QED BY <1>6, <2>1, UpOfUp
<1>10. IsPrefix(e, pt)
  <2>1. Len(e) <= Len(pt) /\ e = Up(pt, Len(e))
    BY <1>5, <1>6, <1>7, <1>8, <1>9
  <2> QED BY <1>7, <1>8, <2>1, PrefixIs
<1>11. ASSUME NEW r \in DOMAIN tree, IsPrefix(r, pt) PROVE Len(r) <= j /\ r = Up(p, Len(r)) /\ Len(r) \in Nat
  <2>1. r \in Strings
    BY <1>11 DEF TreeOk
  <2>2. PICK k \in Nat : k = Len(r) /\ k <= s - 1 /\ r = Up(pt, k)
    <3>1. Len(r) \in Nat
      BY <2>1 DEF Strings
    <3> QED BY <1>7, <1>11, <2>1, <3>1, PrefixIs
  <2>3. r = Up(p, k)
    BY <1>9, <2>2
  <2>4. ASSUME k > j PROVE FALSE
    <3>1. m \in 0..k /\ k \in 0..Len(p) /\ m \in 1..s - 1 /\ m <= n
      BY <1>0, <1>5, <1>7, <2>2, <2>4
    <3>2. Up(r, m) = Up(p, m)
      BY <2>3, <3>1, UpOfUp
    <3>3. Up(p, m) \in DOMAIN tree
      BY <1>11, <2>2, <3>1, <3>2 DEF TreeOk
    <3>4. p[m] # NoName
      BY <1>2, <3>1 DEF PointAt
    <3> QED BY <1>0, <1>1, <3>1, <3>3, <3>4 DEF StopAt, Stops, Up
  <2> QED BY <1>5, <2>2, <2>3, <2>4
<1>12. IsNearest(p, e)
  BY <1>6, <1>8, <1>10, <1>11 DEF IsNearest
<1>13. ASSUME NEW q, IsNearest(p, q) PROVE q = e
  <2>1. q \in DOMAIN tree /\ IsPrefix(q, pt) /\ j <= Len(q)
    BY <1>6, <1>8, <1>10, <1>13 DEF IsNearest
  <2>2. Len(q) <= j /\ q = Up(p, Len(q)) /\ Len(q) \in Nat
    BY <1>11, <2>1
  <2> QED BY <1>5, <1>6, <2>1, <2>2
<1>14. NearestEntry(p) = e
  BY <1>12, <1>13, Zenon DEF NearestEntry, IsNearest
<1>15. Descent(p).at = NearestEntry(p)
  BY <1>1, <1>5, <1>6, <1>14
<1>16. e = pt <=> m = s
  BY <1>4, <1>5, <1>6, <1>7, <1>8
<1>17. Rest(p) = SubSeq(p, j + (IF e = pt THEN 2 ELSE 1), n)
  BY <1>0, <1>6, <1>8, <1>14 DEF Rest
<1>18. Descent(p).rest = Rest(p)
  <2>1. CASE m = s
    <3>1. Rest(p) = SubSeq(p, m + 1, n)
      BY <1>5, <1>16, <1>17, <2>1
    <3>2. CASE m <= n
      BY <1>0, <1>1, <1>2, <2>1, <3>1, <3>2 DEF PointAt
    <3>3. CASE ~(m <= n)
      <4>1. SubSeq(p, m, n) = <<>> /\ SubSeq(p, m + 1, n) = <<>>
        BY <1>1, <3>3, SubSeqEmpty
      <4> QED BY <1>1, <3>1, <3>3, <4>1
    <3> QED BY <3>2, <3>3
  <2>2. CASE m # s
    <3>1. Rest(p) = SubSeq(p, m, n)
      BY <1>5, <1>16, <1>17, <2>2
    <3>2. p[m] # NoName
      BY <1>1, <1>2, <1>4, <2>2 DEF PointAt
    <3> QED BY <1>1, <3>1, <3>2
  <2> QED BY <2>1, <2>2
<1>19. Rest(p) \in Strings
  <2>1. PICK a \in Int : Rest(p) = SubSeq(p, a, n) /\ a >= 1
    BY <1>5, <1>17
  <2>2. \A k \in a..n : p[k] \in Names
    BY <1>0, <2>1 DEF Strings
  <2> QED BY <2>1, <2>2, SubSeqProperties DEF Strings
<1> QED BY <1>8, <1>14, <1>15, <1>18, <1>19

-----------------------------------------------------------------------------
(* Looking up what is left of a path. *)

\* what may be mounted
Mounts == {Null, Devfs} \cup ({"proc"} \X (0..3)) \cup ({"dev"} \X Devs) \cup ({"fs"} \X (1..Len(mounted)))
SlotsOk == /\ nodes \in Seq([name : Names, dev : Nat]) /\ Len(nodes) \in 0..MaxDevices
           /\ \A k \in 1..Len(nodes) : nodes[k] = Cleared \/ nodes[k].dev \in Devs
MountedOk == /\ mounted \in Seq(Devs) /\ Len(mounted) \in 0..MaxMounts
             /\ \A k \in 1..Len(mounted) : DiskType[mounted[k]] \in {"ext2", "sorfs"}
DiskOk ==
  /\ DOMAIN disk = Devs
  /\ \A d \in Devs : \A q \in DOMAIN disk[d] :
       /\ q \in Strings \ {<<>>} /\ \A i \in 1..Len(q) : Up(q, i) \in DOMAIN disk[d]
       /\ DiskType[d] = "sorfs" => Len(q) = 1
FilesHere == SlotsOk /\ MountedOk /\ DiskOk

\* Nodes of different kinds differ.
LEMMA Kinds ==
  /\ Null[1] = "null" /\ Wild[1] = "wild" /\ Devfs[1] = "devfs" /\ \A i : Proc(i)[1] = "proc"
  /\ Null # Wild /\ Null # Devfs /\ Wild # Devfs
  BY DEF Null, Wild, Devfs, Proc

\* The nodes that can be an entry of the tree.
LEMMA MountIs ==
  ASSUME MountedOk, NEW e \in Mounts
  PROVE  \/ e = Null \/ e = Devfs \/ e[1] = "proc" \/ e[1] = "dev"
         \/ /\ e[1] = "fs" /\ e[2] \in 1..Len(mounted) /\ DeviceOf(e) \in Devs
            /\ DiskType[DeviceOf(e)] \in {"ext2", "sorfs"}
  BY DEF Mounts, MountedOk, DeviceOf

\* The root that SORFS looks names up in is one of those that were made.
LEMMA SorfsRootIs ==
  ASSUME MountedOk, NEW e \in Mounts, IsSorfs(e)
  PROVE  /\ SorfsRoot \in Mounts /\ SorfsRoot # Null /\ SorfsRoot[1] = "fs" /\ IsSorfs(SorfsRoot)
         /\ DeviceOf(SorfsRoot) \in Devs /\ \E k \in 1..Len(mounted) : SorfsRoot = <<"fs", k>>
<1>1. PICK S : S = {i \in 1..Len(mounted) : DiskType[mounted[i]] = "sorfs"}
  OBVIOUS
<1>2. PICK b \in Int : b = Len(mounted)
  BY VfsAssumption DEF MountedOk
<1>3. S \in SUBSET Int /\ \A i \in S : i <= b
  BY <1>1, <1>2
<1>4. S # {}
  <2>1. e[2] \in 1..Len(mounted)
    BY MountIs, Kinds DEF IsSorfs
  <2> QED BY <1>1, <2>1 DEF IsSorfs, DeviceOf
<1>5. \E x \in S : \A y \in S : x >= y
  BY <1>2, <1>3, <1>4, GreatestOf
<1>6. PICK k : k = Max(S)
  OBVIOUS
<1>7. k \in S
  BY <1>5, <1>6 DEF Max
<1>8. SorfsRoot = <<"fs", k>> /\ k \in 1..Len(mounted) /\ DiskType[mounted[k]] = "sorfs"
  BY <1>1, <1>6, <1>7 DEF SorfsRoot
<1>9. SorfsRoot[1] = "fs" /\ DeviceOf(SorfsRoot) = mounted[k] /\ mounted[k] \in Devs
  BY <1>8 DEF DeviceOf, MountedOk
<1> QED BY <1>8, <1>9, Kinds DEF Mounts, IsSorfs

\* a lookup has left the disk the path is mounted on, or the only directory that SORFS looks in
Astray(e, rest, i) ==
  IsSorfs(e) /\ i # 0 /\ (e # SorfsRoot \/ (i # 1 /\ <<rest[1]>> \in DOMAIN disk[DeviceOf(e)]))
StrayPlace(rest, i, pl) ==
  \/ pl = Place(Null, <<>>) /\ i # 1
  \/ pl = Place(SorfsRoot, <<>>)
  \/ i # 1 /\ <<rest[i]>> \in DOMAIN disk[DeviceOf(SorfsRoot)] /\ pl = Place(SorfsRoot, <<rest[i]>>)

\* The nodes that stay pinned or unopened can be mounted.
LEMMA MadeMounts ==
  /\ \A d \in Devs : <<"dev", d>> \in Mounts /\ <<"dev", d>> # Null
  /\ \A k \in 1..Len(mounted) : <<"fs", k>> \in Mounts /\ <<"fs", k>> # Null
  BY DEF Mounts, Null

Missing(e, rest, i) == e # Null => i # 0 /\ (e[1] = "fs" => Up(rest, i) \notin DOMAIN disk[DeviceOf(e)])
\* where i tokens lead from an entry of the tree
ReachedOn(e, rest, i, pl) ==
  \/ i = 0 /\ pl = Place(e, <<>>)
  \/ pl = Place(Null, <<>>) /\ Missing(e, rest, i)
  \/ i # 0 /\ e[1] = "fs" /\ pl = Place(e, Up(rest, i)) /\ Up(rest, i) \in DOMAIN disk[DeviceOf(e)]
  \/ e = Proc(0) /\ i = 1 /\ pl = Place(e, Up(rest, 1))
  \/ e = Devfs /\ i = 1 /\ \E k \in 1..Len(nodes) : pl = Place(<<"slot", k>>, <<>>) /\ nodes[k].name = rest[1]
Reached(e, rest, i, pl) ==
  pl = Place(Wild, <<>>) \/ IF Astray(e, rest, i) THEN StrayPlace(rest, i, pl) ELSE ReachedOn(e, rest, i, pl)

\* The first token of a path.
LEMMA FirstUp ==
  ASSUME NEW rest \in Strings, 0 < Len(rest)
  PROVE  Up(rest, 1) = <<rest[1]>> /\ Append(<<>>, rest[1]) = Up(rest, 1) /\ rest[1] \in Names
<1>0. PICK z \in 0..Len(rest) : z = 0 /\ z < Len(rest) /\ z + 1 = 1
  BY DEF Strings
<1>1. Append(Up(rest, z), rest[z + 1]) = Up(rest, z + 1)
  BY <1>0, UpNext
<1>2. Up(rest, 0) = <<>>
  BY UpIs DEF Strings
<1>3. rest[1] \in Names
  BY DEF Strings
<1>4. Append(<<>>, rest[1]) = Up(rest, 1)
  BY <1>0, <1>1, <1>2, Zenon
<1>5. Append(<<>>, rest[1]) = <<rest[1]>>
  BY <1>3
<1> QED BY <1>3, <1>4, <1>5

\* from the entry itself
LEMMA FindFirst ==
  ASSUME FilesHere, NEW e \in Mounts, NEW rest \in Strings, 0 < Len(rest),
         NEW r \in VFS_finddir(Place(e, <<>>), rest[1])
  PROVE  Reached(e, rest, 1, r)
<1>1. Append(<<>>, rest[1]) = Up(rest, 1) /\ <<rest[1]>> = Up(rest, 1) /\ rest[1] \in Names
  BY FirstUp
<1>2. PICK x, u : x = rest[1] /\ u = Up(rest, 1)
  OBVIOUS
<1>3. Place(e, <<>>).n = e /\ Place(e, <<>>).q = <<>>
  BY DEF Place
<1>4. ReachedOn(e, rest, 1, r) \/ r = Place(Wild, <<>>) => Astray(e, rest, 1) \/ Reached(e, rest, 1, r)
  BY Zenon DEF Reached
<1>5. CASE e = Null
  <2>1. r = Place(e, <<>>)
    <3>1. Place(e, <<>>).n \in {Null, Wild}
      BY <1>3, <1>5
    <3>2. Place(e, <<>>).n[1] # "fs" /\ Place(e, <<>>).n # Devfs /\ Place(e, <<>>).n # Proc(0)
      BY <1>3, <1>5, Kinds
    <3> QED BY <3>1, <3>2 DEF VFS_finddir, IsSorfs
  <2>2. ~Astray(e, rest, 1)
    BY <1>5, Kinds DEF Astray, IsSorfs
  <2> QED BY <1>4, <1>5, <2>1, <2>2 DEF ReachedOn, Missing
<1>6. CASE e = Devfs
  <2>1. r \in devfs_finddir(x)
    BY <1>2, <1>3, <1>6, Kinds DEF VFS_finddir, IsSorfs
  <2>2. ~Astray(e, rest, 1)
    BY <1>6, Kinds DEF Astray, IsSorfs
  <2>3. CASE SlotsNamed(x) = {}
    BY <1>4, <2>1, <2>3, <2>2 DEF devfs_finddir
  <2>4. CASE SlotsNamed(x) # {}
    <3>1. PICK S : S = SlotsNamed(x)
      OBVIOUS
    <3>2. PICK one \in Int : one = 1
      OBVIOUS
    <3>3. S \in SUBSET Int /\ S # {} /\ \A i \in S : one <= i
      BY <2>4, <3>1, <3>2 DEF SlotsNamed
    <3>4. \E k \in S : \A y \in S : k <= y
      BY <3>3, LeastOf
    <3>5. PICK k : k = Min(S)
      OBVIOUS
    <3>6. k \in S
      BY <3>4, <3>5 DEF Min
    <3>7. r = Place(<<"slot", k>>, <<>>)
      BY <2>1, <2>4, <3>1, <3>5 DEF devfs_finddir
    <3>8. k \in 1..Len(nodes) /\ nodes[k].name = x
      BY <3>1, <3>6 DEF SlotsNamed
    <3>9. ReachedOn(e, rest, 1, r)
      BY <1>2, <1>6, <3>7, <3>8 DEF ReachedOn
    <3> QED BY <1>4, <2>2, <3>9
  <2> QED BY <2>3, <2>4
<1>7. CASE e = Proc(0)
  <2>1. r \in procfs_finddir(x)
    BY <1>2, <1>3, <1>7, Kinds DEF VFS_finddir, IsSorfs
  <2>2. e # Null /\ e[1] # "fs" /\ ~Astray(e, rest, 1)
    BY <1>7, Kinds DEF Astray, IsSorfs
  <2>3. ReachedOn(e, rest, 1, r)
    BY <1>1, <1>2, <1>7, <2>1, <2>2 DEF procfs_finddir, ReachedOn, Missing
  <2> QED BY <1>4, <2>2, <2>3
<1>8. CASE e # Proc(0) /\ (e[1] = "proc" \/ e[1] = "dev")
  <2>1. r = Place(Null, <<>>)
    BY <1>3, <1>8, Kinds DEF VFS_finddir, IsSorfs
  <2>2. ~Astray(e, rest, 1)
    BY <1>8 DEF Astray, IsSorfs
  <2> QED BY <1>4, <1>8, <2>1, <2>2 DEF ReachedOn, Missing
<1>9. CASE e[1] = "fs" /\ DiskType[DeviceOf(e)] = "ext2"
  <2>1. r \in EXT2_finddir(Place(e, <<>>), x)
    BY <1>2, <1>3, <1>9, Kinds DEF VFS_finddir, IsSorfs
  <2>2. r = IF u \in DOMAIN disk[DeviceOf(e)] THEN Place(e, u) ELSE Place(Null, <<>>)
    BY <1>1, <1>2, <1>3, <2>1 DEF EXT2_finddir
  <2>3. ~Astray(e, rest, 1)
    BY <1>9 DEF Astray, IsSorfs
  <2>4. ReachedOn(e, rest, 1, r)
    BY <1>2, <1>9, <2>2 DEF ReachedOn, Missing
  <2> QED BY <1>4, <2>3, <2>4
<1>10. CASE e[1] = "fs" /\ DiskType[DeviceOf(e)] = "sorfs"
  <2>1. r \in sorfs_finddir(Place(e, <<>>), x) /\ IsSorfs(e)
    BY <1>2, <1>3, <1>10, Kinds DEF VFS_finddir, IsSorfs
  <2>2. CASE e = SorfsRoot
    <3>1. Place(e, <<>>) = Place(SorfsRoot, <<>>)
      BY <2>2
    <3>2. r = IF u \in DOMAIN disk[DeviceOf(e)] THEN Place(e, u)
              ELSE Place(IF DOMAIN disk[DeviceOf(e)] = {} THEN Null ELSE Wild, <<>>)
      BY <1>1, <1>2, <1>3, <2>1, <2>2, <3>1 DEF sorfs_finddir
    <3>3. ~Astray(e, rest, 1)
      BY <2>2 DEF Astray
    <3>4. ReachedOn(e, rest, 1, r) \/ r = Place(Wild, <<>>)
      BY <1>2, <1>10, <3>2 DEF ReachedOn, Missing
    <3> QED BY <1>4, <3>3, <3>4
  <2>3. CASE e # SorfsRoot
    <3>1. Place(e, <<>>) # Place(SorfsRoot, <<>>)
      BY <1>3, <2>3 DEF Place
    <3>2. r = Place(SorfsRoot, <<>>)
      BY <1>3, <2>1, <3>1 DEF sorfs_finddir
    <3>3. Astray(e, rest, 1)
      BY <2>1, <2>3 DEF Astray
    <3> QED BY <3>2, <3>3 DEF Reached, StrayPlace
  <2> QED BY <2>2, <2>3
<1> QED BY <1>5, <1>6, <1>7, <1>8, <1>9, <1>10, MountIs DEF FilesHere

\* from a place on the disk the path is mounted on
LEMMA FindNextOn ==
  ASSUME FilesHere, NEW e \in Mounts, NEW rest \in Strings, NEW i \in 1..Len(rest) - 1, ~Astray(e, rest, i),
         NEW pl, ReachedOn(e, rest, i, pl), NEW r \in VFS_finddir(pl, rest[i + 1])
  PROVE  Reached(e, rest, i + 1, r)
<1>0. i \in 0..Len(rest) /\ i < Len(rest) /\ i + 1 # 0 /\ i # 0 /\ i + 1 \in 0..Len(rest)
  BY DEF Strings
<1>1. PICK x, u, v, j : x = rest[i + 1] /\ u = Up(rest, i) /\ v = Up(rest, i + 1) /\ j = i + 1
  OBVIOUS
<1>2. Append(u, x) = v
  BY <1>0, <1>1, UpNext
<1>3. u # <<>> /\ Len(u) = i /\ Len(v) = i + 1 /\ i \in Nat
  BY <1>0, <1>1, UpIs
<1>4. \A n, q : Place(n, q).n = n /\ Place(n, q).q = q
  BY DEF Place
<1>5. j # 0 /\ v = Up(rest, j)
  BY <1>0, <1>1
<1>6. ReachedOn(e, rest, j, r) \/ r = Place(Wild, <<>>) => Astray(e, rest, i + 1) \/ Reached(e, rest, i + 1, r)
  BY <1>1, Zenon DEF Reached
<1>7. ~IsSorfs(e) => ~Astray(e, rest, i + 1)
  BY DEF Astray
<1>8. CASE pl = Place(Null, <<>>) /\ Missing(e, rest, i)
  <2>1. r = pl
    <3>1. pl.n = Null /\ pl.n[1] # "fs" /\ pl.n # Devfs /\ pl.n # Proc(0)
      BY <1>4, <1>8, Kinds
    <3> QED BY <3>1 DEF VFS_finddir, IsSorfs
  <2>2. ASSUME e # Null, e[1] = "fs" PROVE v \notin DOMAIN disk[DeviceOf(e)]
    <3>1. SUFFICES ASSUME v \in DOMAIN disk[DeviceOf(e)] PROVE FALSE
      OBVIOUS
    <3>2. DeviceOf(e) \in Devs
      BY <2>2, MountIs, Kinds DEF FilesHere
    <3>3. i \in 1..Len(v)
      BY <1>0, <1>3
    <3>4. Up(v, i) \in DOMAIN disk[DeviceOf(e)]
      BY <3>1, <3>2, <3>3 DEF FilesHere, DiskOk
    <3>5. Up(v, i) = u
      <4>1. i \in 0..i + 1
        BY <1>0
      <4> QED BY <1>0, <1>1, <4>1, UpOfUp
    <3> QED BY <1>1, <1>8, <2>2, <3>4, <3>5 DEF Missing
  <2>3. ReachedOn(e, rest, j, r)
    BY <1>1, <1>5, <1>8, <2>1, <2>2 DEF ReachedOn, Missing
  <2>4. ~Astray(e, rest, i + 1)
    <3>1. SUFFICES ASSUME Astray(e, rest, i + 1) PROVE FALSE
      OBVIOUS
    <3>2. IsSorfs(e) /\ e = SorfsRoot /\ <<rest[1]>> \in DOMAIN disk[DeviceOf(e)]
      BY <1>0, <3>1 DEF Astray
    <3>3. i = 1
      BY <1>0, <3>2 DEF Astray
    <3>4. Up(rest, 1) = <<rest[1]>> /\ e # Null /\ e[1] = "fs"
      BY <3>2, FirstUp, <1>0, Kinds DEF IsSorfs
    <3> QED BY <1>8, <3>2, <3>3, <3>4 DEF Missing
  <2> QED BY <1>6, <2>3, <2>4
<1>9. CASE e[1] = "fs" /\ pl = Place(e, u) /\ u \in DOMAIN disk[DeviceOf(e)]
  <2>1. pl.n = e /\ pl.q = u /\ DeviceOf(e) \in Devs /\ e # Null /\ e # Wild /\ e # Devfs /\ \A k : e # Proc(k)
    BY <1>4, <1>9, MountIs, Kinds DEF FilesHere
  <2>2. CASE DiskType[DeviceOf(e)] = "ext2"
    <3>1. r \in EXT2_finddir(pl, x)
      BY <1>1, <1>9, <2>1, <2>2 DEF VFS_finddir, IsSorfs
    <3>2. r = IF v \in DOMAIN disk[DeviceOf(e)] THEN Place(e, v) ELSE Place(Null, <<>>)
      BY <1>2, <2>1, <3>1 DEF EXT2_finddir
    <3>3. ReachedOn(e, rest, j, r)
      BY <1>1, <1>5, <1>9, <3>2 DEF ReachedOn, Missing
    <3>4. ~IsSorfs(e)
      BY <2>2 DEF IsSorfs
    <3> QED BY <1>6, <1>7, <3>3, <3>4
  <2>3. CASE DiskType[DeviceOf(e)] = "sorfs"
    <3>1. r \in sorfs_finddir(pl, x) /\ IsSorfs(e)
      BY <1>1, <1>9, <2>1, <2>3 DEF VFS_finddir, IsSorfs
    <3>2. pl # Place(SorfsRoot, <<>>)
      BY <1>3, <1>4, <2>1
    <3>3. r = Place(Null, <<>>) \/ r = Place(SorfsRoot, <<>>) \/ r = Place(Wild, <<>>)
      BY <1>3, <2>1, <3>1, <3>2 DEF sorfs_finddir
    <3>4. i = 1
      <4>1. Len(u) = 1
        BY <1>9, <2>1, <2>3 DEF FilesHere, DiskOk
      <4> QED BY <1>3, <4>1
    <3>5. Astray(e, rest, i + 1) /\ i + 1 # 1
      <4>1. <<rest[1]>> \in DOMAIN disk[DeviceOf(e)]
        BY <1>0, <1>1, <1>9, <3>4, FirstUp
      <4> QED BY <1>0, <3>1, <4>1 DEF Astray
    <3> QED BY <3>3, <3>5 DEF Reached, StrayPlace
  <2> QED BY <1>9, <2>1, <2>2, <2>3, MountIs, Kinds DEF FilesHere
<1>10. CASE e = Proc(0) /\ pl = Place(e, Up(rest, 1)) /\ i = 1
  <2>1. pl.n = e /\ pl.q = u /\ e # Null /\ e # Wild /\ e # Devfs /\ e[1] # "fs"
    BY <1>1, <1>4, <1>10, Kinds
  <2>2. r \in {Place(Wild, <<>>), Place(Null, <<>>)}
    BY <1>3, <1>10, <2>1 DEF VFS_finddir, IsSorfs
  <2>3. ReachedOn(e, rest, j, r) \/ r = Place(Wild, <<>>)
    BY <1>1, <1>5, <2>1, <2>2 DEF ReachedOn, Missing
  <2> QED BY <1>6, <1>7, <2>1, <2>3 DEF IsSorfs
<1>11. ASSUME e = Devfs, NEW k \in 1..Len(nodes), pl = Place(<<"slot", k>>, <<>>) PROVE Reached(e, rest, i + 1, r)
  <2>1. PICK s : s = <<"slot", k>> /\ s[1] = "slot" /\ pl.n = s
    BY <1>4, <1>11
  <2>2. r = Place(Null, <<>>)
    BY <2>1, Kinds DEF VFS_finddir, IsSorfs
  <2>3. ReachedOn(e, rest, j, r) /\ e[1] # "fs"
    BY <1>1, <1>5, <1>11, <2>2, Kinds DEF ReachedOn, Missing
  <2> QED BY <1>6, <1>7, <2>3 DEF IsSorfs
<1> QED BY <1>0, <1>1, <1>8, <1>9, <1>10, <1>11 DEF ReachedOn

\* from a place that SORFS has led to astray
LEMMA FindNextAstray ==
  ASSUME FilesHere, NEW e \in Mounts, NEW rest \in Strings, NEW i \in 1..Len(rest) - 1, Astray(e, rest, i),
         NEW pl, StrayPlace(rest, i, pl), NEW r \in VFS_finddir(pl, rest[i + 1])
  PROVE  Reached(e, rest, i + 1, r)
<1>0. i \in Int /\ i + 1 # 0 /\ i + 1 # 1
  BY DEF Strings
<1>1. Astray(e, rest, i + 1)
  BY <1>0 DEF Astray
<1>2. \A n, q : Place(n, q).n = n /\ Place(n, q).q = q
  BY DEF Place
<1>3. PICK g : /\ g = SorfsRoot /\ IsSorfs(g) /\ g[1] = "fs" /\ DiskType[DeviceOf(g)] = "sorfs"
               /\ g \notin {Null, Wild} /\ g # Devfs /\ g # Proc(0)
  <2>1. IsSorfs(e)
    BY DEF Astray
  <2> QED BY <2>1, SorfsRootIs, Kinds DEF FilesHere, IsSorfs
<1>4. PICK x : x = rest[i + 1]
  OBVIOUS
<1>5. CASE pl = Place(Null, <<>>)
  <2>1. pl.n = Null /\ pl.n[1] # "fs" /\ pl.n # Devfs /\ pl.n # Proc(0)
    BY <1>2, <1>5, Kinds
  <2>2. r = Place(Null, <<>>)
    BY <1>5, <2>1 DEF VFS_finddir, IsSorfs
  <2> QED BY <1>0, <1>1, <2>2 DEF Reached, StrayPlace
<1>6. ASSUME NEW q, pl = Place(g, q) PROVE r \in sorfs_finddir(pl, x) /\ pl.n = g /\ pl.q = q
  <2>1. pl.n = g /\ pl.q = q
    BY <1>2, <1>6
  <2> QED BY <1>3, <1>4, <2>1 DEF VFS_finddir
<1>7. CASE pl = Place(g, <<>>)
  <2>1. r \in sorfs_finddir(pl, x) /\ pl = Place(SorfsRoot, <<>>)
    BY <1>3, <1>6, <1>7
  <2>2. \/ r = Place(SorfsRoot, <<x>>) /\ <<x>> \in DOMAIN disk[DeviceOf(SorfsRoot)]
        \/ r = Place(Null, <<>>) \/ r = Place(Wild, <<>>)
    <3>1. r = IF <<x>> \in DOMAIN disk[DeviceOf(SorfsRoot)] THEN Place(SorfsRoot, <<x>>)
              ELSE Place(IF DOMAIN disk[DeviceOf(SorfsRoot)] = {} THEN Null ELSE Wild, <<>>)
      BY <1>2, <2>1 DEF sorfs_finddir
    <3> QED BY <3>1, Zenon
  <2> QED BY <1>0, <1>1, <1>4, <2>2 DEF Reached, StrayPlace
<1>8. CASE pl = Place(g, <<rest[i]>>)
  <2>1. r \in sorfs_finddir(pl, x) /\ pl.q # <<>>
    <3>1. r \in sorfs_finddir(pl, x) /\ pl.q = <<rest[i]>>
      BY <1>6, <1>8, Zenon
    <3>2. PICK y : y = rest[i]
      OBVIOUS
    <3>3. Len(<<y>>) # Len(<<>>)
      OBVIOUS
    <3> QED BY <3>1, <3>2, <3>3
  <2>2. pl # Place(SorfsRoot, <<>>)
    BY <1>2, <2>1
  <2>3. r = Place(Null, <<>>) \/ r = Place(SorfsRoot, <<>>) \/ r = Place(Wild, <<>>)
    BY <2>1, <2>2 DEF sorfs_finddir
  <2> QED BY <1>0, <1>1, <2>3 DEF Reached, StrayPlace
<1> QED BY <1>3, <1>5, <1>7, <1>8 DEF StrayPlace

\* from what was reached
LEMMA FindNext ==
  ASSUME FilesHere, NEW e \in Mounts, NEW rest \in Strings, NEW i \in 1..Len(rest) - 1,
         NEW pl, Reached(e, rest, i, pl), NEW r \in VFS_finddir(pl, rest[i + 1])
  PROVE  Reached(e, rest, i + 1, r)
<1>1. CASE pl = Place(Wild, <<>>)
  <2>1. pl.n = Wild /\ pl.n[1] # "fs" /\ pl.n # Devfs /\ pl.n # Proc(0)
    BY <1>1, Kinds DEF Place
  <2>2. r = pl
    BY <2>1 DEF VFS_finddir, IsSorfs
  <2> QED BY <1>1, <2>2 DEF Reached
<1>2. CASE Astray(e, rest, i) /\ StrayPlace(rest, i, pl)
  BY <1>2, FindNextAstray
<1>3. CASE ~Astray(e, rest, i) /\ ReachedOn(e, rest, i, pl)
  BY <1>3, FindNextOn
<1> QED BY <1>1, <1>2, <1>3, Zenon DEF Reached

\* along of Resolve, for its first m tokens
Goes(f, e, rest, m) ==
  f = [i \in 0..m |-> IF i = 0 THEN {Place(e, <<>>)} ELSE UNION {VFS_finddir(pl, rest[i]) : pl \in f[i - 1]}]

\* The function a path is looked up by exists for every number of tokens.
LEMMA GoesExists ==
  ASSUME NEW e, NEW rest, NEW n \in Nat
  PROVE  \E f : Goes(f, e, rest, n)
<1> DEFINE S == {m \in 0..n : \E f : Goes(f, e, rest, m)}
<1>1. 0 \in S
  <2> DEFINE f == [i \in 0..0 |-> {Place(e, <<>>)}]
  <2>1. f = [i \in 0..0 |-> IF i = 0 THEN {Place(e, <<>>)} ELSE UNION {VFS_finddir(pl, rest[i]) : pl \in f[i - 1]}]
    <3>1. \A i \in 0..0 : i = 0
      OBVIOUS
    <3>2. \A i \in 0..0 : f[i] = IF i = 0 THEN {Place(e, <<>>)} ELSE UNION {VFS_finddir(pl, rest[i]) : pl \in f[i - 1]}
      BY <3>1, Zenon
    <3>3. f = [i \in 0..0 |-> f[i]]
      OBVIOUS
    <3> HIDE DEF f
    <3> QED BY <3>2, <3>3, Zenon
  <2>2. Goes(f, e, rest, 0)
    BY <2>1, Zenon DEF Goes
  <2> HIDE DEF f
  <2>3. \E g : Goes(g, e, rest, 0)
    BY <2>2
  <2> QED BY <2>3
<1>2. ASSUME NEW m \in 0 + 1..n, m - 1 \in S PROVE m \in S
  <2>1. PICK l \in 0..n : l = m - 1 /\ m = l + 1
    BY <1>2
  <2>2. PICK g : Goes(g, e, rest, l)
    BY <1>2, <2>1
  <2> DEFINE h == [i \in 0..m |-> IF i = 0 THEN {Place(e, <<>>)} ELSE UNION {VFS_finddir(pl, rest[i]) : pl \in g[i - 1]}]
  <2>3. \A i \in 0..l : g[i] = IF i = 0 THEN {Place(e, <<>>)} ELSE UNION {VFS_finddir(pl, rest[i]) : pl \in g[i - 1]}
    BY <2>2, Zenon DEF Goes
  <2>4. \A i \in 0..l : i \in 0..m
    BY <2>1
  <2>5. \A i \in 0..l : h[i] = g[i]
    BY <2>3, <2>4, Zenon
  <2>6. \A i \in 0..m : h[i] = IF i = 0 THEN {Place(e, <<>>)} ELSE UNION {VFS_finddir(pl, rest[i]) : pl \in h[i - 1]}
    <3>1. ASSUME NEW i \in 0..m PROVE h[i] = IF i = 0 THEN {Place(e, <<>>)} ELSE UNION {VFS_finddir(pl, rest[i]) : pl \in h[i - 1]}
      <4>1. CASE i = 0
        BY <3>1, <4>1, Zenon
      <4>2. CASE i # 0
        <5>1. i - 1 \in 0..l
          BY <2>1, <3>1, <4>2
        <5>2. h[i - 1] = g[i - 1]
          BY <2>5, <5>1
        <5>3. h[i] = UNION {VFS_finddir(pl, rest[i]) : pl \in g[i - 1]}
          BY <3>1, <4>2, Zenon
        <5> HIDE DEF h
        <5> QED BY <4>2, <5>2, <5>3, Zenon
      <4> QED BY <4>1, <4>2
    <3> QED BY <3>1
  <2>7. h = [i \in 0..m |-> h[i]]
    OBVIOUS
  <2> HIDE DEF h
  <2>8. h = [i \in 0..m |-> IF i = 0 THEN {Place(e, <<>>)} ELSE UNION {VFS_finddir(pl, rest[i]) : pl \in h[i - 1]}]
    BY <2>6, <2>7, Zenon
  <2>9. Goes(h, e, rest, m)
    BY <2>8, Zenon DEF Goes
  <2>10. \E f : Goes(f, e, rest, m)
    BY <2>9
  <2> QED BY <1>2, <2>10
<1>3. \A m \in 0..n : m \in S
  <2>1. 0 \in Int /\ n \in Int
    OBVIOUS
  <2> HIDE DEF S
  <2>2. PICK z : z = 0 /\ z \in Int
    OBVIOUS
  <2>3. z \in S /\ \A m \in z + 1..n : m - 1 \in S => m \in S
    BY <1>1, <1>2, <2>2
  <2>4. \A m \in z..n : m \in S
    BY <2>1, <2>2, <2>3, RangeInduct
  <2> QED BY <2>2, <2>4
<1>4. n \in S
  BY <1>3
<1> QED BY <1>4

\* A lookup of all tokens below an entry reaches what the driver has there.
LEMMA GoesReached ==
  ASSUME FilesHere, NEW e \in Mounts, NEW rest \in Strings, NEW f, Goes(f, e, rest, Len(rest)), NEW pl \in f[Len(rest)]
  PROVE  Reached(e, rest, Len(rest), pl)
<1>0. PICK n \in Nat : n = Len(rest)
  BY DEF Strings
<1>1. \A i \in 0..n : f[i] = IF i = 0 THEN {Place(e, <<>>)} ELSE UNION {VFS_finddir(x, rest[i]) : x \in f[i - 1]}
  BY <1>0, Zenon DEF Goes
<1> DEFINE S == {i \in 0..n : \A x \in f[i] : Reached(e, rest, i, x)}
<1>2. 0 \in S
  <2>1. f[0] = {Place(e, <<>>)}
    <3>1. 0 \in 0..n
      OBVIOUS
    <3> QED BY <1>1, <3>1, Zenon
  <2>2. \A x \in f[0] : Reached(e, rest, 0, x)
    BY <2>1, Zenon DEF Reached, ReachedOn, Astray
  <2> QED BY <2>2
<1>3. ASSUME NEW i \in 0 + 1..n, i - 1 \in S PROVE i \in S
  <2>1. PICK k \in 0..n : k = i - 1 /\ i = k + 1 /\ i # 0 /\ i \in 0..n
    BY <1>3
  <2>2. ASSUME NEW x \in f[i] PROVE Reached(e, rest, i, x)
    <3>1. f[i] = UNION {VFS_finddir(y, rest[i]) : y \in f[k]}
      BY <1>1, <2>1
    <3>2. PICK y \in f[k] : x \in VFS_finddir(y, rest[i])
      BY <2>2, <3>1
    <3>3. Reached(e, rest, k, y)
      BY <1>3, <2>1, <3>2
    <3>4. CASE k = 0
      <4>1. y = Place(e, <<>>)
        <5>0. 0 \in 0..n
          OBVIOUS
        <5>1. f[0] = {Place(e, <<>>)}
          BY <1>1, <5>0, Zenon
        <5> QED BY <3>2, <3>4, <5>1
      <4>2. i = 1 /\ 0 < Len(rest) /\ x \in VFS_finddir(Place(e, <<>>), rest[1])
        BY <1>0, <2>1, <3>2, <3>4, <4>1
      <4> QED BY <4>2, FindFirst
    <3>5. CASE k # 0
      <4>1. k \in 1..Len(rest) - 1 /\ x \in VFS_finddir(y, rest[k + 1])
        BY <1>0, <2>1, <3>2, <3>5, <1>3
      <4>2. Reached(e, rest, k + 1, x)
        BY <3>3, <4>1, FindNext
      <4> QED BY <2>1, <4>2
    <3> QED BY <3>4, <3>5
  <2> QED BY <2>1, <2>2
<1>4. \A i \in 0..n : i \in S
  <2> HIDE DEF S
  <2>2. PICK z : z = 0 /\ z \in Int
    OBVIOUS
  <2>3. z \in S /\ \A m \in z + 1..n : m - 1 \in S => m \in S
    BY <1>2, <1>3, <2>2
  <2>4. \A m \in z..n : m \in S
    BY <2>2, <2>3, RangeInduct
  <2> QED BY <2>2, <2>4
<1>5. n \in S
  BY <1>4
<1> QED BY <1>0, <1>5

TreeNodes == \A q \in DOMAIN tree : tree[q] \in Mounts

\* Where a path leads: nowhere, to the root, to the wild write or below its nearest entry.
LEMMA ResolveIs ==
  ASSUME FilesHere, TreeOk, TreeNodes, NEW p \in Strings, NEW pl \in Resolve(p)
  PROVE  \/ p = Relative /\ pl = Place(Null, <<>>)
         \/ p = Root /\ pl = Place(vfs_root, <<>>)
         \/ pl = Place(Wild, <<>>)
         \/ p \notin {Relative, Root} /\ Reached(tree[NearestEntry(p)], Rest(p), Len(Rest(p)), pl)
<1>1. PICK d, e, rest : d = Descent(p) /\ e = tree[d.at] /\ rest = d.rest
  OBVIOUS
<1>2. e = tree[NearestEntry(p)] /\ rest = Rest(p) /\ rest \in Strings /\ e \in Mounts
  BY <1>1, DescentIs DEF TreeNodes
<1>3. PICK f : f = CHOOSE g : Goes(g, e, rest, Len(rest))
  OBVIOUS
<1>4. Goes(f, e, rest, Len(rest))
  <2>1. Len(rest) \in Nat
    BY <1>2 DEF Strings
  <2>2. \E g : Goes(g, e, rest, Len(rest))
    BY <2>1, GoesExists
  <2> QED BY <1>3, <2>2, Zenon
<1>5. Resolve(p) =
        IF p = Relative THEN {Place(Null, <<>>)}
        ELSE IF p = Root THEN {Place(vfs_root, <<>>)}
        ELSE IF Last(p) = NoName THEN {Place(Wild, <<>>)}
        ELSE f[Len(rest)]
  <2> DEFINE along[i \in 0..Len(Descent(p).rest)] ==
        IF i = 0 THEN {Place(tree[Descent(p).at], <<>>)}
        ELSE UNION {VFS_finddir(x, Descent(p).rest[i]) : x \in along[i - 1]}
  <2>1. f = CHOOSE g : Goes(g, tree[Descent(p).at], Descent(p).rest, Len(Descent(p).rest))
    BY <1>1, <1>3, Zenon
  <2>2. along = f
    BY <2>1, Zenon DEF Goes
  <2>3. Resolve(p) =
        IF p = Relative THEN {Place(Null, <<>>)}
        ELSE IF p = Root THEN {Place(vfs_root, <<>>)}
        ELSE IF Last(p) = NoName THEN {Place(Wild, <<>>)}
        ELSE along[Len(Descent(p).rest)]
    BY Zenon DEF Resolve
  <2>4. Len(rest) = Len(Descent(p).rest)
    BY <1>1, Zenon
  <2> HIDE DEF along
  <2> QED BY <2>2, <2>3, <2>4, Zenon
<1>6. pl \in f[Len(rest)] => Reached(e, rest, Len(rest), pl)
  BY <1>2, <1>4, GoesReached
<1>7. CASE p = Relative
  BY <1>5, <1>7, Zenon
<1>8. CASE p # Relative /\ p = Root
  BY <1>5, <1>8, Zenon
<1>9. CASE p # Relative /\ p # Root
  <2>1. pl \in IF Last(p) = NoName THEN {Place(Wild, <<>>)} ELSE f[Len(rest)]
    BY <1>5, <1>9, Zenon
  <2>2. pl = Place(Wild, <<>>) \/ pl \in f[Len(rest)]
    BY <2>1, Zenon
  <2> QED BY <1>2, <1>6, <1>9, <2>2, Zenon
<1> QED BY <1>7, <1>8, <1>9, Zenon

-----------------------------------------------------------------------------
(* What mounting and unmounting do to the tree. *)

RootOk == ~odd => RootAgrees

\* "/" is the mount point of the root entry.
LEMMA RootPoint ==
  /\ Point(Root) = <<>>
<1>1. Root \in Strings /\ Len(Root) = 1 /\ Root[1] = NoName
  BY DEF Root, Strings, Names
<1>2. PICK s \in 1..Len(Root) + 1 : PointAt(Root, s)
  BY <1>1, PointIs
<1>3. s = 1
  <2>1. s # 2
    <3>1. SUFFICES ASSUME s = 2 PROVE FALSE
      OBVIOUS
    <3>2. 1 \in 1..s - 1
      BY <3>1
    <3> QED BY <1>1, <1>2, <3>2 DEF PointAt
  <2> QED BY <1>1, <1>2, <2>1
<1>4. Point(Root) = Up(Root, s - 1) /\ s - 1 = 0
  BY <1>2, <1>3 DEF PointAt
<1>5. Up(Root, 0) = <<>>
  BY <1>1, UpIs
<1> QED BY <1>4, <1>5, Zenon

\* The mount point of a path is a path.
LEMMA PointIn ==
  ASSUME NEW p \in Strings
  PROVE  Point(p) \in Strings
<1>1. PICK s \in 1..Len(p) + 1 : PointAt(p, s)
  BY PointIs
<1>2. s - 1 \in 0..Len(p)
  BY DEF Strings
<1> QED BY <1>1, <1>2, UpIs DEF PointAt

\* the entries that are missing above a mount point
Grown(t, pt) ==
  /\ DOMAIN t \subseteq Strings /\ <<>> \in DOMAIN t /\ pt \in DOMAIN t
  /\ \A q \in DOMAIN t : \A i \in 0..Len(q) : Up(q, i) \in DOMAIN t
  /\ DOMAIN tree \subseteq DOMAIN t
  /\ \A q \in DOMAIN t : IF q \in DOMAIN tree THEN t[q] = tree[q] ELSE t[q] = Null

\* VFS_mount_recur adds the missing entries and changes none.
LEMMA EntriesGrow ==
  ASSUME TreeOk, NEW pt \in Strings
  PROVE  Grown(WithEntries(pt), pt)
<1>1. PICK t, A : t = WithEntries(pt) /\ A = AllPrefixes(pt)
  OBVIOUS
<1>2. DOMAIN t = DOMAIN tree \cup A /\ \A q \in DOMAIN t : t[q] = IF q \in DOMAIN tree THEN tree[q] ELSE Null
  BY <1>1 DEF WithEntries
<1>3. A = {Up(pt, i) : i \in 0..Len(pt)}
  BY <1>1 DEF AllPrefixes, Up
<1>4. A \subseteq Strings
  BY <1>3, UpIs
<1>5. pt \in A
  <2>1. Len(pt) \in 0..Len(pt) /\ Up(pt, Len(pt)) = pt
    BY UpIs DEF Strings
  <2> QED BY <1>3, <2>1
<1>6. ASSUME NEW q \in A, NEW i \in 0..Len(q) PROVE Up(q, i) \in A
  <2>1. PICK j \in 0..Len(pt) : q = Up(pt, j)
    BY <1>3, <1>6
  <2>2. i \in 0..j
    BY <2>1, UpIs
  <2>3. Up(q, i) = Up(pt, i)
    BY <2>1, <2>2, UpOfUp
  <2>4. i \in 0..Len(pt)
    BY <2>1, <2>2 DEF Strings
  <2> QED BY <1>3, <2>3, <2>4
<1>7. \A q \in DOMAIN t : \A i \in 0..Len(q) : Up(q, i) \in DOMAIN t
  BY <1>2, <1>6 DEF TreeOk
<1> QED BY <1>1, <1>2, <1>4, <1>5, <1>7 DEF Grown, TreeOk

\* The tree changes at most at one entry, which is n from then on.
Changed(n) ==
  \A q \in DOMAIN tree' : \/ tree'[q] = Null \/ tree'[q] = n
                          \/ q \in DOMAIN tree /\ tree'[q] = tree[q]

\* A mount changes one entry, and the root's only together with vfs_root.
LEMMA MountedIs ==
  ASSUME TreeOk, RootOk, NEW p \in Strings, NEW n, Mounted(p, n)
  PROVE  TreeOk' /\ RootOk' /\ Changed(n) /\ vfs_root' \in {n, vfs_root}
<1>1. PICK pt, t : pt = Point(p) /\ t = WithEntries(pt)
  OBVIOUS
<1>2. pt \in Strings /\ Grown(t, pt)
  BY <1>1, PointIn, EntriesGrow
<1>3. /\ tree' = IF t[pt] = Null THEN [t EXCEPT ![pt] = n] ELSE t
      /\ vfs_root' = IF p = Root /\ tree[<<>>] = Null THEN n ELSE vfs_root
      /\ odd' = (odd \/ (pt = <<>> /\ p # Root))
  BY <1>1, Zenon DEF Mounted
<1>4. DOMAIN tree' = DOMAIN t /\ \A q \in DOMAIN t : tree'[q] = IF q = pt /\ t[pt] = Null THEN n ELSE t[q]
  BY <1>3
<1>5. TreeOk'
  BY <1>2, <1>4 DEF TreeOk, Grown
<1>6. Changed(n)
  BY <1>2, <1>4 DEF Changed, Grown
<1>7. t[<<>>] = tree[<<>>] /\ <<>> \in DOMAIN t
  BY <1>2 DEF TreeOk, Grown
<1>8. ASSUME ~odd' PROVE tree'[<<>>] \in {Null, vfs_root'}
  <2>1. ~odd /\ (pt = <<>> => p = Root)
    BY <1>3, <1>8
  <2>2. tree[<<>>] \in {Null, vfs_root}
    BY <2>1 DEF RootOk, RootAgrees
  <2>3. CASE p = Root
    <3>1. pt = <<>>
      BY <1>1, <2>3, RootPoint
    <3> QED BY <1>3, <1>4, <1>7, <2>2, <2>3, <3>1
  <2>4. CASE p # Root
    BY <1>3, <1>4, <1>7, <2>1, <2>2, <2>4
  <2> QED BY <2>3, <2>4
<1>9. RootOk'
  BY <1>8 DEF RootOk, RootAgrees
<1> QED BY <1>3, <1>5, <1>6, <1>9

\* So does an unmount, which leaves nothing there.
LEMMA UnmountedIs ==
  ASSUME TreeOk, RootOk, NEW p \in Strings, VFS_unmount(p)
  PROVE  TreeOk' /\ RootOk' /\ Changed(Null)
<1>1. PICK pt, t : pt = Point(p) /\ t = WithEntries(pt)
  OBVIOUS
<1>2. pt \in Strings /\ Grown(t, pt)
  BY <1>1, PointIn, EntriesGrow
<1>3. /\ tree' = [t EXCEPT ![pt] = Null] /\ vfs_root' = vfs_root
      /\ odd' = (odd \/ (pt = <<>> /\ p # Root))
  BY <1>1, Zenon DEF VFS_unmount
<1>4. DOMAIN tree' = DOMAIN t /\ \A q \in DOMAIN t : tree'[q] = IF q = pt THEN Null ELSE t[q]
  BY <1>3
<1>5. TreeOk'
  BY <1>2, <1>4 DEF TreeOk, Grown
<1>6. Changed(Null)
  BY <1>2, <1>4 DEF Changed, Grown
<1>7. t[<<>>] = tree[<<>>] /\ <<>> \in DOMAIN t
  BY <1>2 DEF TreeOk, Grown
<1>8. ASSUME ~odd' PROVE tree'[<<>>] \in {Null, vfs_root'}
  <2>1. ~odd
    BY <1>3, <1>8
  <2>2. tree[<<>>] \in {Null, vfs_root}
    BY <2>1 DEF RootOk, RootAgrees
  <2> QED BY <1>3, <1>4, <1>7, <2>2
<1>9. RootOk'
  BY <1>8 DEF RootOk, RootAgrees
<1> QED BY <1>5, <1>6, <1>9

-----------------------------------------------------------------------------
(* The invariant. *)

\* the tree and its root, the slots, the disks that are mounted and the nodes that are allocated
FilesOk == /\ file \in Seq([at : Nodes, path : Strings]) /\ Len(file) \in 0..MaxFiles
           /\ \A k \in 1..Len(file) : file[k].at \in Mounts
Shape == /\ TreeOk /\ TreeNodes /\ vfs_root \in Mounts /\ RootOk
         /\ FilesHere /\ FilesOk

\* What is mounted is pinned, and every root a mount made; a driver's node is pinned or has not been opened.
Pins == /\ \A q \in DOMAIN tree : tree[q] = Null \/ ref[tree[q]] = -1
        /\ \A k \in 1..Len(mounted) : ref[<<"fs", k>>] = -1
        /\ vfs_root = Null \/ ref[vfs_root] = -1
        /\ \A d \in Devs : ref[<<"dev", d>>] \in {0, -1}

\* a slot or a file that has not been made yet
Unmade(n) == (n[1] = "slot" /\ n[2] > Len(nodes)) \/ (n[1] = "file" /\ n[2] > Len(file))
CountOf(n) ==
  /\ Unmade(n) => ref[n] = 0 /\ users[n] = 0
  /\ ~Uncleared(n) => ref[n] \in {0, -1}
  /\ ref[n] = -1 \/ ~Uncleared(n) \/ (IF Zeroed(n) THEN ref[n] = users[n] ELSE ref[n] >= users[n])
Counts == /\ ref \in [Nodes -> Int] /\ users \in [Counted -> Nat]
          /\ \A n \in Counted : CountOf(n)
ClosedOk == closed # Null => users[closed] = 0
AnswerOk == \A p : (last.path = p /\ p \notin {<<>>, Root, Relative}) => AnswerRight(p)

VInv == Shape /\ Pins /\ Counts /\ ClosedOk /\ AnswerOk

\* The invariant says what is claimed.
LEMMA VInvImplies ==
  ASSUME VInv
  PROVE  NearestMountAnswers /\ CountsUsers
<1>1. NearestMountAnswers
  BY Zenon DEF VInv, AnswerOk, Shape, RootOk, NearestMountAnswers
<1>2. CountsUsers
  BY Zenon DEF VInv, Counts, CountOf, ClosedOk, CountsUsers
<1> QED BY <1>1, <1>2

\* a place a path leads to
Here(pl) ==
  \/ pl = Place(Null, <<>>)
  \/ pl = Place(Wild, <<>>)
  \/ /\ pl.n \in Mounts /\ pl.n # Null /\ ref[pl.n] = -1
     /\ \/ pl = Place(pl.n, <<>>)
        \/ pl = Place(pl.n, pl.q) /\ pl.q \in Strings /\ pl.n[1] = "fs" /\ pl.q \in DOMAIN disk[DeviceOf(pl.n)]
        \/ pl = Place(pl.n, pl.q) /\ pl.q \in Strings /\ pl.n = Proc(0)
  \/ \E k \in 1..Len(nodes) : pl = Place(<<"slot", k>>, <<>>)

\* A path leads to a node that is there.
LEMMA PlaceIs ==
  ASSUME Shape, Pins, NEW p \in Strings, NEW pl \in Resolve(p)
  PROVE  Here(pl)
<1>0. \A n, q : Place(n, q).n = n /\ Place(n, q).q = q
  BY DEF Place
<1>1. CASE pl = Place(Null, <<>>) \/ pl = Place(Wild, <<>>)
  BY <1>1 DEF Here
<1>2. CASE pl = Place(vfs_root, <<>>)
  BY <1>0, <1>2 DEF Here, Shape, Pins
<1>3. ASSUME Reached(tree[NearestEntry(p)], Rest(p), Len(Rest(p)), pl) PROVE Here(pl)
  <2>1. PICK e, rest, n : e = tree[NearestEntry(p)] /\ rest = Rest(p) /\ n = Len(rest) /\ n \in Nat /\ rest \in Strings
                                  /\ Up(rest, n) = rest
    <3>1. Rest(p) \in Strings
      BY DescentIs DEF Shape
    <3>2. Up(Rest(p), Len(Rest(p))) = Rest(p) /\ Len(Rest(p)) \in Nat
      <4>1. Len(Rest(p)) \in Nat
        BY <3>1 DEF Strings
      <4>2. Len(Rest(p)) \in 0..Len(Rest(p))
        BY <4>1
      <4> QED BY <3>1, <4>1, <4>2, UpIs
    <3> QED BY <3>1, <3>2
  <2>2. e \in Mounts /\ (e = Null \/ ref[e] = -1)
    BY <2>1, DescentIs DEF Shape, TreeNodes, Pins
  <2>7. CASE Astray(e, rest, n) /\ StrayPlace(rest, n, pl)
    <3>1. IsSorfs(e) /\ n # 0
      BY <2>7 DEF Astray
    <3>2. SorfsRoot \in Mounts /\ SorfsRoot # Null /\ SorfsRoot[1] = "fs" /\ ref[SorfsRoot] = -1
      BY <2>2, <3>1, SorfsRootIs DEF Shape, FilesHere, Pins
    <3>3. PICK q : q = <<rest[n]>>
      OBVIOUS
    <3>4. q \in Strings
      <4>1. rest[n] \in Names
        BY <2>1, <3>1 DEF Strings
      <4> QED BY <3>3, <4>1 DEF Strings
    <3>5. pl = Place(SorfsRoot, <<>>) \/ (q \in DOMAIN disk[DeviceOf(SorfsRoot)] /\ pl = Place(SorfsRoot, q)) \/ pl = Place(Null, <<>>)
      BY <2>7, <3>3 DEF StrayPlace
    <3> QED BY <1>0, <3>2, <3>4, <3>5 DEF Here
  <2>3. CASE n = 0 /\ pl = Place(e, <<>>)
    BY <1>0, <2>2, <2>3 DEF Here
  <2>4. CASE e[1] = "fs" /\ pl = Place(e, rest) /\ rest \in DOMAIN disk[DeviceOf(e)]
    <3>1. e # Null
      BY <2>4, Kinds
    <3> QED BY <1>0, <2>1, <2>2, <2>4, <3>1 DEF Here
  <2>5. CASE e = Proc(0) /\ n = 1 /\ pl = Place(e, Up(rest, 1))
    <3>1. e # Null /\ Up(rest, 1) = rest
      BY <2>1, <2>5, Kinds
    <3> QED BY <1>0, <2>1, <2>2, <2>5, <3>1 DEF Here
  <2>6. ASSUME NEW k \in 1..Len(nodes), pl = Place(<<"slot", k>>, <<>>) PROVE Here(pl)
    BY <2>6 DEF Here
  <2>8. pl = Place(Wild, <<>>) \/ (Astray(e, rest, n) /\ StrayPlace(rest, n, pl)) \/ ReachedOn(e, rest, n, pl)
    BY <1>3, <2>1, Zenon DEF Reached
  <2> QED BY <1>1, <2>1, <2>3, <2>4, <2>5, <2>6, <2>7, <2>8 DEF ReachedOn
<1> QED BY <1>1, <1>2, <1>3, ResolveIs DEF Shape

\* Paths of one and two tokens, as the boot makes them.
LEMMA ShortPaths ==
  ASSUME NEW a \in Names, NEW b \in Names
  PROVE  /\ <<a>> \in Strings /\ \A i \in 0..Len(<<a>>) : Up(<<a>>, i) \in {<<>>, <<a>>}
         /\ <<a, b>> \in Strings /\ \A i \in 0..Len(<<a, b>>) : Up(<<a, b>>, i) \in {<<>>, <<a>>, <<a, b>>}
<1>1. PICK s, t : s = <<a>> /\ t = <<a, b>>
  OBVIOUS
<1>2. s \in Strings /\ t \in Strings /\ Len(s) = 1 /\ Len(t) = 2 /\ t[1] = a
  BY <1>1 DEF Strings
<1>3. Up(s, 0) = <<>> /\ Up(s, 1) = s
  <2>1. 0 \in 0..Len(s)
    BY <1>2
  <2>2. Up(s, 0) = <<>> /\ Up(s, Len(s)) = s
    BY <1>2, <2>1, UpIs
  <2> QED BY <1>2, <2>2
<1>4. Up(t, 0) = <<>> /\ Up(t, 2) = t
  <2>1. 0 \in 0..Len(t)
    BY <1>2
  <2>2. Up(t, 0) = <<>> /\ Up(t, Len(t)) = t
    BY <1>2, <2>1, UpIs
  <2> QED BY <1>2, <2>2
<1>5. Up(t, 1) = s
  <2>1. 1 \in 0..Len(t)
    BY <1>2
  <2>2. PICK u : u = Up(t, 1)
    OBVIOUS
  <2>3. u \in Strings /\ Len(u) = 1 /\ \A k \in 1..1 : u[k] = t[k]
    BY <1>2, <2>1, <2>2, UpIs
  <2>4. \A k \in 1..1 : u[k] = s[k]
    BY <1>1, <1>2, <2>3
  <2>5. u = s
    BY <1>2, <2>3, <2>4, SeqEqual DEF Strings
  <2> QED BY <2>2, <2>5
<1> QED BY <1>1, <1>2, <1>3, <1>4, <1>5

Booted == {Null, Devfs} \cup ({"proc"} \X (0..3))
\* The tree after init_vfs, init_procfs and init_devfs.
LEMMA BootIs ==
  /\ DOMAIN Boot \subseteq Strings /\ <<>> \in DOMAIN Boot /\ Boot[<<>>] = Null
  /\ \A q \in DOMAIN Boot : \A i \in 0..Len(q) : Up(q, i) \in DOMAIN Boot
  /\ \A q \in DOMAIN Boot : Boot[q] \in Booted
<1> DEFINE P == {<<"proc", ProcNames[i]>> : i \in 1..3}
<1>1. PICK B : B = Boot
  OBVIOUS
<1>2. "proc" \in Names /\ "dev" \in Names /\ \A i \in 1..3 : ProcNames[i] \in Names
  BY DEF ProcNames, Names
<1>3. PICK S : S = {<<>>, <<"proc">>, <<"dev">>} \cup P
  OBVIOUS
<1>4. ASSUME NEW q \in S, q # <<>>, q # <<"proc">>, q # <<"dev">> PROVE Boot[q] \in Booted
  <2>1. PICK x : x = CHOOSE i \in 1..3 : q[2] = ProcNames[i]
    OBVIOUS
  <2>2. PICK i \in 1..3 : q = <<"proc", ProcNames[i]>>
    BY <1>3, <1>4
  <2>3. q[2] = ProcNames[i]
    BY <2>2
  <2>4. x \in 1..3
    BY <2>1, <2>3, Zenon
  <2>5. Boot[q] = Proc(x)
    BY <1>3, <1>4, <2>1 DEF Boot
  <2> QED BY <2>4, <2>5 DEF Proc, Booted
<1>5. DOMAIN B = S
  BY <1>1, <1>3 DEF Boot
<1>6. B[<<>>] = Null /\ B[<<"proc">>] = Proc(0) /\ B[<<"dev">>] = Devfs
  BY <1>1 DEF Boot
<1>7. \A q \in DOMAIN B : B[q] \in Booted
  <2>1. Null \in Booted /\ Proc(0) \in Booted /\ Devfs \in Booted
    BY DEF Booted, Proc
  <2> QED BY <1>1, <1>4, <1>5, <1>6, <2>1
<1>8. S \subseteq Strings
  <2>1. P \subseteq Strings
    BY <1>2, ShortPaths
  <2>2. <<>> \in Strings
    BY DEF Strings
  <2>3. <<"proc">> \in Strings /\ <<"dev">> \in Strings
    BY <1>2, ShortPaths
  <2> QED BY <1>3, <2>1, <2>2, <2>3
<1>9. ASSUME NEW q \in S, NEW i \in 0..Len(q) PROVE Up(q, i) \in S
  <2>1. CASE q = <<>>
    <3>1. <<>> \in Strings /\ i = 0
      BY <1>8, <1>9, <2>1
    <3>2. 0 \in 0..Len(q)
      BY <2>1
    <3>3. Up(q, 0) = <<>>
      BY <1>8, <3>2, UpIs
    <3> QED BY <1>9, <2>1, <3>1, <3>3
  <2>2. CASE q = <<"proc">> \/ q = <<"dev">>
    <3>1. Up(q, i) \in {<<>>, q}
      BY <1>2, <1>9, <2>2, ShortPaths
    <3> QED BY <1>3, <1>9, <3>1
  <2>3. ASSUME q \in P PROVE Up(q, i) \in S
    <3>1. PICK j \in 1..3 : q = <<"proc", ProcNames[j]>>
      BY <2>3
    <3>2. Up(q, i) \in {<<>>, <<"proc">>, q}
      BY <1>2, <1>9, <3>1, ShortPaths
    <3> QED BY <1>3, <1>9, <3>2
  <2> QED BY <1>3, <2>1, <2>2, <2>3
<1> QED BY <1>1, <1>3, <1>5, <1>6, <1>7, <1>8, <1>9

\* The invariant holds at boot.
LEMMA VfsStarts ==
  ASSUME VfsInit
  PROVE  VInv
<1>1. TreeOk /\ RootOk /\ \A q \in DOMAIN tree : tree[q] \in Booted
  BY BootIs DEF VfsInit, TreeOk, RootOk, RootAgrees
<1>2. Booted \subseteq Mounts /\ Null \in Booted /\ Mounts \subseteq Nodes \cup {Null}
  BY DEF Booted, Mounts, Nodes, VfsInit
<1>3. MountedOk /\ SlotsOk
  BY VfsAssumption DEF VfsInit, MountedOk, SlotsOk
<1>4. DiskOk
  <2>1. \A d \in Devs : \A q \in DOMAIN Disk0[d] : q \in Strings \ {<<>>}
    BY PathAssumption DEF Strings, Names
  <2> QED BY <2>1, PathAssumption DEF VfsInit, DiskOk, Up
<1>5. Shape
  BY <1>1, <1>2, <1>3, <1>4, VfsAssumption DEF VfsInit, Shape, TreeNodes, FilesHere, FilesOk
<1>6. \A n \in Nodes : ref[n] = IF n = Devfs \/ n[1] = "proc" THEN -1 ELSE 0
  BY DEF VfsInit
<1>7. Pins
  <2>1. \A d \in Devs : <<"dev", d>> \in Nodes
    BY DEF Nodes
  <2>2. \A d \in Devs : ref[<<"dev", d>>] \in {0, -1}
    BY <1>6, <2>1
  <2>3. \A n \in Booted : n = Null \/ (n \in Nodes /\ ref[n] = -1)
    <3>1. \A n \in Booted : n = Null \/ n = Devfs \/ n[1] = "proc"
      BY DEF Booted
    <3> QED BY <1>2, <1>6, <3>1
  <2> QED BY <1>1, <2>2, <2>3 DEF VfsInit, Pins
<1>8. Counts
  <2>1. ref \in [Nodes -> Int]
    BY DEF VfsInit
  <2>2. users \in [Counted -> Nat] /\ \A n \in Counted : users[n] = 0
    BY DEF VfsInit
  <2>3. ASSUME NEW n \in Counted PROVE CountOf(n)
    <3>1. n \in Nodes /\ n[1] \in {"slot", "file"}
      BY DEF Counted
    <3>2. ref[n] = 0
      <4>1. n # Devfs
        BY <3>1, Kinds
      <4> QED BY <1>6, <3>1, <4>1
    <3>3. Uncleared(n) /\ Zeroed(n)
      <4>1. Len(nodes) = 0 /\ Len(file) = 0
        BY DEF VfsInit
      <4>2. n[1] \in {"slot", "file"} => n[2] \in Nat \ {0}
        BY <3>1, VfsAssumption DEF Nodes, Devfs
      <4> QED BY <3>1, <4>1, <4>2 DEF Uncleared, Zeroed
    <3> QED BY <2>2, <3>2, <3>3 DEF CountOf
  <2> QED BY <2>1, <2>2, <2>3 DEF Counts
<1>9. ClosedOk /\ AnswerOk
  BY DEF VfsInit, ClosedOk, AnswerOk, NoAnswer
<1> QED BY <1>5, <1>7, <1>8, <1>9 DEF VInv

-----------------------------------------------------------------------------
(* Opening. *)

\* What is mounted is not a node whose users are counted.
LEMMA MountKinds ==
  ASSUME MountedOk, NEW e \in Mounts, e # Null
  PROVE  e \in Nodes /\ e \notin Counted /\ e[1] \notin {"slot", "file", "wild"} /\ e # Wild
<1>1. e \in Nodes /\ e[1] \notin {"slot", "file", "wild"}
  <2>1. CASE e = Devfs
    BY <2>1, Kinds DEF Nodes
  <2>2. CASE e \in ({"proc"} \X (0..3)) \cup ({"dev"} \X Devs)
    BY <2>2 DEF Nodes
  <2>3. CASE e \in {"fs"} \X (1..Len(mounted))
    <3>1. Len(mounted) \in 0..MaxMounts /\ MaxMounts \in Nat
      BY VfsAssumption DEF MountedOk
    <3> QED BY <2>3, <3>1 DEF Nodes
  <2> QED BY <2>1, <2>2, <2>3 DEF Mounts
<1> QED BY <1>1, Kinds DEF Counted

\* A slot of devfs is such a node.
LEMMA SlotKinds ==
  ASSUME SlotsOk, NEW k \in 1..Len(nodes)
  PROVE  <<"slot", k>> \in Counted /\ <<"slot", k>> \in Nodes
<1>1. Len(nodes) \in 0..MaxDevices /\ MaxDevices \in Nat
  BY VfsAssumption DEF SlotsOk
<1> QED BY <1>1 DEF Nodes, Counted

Opened(pl) ==
  /\ pl.n \notin {Null, Wild} /\ HasRoom(pl)
  /\ pl.n[1] = "slot" => nodes[pl.n[2]] # Cleared
  /\ \E r \in IF Fresh(pl) THEN FirstCounts(pl) ELSE {ref[NodeOf(pl)]} : ref' = [ref EXCEPT ![NodeOf(pl)] = Count(r)]
  /\ users' = OneMore(NodeOf(pl), 1)
  /\ file' = FileAfter(pl)

\* The outcomes of file_open, with or without a listing.
LEMMA OpensAre ==
  ASSUME NEW p, NEW listing, Opens(p, listing)
  PROVE  /\ UNCHANGED <<tree, vfs_root, nodes, disk, mounted, odd>> /\ closed' = Null
         /\ \E pl \in Resolve(p) :
              \/ /\ pl.n = Null /\ last' = [NoAnswer EXCEPT !.path = p]
                 /\ UNCHANGED <<ref, users, file>>
              \/ last' = NoAnswer /\ UNCHANGED <<ref, users, file>>
              \/ /\ p = Root /\ last' = [res |-> NodeOf(pl), path |-> p, start |-> NodeOf(pl), below |-> <<>>]
                 /\ UNCHANGED <<ref, users, file>>
              \/ /\ Opened(pl)
                 /\ last' = [res |-> NodeOf(pl), path |-> p, start |-> tree[Descent(p).at], below |-> pl.q]
<1>1. UNCHANGED <<tree, vfs_root, nodes, disk, mounted, odd>>
  BY Zenon DEF Opens
<1>2. \E pl \in Resolve(p) :
              \/ /\ pl.n = Null /\ last' = [NoAnswer EXCEPT !.path = p] /\ closed' = Null
                 /\ UNCHANGED <<ref, users, file>>
              \/ last' = NoAnswer /\ closed' = Null /\ UNCHANGED <<ref, users, file>>
              \/ /\ p = Root /\ last' = [res |-> NodeOf(pl), path |-> p, start |-> NodeOf(pl), below |-> <<>>]
                 /\ closed' = Null /\ UNCHANGED <<ref, users, file>>
              \/ /\ Opened(pl) /\ closed' = Null
                 /\ last' = [res |-> NodeOf(pl), path |-> p, start |-> tree[Descent(p).at], below |-> pl.q]
  BY Zenon DEF Opens, Opened
<1> QED BY <1>1, <1>2, Zenon

\* what opening a place does to the counts
LEMMA OpenedKeeps ==
  ASSUME Shape, Pins, Counts, NEW pl, Here(pl), Opened(pl),
         UNCHANGED <<tree, vfs_root, nodes, disk, mounted, odd>>
  PROVE  FilesOk' /\ Pins' /\ Counts'
<1>0. \A n, q : Place(n, q).n = n /\ Place(n, q).q = q
  BY DEF Place
<1>1. PICK n, r : n = NodeOf(pl) /\ r \in (IF Fresh(pl) THEN FirstCounts(pl) ELSE {ref[n]}) /\ ref' = [ref EXCEPT ![n] = Count(r)]
  BY Zenon DEF Opened
<1>2. PICK len \in Nat : len = Len(file) /\ len <= MaxFiles
  BY VfsAssumption DEF Shape, FilesOk
<1>3. /\ ref \in [Nodes -> Int] /\ users \in [Counted -> Nat] /\ \A m \in Counted : CountOf(m)
  BY DEF Counts
<1>4. Counted \subseteq Nodes
  BY DEF Counted
<1>5. CASE Fresh(pl)
  <2>1. n = <<"file", len + 1>> /\ len < MaxFiles /\ file' = Append(file, [at |-> pl.n, path |-> pl.q])
    BY <1>1, <1>2, <1>5 DEF Opened, NodeOf, HasRoom, FileAfter
  <2>2. pl.n \in Mounts /\ pl.n # Null /\ pl.q \in Strings
    <3>1. \A m : pl # Place(m, <<>>)
      BY <1>0, <1>5 DEF Fresh
    <3> QED BY <3>1, Zenon DEF Here
  <2>3. n \in Nodes /\ n \in Counted /\ n[1] = "file" /\ n[2] = len + 1
    BY <2>1, VfsAssumption DEF Nodes, Counted
  <2>4. pl.n \in Nodes
    BY <2>2, MountKinds DEF Shape, FilesHere
  <2>5. PICK x : x = [at |-> pl.n, path |-> pl.q]
    OBVIOUS
  <2>6. x \in [at : Nodes, path : Strings] /\ x.at = pl.n
    BY <2>2, <2>4, <2>5
  <2>7. /\ file' \in Seq([at : Nodes, path : Strings]) /\ Len(file') = len + 1 /\ file'[len + 1] = x
        /\ \A k \in 1..len : file'[k] = file[k]
    BY <1>2, <2>1, <2>5, <2>6 DEF Shape, FilesOk
  <2>8. Mounts' = Mounts
    BY DEF Mounts
  <2>9. FilesOk'
    <3>1. \A k \in 1..len + 1 : file'[k].at \in Mounts
      <4>1. \A k \in 1..len : file'[k].at \in Mounts
        BY <1>2, <2>7 DEF Shape, FilesOk
      <4>2. file'[len + 1].at \in Mounts
        BY <2>2, <2>6, <2>7
      <4> QED BY <1>2, <4>1, <4>2
    <3> QED BY <1>2, <2>1, <2>7, <2>8, <3>1, VfsAssumption DEF FilesOk
  <2>10. ref[n] = 0 /\ users[n] = 0
    <3>1. Unmade(n)
      BY <1>2, <2>3 DEF Unmade
    <3> QED BY <1>3, <2>3, <3>1 DEF CountOf
  <2>11. r \in {0, 3} /\ ((pl.n[1] = "fs" /\ DiskType[DeviceOf(pl.n)] = "ext2") => r = 0)
    BY <1>1, <1>5 DEF FirstCounts
  <2>12. Count(r) = r + 1
    BY <2>11 DEF Count
  <2>13. users' = [users EXCEPT ![n] = @ + 1]
    BY <1>1, <2>3 DEF Opened, OneMore
  <2>14. /\ ref' \in [Nodes -> Int] /\ ref'[n] = r + 1 /\ \A m \in Nodes : m # n => ref'[m] = ref[m]
         /\ users' \in [Counted -> Nat] /\ users'[n] = 1 /\ \A m \in Counted : m # n => users'[m] = users[m]
    <3>1. PICK c \in Int : c = Count(r) /\ c = r + 1
      BY <2>11, <2>12
    <3>2. ref' \in [Nodes -> Int] /\ ref'[n] = c /\ \A m \in Nodes : m # n => ref'[m] = ref[m]
      BY <1>1, <1>3, <2>3, <3>1
    <3>3. users' \in [Counted -> Nat] /\ users'[n] = 1 /\ \A m \in Counted : m # n => users'[m] = users[m]
      BY <1>3, <2>3, <2>10, <2>13
    <3> QED BY <3>1, <3>2, <3>3
  <2>15. ASSUME NEW m \in Counted PROVE CountOf(m)'
    <3>1. CASE m = n
      <4>1. ~Unmade(n)'
        BY <2>3, <2>7 DEF Unmade
      <4>2. Uncleared(n)'
        BY <2>3 DEF Uncleared
      <4>3. Zeroed(n)' => r = 0
        <5>1. Zeroed(n)' => (pl.n[1] = "fs" /\ DiskType[DeviceOf(pl.n)] = "ext2")
          BY <2>3, <2>6, <2>7 DEF Zeroed, DeviceOf
        <5> QED BY <2>11, <5>1
      <4> QED BY <2>11, <2>14, <3>1, <4>1, <4>2, <4>3 DEF CountOf
    <3>2. CASE m # n
      <4>1. CountOf(m) /\ ref'[m] = ref[m] /\ users'[m] = users[m]
        BY <1>3, <1>4, <2>14, <3>2
      <4>2. m[1] = "file" => m[2] \in Nat \ {0} /\ m[2] # len + 1
        BY <2>1, <2>3, <3>2, VfsAssumption DEF Counted, Nodes, Devfs
      <4>3. Unmade(m)' => Unmade(m)
        BY <1>2, <2>7, <4>2 DEF Unmade
      <4>4. Uncleared(m)' = Uncleared(m)
        BY DEF Uncleared
      <4>5. Zeroed(m)' = Zeroed(m)
        <5>1. CASE m[1] # "file"
          BY <5>1 DEF Zeroed
        <5>2. CASE m[1] = "file" /\ m[2] <= len
          <6>1. m[2] \in 1..len /\ m[2] <= len + 1 /\ file'[m[2]] = file[m[2]]
            BY <2>7, <4>2, <5>2
          <6> QED BY <1>2, <2>7, <5>2, <6>1 DEF Zeroed, DeviceOf
        <5>3. CASE m[1] = "file" /\ ~(m[2] <= len)
          <6>1. ~(m[2] <= len + 1)
            BY <4>2, <5>3
          <6> QED BY <1>2, <2>7, <5>3, <6>1 DEF Zeroed
        <5> QED BY <5>1, <5>2, <5>3
      <4> QED BY <4>1, <4>3, <4>4, <4>5 DEF CountOf
    <3> QED BY <3>1, <3>2
  <2>16. Pins'
    <3>1. \A e \in Mounts : e # Null => e \in Nodes /\ e # n
      BY <2>3, MountKinds DEF Shape, FilesHere
    <3>2. \A e \in Mounts : e # Null => ref'[e] = ref[e]
      BY <2>14, <3>1
    <3> QED BY <3>2, MadeMounts DEF Pins, Shape, TreeNodes
  <2> QED BY <2>9, <2>14, <2>15, <2>16 DEF Counts
<1>6. CASE ~Fresh(pl)
  <2>1. n = pl.n /\ r = ref[n] /\ file' = file /\ n \notin {Null, Wild}
    BY <1>1, <1>6 DEF NodeOf, FileAfter, Opened
  <2>2. FilesOk'
    BY <2>1 DEF Shape, FilesOk, Mounts
  <2>3. \A m : /\ Unmade(m)' = Unmade(m) /\ Uncleared(m)' = Uncleared(m) /\ Zeroed(m)' = Zeroed(m)
    BY <2>1, Zenon DEF Unmade, Uncleared, Zeroed, DeviceOf
  <2>4. CASE n \in Mounts /\ n # Null
    <3>1. n \in Nodes /\ n \notin Counted
      BY <2>4, MountKinds DEF Shape, FilesHere
    <3>2. ref[n] = -1
      <4>1. ASSUME NEW k \in 1..Len(nodes), pl = Place(<<"slot", k>>, <<>>) PROVE FALSE
        <5>1. n = <<"slot", k>>
          BY <1>0, <2>1, <4>1
        <5> QED BY <3>1, <5>1, SlotKinds DEF Shape, FilesHere
      <4>2. pl # Place(Null, <<>>) /\ pl # Place(Wild, <<>>)
        BY <1>0, <2>1
      <4> QED BY <2>1, <4>1, <4>2, Zenon DEF Here
    <3>3. Count(r) = -1
      BY <2>1, <3>2 DEF Count
    <3>4. ref' = ref
      BY <1>1, <1>3, <3>1, <3>2, <3>3
    <3>5. users' = users
      BY <1>1, <3>1 DEF Opened, OneMore
    <3>6. Pins'
      BY <3>4 DEF Pins
    <3>7. \A m \in Counted : CountOf(m)'
      BY <1>3, <2>3, <3>4, <3>5, Zenon DEF CountOf
    <3> QED BY <1>3, <2>2, <3>4, <3>5, <3>6, <3>7 DEF Counts
  <2>5. ASSUME NEW k \in 1..Len(nodes), n = <<"slot", k>> PROVE Pins' /\ Counts'
    <3>1. n \in Counted /\ n \in Nodes /\ n[1] = "slot" /\ n[2] = k
      BY <2>5, SlotKinds DEF Shape, FilesHere
    <3>2. Uncleared(n) /\ ~Unmade(n) /\ Zeroed(n)
      <4>1. nodes[k] # Cleared
        BY <2>1, <3>1 DEF Opened
      <4>2. Len(nodes) \in Nat
        BY DEF Shape, FilesHere, SlotsOk
      <4> QED BY <2>5, <3>1, <4>1, <4>2 DEF Uncleared, Unmade, Zeroed
    <3>3. PICK a \in Int, u \in Nat : a = ref[n] /\ u = users[n] /\ (a = -1 \/ a = u)
      BY <1>3, <3>1, <3>2 DEF CountOf
    <3>4. PICK c \in Int : c = Count(r) /\ (c = -1 \/ c = u + 1)
      BY <2>1, <3>3 DEF Count
    <3>5. ref' \in [Nodes -> Int] /\ ref'[n] = c /\ \A m \in Nodes : m # n => ref'[m] = ref[m]
      BY <1>1, <1>3, <3>1, <3>4
    <3>6. users' \in [Counted -> Nat] /\ users'[n] = u + 1 /\ \A m \in Counted : m # n => users'[m] = users[m]
      <4>1. users' = [users EXCEPT ![n] = @ + 1]
        BY <1>1, <3>1 DEF Opened, OneMore
      <4> QED BY <1>3, <3>1, <3>3, <4>1
    <3>7. ASSUME NEW m \in Counted PROVE CountOf(m)'
      <4>1. CASE m = n
        BY <2>3, <3>2, <3>4, <3>5, <3>6, <4>1 DEF CountOf
      <4>2. CASE m # n
        <5>1. CountOf(m) /\ ref'[m] = ref[m] /\ users'[m] = users[m]
          BY <1>3, <1>4, <3>5, <3>6, <4>2
        <5> QED BY <2>3, <5>1 DEF CountOf
      <4> QED BY <4>1, <4>2
    <3>8. Pins'
      <4>1. \A e \in Mounts : e # Null => e \in Nodes /\ e # n
        BY <3>1, MountKinds DEF Shape, FilesHere
      <4>2. \A e \in Mounts : e # Null => ref'[e] = ref[e]
        BY <3>5, <4>1
      <4> QED BY <4>2, MadeMounts DEF Pins, Shape, TreeNodes
    <3> QED BY <3>5, <3>6, <3>7, <3>8 DEF Counts
  <2>6. (n \in Mounts /\ n # Null) \/ \E k \in 1..Len(nodes) : n = <<"slot", k>>
    <3>1. pl # Place(Null, <<>>) /\ pl # Place(Wild, <<>>)
      BY <1>0, <2>1
    <3>2. ASSUME NEW k \in 1..Len(nodes), pl = Place(<<"slot", k>>, <<>>) PROVE n = <<"slot", k>>
      BY <1>0, <2>1, <3>2
    <3> QED BY <2>1, <3>1, <3>2, Zenon DEF Here
  <2> QED BY <2>2, <2>4, <2>5, <2>6, Zenon
<1> QED BY <1>5, <1>6

\* The answer to a path that SORFS has led astray.
LEMMA StrayAnswers ==
  ASSUME Shape, NEW p, NEW e \in Mounts, NEW rest \in Strings, Len(rest) \in Nat, Astray(e, rest, Len(rest)), NEW pl,
         Reached(e, rest, Len(rest), pl), e = tree'[NearestEntry(p)'], rest = Rest(p)', Strays(e, rest)', UNCHANGED <<disk, mounted>>,
         \/ pl.n = Null /\ last' = [NoAnswer EXCEPT !.path = p]
         \/ Opened(pl) /\ last' = [res |-> NodeOf(pl), path |-> p, start |-> tree[Descent(p).at], below |-> pl.q]
  PROVE  AnswerRight(p)'
<1>0. \A n, q : Place(n, q).n = n /\ Place(n, q).q = q
  BY DEF Place
<1>1. PICK n \in Nat : n = Len(rest) /\ n # 0
  BY DEF Astray
<1>2. PICK q : q = <<rest[n]>> /\ q = <<Last(rest)>> /\ q # <<>>
  <2>1. Last(rest) = rest[n]
    BY <1>1 DEF Last
  <2>2. PICK x : x = rest[n]
    OBVIOUS
  <2>3. Len(<<x>>) # Len(<<>>)
    OBVIOUS
  <2> QED BY <2>1, <2>2, <2>3
<1>3. SorfsRoot' = SorfsRoot /\ DeviceOf(SorfsRoot)' = DeviceOf(SorfsRoot)
  <2>1. SorfsRoot' = SorfsRoot
    BY Zenon DEF SorfsRoot
  <2> QED BY <2>1, Zenon DEF DeviceOf
<1>4. SorfsRoot # Null
  BY SorfsRootIs DEF Shape, FilesHere, Astray
<1>5. pl = Place(Wild, <<>>) \/ StrayPlace(rest, n, pl)
  BY <1>1, Zenon DEF Reached
<1>6. StrayAnswer(rest)'
  <2>1. CASE pl.n = Null /\ last' = [NoAnswer EXCEPT !.path = p]
    <3>1. last'.res = Null
      BY <2>1 DEF NoAnswer
    <3>2. n # 1
      BY <1>0, <1>4, <1>5, <2>1, Kinds DEF StrayPlace
    <3>3. Len(rest) > 1
      BY <1>1, <3>2
    <3> QED BY <3>1, <3>3 DEF StrayAnswer
  <2>2. CASE Opened(pl) /\ last' = [res |-> NodeOf(pl), path |-> p, start |-> tree[Descent(p).at], below |-> pl.q]
    <3>1. last'.res = NodeOf(pl) /\ last'.below = pl.q /\ file' = FileAfter(pl) /\ pl.n \notin {Null, Wild}
      BY <2>2 DEF Opened
    <3>2. CASE pl = Place(SorfsRoot, <<>>)
      <4>1. last'.res = SorfsRoot
        BY <1>0, <3>1, <3>2 DEF NodeOf, Fresh
      <4> QED BY <1>3, <4>1 DEF StrayAnswer
    <3>3. CASE n # 1 /\ q \in DOMAIN disk[DeviceOf(SorfsRoot)] /\ pl = Place(SorfsRoot, q)
      <4>1. pl.n = SorfsRoot /\ pl.q = q /\ Fresh(pl)
        BY <1>0, <1>2, <3>3 DEF Fresh
      <4>2. PICK len \in Nat : len = Len(file)
        BY DEF Shape, FilesOk
      <4>3. NodeOf(pl) = <<"file", len + 1>> /\ file' = Append(file, [at |-> SorfsRoot, path |-> q])
        BY <3>1, <4>1, <4>2 DEF NodeOf, FileAfter
      <4>4. file'[len + 1] = [at |-> SorfsRoot, path |-> q]
        BY <4>2, <4>3 DEF Shape, FilesOk
      <4>5. last'.res[2] = len + 1 /\ last'.below = q
        BY <3>1, <4>1, <4>3
      <4>6. file'[last'.res[2]] = [at |-> SorfsRoot, path |-> q]
        BY <4>4, <4>5, Zenon
      <4>7. Len(rest) > 1
        BY <1>1, <3>3
      <4>8. last'.below \in DOMAIN disk'[DeviceOf(SorfsRoot)']
        BY <1>3, <3>3, <4>5
      <4> QED BY <1>2, <1>3, <4>5, <4>6, <4>7, <4>8, Zenon DEF StrayAnswer
    <3>4. pl # Place(Null, <<>>) /\ pl # Place(Wild, <<>>)
      BY <1>0, <3>1
    <3> QED BY <1>2, <1>5, <3>2, <3>3, <3>4 DEF StrayPlace
  <2> QED BY <2>1, <2>2
<1> QED BY <1>6, Zenon DEF AnswerRight

\* The answer to a path that was resolved.
LEMMA OpenAnswers ==
  ASSUME Shape, Pins, NEW p \in Strings, p \notin {<<>>, Root, Relative}, NEW pl \in Resolve(p),
         UNCHANGED <<tree, nodes, disk, mounted>>,
         \/ pl.n = Null /\ last' = [NoAnswer EXCEPT !.path = p]
         \/ Opened(pl) /\ last' = [res |-> NodeOf(pl), path |-> p, start |-> tree[Descent(p).at], below |-> pl.q]
  PROVE  AnswerRight(p)'
<1>0. \A n, q : Place(n, q).n = n /\ Place(n, q).q = q
  BY DEF Place
<1>1. PICK e, rest : e = tree[NearestEntry(p)] /\ rest = Rest(p)
  OBVIOUS
<1>2. e \in Mounts /\ rest \in Strings /\ Len(rest) \in Nat /\ Up(rest, Len(rest)) = rest
  <2>1. e \in Mounts /\ rest \in Strings
    BY <1>1, DescentIs DEF Shape, TreeNodes
  <2>2. Len(rest) \in Nat
    BY <2>1 DEF Strings
  <2>3. Len(rest) \in 0..Len(rest)
    BY <2>2
  <2> QED BY <2>1, <2>2, <2>3, UpIs
<1>3. NearestEntry(p)' = NearestEntry(p)
  BY Zenon DEF NearestEntry
<1>4. e = tree'[NearestEntry(p)'] /\ rest = Rest(p)' /\ tree[Descent(p).at] = e
  <2>1. Rest(p)' = Rest(p)
    BY <1>3, Zenon DEF Rest
  <2> QED BY <1>1, <1>3, <2>1, DescentIs, Zenon DEF Shape
<1>5. DeviceOf(e)' = DeviceOf(e)
  BY Zenon DEF DeviceOf
<1>6. Reached(e, rest, Len(rest), pl)
  <2>1. pl = Place(Wild, <<>>) \/ Reached(e, rest, Len(rest), pl)
    BY <1>1, ResolveIs, Zenon DEF Shape
  <2> QED BY <2>1, Zenon DEF Reached
<1>7. Strays(e, rest)' = Astray(e, rest, Len(rest)) /\ SorfsRoot' = SorfsRoot
  <2>1. SorfsRoot' = SorfsRoot
    BY Zenon DEF SorfsRoot
  <2>2. Len(rest) = 0 <=> rest = <<>>
    <3>1. rest \in Strings
      BY <1>2
    <3>2. Len(rest) = 0 => rest = <<>>
      BY <3>1 DEF Strings
    <3>3. Len(<<>>) = 0
      OBVIOUS
    <3> QED BY <3>2, <3>3
  <2>3. Len(rest) > 1 <=> Len(rest) # 0 /\ Len(rest) # 1
    <3>1. PICK m \in Nat : m = Len(rest)
      BY <1>2
    <3> QED BY <3>1
  <2>4. IsSorfs(e)' = IsSorfs(e)
    BY <1>5, Zenon DEF IsSorfs
  <2> QED BY <1>5, <2>1, <2>2, <2>3, <2>4, Zenon DEF Strays, Astray
<1>8. CASE Astray(e, rest, Len(rest))
  BY <1>0, <1>2, <1>4, <1>5, <1>6, <1>7, <1>8, StrayAnswers
<1>9. ASSUME ~Astray(e, rest, Len(rest)) PROVE ReachedOn(e, rest, Len(rest), pl) \/ pl = Place(Wild, <<>>)
  BY <1>6, <1>9, Zenon DEF Reached
<1>10. CASE ~Astray(e, rest, Len(rest)) /\ pl.n = Null /\ last' = [NoAnswer EXCEPT !.path = p]
  <2>1. last'.res = Null
    BY <1>10 DEF NoAnswer
  <2>2. e # Null => Missing(e, rest, Len(rest))
    <3>1. SUFFICES ASSUME e # Null PROVE Missing(e, rest, Len(rest))
      OBVIOUS
    <3>2. pl # Place(Wild, <<>>)
      BY <1>0, <1>10, Kinds
    <3>3. \A q : pl # Place(e, q)
      BY <1>0, <1>10, <3>1
    <3>4. \A k : pl # Place(<<"slot", k>>, <<>>)
      BY <1>0, <1>10 DEF Null
    <3> QED BY <1>9, <1>10, <3>2, <3>3, <3>4, Zenon DEF ReachedOn
  <2>3. e # Null => /\ rest # <<>>
                    /\ e[1] = "fs" => ~(rest \in DOMAIN disk'[DeviceOf(e)'])
    <3>1. rest = <<>> => Len(rest) = 0
      OBVIOUS
    <3> QED BY <1>2, <1>5, <2>2, <3>1 DEF Missing
  <2> QED BY <1>4, <2>1, <2>3, <1>7, <1>10, Zenon DEF AnswerRight
<1>11. CASE ~Astray(e, rest, Len(rest)) /\ Opened(pl) /\ last' = [res |-> NodeOf(pl), path |-> p, start |-> tree[Descent(p).at], below |-> pl.q]
  <2>1. /\ last'.res = NodeOf(pl) /\ last'.start = e /\ last'.below = pl.q
    BY <1>4, <1>11
  <2>2. pl.n \notin {Null, Wild} /\ file' = FileAfter(pl)
    BY <1>11 DEF Opened
  <2>3. NodeOf(pl) # Null
    BY <2>2 DEF NodeOf, Null
  <2>4. pl # Place(Null, <<>>) /\ pl # Place(Wild, <<>>)
    BY <1>0, <2>2
  <2>5. CASE Len(rest) = 0 /\ pl = Place(e, <<>>)
    <3>1. rest = <<>> /\ NodeOf(pl) = e
      BY <1>0, <1>2, <2>5 DEF Strings, NodeOf, Fresh
    <3> QED BY <1>4, <2>1, <2>3, <3>1, <1>7, <1>11, Zenon DEF AnswerRight
  <2>6. CASE pl = Place(e, rest) /\ Len(rest) # 0
    <3>1. rest # <<>> /\ Fresh(pl)
      BY <1>0, <2>6 DEF Fresh
    <3>2. PICK len \in Nat : len = Len(file)
      BY DEF Shape, FilesOk
    <3>3. NodeOf(pl) = <<"file", len + 1>> /\ file' = Append(file, [at |-> e, path |-> rest])
      BY <1>0, <2>2, <2>6, <3>1, <3>2 DEF NodeOf, FileAfter
    <3>4. file'[len + 1] = [at |-> e, path |-> rest]
      BY <3>2, <3>3 DEF Shape, FilesOk
    <3>5. last'.res[2] = len + 1 /\ last'.below = rest
      BY <1>0, <2>1, <2>6, <3>3
    <3>6. file'[last'.res[2]] = [at |-> e, path |-> rest]
      BY <3>4, <3>5, Zenon
    <3> QED BY <1>4, <2>1, <2>3, <3>1, <3>5, <3>6, <1>7, <1>11, Zenon DEF AnswerRight
  <2>7. ASSUME e = Devfs, Len(rest) = 1, NEW k \in 1..Len(nodes), pl = Place(<<"slot", k>>, <<>>), nodes[k].name = rest[1]
        PROVE  AnswerRight(p)'
    <3>1. NodeOf(pl) = <<"slot", k>>
      BY <1>0, <2>7 DEF NodeOf, Fresh
    <3>2. last'.res[1] = "slot" /\ last'.res[2] = k
      BY <2>1, <3>1
    <3>3. <<nodes[k].name>> = rest /\ rest # <<>>
      <4>0. \A i \in 1..Len(rest) : rest[i] \in Names
        BY <1>2 DEF Strings
      <4>1. PICK x : x = nodes[k].name /\ x = rest[1] /\ x \in Names
        <5>1. 1 \in 1..1 /\ 1..Len(rest) = 1..1
          BY <2>7
        <5> QED BY <2>7, <4>0, <5>1, Zenon
      <4>2. \A i \in 1..1 : <<x>>[i] = rest[i]
        BY <4>1
      <4>3. <<x>> \in Strings /\ Len(<<x>>) = 1
        BY <4>1 DEF Strings
      <4>4. <<x>> = rest
        BY <1>2, <2>7, <4>2, <4>3, SeqEqual DEF Strings
      <4> QED BY <4>1, <4>4
    <3>4. <<nodes'[last'.res[2]].name>> = rest
      BY <3>2, <3>3, Zenon
    <3> QED BY <1>4, <2>1, <2>3, <2>7, <3>2, <3>3, <3>4, <1>7, <1>11, Zenon DEF AnswerRight
  <2>8. \/ Len(rest) = 0 /\ pl = Place(e, <<>>)
        \/ pl = Place(e, rest) /\ Len(rest) # 0
        \/ e = Devfs /\ Len(rest) = 1 /\ \E k \in 1..Len(nodes) : pl = Place(<<"slot", k>>, <<>>) /\ nodes[k].name = rest[1]
    <3>1. Len(rest) = 1 => Len(rest) # 0 /\ Up(rest, 1) = rest
      BY <1>2
    <3> QED BY <1>2, <1>9, <1>11, <2>4, <3>1, Zenon DEF ReachedOn
  <2> QED BY <2>5, <2>6, <2>7, <2>8
<1> QED BY <1>8, <1>10, <1>11, Zenon

\* file_open keeps the invariant, and a listing with it.
LEMMA OpenKeeps ==
  ASSUME VInv, NEW p \in Strings, NEW listing, Opens(p, listing)
  PROVE  VInv'
<1>1. UNCHANGED <<tree, vfs_root, nodes, disk, mounted, odd>> /\ closed' = Null
  BY OpensAre
<1>2. PICK pl \in Resolve(p) :
              \/ /\ pl.n = Null /\ last' = [NoAnswer EXCEPT !.path = p]
                 /\ UNCHANGED <<ref, users, file>>
              \/ last' = NoAnswer /\ UNCHANGED <<ref, users, file>>
              \/ /\ p = Root /\ last' = [res |-> NodeOf(pl), path |-> p, start |-> NodeOf(pl), below |-> <<>>]
                 /\ UNCHANGED <<ref, users, file>>
              \/ /\ Opened(pl)
                 /\ last' = [res |-> NodeOf(pl), path |-> p, start |-> tree[Descent(p).at], below |-> pl.q]
  BY OpensAre
<1>3. Shape /\ Pins /\ Counts
  BY DEF VInv
<1>4. FilesOk' /\ Pins' /\ Counts'
  <2>1. CASE UNCHANGED <<ref, users, file>>
    <3>1. FilesOk'
      BY <1>1, <1>3, <2>1, Zenon DEF Shape, FilesOk, Mounts
    <3>2. Pins'
      BY <1>1, <1>3, <2>1, Zenon DEF Pins
    <3>3. \A n : CountOf(n)' = CountOf(n)
      BY <1>1, <2>1, Zenon DEF CountOf, Unmade, Uncleared, Zeroed, DeviceOf
    <3>4. Counts'
      BY <1>3, <2>1, <3>3, Zenon DEF Counts
    <3> QED BY <3>1, <3>2, <3>4
  <2>2. CASE Opened(pl)
    <3>1. Here(pl)
      BY <1>3, PlaceIs
    <3> QED BY <1>1, <1>3, <2>2, <3>1, OpenedKeeps
  <2> QED BY <1>2, <2>1, <2>2
<1>5. Shape'
  <2>1. TreeOk' /\ TreeNodes' /\ (vfs_root \in Mounts)'
    BY <1>1, <1>3, Zenon DEF Shape, TreeOk, TreeNodes, Mounts
  <2>2. RootOk' /\ FilesHere'
    BY <1>1, <1>3, Zenon DEF Shape, RootOk, RootAgrees, FilesHere, SlotsOk, MountedOk, DiskOk
  <2> QED BY <1>4, <2>1, <2>2 DEF Shape
<1>6. ClosedOk'
  BY <1>1 DEF ClosedOk
<1>7. AnswerOk'
  <2>1. ASSUME last'.path = p, p \notin {<<>>, Root, Relative} PROVE AnswerRight(p)'
    <3>1. last' # NoAnswer
      BY <2>1 DEF NoAnswer
    <3> QED BY <1>1, <1>2, <1>3, <2>1, <3>1, OpenAnswers
  <2>2. last'.path \in {<<>>, p}
    <3>1. last' = NoAnswer \/ last' = [NoAnswer EXCEPT !.path = p]
          \/ \E r, s, b : last' = [res |-> r, path |-> p, start |-> s, below |-> b]
      BY <1>2
    <3> QED BY <3>1 DEF NoAnswer
  <2> QED BY <2>1, <2>2, Zenon DEF AnswerOk
<1> QED BY <1>4, <1>5, <1>6, <1>7 DEF VInv

-----------------------------------------------------------------------------
(* The other operations. *)

\* A step that answers nothing and leaves the nodes that were made.
Quiet == last' = NoAnswer /\ closed' = Null /\ file' = file

\* An operation that looks nothing up leaves no answer to judge.
LEMMA QuietAnswers ==
  ASSUME last' = NoAnswer
  PROVE  AnswerOk'
  BY DEF AnswerOk, NoAnswer

\* the shape, when the tree changes
LEMMA TreeKeeps ==
  ASSUME Shape, NEW n, Changed(n), n = Null \/ n \in Mounts', TreeOk', RootOk', vfs_root' \in {n, vfs_root},
         Mounts \subseteq Mounts'
  PROVE  TreeNodes' /\ (vfs_root \in Mounts)'
<1>1. Null \in Mounts'
  BY DEF Mounts
<1> QED BY <1>1 DEF Shape, TreeNodes, Changed

\* what is mounted stays pinned when the counts of the pinned nodes stay
LEMMA PinsKeep ==
  ASSUME Shape, Pins, NEW n, Changed(n), vfs_root' \in {n, vfs_root}, n = Null \/ ref'[n] = -1,
         \A e \in Mounts : e # Null /\ ref[e] = -1 => ref'[e] = -1,
         \A d \in Devs : ref'[<<"dev", d>>] \in {0, -1},
         \A k \in 1..Len(mounted') : k \in 1..Len(mounted) \/ n = <<"fs", k>>
  PROVE  Pins'
<1>1. \A q \in DOMAIN tree' : tree'[q] = Null \/ ref'[tree'[q]] = -1
  BY DEF Pins, Changed, Shape, TreeNodes
<1>2. vfs_root' = Null \/ ref'[vfs_root'] = -1
  BY DEF Pins, Shape
<1>3. ASSUME NEW k \in 1..Len(mounted') PROVE ref'[<<"fs", k>>] = -1
  <2>1. CASE k \in 1..Len(mounted)
    BY <2>1, MadeMounts DEF Pins
  <2>2. CASE n = <<"fs", k>>
    BY <2>2 DEF Null
  <2> QED BY <1>3, <2>1, <2>2
<1> QED BY <1>1, <1>2, <1>3 DEF Pins

\* What can be an entry stays so when a disk is mounted.
LEMMA MountsGrow ==
  ASSUME Shape, \/ mounted' = mounted
                \/ \E d \in Devs : mounted' = Append(mounted, d)
  PROVE  /\ Mounts \subseteq Mounts' /\ \A k \in 1..Len(mounted) : mounted'[k] = mounted[k]
         /\ Len(mounted') \in Nat /\ Len(mounted) \in Nat /\ Len(mounted) <= Len(mounted')
<1>1. mounted \in Seq(Devs) /\ Len(mounted) \in Nat
  BY VfsAssumption DEF Shape, FilesHere, MountedOk
<1>2. Len(mounted') \in Nat /\ Len(mounted) <= Len(mounted') /\ \A k \in 1..Len(mounted) : mounted'[k] = mounted[k]
  BY <1>1
<1>3. 1..Len(mounted) \subseteq 1..Len(mounted')
  BY <1>1, <1>2
<1> QED BY <1>1, <1>2, <1>3 DEF Mounts

\* The allocated nodes, when none is added.
LEMMA FilesKeep ==
  ASSUME Shape, file' = file, Mounts \subseteq Mounts'
  PROVE  FilesOk'
  BY DEF Shape, FilesOk

\* whether a file's count started from zero
LEMMA ZeroedKeeps ==
  ASSUME Shape, file' = file, Mounts \subseteq Mounts', \A k \in 1..Len(mounted) : mounted'[k] = mounted[k],
         NEW n \in Counted
  PROVE  Zeroed(n)' = Zeroed(n)
<1>1. CASE n[1] = "file" /\ n[2] <= Len(file)
  <2>1. n[2] \in 1..Len(file)
    <3>1. n[2] \in Nat \ {0}
      BY <1>1, VfsAssumption DEF Counted, Nodes, Devfs
    <3> QED BY <1>1, <3>1 DEF Shape, FilesOk
  <2>2. PICK e : e = file[n[2]].at /\ e \in Mounts
    BY <2>1 DEF Shape, FilesOk
  <2>3. e[1] = "fs" => e[2] \in 1..Len(mounted)
    BY <2>2, MountIs, Kinds DEF Shape, FilesHere
  <2>4. e[1] = "fs" => mounted'[e[2]] = mounted[e[2]]
    BY <2>3
  <2> QED BY <1>1, <2>2, <2>4 DEF Zeroed, DeviceOf
<1>2. CASE ~(n[1] = "file" /\ n[2] <= Len(file))
  BY <1>2 DEF Zeroed
<1> QED BY <1>1, <1>2

\* VFS_unmount keeps the invariant.
LEMMA UnmountKeeps ==
  ASSUME VInv, NEW p \in Strings, VFS_unmount(p)
  PROVE  VInv'
<1>1. Shape /\ Pins /\ Counts
  BY DEF VInv
<1>2. last' = NoAnswer /\ closed' = Null /\ UNCHANGED <<vfs_root, ref, nodes, disk, mounted, file, users>>
  BY Zenon DEF VFS_unmount
<1>3. TreeOk' /\ RootOk' /\ Changed(Null)
  BY <1>1, UnmountedIs DEF Shape
<1>4. Mounts' = Mounts
  BY <1>2, Zenon DEF Mounts
<1>5. FilesOk' /\ FilesHere'
  BY <1>1, <1>2, Zenon DEF Shape, FilesOk, FilesHere, SlotsOk, MountedOk, DiskOk, Mounts
<1>6. Shape'
  BY <1>1, <1>2, <1>3, <1>4, <1>5, TreeKeeps DEF Shape
<1>7. Pins'
  <2>1. \A d \in Devs : ref'[<<"dev", d>>] \in {0, -1}
    BY <1>1, <1>2 DEF Pins
  <2>2. \A k \in 1..Len(mounted') : k \in 1..Len(mounted)
    BY <1>2
  <2> QED BY <1>1, <1>2, <1>3, <2>1, <2>2, PinsKeep
<1>8. Counts'
  <2>1. \A n : CountOf(n)' = CountOf(n)
    BY <1>2, Zenon DEF CountOf, Unmade, Uncleared, Zeroed, DeviceOf
  <2> QED BY <1>1, <1>2, <2>1, Zenon DEF Counts
<1> QED BY <1>2, <1>6, <1>7, <1>8, QuietAnswers DEF VInv, ClosedOk

\* devfs_mount keeps the invariant.
LEMMA MountDevfsKeeps ==
  ASSUME VInv, NEW p \in Strings, devfs_mount(p)
  PROVE  VInv'
<1>1. Shape /\ Pins /\ Counts
  BY DEF VInv
<1>2. /\ last' = NoAnswer /\ closed' = Null /\ UNCHANGED <<nodes, disk, mounted, file, users>>
      /\ Mounted(p, Devfs) /\ ref' = [ref EXCEPT ![Devfs] = -1]
  BY Zenon DEF devfs_mount, Pinned
<1>3. TreeOk' /\ RootOk' /\ Changed(Devfs) /\ vfs_root' \in {Devfs, vfs_root}
  BY <1>1, <1>2, MountedIs DEF Shape
<1>4. Mounts' = Mounts /\ Devfs \in Mounts /\ Devfs \in Nodes /\ Devfs \notin Counted
  <2>1. Mounts' = Mounts
    BY <1>2, Zenon DEF Mounts
  <2> QED BY <2>1, Kinds DEF Mounts, Nodes, Counted
<1>5. FilesOk' /\ FilesHere'
  BY <1>1, <1>2, Zenon DEF Shape, FilesOk, FilesHere, SlotsOk, MountedOk, DiskOk, Mounts
<1>6. Shape'
  BY <1>1, <1>2, <1>3, <1>4, <1>5, TreeKeeps DEF Shape
<1>7. ref \in [Nodes -> Int] /\ users \in [Counted -> Nat] /\ Counted \subseteq Nodes
  BY <1>1 DEF Counts, Counted
<1>8. ref' \in [Nodes -> Int] /\ ref'[Devfs] = -1 /\ \A n \in Nodes : n # Devfs => ref'[n] = ref[n]
  BY <1>2, <1>4, <1>7
<1>9. Pins'
  <2>1. \A d \in Devs : <<"dev", d>> \in Nodes /\ <<"dev", d>> # Devfs
    BY DEF Nodes, Devfs
  <2>2. \A d \in Devs : ref'[<<"dev", d>>] \in {0, -1}
    BY <1>1, <1>8, <2>1 DEF Pins
  <2>3. \A e \in Mounts : e # Null /\ ref[e] = -1 => ref'[e] = -1
    BY <1>1, <1>8, MountKinds DEF Shape, FilesHere
  <2>4. \A k \in 1..Len(mounted') : k \in 1..Len(mounted)
    BY <1>2
  <2> QED BY <1>1, <1>3, <1>8, <2>2, <2>3, <2>4, PinsKeep
<1>10. Counts'
  <2>1. ASSUME NEW n \in Counted PROVE CountOf(n)'
    <3>1. ref'[n] = ref[n] /\ CountOf(n)
      BY <1>1, <1>4, <1>7, <1>8 DEF Counts
    <3> QED BY <1>2, <3>1 DEF CountOf, Unmade, Uncleared, Zeroed, DeviceOf
  <2> QED BY <1>2, <1>7, <1>8, <2>1 DEF Counts
<1> QED BY <1>2, <1>6, <1>9, <1>10, QuietAnswers DEF VInv, ClosedOk

\* VFS_close keeps the invariant.
LEMMA CloseKeeps ==
  ASSUME VInv, NEW n \in Nodes, VFS_close(n)
  PROVE  VInv'
<1>1. Shape /\ Pins /\ Counts
  BY DEF VInv
<1>2. /\ last' = NoAnswer /\ UNCHANGED <<tree, vfs_root, nodes, disk, mounted, file, odd>>
      /\ users' = OneMore(n, -1)
      /\ IF n \in Counted THEN users[n] > 0 ELSE ref[n] = -1
      /\ IF n = vfs_root \/ ref[n] = -1
         THEN closed' = Null /\ UNCHANGED ref
         ELSE /\ ref' = [ref EXCEPT ![n] = @ - 1]
              /\ closed' = IF ref[n] = 1 THEN n ELSE Null
  BY Zenon DEF VFS_close
<1>3. FilesOk' /\ FilesHere' /\ TreeNodes' /\ TreeOk' /\ (vfs_root \in Mounts)' /\ RootOk'
  BY <1>1, <1>2, Zenon DEF Shape, FilesOk, FilesHere, SlotsOk, MountedOk, DiskOk, Mounts, TreeNodes, TreeOk, RootOk, RootAgrees
<1>4. Shape'
  BY <1>3 DEF Shape
<1>5. ref \in [Nodes -> Int] /\ users \in [Counted -> Nat] /\ Counted \subseteq Nodes /\ \A m \in Counted : CountOf(m)
  BY <1>1 DEF Counts, Counted
<1>6. \A m : Unmade(m)' = Unmade(m) /\ Uncleared(m)' = Uncleared(m) /\ Zeroed(m)' = Zeroed(m)
  BY <1>2, Zenon DEF Unmade, Uncleared, Zeroed, DeviceOf
<1>7. CASE n \notin Counted
  <2>1. ref' = ref /\ users' = users /\ closed' = Null
    BY <1>2, <1>7 DEF OneMore
  <2>2. \A m : CountOf(m)' = CountOf(m)
    BY <1>6, <2>1, Zenon DEF CountOf
  <2>3. Counts' /\ Pins'
    BY <1>1, <1>2, <2>1, <2>2, Zenon DEF Counts, Pins
  <2> QED BY <1>2, <1>4, <2>1, <2>3, QuietAnswers DEF VInv, ClosedOk
<1>8. CASE n \in Counted
  <2>1. n # vfs_root
    <3>1. Null \notin Counted
      BY Kinds DEF Counted
    <3> QED BY <1>1, <1>8, <3>1, MountKinds DEF Shape, FilesHere
  <2>2. PICK r \in Int, u \in Nat : r = ref[n] /\ u = users[n] /\ u > 0
    BY <1>2, <1>5, <1>8
  <2>3. ~Unmade(n)
    BY <1>5, <1>8, <2>2 DEF CountOf
  <2>4. users' \in [Counted -> Nat] /\ users'[n] = u - 1 /\ \A m \in Counted : m # n => users'[m] = users[m]
    <3>1. users' = [users EXCEPT ![n] = @ + (-1)]
      BY <1>2, <1>8 DEF OneMore
    <3>2. PICK v \in Nat : v = u + (-1) /\ v = u - 1
      BY <2>2
    <3> QED BY <1>5, <1>8, <2>2, <3>1, <3>2
  <2>5. PICK c \in Int : c = (IF r = -1 THEN -1 ELSE r - 1)
    BY <2>2
  <2>6. ref' \in [Nodes -> Int] /\ ref'[n] = c /\ \A m \in Nodes : m # n => ref'[m] = ref[m]
    <3>1. CASE r = -1
      BY <1>2, <1>5, <1>8, <2>2, <2>5, <3>1
    <3>2. CASE r # -1
      <4>1. ref' = [ref EXCEPT ![n] = @ - 1]
        BY <1>2, <2>1, <2>2, <3>2
      <4>2. c = r - 1
        BY <2>5, <3>2
      <4> QED BY <1>5, <1>8, <2>2, <4>1, <4>2
    <3> QED BY <3>1, <3>2
  <2>7. ASSUME NEW m \in Counted PROVE CountOf(m)'
    <3>1. CASE m = n
      <4>1. ~Uncleared(n) => r \in {0, -1}
        BY <1>5, <1>8, <2>2 DEF CountOf
      <4>2. r = -1 \/ ~Uncleared(n) \/ (IF Zeroed(n) THEN r = u ELSE r >= u)
        BY <1>5, <1>8, <2>2 DEF CountOf
      <4>3. ~Uncleared(n) => c \in {0, -1}
        BY <2>5, <4>1
      <4>4. c = -1 \/ ~Uncleared(n) \/ (IF Zeroed(n) THEN c = u - 1 ELSE c >= u - 1)
        BY <2>2, <2>5, <4>2
      <4> QED BY <1>6, <2>3, <2>4, <2>6, <3>1, <4>3, <4>4 DEF CountOf
    <3>2. CASE m # n
      <4>1. CountOf(m) /\ ref'[m] = ref[m] /\ users'[m] = users[m]
        BY <1>5, <2>4, <2>6, <3>2
      <4> QED BY <1>6, <4>1 DEF CountOf
    <3> QED BY <3>1, <3>2
  <2>8. Counts'
    BY <2>4, <2>6, <2>7 DEF Counts
  <2>9. Pins'
    <3>1. \A e \in Mounts : e # Null => e \in Nodes /\ e # n
      BY <1>1, <1>8, MountKinds DEF Shape, FilesHere
    <3>2. \A e \in Mounts : e # Null => ref'[e] = ref[e]
      BY <2>6, <3>1
    <3> QED BY <1>1, <1>2, <3>2, MadeMounts DEF Pins, Shape, TreeNodes
  <2>10. ClosedOk'
    <3>1. CASE r = -1
      BY <1>2, <2>2, <3>1 DEF ClosedOk
    <3>2. CASE r # -1 /\ r # 1
      BY <1>2, <2>1, <2>2, <3>2 DEF ClosedOk
    <3>3. CASE r = 1
      <4>1. closed' = n
        BY <1>2, <2>1, <2>2, <3>3
      <4>2. ~Uncleared(n) => r \in {0, -1}
        BY <1>5, <1>8, <2>2 DEF CountOf
      <4>3. r = -1 \/ ~Uncleared(n) \/ (IF Zeroed(n) THEN r = u ELSE r >= u)
        BY <1>5, <1>8, <2>2 DEF CountOf
      <4>4. u - 1 = 0
        BY <2>2, <3>3, <4>2, <4>3
      <4> QED BY <2>4, <4>1, <4>4 DEF ClosedOk
    <3> QED BY <3>1, <3>2, <3>3
  <2> QED BY <1>2, <1>4, <2>8, <2>9, <2>10, QuietAnswers DEF VInv
<1> QED BY <1>7, <1>8

\* devfs_add keeps the invariant.
LEMMA AddKeeps ==
  ASSUME VInv, NEW d \in Devs, devfs_add(d)
  PROVE  VInv'
<1>1. Shape /\ Pins /\ Counts
  BY DEF VInv
<1>2. PICK len \in Nat : len = Len(nodes) /\ len \in 0..MaxDevices
  BY VfsAssumption, <1>1 DEF Shape, FilesHere, SlotsOk
<1>3. PICK dev, slot, x : dev = <<"dev", d>> /\ slot = <<"slot", len + 1>> /\ x = [name |-> DevName[d], dev |-> d]
  OBVIOUS
<1>4. /\ len < MaxDevices /\ nodes' = Append(nodes, x)
      /\ ref' = [[ref EXCEPT ![dev] = -1] EXCEPT ![slot] = ref[dev]]
      /\ Mounted(<<"dev", DevName[d]>>, dev)
      /\ last' = NoAnswer /\ closed' = Null /\ UNCHANGED <<disk, mounted, file, users>>
  BY <1>2, <1>3, Zenon DEF devfs_add, Pinned
<1>5. /\ dev \in Nodes /\ dev \in Mounts /\ dev \notin Counted /\ dev # Null
      /\ slot \in Nodes /\ slot \in Counted /\ slot[1] = "slot" /\ slot[2] = len + 1 /\ dev # slot
  BY <1>2, <1>3, <1>4, VfsAssumption, Kinds DEF Nodes, Counted, Mounts
<1>6. x \in [name : Names, dev : Nat] /\ x.dev = d
  BY <1>3, VfsAssumption, PathAssumption DEF Names
<1>7. /\ nodes' \in Seq([name : Names, dev : Nat]) /\ Len(nodes') = len + 1 /\ nodes'[len + 1] = x
      /\ \A k \in 1..len : nodes'[k] = nodes[k]
  BY <1>1, <1>2, <1>4, <1>6 DEF Shape, FilesHere, SlotsOk
<1>8. SlotsOk'
  <2>1. \A k \in 1..len : nodes'[k] = Cleared \/ nodes'[k].dev \in Devs
    BY <1>1, <1>2, <1>7 DEF Shape, FilesHere, SlotsOk
  <2>2. \A k \in 1..len + 1 : k \in 1..len \/ k = len + 1
    BY <1>2
  <2>3. \A k \in 1..len + 1 : nodes'[k] = Cleared \/ nodes'[k].dev \in Devs
    BY <1>6, <1>7, <2>1, <2>2
  <2> QED BY <1>2, <1>4, <1>7, <2>3, VfsAssumption DEF SlotsOk
<1>9. Mounts' = Mounts
  BY <1>4, Zenon DEF Mounts
<1>10. FilesHere' /\ FilesOk'
  BY <1>1, <1>4, <1>8, <1>9, Zenon DEF Shape, FilesHere, FilesOk, MountedOk, DiskOk
<1>11. TreeOk' /\ RootOk' /\ Changed(dev) /\ vfs_root' \in {dev, vfs_root}
  <2>1. DevName[d] \in Names /\ "dev" \in Names
    BY PathAssumption DEF Names
  <2>2. <<"dev", DevName[d]>> \in Strings
    BY <2>1, ShortPaths
  <2> QED BY <1>1, <1>4, <2>2, MountedIs DEF Shape
<1>12. Shape'
  BY <1>1, <1>5, <1>9, <1>10, <1>11, TreeKeeps DEF Shape
<1>13. ref \in [Nodes -> Int] /\ users \in [Counted -> Nat] /\ Counted \subseteq Nodes /\ \A m \in Counted : CountOf(m)
  BY <1>1 DEF Counts, Counted
<1>14. PICK r \in {0, -1} : r = ref[dev]
  BY <1>1, <1>3 DEF Pins
<1>15. ref' \in [Nodes -> Int] /\ ref'[dev] = -1 /\ ref'[slot] = r /\ \A m \in Nodes : m \notin {dev, slot} => ref'[m] = ref[m]
  BY <1>4, <1>5, <1>13, <1>14
<1>16. Pins'
  <2>1. \A e \in Mounts : e # Null => e \in Nodes /\ e # slot
    BY <1>1, <1>5, MountKinds DEF Shape, FilesHere
  <2>2. \A e \in Mounts : e # Null /\ ref[e] = -1 => ref'[e] = -1
    BY <1>15, <2>1
  <2>3. \A y \in Devs : <<"dev", y>> \in Mounts /\ <<"dev", y>> # Null
    BY DEF Mounts, Null
  <2>4. \A y \in Devs : ref'[<<"dev", y>>] \in {0, -1}
    BY <1>1, <1>15, <2>1, <2>3 DEF Pins
  <2>5. \A k \in 1..Len(mounted') : k \in 1..Len(mounted)
    BY <1>4
  <2> QED BY <1>1, <1>11, <1>15, <2>2, <2>4, <2>5, PinsKeep
<1>17. ASSUME NEW m \in Counted PROVE CountOf(m)'
  <2>1. CASE m = slot
    <3>1. ~Unmade(m)' /\ Zeroed(m)'
      BY <1>2, <1>5, <1>7, <2>1 DEF Unmade, Zeroed
    <3>2. users'[m] = 0
      <4>1. Unmade(m)
        BY <1>2, <1>5, <2>1 DEF Unmade
      <4> QED BY <1>4, <1>13, <4>1 DEF CountOf
    <3> QED BY <1>14, <1>15, <2>1, <3>1, <3>2 DEF CountOf
  <2>2. CASE m # slot
    <3>1. CountOf(m) /\ ref'[m] = ref[m] /\ users'[m] = users[m]
      BY <1>4, <1>5, <1>13, <1>15, <2>2
    <3>2. m[1] = "slot" => m[2] \in Nat \ {0} /\ m[2] # len + 1
      BY <1>3, <2>2, VfsAssumption DEF Counted, Nodes, Devfs
    <3>3. Unmade(m)' => Unmade(m)
      BY <1>2, <1>4, <1>7, <3>2 DEF Unmade
    <3>4. Uncleared(m)' = Uncleared(m)
      <4>1. CASE m[1] # "slot"
        BY <4>1 DEF Uncleared
      <4>2. CASE m[1] = "slot" /\ m[2] <= len
        <5>1. m[2] \in 1..len /\ m[2] <= len + 1 /\ nodes'[m[2]] = nodes[m[2]]
          BY <1>7, <3>2, <4>2
        <5> QED BY <1>2, <1>7, <4>2, <5>1 DEF Uncleared
      <4>3. CASE m[1] = "slot" /\ ~(m[2] <= len)
        <5>1. ~(m[2] <= len + 1)
          BY <3>2, <4>3
        <5> QED BY <1>2, <1>7, <4>3, <5>1 DEF Uncleared
      <4> QED BY <4>1, <4>2, <4>3
    <3>5. Zeroed(m)' = Zeroed(m)
      BY <1>4, Zenon DEF Zeroed, DeviceOf
    <3> QED BY <3>1, <3>3, <3>4, <3>5 DEF CountOf
  <2> QED BY <2>1, <2>2
<1>18. Counts'
  BY <1>4, <1>13, <1>15, <1>17 DEF Counts
<1> QED BY <1>4, <1>12, <1>16, <1>18, QuietAnswers DEF VInv, ClosedOk

-----------------------------------------------------------------------------
(* Creating and removing. *)

\* the paths on a disk
EntriesOk(d, S) ==
  \A q \in S : /\ q \in Strings \ {<<>>} /\ \A i \in 1..Len(q) : Up(q, i) \in S
               /\ DiskType[d] = "sorfs" => Len(q) = 1

\* A disk on which something was created below an entry of it.
LEMMA EntryAdded ==
  ASSUME NEW d, NEW S, EntriesOk(d, S), DiskType[d] = "ext2", NEW q \in Strings, q = <<>> \/ q \in S, NEW x \in Names
  PROVE  EntriesOk(d, S \cup {Append(q, x)})
<1>0. PICK len \in Nat : len = Len(q)
  BY DEF Strings
<1>1. PICK a : a = Append(q, x) /\ len = Len(q)
  BY <1>0
<1>2. a \in Strings /\ a # <<>> /\ Len(a) = len + 1 /\ \A k \in 1..len : a[k] = q[k]
  BY <1>1 DEF Strings
<1>3. ASSUME NEW i \in 1..len + 1 PROVE Up(a, i) \in S \cup {a}
  <2>1. CASE i = len + 1
    <3>1. Len(a) \in 0..Len(a)
      BY <1>2
    <3>2. Up(a, Len(a)) = a
      BY <1>2, <3>1, UpIs
    <3> QED BY <1>2, <2>1, <3>2
  <2>2. CASE i # len + 1
    <3>1. i \in 0..Len(a) /\ i \in 0..Len(q) /\ i \in 1..Len(q) /\ i \in Nat
      BY <1>1, <1>2, <1>3, <2>2
    <3>2. PICK u, v : u = Up(a, i) /\ v = Up(q, i)
      OBVIOUS
    <3>3. u \in Strings /\ Len(u) = i /\ \A k \in 1..i : u[k] = a[k]
      BY <1>2, <3>1, <3>2, UpIs
    <3>4. v \in Strings /\ Len(v) = i /\ \A k \in 1..i : v[k] = q[k]
      BY <3>1, <3>2, UpIs
    <3>5. \A k \in 1..i : k \in 1..len
      BY <1>1, <3>1
    <3>6. u = v
      <4>1. \A k \in 1..i : u[k] = v[k]
        BY <1>2, <3>3, <3>4, <3>5
      <4> QED BY <3>3, <3>4, <4>1, SeqEqual DEF Strings
    <3>7. q # <<>>
      BY <3>1
    <3> QED BY <3>1, <3>2, <3>6, <3>7 DEF EntriesOk
  <2> QED BY <2>1, <2>2
<1>4. DiskType[d] # "sorfs"
  OBVIOUS
<1> QED BY <1>1, <1>2, <1>3, <1>4 DEF EntriesOk

\* A disk from which an entry was unlinked, with what is below it.
LEMMA EntryDropped ==
  ASSUME NEW d, NEW S, EntriesOk(d, S), NEW q \in Strings
  PROVE  EntriesOk(d, {y \in S : ~IsPrefix(q, y)})
<1>1. ASSUME NEW y \in S, ~IsPrefix(q, y), NEW i \in 1..Len(y) PROVE ~IsPrefix(q, Up(y, i))
  <2>1. SUFFICES ASSUME IsPrefix(q, Up(y, i)) PROVE FALSE
    OBVIOUS
  <2>2. y \in Strings /\ i \in 0..Len(y) /\ Len(q) \in Nat /\ Len(y) \in Nat
    BY <1>1 DEF EntriesOk, Strings
  <2>3. PICK u : u = Up(y, i) /\ u \in Strings /\ Len(u) = i
    BY <2>2, UpIs
  <2>4. Len(q) <= i /\ q = Up(u, Len(q))
    BY <2>1, <2>3, PrefixIs
  <2>5. Len(q) \in 0..i /\ Len(q) <= Len(y)
    BY <2>2, <2>4
  <2>6. q = Up(y, Len(q))
    BY <2>2, <2>3, <2>4, <2>5, UpOfUp
  <2> QED BY <1>1, <2>2, <2>5, <2>6, PrefixIs
<1> QED BY <1>1 DEF EntriesOk

\* The parent and the last token of a path.
LEMMA ParentIs ==
  ASSUME NEW p \in Strings, p # <<>>
  PROVE  Parent(p) \in Strings /\ Last(p) \in Names
<1>1. Len(p) \in Nat \ {0} /\ Len(p) \in 1..Len(p) /\ \A k \in 1..Len(p) : p[k] \in Names
  BY DEF Strings
<1>2. Last(p) \in Names
  BY <1>1 DEF Last
<1>3. Front(p) \in Strings
  <2>1. Len(p) - 1 \in 0..Len(p)
    BY <1>1
  <2>2. Front(p) = Up(p, Len(p) - 1)
    BY DEF Front, Up
  <2> QED BY <2>1, <2>2, UpIs
<1>4. Root \in Strings
  BY DEF Root, Strings, Names
<1> QED BY <1>2, <1>3, <1>4 DEF Parent

\* how a directory on a disk and the slots of devfs are modified
Rewritten(D, q, E) == E = With(D, q, "file") \/ E = With(D, q, "dir") \/ E = Drop(D, q)
Modified(p, pl) ==
  \/ UNCHANGED <<disk, nodes>>
  \/ /\ InExt2Dir(pl) /\ nodes' = nodes
     /\ \E E : disk' = [disk EXCEPT ![DeviceOf(pl.n)] = E] /\ Rewritten(disk[DeviceOf(pl.n)], Append(pl.q, Last(p)), E)
  \/ /\ disk' = disk
     /\ nodes' = IF SlotsNamed(Last(p)) = {} THEN nodes ELSE [nodes EXCEPT ![Min(SlotsNamed(Last(p)))] = Cleared]

\* What creating and removing have in common.
LEMMA ModifyIs ==
  ASSUME NEW p, VFS_create(p) \/ VFS_mkdir(p) \/ VFS_unlink(p)
  PROVE  /\ UNCHANGED <<tree, vfs_root, mounted, file, users, odd>> /\ last' = NoAnswer /\ closed' = Null
         /\ ref' = [n \in Nodes |->
               IF n[1] = "slot" /\ n[2] <= Len(nodes) /\ nodes'[n[2]] # nodes[n[2]] THEN 0 ELSE ref[n]]
         /\ \E pl \in Resolve(Parent(p)) : Modified(p, pl)
<1>1. CASE VFS_create(p)
  BY <1>1, Zenon DEF VFS_create, AddFile, Modify, Modified, Rewritten
<1>2. CASE VFS_mkdir(p)
  BY <1>2, Zenon DEF VFS_mkdir, AddDir, Modify, Modified, Rewritten
<1>3. CASE VFS_unlink(p)
  BY <1>3, Zenon DEF VFS_unlink, Modify, Modified, Rewritten
<1> QED BY <1>1, <1>2, <1>3, Zenon

\* A sequence with one element changed.
LEMMA OneChanged ==
  ASSUME NEW R, NEW s \in Seq(R), NEW k \in 1..Len(s), NEW x \in R, NEW t, t = [s EXCEPT ![k] = x]
  PROVE  t \in Seq(R) /\ Len(t) = Len(s) /\ \A i \in 1..Len(s) : t[i] = IF i = k THEN x ELSE s[i]
<1>1. PICK n \in Nat : n = Len(s)
  OBVIOUS
<1>2. s \in [1..n -> R]
  BY <1>1, LenProperties
<1>3. t \in [1..n -> R] /\ \A i \in 1..n : t[i] = IF i = k THEN x ELSE s[i]
  BY <1>1, <1>2
<1>4. t \in Seq(R) /\ Len(t) = n
  BY <1>1, <1>3, SeqDef
<1> QED BY <1>1, <1>3, <1>4

\* The slots after devfs_unlink.
LEMMA SlotsModified ==
  ASSUME SlotsOk, NEW name,
         nodes' = IF SlotsNamed(name) = {} THEN nodes ELSE [nodes EXCEPT ![Min(SlotsNamed(name))] = Cleared]
  PROVE  SlotsOk' /\ Len(nodes') = Len(nodes) /\ \A k \in 1..Len(nodes) : nodes'[k] = nodes[k] \/ nodes'[k] = Cleared
<1>0. PICK len \in Nat : len = Len(nodes) /\ len \in 0..MaxDevices
  BY VfsAssumption DEF SlotsOk
<1>1. CASE SlotsNamed(name) = {}
  <2>1. nodes' = nodes
    BY <1>1
  <2> QED BY <2>1 DEF SlotsOk
<1>2. CASE SlotsNamed(name) # {}
  <2>1. PICK S : S = SlotsNamed(name)
    OBVIOUS
  <2>2. PICK one \in Int : one = 1
    OBVIOUS
  <2>3. S \in SUBSET Int /\ S # {} /\ \A i \in S : one <= i
    BY <1>2, <2>1, <2>2 DEF SlotsNamed
  <2>4. \E k \in S : \A y \in S : k <= y
    BY <2>3, LeastOf
  <2>5. PICK k : k = Min(S)
    OBVIOUS
  <2>6. k \in S
    BY <2>4, <2>5 DEF Min
  <2>7. k \in 1..len
    BY <1>0, <2>1, <2>6 DEF SlotsNamed
  <2>8. nodes' = [nodes EXCEPT ![k] = Cleared]
    BY <1>2, <2>1, <2>5
  <2>9. Cleared \in [name : Names, dev : Nat]
    BY DEF Cleared, Names
  <2>10. /\ nodes' \in Seq([name : Names, dev : Nat]) /\ Len(nodes') = len
         /\ \A i \in 1..len : nodes'[i] = IF i = k THEN Cleared ELSE nodes[i]
    <3>1. PICK x, R : x = Cleared /\ R = [name : Names, dev : Nat]
      OBVIOUS
    <3>2. nodes \in Seq(R) /\ x \in R /\ nodes' = [nodes EXCEPT ![k] = x]
      BY <2>8, <2>9, <3>1 DEF SlotsOk
    <3>3. nodes' \in Seq(R) /\ Len(nodes') = len /\ \A i \in 1..len : nodes'[i] = IF i = k THEN x ELSE nodes[i]
      <4>1. k \in 1..Len(nodes)
        BY <1>0, <2>7
      <4>2. PICK s, t : s = nodes /\ t = nodes'
        OBVIOUS
      <4>3. s \in Seq(R) /\ k \in 1..Len(s) /\ t = [s EXCEPT ![k] = x]
        BY <3>2, <4>1, <4>2, Zenon
      <4>4. t \in Seq(R) /\ Len(t) = Len(s) /\ \A i \in 1..Len(s) : t[i] = IF i = k THEN x ELSE s[i]
        BY <3>2, <4>3, OneChanged
      <4> QED BY <1>0, <4>2, <4>4, Zenon
    <3> QED BY <3>1, <3>3
  <2>11. \A i \in 1..len : nodes'[i] = Cleared \/ nodes'[i].dev \in Devs
    BY <1>0, <2>10 DEF SlotsOk
  <2> QED BY <1>0, <2>10, <2>11 DEF SlotsOk
<1> QED BY <1>1, <1>2

\* The disks after EXT2's part.
LEMMA DiskModified ==
  ASSUME FilesHere, NEW x \in Names, NEW pl, Here(pl), InExt2Dir(pl), NEW E, disk' = [disk EXCEPT ![DeviceOf(pl.n)] = E],
         Rewritten(disk[DeviceOf(pl.n)], Append(pl.q, x), E)
  PROVE  DiskOk'
<1>0. \A n, q : Place(n, q).n = n /\ Place(n, q).q = q
  BY DEF Place
<1>1. pl.n[1] = "fs" /\ DiskType[DeviceOf(pl.n)] = "ext2"
  BY DEF InExt2Dir
<1>2. /\ pl.n \in Mounts
      /\ pl.q = <<>> \/ (pl.q \in Strings /\ pl.q \in DOMAIN disk[DeviceOf(pl.n)])
  <2>1. pl # Place(Null, <<>>) /\ pl # Place(Wild, <<>>) /\ \A k : pl # Place(<<"slot", k>>, <<>>)
    BY <1>0, <1>1, Kinds
  <2>2. \A q : pl # Place(Proc(0), q)
    BY <1>0, <1>1, Kinds
  <2>3. /\ pl.n \in Mounts
        /\ \/ pl = Place(pl.n, <<>>)
           \/ pl.q \in Strings /\ pl.q \in DOMAIN disk[DeviceOf(pl.n)]
    BY <2>1, <2>2, Zenon DEF Here
  <2> QED BY <1>0, <2>3
<1>3. PICK d \in Devs : d = DeviceOf(pl.n)
  BY <1>1, <1>2, MountIs, Kinds DEF FilesHere
<1>4. PICK D, q : D = disk[d] /\ q = pl.q
  OBVIOUS
<1>5. q \in Strings /\ (q = <<>> \/ q \in DOMAIN D) /\ DiskType[d] = "ext2"
  <2>1. <<>> \in Strings
    BY DEF Strings
  <2> QED BY <1>1, <1>2, <1>3, <1>4, <2>1
<1>6. EntriesOk(d, DOMAIN D)
  BY <1>3, <1>4 DEF FilesHere, DiskOk, EntriesOk
<1>7. PICK a : a = Append(q, x)
  OBVIOUS
<1>8. a \in Strings
  BY <1>5, <1>7 DEF Strings
<1>9. EntriesOk(d, DOMAIN E)
  <2>1. Rewritten(D, a, E)
    BY <1>3, <1>4, <1>7
  <2>2. DOMAIN E = DOMAIN D \cup {a} \/ DOMAIN E = {y \in DOMAIN D : ~IsPrefix(a, y)}
    BY <2>1 DEF Rewritten, With, Drop
  <2>3. EntriesOk(d, DOMAIN D \cup {a})
    BY <1>5, <1>6, <1>7, EntryAdded
  <2>4. EntriesOk(d, {y \in DOMAIN D : ~IsPrefix(a, y)})
    BY <1>6, <1>8, EntryDropped
  <2> QED BY <2>2, <2>3, <2>4, Zenon
<1>10. DOMAIN disk' = Devs /\ disk'[d] = E /\ \A y \in Devs : y # d => disk'[y] = disk[y]
  BY <1>3 DEF FilesHere, DiskOk
<1>11. \A y \in Devs : EntriesOk(y, DOMAIN disk[y])
  BY DEF FilesHere, DiskOk, EntriesOk
<1>12. \A y \in Devs : EntriesOk(y, DOMAIN disk'[y])
  BY <1>9, <1>10, <1>11, Zenon
<1> QED BY <1>10, <1>12 DEF DiskOk, EntriesOk

\* Creating and removing keep the invariant.
LEMMA ModifyKeeps ==
  ASSUME VInv, NEW p \in Strings, p # <<>>, VFS_create(p) \/ VFS_mkdir(p) \/ VFS_unlink(p)
  PROVE  VInv'
<1>1. Shape /\ Pins /\ Counts
  BY DEF VInv
<1>2. /\ UNCHANGED <<tree, vfs_root, mounted, file, users, odd>> /\ last' = NoAnswer /\ closed' = Null
      /\ ref' = [n \in Nodes |->
               IF n[1] = "slot" /\ n[2] <= Len(nodes) /\ nodes'[n[2]] # nodes[n[2]] THEN 0 ELSE ref[n]]
      /\ \E pl \in Resolve(Parent(p)) : Modified(p, pl)
  BY ModifyIs
<1>3. Parent(p) \in Strings /\ Last(p) \in Names
  BY ParentIs
<1>4. PICK pl : Here(pl) /\ Modified(p, pl)
  BY <1>1, <1>2, <1>3, PlaceIs
<1>5. SlotsOk /\ DiskOk /\ MountedOk
  BY <1>1 DEF Shape, FilesHere
<1>6. SlotsOk' /\ Len(nodes') = Len(nodes) /\ \A k \in 1..Len(nodes) : nodes'[k] = nodes[k] \/ nodes'[k] = Cleared
  <2>1. CASE nodes' = nodes
    BY <1>5, <2>1 DEF SlotsOk
  <2>2. CASE nodes' # nodes
    <3>1. nodes' = IF SlotsNamed(Last(p)) = {} THEN nodes ELSE [nodes EXCEPT ![Min(SlotsNamed(Last(p)))] = Cleared]
      BY <1>4, <2>2, Zenon DEF Modified
    <3> QED BY <1>5, <3>1, SlotsModified
  <2> QED BY <2>1, <2>2
<1>7. DiskOk'
  <2>1. CASE disk' = disk
    BY <1>5, <2>1, Zenon DEF DiskOk
  <2>2. CASE disk' # disk
    <3>1. PICK E : /\ InExt2Dir(pl) /\ disk' = [disk EXCEPT ![DeviceOf(pl.n)] = E]
                   /\ Rewritten(disk[DeviceOf(pl.n)], Append(pl.q, Last(p)), E)
      BY <1>4, <2>2, Zenon DEF Modified
    <3> QED BY <1>1, <1>3, <1>4, <3>1, DiskModified DEF Shape
  <2> QED BY <2>1, <2>2
<1>8. Shape'
  <2>1. FilesOk' /\ MountedOk' /\ TreeNodes' /\ TreeOk' /\ (vfs_root \in Mounts)' /\ RootOk'
    BY <1>1, <1>2, Zenon DEF Shape, FilesOk, FilesHere, MountedOk, Mounts, TreeNodes, TreeOk, RootOk, RootAgrees
  <2> QED BY <1>6, <1>7, <2>1 DEF Shape, FilesHere
<1>9. ref \in [Nodes -> Int] /\ users \in [Counted -> Nat] /\ Counted \subseteq Nodes /\ \A m \in Counted : CountOf(m)
  BY <1>1 DEF Counts, Counted
<1>10. /\ ref' \in [Nodes -> Int]
       /\ \A n \in Nodes : ref'[n] = IF n[1] = "slot" /\ n[2] <= Len(nodes) /\ nodes'[n[2]] # nodes[n[2]] THEN 0 ELSE ref[n]
  BY <1>2, <1>9
<1>11. Pins'
  <2>1. \A e \in Mounts : e # Null => e \in Nodes /\ e[1] # "slot"
    BY <1>5, MountKinds
  <2>2. \A e \in Mounts : e # Null => ref'[e] = ref[e]
    BY <1>10, <2>1
  <2> QED BY <1>1, <1>2, <2>2, MadeMounts DEF Pins, Shape, TreeNodes
<1>12. ASSUME NEW m \in Counted PROVE CountOf(m)'
  <2>0. PICK len \in Nat : len = Len(nodes) /\ len = Len(nodes')
    BY <1>5, <1>6, VfsAssumption DEF SlotsOk
  <2>1. Unmade(m)' = Unmade(m) /\ Zeroed(m)' = Zeroed(m)
    BY <1>2, <1>6, Zenon DEF Unmade, Zeroed, DeviceOf
  <2>2. CASE m[1] = "slot" /\ m[2] <= Len(nodes) /\ nodes'[m[2]] # nodes[m[2]]
    <3>1. m[2] \in 1..Len(nodes)
      <4>1. m[2] \in Nat \ {0}
        BY <2>2, VfsAssumption DEF Counted, Nodes, Devfs
      <4> QED BY <2>0, <2>2, <4>1
    <3>2. ref'[m] = 0
      BY <1>9, <1>10, <2>2
    <3>3. ~Uncleared(m)'
      BY <1>6, <2>2, <3>1 DEF Uncleared
    <3>4. ~Unmade(m)
      BY <2>0, <2>2, <3>1 DEF Unmade
    <3> QED BY <2>1, <3>2, <3>3, <3>4 DEF CountOf
  <2>3. CASE ~(m[1] = "slot" /\ m[2] <= Len(nodes) /\ nodes'[m[2]] # nodes[m[2]])
    <3>1. CountOf(m) /\ ref'[m] = ref[m] /\ users'[m] = users[m]
      BY <1>2, <1>9, <1>10, <2>3
    <3>2. Uncleared(m)' = Uncleared(m)
      BY <1>6, <2>3, Zenon DEF Uncleared
    <3> QED BY <2>1, <3>1, <3>2 DEF CountOf
  <2> QED BY <2>2, <2>3
<1>13. Counts'
  BY <1>2, <1>9, <1>10, <1>12 DEF Counts
<1> QED BY <1>2, <1>8, <1>11, <1>13, QuietAnswers DEF VInv, ClosedOk

-----------------------------------------------------------------------------
(* Mounting a disk. *)

\* the device that is probed for a file system, and what is done with the one that is found
Found(pl, p, counts) ==
  IF TypeOn(pl) = "none" THEN ref' = counts /\ UNCHANGED <<tree, vfs_root, odd, mounted>>
  ELSE MountRoot(DeviceAt(pl), p, counts)
Probed(pl, p) ==
  /\ pl.n[1] \in {"dev", "slot"} /\ ~(pl.n[1] = "slot" /\ nodes[pl.n[2]] = Cleared)
  /\ users' = OneMore(pl.n, KeptOpen(TypeOn(pl)))
  /\ Found(pl, p, IF ref[pl.n] >= 0 THEN [ref EXCEPT ![pl.n] = @ + KeptOpen(TypeOn(pl))] ELSE ref)

\* The outcomes of mount.
LEMMA ProbesAre ==
  ASSUME NEW devpath, NEW p, mount(devpath, p)
  PROVE  /\ last' = NoAnswer /\ closed' = Null /\ UNCHANGED <<nodes, disk, file>>
         /\ \/ UNCHANGED <<tree, vfs_root, odd, ref, mounted, users>>
            \/ \E pl \in Resolve(devpath) : Probed(pl, p)
  BY Zenon DEF mount, Probed, Found

\* A device that holds a file system is mounted under its own type.
LEMMA DeviceIs ==
  ASSUME FilesHere, NEW pl, Here(pl), pl.n[1] \in {"dev", "slot"}, ~(pl.n[1] = "slot" /\ nodes[pl.n[2]] = Cleared)
  PROVE  /\ DeviceAt(pl) \in Devs /\ TypeOn(pl) = DiskType[DeviceAt(pl)]
         /\ \/ pl.n \in Mounts /\ pl.n # Null /\ ref[pl.n] = -1
            \/ \E k \in 1..Len(nodes) : pl.n = <<"slot", k>>
<1>0. \A n, q : Place(n, q).n = n /\ Place(n, q).q = q
  BY DEF Place
<1>1. pl # Place(Null, <<>>) /\ pl # Place(Wild, <<>>)
  BY <1>0, Kinds
<1>2. ASSUME NEW k \in 1..Len(nodes), pl = Place(<<"slot", k>>, <<>>)
      PROVE  pl.n = <<"slot", k>> /\ DeviceAt(pl) \in Devs /\ TypeOn(pl) = DiskType[DeviceAt(pl)]
  <2>1. pl.n = <<"slot", k>>
    BY <1>0, <1>2
  <2>2. pl.n[1] = "slot" /\ pl.n[2] = k /\ pl.n[1] # "dev"
    BY <2>1
  <2>3. nodes[k].dev \in Devs
    BY <1>2, <2>2 DEF FilesHere, SlotsOk
  <2> QED BY <2>1, <2>2, <2>3 DEF DeviceAt, TypeOn
<1>3. ASSUME pl.n \in Mounts, pl.n # Null, ref[pl.n] = -1
      PROVE  DeviceAt(pl) \in Devs /\ TypeOn(pl) = DiskType[DeviceAt(pl)]
  <2>1. pl.n[1] = "dev"
    BY <1>3, MountKinds DEF FilesHere
  <2>2. pl.n \in {"dev"} \X Devs
    BY <1>3, <2>1, Kinds DEF Mounts
  <2> QED BY <2>1, <2>2 DEF DeviceAt, TypeOn
<1>4. (pl.n \in Mounts /\ pl.n # Null /\ ref[pl.n] = -1) \/ \E k \in 1..Len(nodes) : pl = Place(<<"slot", k>>, <<>>)
  BY <1>1, Zenon DEF Here
<1> QED BY <1>2, <1>3, <1>4

\* what the probes do to the counts
LEMMA ProbeCounts ==
  ASSUME Shape, Pins, Counts, NEW pl, Here(pl), NEW p, Probed(pl, p), nodes' = nodes, file' = file
  PROVE  \E c \in [Nodes -> Int] :
           /\ Found(pl, p, c) /\ users' \in [Counted -> Nat]
           /\ \A m \in Nodes : m \notin Counted => c[m] = ref[m]
           /\ \A m \in Counted : /\ Unmade(m) => c[m] = 0 /\ users'[m] = 0
                                 /\ ~Uncleared(m) => c[m] \in {0, -1}
                                 /\ c[m] = -1 \/ ~Uncleared(m) \/ (IF Zeroed(m) THEN c[m] = users'[m] ELSE c[m] >= users'[m])
<1>1. PICK n, opens : n = pl.n /\ opens = KeptOpen(TypeOn(pl)) /\ opens \in Nat
  <2>1. KeptOpen(TypeOn(pl)) \in Nat
    BY DEF KeptOpen
  <2> QED BY <2>1
<1>2. PICK c : c = IF ref[n] >= 0 THEN [ref EXCEPT ![n] = @ + opens] ELSE ref
  OBVIOUS
<1>3. users' = OneMore(n, opens) /\ Found(pl, p, c)
  BY <1>1, <1>2, Zenon DEF Probed
<1>4. ref \in [Nodes -> Int] /\ users \in [Counted -> Nat] /\ Counted \subseteq Nodes /\ \A m \in Counted : CountOf(m)
  BY DEF Counts, Counted
<1>5. CASE n \in Mounts /\ n # Null /\ ref[n] = -1
  <2>1. n \notin Counted
    BY <1>5, MountKinds DEF Shape, FilesHere
  <2>2. c = ref /\ users' = users
    BY <1>2, <1>3, <1>5, <2>1 DEF OneMore
  <2> QED BY <1>3, <1>4, <2>2 DEF CountOf
<1>6. ASSUME NEW k \in 1..Len(nodes), n = <<"slot", k>>
      PROVE  /\ c \in [Nodes -> Int] /\ users' \in [Counted -> Nat]
             /\ \A m \in Nodes : m \notin Counted => c[m] = ref[m]
             /\ \A m \in Counted : /\ Unmade(m) => c[m] = 0 /\ users'[m] = 0
                                   /\ ~Uncleared(m) => c[m] \in {0, -1}
                                   /\ c[m] = -1 \/ ~Uncleared(m) \/ (IF Zeroed(m) THEN c[m] = users'[m] ELSE c[m] >= users'[m])
  <2>1. n \in Counted /\ n \in Nodes /\ n[1] = "slot" /\ n[2] = k
    BY <1>6, SlotKinds DEF Shape, FilesHere
  <2>2. Uncleared(n) /\ ~Unmade(n) /\ Zeroed(n)
    <3>1. nodes[k] # Cleared
      BY <1>1, <2>1 DEF Probed
    <3>2. Len(nodes) \in Nat
      BY DEF Shape, FilesHere, SlotsOk
    <3> QED BY <1>6, <2>1, <3>1, <3>2 DEF Uncleared, Unmade, Zeroed
  <2>3. PICK a \in Int, u \in Nat : a = ref[n] /\ u = users[n] /\ (a = -1 \/ a = u)
    BY <1>4, <2>1, <2>2 DEF CountOf
  <2>4. PICK b \in Int : b = (IF a >= 0 THEN a + opens ELSE a) /\ (b = -1 \/ b = u + opens)
    BY <1>1, <2>3
  <2>5. c \in [Nodes -> Int] /\ c[n] = b /\ \A m \in Nodes : m # n => c[m] = ref[m]
    BY <1>2, <1>4, <2>1, <2>3, <2>4
  <2>6. users' \in [Counted -> Nat] /\ users'[n] = u + opens /\ \A m \in Counted : m # n => users'[m] = users[m]
    <3>1. users' = [users EXCEPT ![n] = @ + opens]
      BY <1>3, <2>1 DEF OneMore
    <3> QED BY <1>1, <1>4, <2>1, <2>3, <3>1
  <2>7. ASSUME NEW m \in Counted
        PROVE  /\ Unmade(m) => c[m] = 0 /\ users'[m] = 0
               /\ ~Uncleared(m) => c[m] \in {0, -1}
               /\ c[m] = -1 \/ ~Uncleared(m) \/ (IF Zeroed(m) THEN c[m] = users'[m] ELSE c[m] >= users'[m])
    <3>1. CASE m = n
      BY <2>2, <2>4, <2>5, <2>6, <3>1
    <3>2. CASE m # n
      <4>1. CountOf(m) /\ c[m] = ref[m] /\ users'[m] = users[m]
        BY <1>4, <2>5, <2>6, <3>2
      <4> QED BY <4>1 DEF CountOf
    <3> QED BY <3>1, <3>2
  <2> QED BY <2>1, <2>5, <2>6, <2>7
<1>7. (n \in Mounts /\ n # Null /\ ref[n] = -1) \/ \E k \in 1..Len(nodes) : n = <<"slot", k>>
  BY <1>1, DeviceIs DEF Probed, Shape
<1> QED BY <1>3, <1>5, <1>6, <1>7

\* mount keeps the invariant.
LEMMA MountKeeps ==
  ASSUME VInv, NEW devpath \in Strings, NEW p \in Strings, mount(devpath, p)
  PROVE  VInv'
<1>1. Shape /\ Pins /\ Counts
  BY DEF VInv
<1>2. /\ last' = NoAnswer /\ closed' = Null /\ UNCHANGED <<nodes, disk, file>>
      /\ \/ UNCHANGED <<tree, vfs_root, odd, ref, mounted, users>>
         \/ \E pl \in Resolve(devpath) : Probed(pl, p)
  BY ProbesAre
<1>3. CASE UNCHANGED <<tree, vfs_root, odd, ref, mounted, users>>
  <2>1. FilesOk' /\ FilesHere' /\ TreeNodes' /\ TreeOk' /\ (vfs_root \in Mounts)' /\ RootOk'
    BY <1>1, <1>2, <1>3, Zenon
       DEF Shape, FilesOk, FilesHere, SlotsOk, MountedOk, DiskOk, Mounts, TreeNodes, TreeOk, RootOk, RootAgrees
  <2>2. \A n : CountOf(n)' = CountOf(n)
    BY <1>2, <1>3, Zenon DEF CountOf, Unmade, Uncleared, Zeroed, DeviceOf
  <2>3. Counts' /\ Pins'
    BY <1>1, <1>3, <2>2, Zenon DEF Counts, Pins
  <2> QED BY <1>2, <2>1, <2>3, QuietAnswers DEF VInv, Shape, ClosedOk
<1>4. ASSUME NEW pl \in Resolve(devpath), Probed(pl, p) PROVE VInv'
  <2>1. Here(pl)
    BY <1>1, PlaceIs
  <2>2. PICK c \in [Nodes -> Int] :
           /\ Found(pl, p, c) /\ users' \in [Counted -> Nat]
           /\ \A m \in Nodes : m \notin Counted => c[m] = ref[m]
           /\ \A m \in Counted : /\ Unmade(m) => c[m] = 0 /\ users'[m] = 0
                                 /\ ~Uncleared(m) => c[m] \in {0, -1}
                                 /\ c[m] = -1 \/ ~Uncleared(m) \/ (IF Zeroed(m) THEN c[m] = users'[m] ELSE c[m] >= users'[m])
    BY <1>1, <1>2, <1>4, <2>1, ProbeCounts
  <2>3. \A m : Unmade(m)' = Unmade(m) /\ Uncleared(m)' = Uncleared(m)
    BY <1>2, Zenon DEF Unmade, Uncleared
  <2>4. Counted \subseteq Nodes /\ (\A e \in Mounts : e # Null => e \in Nodes /\ e \notin Counted)
        /\ (\A d \in Devs : <<"dev", d>> \in Mounts /\ <<"dev", d>> # Null)
        /\ \A k \in 1..Len(mounted) : <<"fs", k>> \in Mounts /\ <<"fs", k>> # Null
    BY <1>1, MountKinds, MadeMounts DEF Counted, Shape, FilesHere
  <2>5. CASE TypeOn(pl) = "none"
    <3>1. ref' = c /\ UNCHANGED <<tree, vfs_root, odd, mounted>>
      BY <2>2, <2>5, Zenon DEF Found
    <3>2. FilesOk' /\ FilesHere' /\ TreeNodes' /\ TreeOk' /\ (vfs_root \in Mounts)' /\ RootOk'
      BY <1>1, <1>2, <3>1, Zenon
         DEF Shape, FilesOk, FilesHere, SlotsOk, MountedOk, DiskOk, Mounts, TreeNodes, TreeOk, RootOk, RootAgrees
    <3>3. \A m : Zeroed(m)' = Zeroed(m)
      BY <1>2, <3>1, Zenon DEF Zeroed, DeviceOf
    <3>4. \A m \in Counted : CountOf(m)'
      BY <2>2, <2>3, <3>1, <3>3, Zenon DEF CountOf
    <3>5. Counts'
      BY <2>2, <3>1, <3>4 DEF Counts
    <3>6. Pins'
      BY <1>1, <2>2, <2>4, <3>1 DEF Pins, Shape, TreeNodes
    <3> QED BY <1>2, <3>2, <3>5, <3>6, QuietAnswers DEF VInv, Shape, ClosedOk
  <2>6. CASE TypeOn(pl) # "none"
    <3>1. PICK root, d : root = <<"fs", Len(mounted) + 1>> /\ d = DeviceAt(pl)
      OBVIOUS
    <3>2. /\ Len(mounted) < MaxMounts /\ mounted' = Append(mounted, d)
          /\ ref' = [c EXCEPT ![root] = -1] /\ Mounted(p, root)
      BY <2>2, <2>6, <3>1, Zenon DEF Found, MountRoot
    <3>3. d \in Devs /\ DiskType[d] \in {"ext2", "sorfs"}
      <4>1. d \in Devs /\ TypeOn(pl) = DiskType[d]
        BY <1>1, <1>4, <2>1, <3>1, DeviceIs DEF Probed, Shape
      <4> QED BY <2>6, <4>1, VfsAssumption
    <3>4. /\ Mounts \subseteq Mounts' /\ \A k \in 1..Len(mounted) : mounted'[k] = mounted[k]
      BY <1>1, <3>2, <3>3, MountsGrow
    <3>5. PICK len \in Nat : len = Len(mounted) /\ mounted \in Seq(Devs) /\ len < MaxMounts /\ Len(mounted') = len + 1
                             /\ mounted' \in Seq(Devs) /\ mounted'[len + 1] = d
      BY <1>1, <3>2, <3>3, VfsAssumption DEF Shape, FilesHere, MountedOk
    <3>6. root \in Mounts' /\ root \in Nodes /\ root \notin Counted /\ root # Null /\ \A y \in Devs : root # <<"dev", y>>
      <4>1. root = <<"fs", len + 1>> /\ len + 1 \in 1..Len(mounted') /\ len + 1 \in 1..MaxMounts
        BY <3>1, <3>5, VfsAssumption
      <4>2. root[1] = "fs"
        BY <4>1
      <4> QED BY <4>1, <4>2, Kinds DEF Mounts, Nodes, Counted
    <3>7. MountedOk'
      <4>1. \A k \in 1..len + 1 : k \in 1..len \/ k = len + 1
        BY <3>5
      <4>2. \A k \in 1..len + 1 : DiskType[mounted'[k]] \in {"ext2", "sorfs"}
        BY <1>1, <3>3, <3>4, <3>5, <4>1 DEF Shape, FilesHere, MountedOk
      <4> QED BY <3>5, <4>2, VfsAssumption DEF MountedOk
    <3>8. FilesOk' /\ FilesHere'
      <4>1. FilesOk'
        BY <1>1, <1>2, <3>4, FilesKeep
      <4>2. SlotsOk' /\ DiskOk'
        BY <1>1, <1>2, Zenon DEF Shape, FilesHere, SlotsOk, DiskOk
      <4> QED BY <3>7, <4>1, <4>2 DEF FilesHere
    <3>9. TreeOk' /\ RootOk' /\ Changed(root) /\ vfs_root' \in {root, vfs_root}
      BY <1>1, <3>2, MountedIs DEF Shape
    <3>10. Shape'
      BY <1>1, <3>4, <3>6, <3>8, <3>9, TreeKeeps DEF Shape
    <3>11. ref' \in [Nodes -> Int] /\ ref'[root] = -1 /\ \A m \in Nodes : m # root => ref'[m] = c[m]
      BY <3>2, <3>6
    <3>12. \A m \in Counted : Zeroed(m)' = Zeroed(m)
      BY <1>1, <1>2, <3>4, ZeroedKeeps
    <3>13. ASSUME NEW m \in Counted PROVE CountOf(m)'
      <4>1. ref'[m] = c[m]
        BY <2>4, <3>6, <3>11
      <4> QED BY <2>2, <2>3, <3>12, <4>1, Zenon DEF CountOf
    <3>14. Counts'
      BY <2>2, <3>11, <3>13 DEF Counts
    <3>15. Pins'
      <4>1. \A e \in Mounts : e # Null /\ ref[e] = -1 => ref'[e] = -1
        BY <2>2, <2>4, <3>11
      <4>2. \A y \in Devs : ref'[<<"dev", y>>] \in {0, -1}
        BY <1>1, <2>2, <2>4, <3>6, <3>11 DEF Pins
      <4>3. \A k \in 1..Len(mounted') : k \in 1..Len(mounted) \/ root = <<"fs", k>>
        BY <3>1, <3>5
      <4> QED BY <1>1, <3>9, <3>11, <4>1, <4>2, <4>3, PinsKeep
    <3> QED BY <1>2, <3>10, <3>14, <3>15, QuietAnswers DEF VInv, ClosedOk
  <2> QED BY <2>5, <2>6
<1> QED BY <1>2, <1>3, <1>4

-----------------------------------------------------------------------------
\* Every operation keeps the invariant.
LEMMA VfsSteps ==
  ASSUME VInv, [VfsNext]_vvars
  PROVE  VInv'
<1>0. /\ \A p \in Paths \cup DevPaths \cup MountPaths \cup ModPaths : p \in Strings /\ p # <<>>
  BY PathAssumption DEF Strings, Names
<1>1. ASSUME NEW p \in Paths, file_open(p) \/ VFS_listdir(p) PROVE VInv'
  <2>1. CASE Opens(p, FALSE)
    BY <1>0, <2>1, OpenKeeps
  <2>2. CASE Opens(p, TRUE)
    BY <1>0, <2>2, OpenKeeps
  <2> QED BY <1>1, <2>1, <2>2 DEF file_open, VFS_listdir
<1>2. ASSUME NEW n \in Nodes, VFS_close(n) PROVE VInv'
  BY <1>2, CloseKeeps
<1>3. ASSUME NEW p \in ModPaths, VFS_create(p) \/ VFS_mkdir(p) \/ VFS_unlink(p) PROVE VInv'
  BY <1>0, <1>3, ModifyKeeps
<1>4. ASSUME NEW d \in Devs, devfs_add(d) PROVE VInv'
  BY <1>4, AddKeeps
<1>5. ASSUME NEW p \in MountPaths, VFS_unmount(p) PROVE VInv'
  BY <1>0, <1>5, UnmountKeeps
<1>6. ASSUME NEW p \in MountPaths, devfs_mount(p) PROVE VInv'
  BY <1>0, <1>6, MountDevfsKeeps
<1>7. ASSUME NEW d \in DevPaths, NEW p \in MountPaths, mount(d, p) PROVE VInv'
  BY <1>0, <1>7, MountKeeps
<1>8. ASSUME UNCHANGED vvars PROVE VInv'
  <2>1. FilesOk' /\ FilesHere' /\ TreeNodes' /\ TreeOk' /\ (vfs_root \in Mounts)' /\ RootOk'
    BY <1>8, Zenon DEF vvars, VInv, Shape, FilesOk, FilesHere, SlotsOk, MountedOk, DiskOk, Mounts, TreeNodes, TreeOk,
                       RootOk, RootAgrees
  <2>2. \A n : CountOf(n)' = CountOf(n)
    BY <1>8, Zenon DEF vvars, CountOf, Unmade, Uncleared, Zeroed, DeviceOf
  <2>3. Counts' /\ Pins' /\ ClosedOk'
    BY <1>8, <2>2, Zenon DEF vvars, VInv, Counts, Pins, ClosedOk
  <2>4. \A p : AnswerRight(p)' = AnswerRight(p)
    <3>1. \A p : NearestEntry(p)' = NearestEntry(p)
      BY <1>8, Zenon DEF vvars, NearestEntry
    <3>2. \A p : Rest(p)' = Rest(p)
      BY <3>1, Zenon DEF Rest
    <3>3. \A e, r : Strays(e, r)' = Strays(e, r) /\ StrayAnswer(r)' = StrayAnswer(r)
      BY <1>8, Zenon DEF vvars, Strays, StrayAnswer, IsSorfs, SorfsRoot, DeviceOf
    <3> QED BY <1>8, <3>1, <3>2, <3>3, Zenon DEF vvars, AnswerRight, DeviceOf
  <2>5. AnswerOk'
    BY <1>8, <2>4, Zenon DEF vvars, VInv, AnswerOk
  <2> QED BY <2>1, <2>3, <2>5 DEF VInv, Shape
<1> QED BY <1>1, <1>2, <1>3, <1>4, <1>5, <1>6, <1>7, <1>8, Zenon DEF VfsNext

\* In every reachable state the node that file_open returned is the one that the nearest
\* entry above the path has there, and it found nothing only if there is none
\* (file_open, get_mountpoint_recur); but a path that goes on below another SORFS root than the
\* one mounted last, or below an entry of that one, is answered with the last root or an entry
\* of it (sorfs_finddir). Until "/" is mounted or unmounted by a path like "//", the root entry
\* is vfs_root.
THEOREM PathsAnswered == VfsSpec => []NearestMountAnswers
<1>1. VfsInit => VInv
  BY VfsStarts
<1>2. VInv /\ [VfsNext]_vvars => VInv'
  BY VfsSteps
<1>3. VInv => NearestMountAnswers
  BY VInvImplies
<1> QED BY <1>1, <1>2, <1>3, PTL DEF VfsSpec

\* In every reachable state the reference count of a node is that of its users, unless a mount
\* pinned it, or at least that where it started from old memory; and a node that was
\* closed for good had none left (VFS_open, VFS_close).
THEOREM UsersCounted == VfsSpec => []CountsUsers
<1>1. VfsInit => VInv
  BY VfsStarts
<1>2. VInv /\ [VfsNext]_vvars => VInv'
  BY VfsSteps
<1>3. VInv => CountsUsers
  BY VInvImplies
<1> QED BY <1>1, <1>2, <1>3, PTL DEF VfsSpec
=============================================================================
