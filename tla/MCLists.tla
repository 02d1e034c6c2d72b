------------------------------ MODULE MCLists ------------------------------
(***************************************************************************)
(* Two lists of the kernel, each used as its owners use it: one whose      *)
(* owner inserts at the front and removes nodes or indexes (the process    *)
(* list, the wakeup list, the children of a tree node), and the token list *)
(* of str_split or list2str, which is pushed and popped at the back. They  *)
(* share no node, so a behaviour steps one of the two.                     *)
(***************************************************************************)
EXTENDS LinkedList

CONSTANT TokenNode
ASSUME TokenAssumption == NULL \notin TokenNode

VARIABLES
  owner,                 \* which list the behaviour steps
  thead, ttail, tsize, tnext, tprev, tallocated, titems      \* the token list

tvars == <<thead, ttail, tsize, tnext, tprev, tallocated, titems>>

Tokens == INSTANCE LinkedList WITH
  Node <- TokenNode, Calls <- {"insert_back", "pop"}, head <- thead, tail <- ttail, size <- tsize,
  next <- tnext, prev <- tprev, allocated <- tallocated, items <- titems

MCInit == owner \in {"owned", "tokens"} /\ Init /\ Tokens!Init
OwnedStep == owner = "owned" /\ Next /\ UNCHANGED <<owner, tvars>>
TokenStep == owner = "tokens" /\ Tokens!Next /\ UNCHANGED <<owner, vars>>
MCSpec == MCInit /\ [][OwnedStep \/ TokenStep]_<<owner, vars, tvars>>

(* For str_split and list2str, popping visits the tokens last first, also after a list was
   emptied by ".." tokens and filled again, although list_pop leaves the head on a popped node. *)
TokensBackward == Tokens!BackwardWalk
=============================================================================
