SPECIFICATION MCSpec
CONSTANTS
  Node = {n1, n2, n3, n4}
  TokenNode = {n1, n2, n3, n4, n5}
  NULL = NULL
  Calls = {"insert_front", "remove_node", "remove_by_index"}
CHECK_DEADLOCK FALSE
INVARIANTS ForwardWalk TokensBackward
PROPERTY FreedUntouched
