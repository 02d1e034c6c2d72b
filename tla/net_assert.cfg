SPECIFICATION Spec
CONSTANTS
  Scripts <- MCScripts
  TableSize = 6
  Peers <- MCPeers
  Free <- MCFree
  Taken <- MCTaken
  MaxLost = 2
  MaxSpare = 1
CHECK_DEADLOCK FALSE
INVARIANT BroadcastFound
