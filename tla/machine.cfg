SPECIFICATION MCSpec
CONSTANTS
  NumFrames = 18
  Span = 4
  KernelTable = 2
  LastTable = 6
  LowPages = 2
  HeapInitial = 4
  HeapMax = 10
  StackPages = 2
  TempTables = 6
  MaxProcs = 3
  RX_BUF_SIZE = 5
  Lengths = {1, 2}
  MaxArrivals = 3
  MaxSends = 5
  Ring = 2
  FrameUnits = 3
  Skew = 0
  MaxPackets = 3
  MaxFrames = 3
  Seconds = 3
  Minutes = 2
  ClockStarts = {0, 70, 142, 143, 3022}
  MaxUpdates = 2
  BUS_PER_DOMAIN = 2
  DEV_PER_BUS = 3
  FUNC_PER_DEV = 4
  Functions = 2
  Machines <- MCMachines
  Cards = {"nic"}
  MaxDepth = 4
CHECK_DEADLOCK FALSE
INVARIANTS FramesApart KernelShared PacketsInOrder FramesInOrder ClockRead DeviceFound PowerAsAsked
