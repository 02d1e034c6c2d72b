SPECIFICATION FairSpec
CONSTANTS
  MaxPid = 3
  PidSpace = 8
  ShellCommands = {"exit", "rps"}
  ApiClients = {"rps", "user"}
  CHPModeReads = {FALSE}
CHECK_DEADLOCK FALSE
INVARIANT OwnContext
PROPERTY KeyboardEnds
