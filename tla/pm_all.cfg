SPECIFICATION Spec
CONSTANTS
  MaxPid = 2
  PidSpace = 8
  ShellCommands = {"exit", "rps", "chpr"}
  ApiClients = {"rps", "user"}
  CHPModeReads = {TRUE, FALSE}
CHECK_DEADLOCK FALSE
INVARIANTS CurrentLive PicFree
PROPERTIES FreedUntouched ExitFallsBack
