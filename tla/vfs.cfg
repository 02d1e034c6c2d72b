SPECIFICATION VfsSpec
CONSTANTS
  Devs <- MCDevs
  DevName <- MCDevName
  DiskType <- MCDiskType
  Disk0 <- MCDisk0
  Paths <- MCPaths
  DevPaths <- MCDevPaths
  MountPaths <- MCMountPaths
  ModPaths <- MCModPaths
  MaxUsers = 2
  MaxDevices = 2
  MaxMounts = 2
  MaxFiles = 1
CHECK_DEADLOCK FALSE
INVARIANTS NearestMountAnswers CountsUsers
