SPECIFICATION Spec
CONSTANTS
  BlockUnits = 14
  NumBlocks = 6
  NumInodes = 6
  Names <- MCNames
  NameLen <- MCNameLen
  Disk0 <- MCDisk0
  MaxOps = 4
  MaxCrashes = 1
CHECK_DEADLOCK FALSE
INVARIANTS NoSharedBlocks EntryAfterInode CountsTrail NamesOnce FoundUntilFour
