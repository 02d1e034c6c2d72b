SPECIFICATION MCSpec
CONSTANTS
  Scancodes = {14, 28, 25, 38, 32, 60, 54, 182, 58, 4}
  Junk = {"O300"}
  Size = 4
  RpsSize = 2
  MaxRounds = 1
  Name <- MCName
  Keys = {32, 50, 17, 57, 14, 28, 54}
  BufferSize = 5
  ShellName <- MCShellName
  Chars = {"a", "/", "."}
  MaxLen = 7
  Delim = "/"
  Dot = "."
  Conversions <- MCConversions
  MaxConversions = 2
  BufSize = 8
  InitFiles <- MCInitFiles
  Files <- MCFiles
  Dirs <- MCDirs
  Parts <- MCParts
  MaxDepth = 5
  Width = 2
  Height = 2
  Tab = 2
  Printable = {"a", "b"}
  MaxPrinted = 4
CHECK_DEADLOCK FALSE
INVARIANTS CommandsAsTyped SplitResolves NumbersPrinted InitFilesFollowed ScreenShows
