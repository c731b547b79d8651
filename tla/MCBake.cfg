SPECIFICATION Spec
CONSTANTS
  Formats = {"mod", "s3m", "xm", "it"}
  Channels = {1}
  Keys = {"lo", "hi"}
  Samples = {1, 2, 3}
  Keymap <- MCKeymap
  OffsetOf <- MCOffsetOf
  Patterns = {1, 2}
  Skip = 0
  Speeds = {3}
  MaxCheckpoints = 2
  MaxOrders = 3
  MaxRows = 2
  Bytes = {0, 1}
  Files <- MCFiles
  Headers <- MCHeaders
  Tables <- MCTables
  MinChunk = 1
  MaxChunk = 2
  CutByte = 1
  MinSaving = 1
  Left = Left
  Twin1 = Twin1
  Twin2 = Twin2
  Dud = Dud
  Sources = {Left, Twin1, Twin2, Dud}
  FileOf <- MCFileOf
  Unreadable = {"noise"}
  Versions = {3, 4}
  Workers = {w1}
  Slots = 2
  NoRoot = NoRoot
  NoSource = NoSource
  MaxRuns = 2
  MaxCrashes = 1
  Lifetime = 1
  Servers = {seed, peer}
  Seed = seed
  Refused = Refused
  Attempts = 1
  MaxPublish = 2
  MaxTime = 3
  MaxRestarts = 1
INVARIANTS  RebuildExact StreamsSound RowsPinned 
PROPERTIES RunsEnd ImplementsRegister
CHECK_DEADLOCK FALSE
