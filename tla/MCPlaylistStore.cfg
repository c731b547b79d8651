SPECIFICATION FairSpec
CONSTANTS
  a = a
  b = b
  c = c
  small = small
  large = large
  gone = gone
  junk = junk
  NoEntry = NoEntry
  NoRecord = NoRecord
  NoReply = NoReply
  NoRow = NoRow
  Names <- MCNames
  Docs <- MCDocs
  Records <- MCRecords
  DocSize <- MCDocSize
  OwnNames = {c}
  Tombstones <- MCTombstones
  Unfit <- MCUnfit
  UserNames = {b}
  AgingNames = {b}
  SeenBudget = 2
  SavedLedger <- MCSavedLedger
  EntryCap = 2
  ByteBudget = 3
  Window = 2
  MaxClock = 3
  MaxVersion = 3
INVARIANTS
  DrainComplete
  BytesAccounted
PROPERTIES
  NewestWins
  AnnounceSpacing
  CursorCatchesUp
