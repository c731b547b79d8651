SPECIFICATION Spec
CONSTANTS
  a = a
  b = b
  NoTrack = NoTrack
  Tracks <- MCTracks
  Plan <- MCPlan
  LastOrder <- MCLastOrder
  Slots <- MCSlots
  Unloadable = {b}
  SavedQueue <- MCSavedQueue
  MaxPlays = 2
  MaxEvents = 1
CHECK_DEADLOCK FALSE
INVARIANTS
  
  SamplesBelong
  PlayReaches
  StreamingHonest
  IndexFollows
  BarIsFirstStall
  BufferingHonest
