SPECIFICATION Spec
CONSTANTS
  a = a
  b = b
  NoTrack = NoTrack
  Tracks <- MCTracks
  Plan <- MCPlan
  LastOrder <- MCLastOrder
  Slots <- MCSlots
  Unloadable = {}
  SavedQueue <- MCSavedQueue
  MaxPlays = 2
  MaxEvents = 0
CHECK_DEADLOCK FALSE
INVARIANT SamplesNeverCross
