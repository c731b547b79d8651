SPECIFICATION Spec
CONSTANTS
  d1 = d1
  d2 = d2
  c1 = c1
  c2 = c2
  Tombstone = Tombstone
  Background = Background
  NoRow = NoRow
  NoRecord = NoRecord
  Docs <- MCDocs
  Commands = {c1, c2}
  Weathers <- MCLostReplies
CHECK_DEADLOCK FALSE
INVARIANT
  ManifestIsAnnounced
