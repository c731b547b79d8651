SPECIFICATION Spec
CONSTANTS
  Machines = {"pages", "library", "stream", "playlist", "pull", "tabs"}
  PageCount = 3
  CachePages = 2
  PrefetchPages = 1
  MinRun = 1
  Shells = {"web", "desktop"}
  Texts = {"a", "b"}
  Nowhere = Nowhere
  Queries = {1, 2, 3}
  PagesPlans <- MCPagesPlans
  Foreign = {"a", "b"}
  Versions = {1, 2, 3}
  Half = 3
  Retired <- MCRetired
  Bad <- MCBad
  Budget = 1
  NoRow = NoRow
  NoName = NoName
  Ingesters = {sync, link}
  Togglers = {t1, t2}
  Tracks = {"x", "y"}
  Clients = {"web", "desktop"}
  LibraryPlans <- MCLibraryPlans
  Tunes <- MCTunes
  Takes = {1, 2}
  StreamShells = {"web", "desktop"}
  Unserved = Unserved
  MaxSeeks = 2
  Drafts = {d1, d2}
  Buried = Buried
  Jobs = {j1, j2}
  OwnBounds <- MCOwnBounds
  Friends = {f1, f2}
  Lists = {l1, l2}
  Pulls = {p1, p2}
  MaxEntries = 2
  WantMax = 1
  Burst = 2
  Span = 3
  Gap = 2
  Seats = 1
  PullBounds <- MCPullBounds
  Tabs = {tab1, tab2, tab3}
  NoTab = NoTab
  CallIds = {1}
INVARIANTS RowsKept StreamSound OwnKept OneNode CallsServed PeersSound
PROPERTIES PagesServe OwnAnnounced TabsSettle
CHECK_DEADLOCK FALSE
