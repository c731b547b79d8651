SPECIFICATION Spec
CONSTANTS
  Machines = {"hold", "reach", "forward", "block", "disclosure", "node", "mesh"}
  Cids = {c1}
  Callers = {k1, k2}
  Ops = {"pin", "page", "unpin"}
  Absent = Absent
  Unsure = Unsure
  QueueSize = 1
  MaxCalls = 2
  MaxCrashes = 1
  MaxOutages = 1
  lan = lan
  pub = pub
  nat = nat
  Peers = {lan, pub, nat}
  LinkRank <- MCLinkRank
  Gone = {lan}
  HopOf <- MCHopOf
  TargetK = 2
  MaxFaults = 1
  MaxFlaps = 1
  asker = asker
  donor = donor
  holder = holder
  liar = liar
  Nodes = {asker, donor, holder, liar}
  Askers = {asker}
  Seeds = {}
  Blocks = {b1, b2}
  Origin <- MCOrigin
  Wires <- MCWires
  Relayed <- MCRelayed
  Liars = {liar}
  FwdSize = 1
  FwdSem = 1
  OutSem = 1
  MaxWants = 2
  full = full
  part = part
  Wanted = {1, 2}
  Donors = {full, part}
  Carries <- MCCarries
  HaverTtl = 1
  Cooldown = 1
  SeedAttempts = 2
  MaxTicks = 2
  MaxChurn = 1
  Names = {n1}
  Pushers = {tick, command}
  Streams = {s1, s2}
  Us = Us
  Others = {o1}
  Unposted = Unposted
  Window = 1
  KickMin = 1
  OriginCap = 1
  DiscPlans <- MCDiscPlans
  NodeBounds <- MCNodeBounds
  Neighbours = {m1, m2}
  Roots = {r}
  Addresses = 2
  Dials = 1
  MeshBounds <- MCMeshBounds
INVARIANTS DurablePins ForwardSound
PROPERTIES Advertised  SeedLast  NodeReturns FriendsMet
CHECK_DEADLOCK FALSE
