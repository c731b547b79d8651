SPECIFICATION CatalogSpec
CONSTANTS
  Lifetime = 1
  Servers = {seed, peer}
  Seed = seed
  Refused = Refused
  Attempts = 1
  MaxPublish = 2
  MaxTime = 2
  MaxRestarts = 1
INVARIANT PublishPropagates
CHECK_DEADLOCK FALSE
