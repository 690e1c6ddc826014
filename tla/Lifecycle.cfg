SPECIFICATION Spec
CONSTANTS
  d1 = d1
  d2 = d2
  c1 = c1
  c2 = c2
  a1 = a1
  v1 = v1
  Drops <- Two
  Copies <- TwoCopies
  Apps <- OneApp
  Viewers <- OneViewer
  Consumers <- ConsumeFirst
  NProducers <- TwoProducers
  Persist <- Second
  ExpireAfterUse <- One
  Lifespan <- NoDrops
  Lazy <- NoDrops
  Replication = TRUE
  MaxLosses = 1
  Overlap = FALSE
  Skips = TRUE
  Destroys = TRUE
INVARIANTS KeptForConsumers SolidHasReplica
CHECK_DEADLOCK FALSE
