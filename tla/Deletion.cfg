SPECIFICATION Spec
CONSTANTS
  d1 = d1
  d2 = d2
  c1 = c1
  c2 = c2
  a1 = a1
  v1 = v1
  Drops <- Two
  Copies <- NoDrops
  Apps <- OneApp
  Viewers <- NoDrops
  Consumers <- ConsumeFirst
  NProducers <- TwoProducers
  Persist <- NoDrops
  ExpireAfterUse <- One
  Lifespan <- Second
  Lazy <- NoDrops
  Replication = FALSE
  MaxLosses = 0
  Overlap = FALSE
  Skips = FALSE
  Destroys = FALSE
 
PROPERTIES ExpiredAreDeleted 
