SPECIFICATION FairSpec
CONSTANTS
  d0 = d0
  d1 = d1
  d2 = d2
  d3 = d3
  d4 = d4
  d5 = d5
  a0 = a0
  a1 = a1
  a2 = a2
  a3 = a3
  a4 = a4
  a5 = a5
  main = main
  Data <- FanData
  App <- FanApp
  Consumers <- FanConsumers
  Outputs <- FanOutputs
  Leaves <- NoDrops
  NEffective <- AllInputs
  ErrorThreshold <- NoTolerance
  NTries <- FanTries
  BlockSkip <- Merge
  Branches <- BranchFirst
  Files <- NoDrops
  ExpectedSize <- UnknownSize
  Callers <- OneCaller
  Triggers <- Root
  Outcomes <- FanOutcomes
  IOFaults = FALSE
  MaxWrites = 1
  MaxRuns = 2
INVARIANTS TypeOK HeardOnce ErrorsPropagate ConsumersTold
PROPERTIES Settles ImplementsDataflow
