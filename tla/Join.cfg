SPECIFICATION FairSpec
CONSTANTS
  d0 = d0
  d1 = d1
  d2 = d2
  d3 = d3
  d4 = d4
  d5 = d5
  a0 = a0
  a1 = a1
  a2 = a2
  a3 = a3
  a4 = a4
  a5 = a5
  main = main
  Data <- JoinData
  App <- JoinApp
  Consumers <- JoinConsumers
  Outputs <- JoinOutputs
  Leaves <- NoDrops
  NEffective <- AllInputs
  ErrorThreshold <- HalfTolerant
  NTries <- OneTry
  BlockSkip <- NoDrops
  Branches <- NoDrops
  Files <- NoDrops
  ExpectedSize <- UnknownSize
  Callers <- OneCaller
  Triggers <- Root
  Outcomes <- AnyOutcome
  IOFaults = FALSE
  MaxWrites = 0
  MaxRuns = 2
INVARIANTS EnoughInputs BarrierInputsEnded EnoughMeansStarted
