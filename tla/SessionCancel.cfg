SPECIFICATION SSpec
CONSTANTS
  d0 = d0
  d1 = d1
  a1 = a1
  a2 = a2
  a3 = a3
  Builder = Builder
  Canceller = Canceller
  Data <- ForkData
  App <- ForkApp
  Consumers <- ForkConsumers
  Outputs <- ForkOutputs
  Leaves <- ForkLeaves
  NEffective <- AllInputs
  ErrorThreshold <- NoTolerance
  NTries <- OneTry
  BlockSkip <- NoDrops
  Branches <- NoDrops
  Files <- NoDrops
  ExpectedSize <- UnknownSize
  Callers <- TwoCallers
  Triggers <- NoTriggers
  Outcomes <- OkOnly
  IOFaults = FALSE
  MaxWrites = 0
  MaxRuns = 1
  Parts <- ForkParts
  Order <- ForkOrder
  Completed <- ForkCompleted
  EndDrops <- ForkEnds
  LoadFaults <- NoDrops
  CreateFaults = FALSE
  MaxSpecs = 1
  MaxCancels = 1
INVARIANTS NothingLeftPending
 
