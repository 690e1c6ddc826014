SPECIFICATION SSpec
CONSTANTS
  d0 = d0
  d1 = d1
  a1 = a1
  a2 = a2
  a3 = a3
  Builder = Builder
  Canceller = Canceller
  Data <- ForkData
  App <- ForkApp
  Consumers <- ForkConsumers
  Outputs <- ForkOutputs
  Leaves <- ForkLeaves
  NEffective <- AllInputs
  ErrorThreshold <- NoTolerance
  NTries <- OneTry
  BlockSkip <- NoDrops
  Branches <- NoDrops
  Files <- NoDrops
  ExpectedSize <- UnknownSize
  Callers <- TwoCallers
  Triggers <- NoTriggers
  Outcomes <- OkOrException
  IOFaults = FALSE
  MaxWrites = 1
  MaxRuns = 1
  Parts <- ForkParts
  Order <- ForkOrder
  Completed <- ForkCompleted
  EndDrops <- NoDrops
  LoadFaults <- ForkFaults
  CreateFaults = TRUE
  MaxSpecs = 2
  MaxCancels = 0
INVARIANTS FinishedMeansLeavesEnded FailedMeansError NothingLeftPending
 
