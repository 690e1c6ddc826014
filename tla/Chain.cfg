SPECIFICATION FairSpec
CONSTANTS
  d0 = d0
  d1 = d1
  d2 = d2
  d3 = d3
  d4 = d4
  d5 = d5
  a0 = a0
  a1 = a1
  a2 = a2
  a3 = a3
  a4 = a4
  a5 = a5
  main = main
  Data <- ChainData
  App <- ChainApp
  Consumers <- ChainConsumers
  Outputs <- ChainOutputs
  Leaves <- NoDrops
  NEffective <- TooMany
  ErrorThreshold <- NoTolerance
  NTries <- TwoTriesFirst
  BlockSkip <- NoDrops
  Branches <- BranchFirst
  Files <- TwoFiles
  ExpectedSize <- OneWriteEach
  Callers <- OneCaller
  Triggers <- Root
  Outcomes <- OkOrException
  IOFaults = TRUE
  MaxWrites = 1
  MaxRuns = 2
INVARIANTS SkipsAgree SkippedTogether RunsOnce
PROPERTIES ErrorSticks
