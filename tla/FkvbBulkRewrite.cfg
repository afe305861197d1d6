\* One population thread, 3 keys, BULK_SIZE 2: the last bulk is partial.
CONSTANTS
  ThreadCounts <- MCThreadsLoader
  NumKeys = 3
  NumInstances = 1
  InstanceId = 0
  BulkSize = 2
  Duration = 2
  MixOps <- MCMixFlagOnly
  StoreFails = FALSE
  Garbage = Garbage
  MaxSecOps = 2
  KeyZipf = FALSE
  AccessPct = 80
  SkewSteps = 4
  SkewStart = 2
  Measured <- MCMeasuredAt
  Signalled = TRUE
SPECIFICATION Spec
INVARIANT PopulationExact
