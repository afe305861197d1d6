\* More population threads than traffic threads: SIGUSR1 misses some.
CONSTANTS
  ThreadCounts <- MCThreadsUsr1
  NumKeys = 4
  NumInstances = 1
  InstanceId = 0
  BulkSize = 1
  Duration = 2
  MixOps <- MCMixFlagOnly
  StoreFails = FALSE
  Garbage = Garbage
  MaxSecOps = 2
  KeyZipf = FALSE
  AccessPct = 80
  SkewSteps = 4
  SkewStart = 2
  Measured <- MCMeasuredAt
  Signalled = TRUE
SPECIFICATION Spec
INVARIANT StopHonoured
