\* A failing read-modify-write in the traffic phase of a run nobody signals.
CONSTANTS
  ThreadCounts <- MCThreadsOneTx
  NumKeys = 4
  NumInstances = 1
  InstanceId = 0
  BulkSize = 2
  Duration = 2
  MixOps <- MCMixRmw
  StoreFails = TRUE
  Garbage = Garbage
  MaxSecOps = 2
  KeyZipf = FALSE
  AccessPct = 80
  SkewSteps = 4
  SkewStart = 2
  Measured <- MCMeasuredAt
  Signalled = FALSE
SPECIFICATION Spec
INVARIANT ResultsFlushed
