\* Two population threads, two traffic threads, every operation kind, store
\* failures, and a zipf key distribution whose skew is calibrated.
CONSTANTS
  ThreadCounts <- MCThreadsPhases
  NumKeys = 5
  NumInstances = 1
  InstanceId = 0
  BulkSize = 2
  Duration = 2
  MixOps <- MCMixAll
  StoreFails = TRUE
  Garbage = Garbage
  MaxSecOps = 2
  KeyZipf = TRUE
  AccessPct = 80
  SkewSteps = 4
  SkewStart = 2
  Measured <- MCMeasuredAt
  Signalled = TRUE
SPECIFICATION Spec
INVARIANT TypeOK
INVARIANT StopHonoured
INVARIANT TrafficAfterPopulation
INVARIANT OpsBudget
INVARIANT PopulationCoverage
PROPERTY Termination
