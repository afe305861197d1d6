CONSTANTS
  KeyCounts <- MCKeyCounts
  InstanceCounts <- MCInstanceCounts
  ThreadCounts <- MCThreadCounts
  KeySizes <- MCKeySizes
  SizeT = 16
  MaxFailStep = 20
  KeyGens <- MCKeyGens
  ScanGens <- MCScanGens
SPECIFICATION Spec
INVARIANT PartitionExact
INVARIANT KeysMatchReference
INVARIANT KeysOrdered
INVARIANT TrafficKeysLoaded
INVARIANT SizeCountsLoadedKeys
INVARIANT ScanSelectsIndexes
