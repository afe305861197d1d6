\* A bounded-uniform scan length option, "uniform1_3", and "const3".
CONSTANTS
  KeyCounts <- MCKeyCounts
  InstanceCounts <- MCInstanceCounts
  ThreadCounts <- MCThreadCounts
  KeySizes <- MCKeySizes
  SizeT = 16
  MaxFailStep = 20
  KeyGens <- MCKeyGens
  ScanGens <- MCScanGensBounded
SPECIFICATION Spec
INVARIANT ScanLensAllowed
