\* A worker whose mix has updates and read-modify-writes; last_duration
\* holds 0 or 3 before the first timed operation.
CONSTANTS
  TicsPerSec = 2
  Latencies <- MCLatencies
  MaxTicks = 8
  U64 = 1024
  ResSize = 1
  Percs = {50, 99}
  OpKinds = {"update", "rmw"}
  LastDurationInit = {0, 3}
SPECIFICATION Spec
INVARIANT EpochAccounting
