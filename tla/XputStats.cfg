\* One worker over 8 ticks of 2-tick epochs, running inserts and updates
\* (both timed by their handlers).
CONSTANTS
  TicsPerSec = 2
  Latencies <- MCLatencies
  MaxTicks = 8
  U64 = 1024
  ResSize = 1
  Percs = {50, 99}
  OpKinds = {"insert", "update"}
  LastDurationInit = {0}
SPECIFICATION Spec
INVARIANT TypeOK
INVARIANT EpochAccounting
INVARIANT PercentilesOfEpoch
PROPERTY EpochTracksClock
