\* The code's constants: 18 attempts, first sleep 1000 usec.
CONSTANTS
  MaxRetries = 18
  InitSleep = 1000
SPECIFICATION Spec
INVARIANT BackoffSchedule
PROPERTY ImplementsRetrySpec
PROPERTY Decides
