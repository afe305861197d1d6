\* Every handler, two keys, batches of two, a read-version cache longer
\* than the MVCC window, one transient error and non-retryable errors.
\* Constant 2-byte values (generic ops require a constant size) in a
\* 5-byte rnd_buffer, so the builders wrap, and a 3-byte value buffer.
CONSTANTS
  Keys = {k1, k2}
  Handlers <- MCHandlers
  GenericOps = 2
  BulkOps = 2
  Cache = 2
  Window = 1
  AgeCap = 3
  MaxErrors = 1
  MaxCalls = 3
  StoreFatal = TRUE
  ValueSizes = {2}
  RndBufferSize = 5
  ValueBufferSize = 3
SPECIFICATION Spec
INVARIANT WriteDurable
INVARIANT ValuesAsBuilt
INVARIANT ReadVersionFresh
PROPERTY CallEnds
