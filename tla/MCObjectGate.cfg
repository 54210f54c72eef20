\* Fairness: every step of a call, but neither a refusal nor a death.
SPECIFICATION MCSpec
CONSTANTS
  a1 = a1  a2 = a2  a3 = a3  b1 = b1  batch = batch
  P = P  Q = Q  foo = foo  FOO = FOO
  None     = None
  Calls    <- MCCalls
  Procs    <- MCProcs
  ProcOf   <- MCProcOf
  Names    <- MCNames
  Upper    <- MCUpper
  NameOf   <- MCNameOf
  Sessions = 1
  Fragile  = {a1}
INVARIANTS
  ChainIsSound
  OneWriterPerObject
PROPERTIES
  BusyMeansUntouched
  LockFilesAreSections
  EveryWriteSettles
CHECK_DEADLOCK FALSE
