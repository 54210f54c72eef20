SPECIFICATION Spec
CONSTANTS
  Calls = {r, v, w, d}
  Reads = {r}
  Runs = {}
  Writes = {v, w}
  Debugs = {d}
  Kind <- KindOf
  Slots = {1, 2, 3, 4, 5, 6, 7, 8}
  MaxSessions = 2
  ReadConcurrency = 1
  WriteConcurrency = 1
  DebugSessions = 1
  DiaBudget = 2
  MaxQueue = 2
  MaxAttempts = 1
  MaxDeaths = 1
  None = None
SYMMETRY Symmetry
INVARIANTS
  WithinLimits
  LeaseIsKept
  NothingHeldBack
PROPERTIES NoBarging
CHECK_DEADLOCK FALSE
