SPECIFICATION FairSpec
CONSTANTS
  Calls = {r, w, x, d}
  Reads = {r}
  Runs = {x}
  Writes = {w}
  Debugs = {d}
  Kind <- KindOf
  Slots = {1, 2, 3, 4, 5, 6, 7, 8}
  MaxSessions = 1
  ReadConcurrency = 1
  WriteConcurrency = 1
  DebugSessions = 1
  DiaBudget = 2
  MaxQueue = 2
  MaxAttempts = 2
  MaxDeaths = 1
  None = None
INVARIANTS RetriesAreBounded
PROPERTIES ParkedIsServed
CHECK_DEADLOCK FALSE
