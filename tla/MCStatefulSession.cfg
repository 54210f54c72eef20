SPECIFICATION FairSpec
CONSTANTS
  Objects = {a, b}
  NoObject = NoObject
  Attempts = 2
  MaxCalls = 4
INVARIANTS
  LedgerIsSound
  NothingStaysLocked
PROPERTIES
  WindowEnds
CHECK_DEADLOCK FALSE
