SPECIFICATION Spec
CONSTANTS
  Contenders = {c1, c2, c3}
  Remote = {}
  Faulty = {c1}
  WaitTicks = 1
  HardStale = 3
  MaxHold = 3
  NoFile = NoFile
INVARIANTS
  MutualExclusion
CHECK_DEADLOCK FALSE
