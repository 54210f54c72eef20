SPECIFICATION MCSpec
CONSTANTS
  Contenders = {c1, c2, c3, c4}
  Remote = {c3}
  Faulty = {c1}
  WaitTicks = 1
  HardStale = 3
  MaxHold = 3
  NoFile = NoFile
INVARIANTS
  OneInside
PROPERTIES
  ReleaseFreesOwn
  IsExclusiveSection
  LeftoverIsBroken
CHECK_DEADLOCK FALSE
