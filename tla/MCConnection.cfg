SPECIFICATION FairSpec
CONSTANTS
  Requests = {r}
  Connects = {c}
  Windows = {w}
  Runs = {x}
  NoOne = NoOne
INVARIANTS
  RecordIsSound
  NoLossForgotten
  OneLogonPerRequest
PROPERTIES
  ConnectIsHonest
  EveryCallReturns
CHECK_DEADLOCK FALSE
