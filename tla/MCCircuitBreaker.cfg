\* Fairness: a wait for the mutex ends, and so does a request; clocks and the
\* operator need not move, and a breaker latched for good may stop all.
SPECIFICATION Spec
CONSTANTS
  r1 = r1  r2 = r2  r3 = r3
  s1 = s1  s2 = s2
  Requests  <- MCRequests
  Sessions  <- MCSessions
  SessionOf <- MCSessionOf
  Threshold  = 2
  MaxSignals = 2
INVARIANTS
  SlotIsSound
PROPERTIES
  LatchNeedsProbe
  OneProbeEach
  ProbeSettles
CHECK_DEADLOCK FALSE
