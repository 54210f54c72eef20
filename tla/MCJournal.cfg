\* Fairness: begin() goes on, a prune comes to its end, a dead process's lock is
\* broken.  Nobody owes a mutation, an outcome or a reconciliation.
SPECIFICATION FairSpec
CONSTANTS
  p = p  q = q
  Writes = {1, 2, 3}
  Procs = {p, q}
  Home <- MCHome
  Faulty = {q}
  MaxEntries = 1
  MaxFaults = 1
  Closable = {2}
  NoOne = NoOne
INVARIANTS
  IndexIsSound
  ReportedIsOnRecord
PROPERTIES
  EveryBeginReturns
CHECK_DEADLOCK FALSE
