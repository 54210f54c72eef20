--------------------------- MODULE MCSessionLock ---------------------------
(***************************************************************************)
(* SessionLock for TLC.  Frames and locks are interchangeable, so one of   *)
(* the arrangements that differ in names only stands for all of them: all  *)
(* frames on one lock, or half of them on either, so that two flows can    *)
(* take the locks in opposite orders.  One call may be of any kind,        *)
(* another may be a lease, the rest are exclusive.                         *)
(***************************************************************************)
EXTENDS SessionLock, FiniteSets, TLC

First  == CHOOSE f \in Frames : TRUE
Second == CHOOSE f \in Frames \ {First} : TRUE

On(h, l) == Cardinality({f \in Frames : h[f] = l})

AllOnOne == CHOOSE h \in [Frames -> Locks] :
              \A f \in Frames : h[f] = h[First]

HalfEach == CHOOSE h \in [Frames -> Locks] :
              \A l \in Locks : 2 * On(h, l) = Cardinality(Frames)

MCInit ==
  /\ Init
  /\ lock \in {AllOnOne, HalfEach}
  /\ \A f \in Frames \ {First} :
       kind[f] = "exclusive" \/ (f = Second /\ kind[f] = "lease")

MCSpec == MCInit /\ [][Next]_vars /\ Fairness

=============================================================================
