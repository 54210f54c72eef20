---------------------------- MODULE MCWriteFlow ----------------------------
(***************************************************************************)
(* WriteFlow for TLC, always with a person in an editor: any two calls, of *)
(* any kind, through the gate or past it; or an undo, a write or a delete  *)
(* in the gate with it, and another past it.                               *)
(***************************************************************************)
EXTENDS WriteFlow, TLC

Symmetry == Permutations(Gated)

Called(kinds) == {c \in Calls : at[c] = "idle" /\ kind[c] \in kinds}

AnyTwo == \E c \in Calls : Called(Kinds) = Calls \ {c} /\ kind[c] = "write"

OneUndo ==
  /\ Called(Kinds) = Calls
  /\ \E c \in Gated : Called({"undo"}) = {c}
  /\ Calls \ Gated \subseteq Called({"write", "delete"})

MCInit == WriteInit /\ (AnyTwo \/ OneUndo)

MCSpec == MCInit /\ [][WriteNext]_writeVars

=============================================================================
