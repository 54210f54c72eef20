---------------------------- MODULE MCDebugLane ----------------------------
(***************************************************************************)
(* DebugLane for TLC.  The starts are interchangeable: they are named in   *)
(* the order in which they begin.                                          *)
(***************************************************************************)
EXTENDS DebugLane

CONSTANTS a, b

InOrder == progress[b] # "new" => progress[a] # "new"

MCSpec == LaneInit /\ [][LaneNext /\ InOrder']_laneVars /\ WF_laneVars(GoesOn)

=============================================================================
