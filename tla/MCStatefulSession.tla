--------------------------- MODULE MCStatefulSession ---------------------------
(***************************************************************************)
(* StatefulSession for TLC: two objects, as a write of a class and one of  *)
(* its includes takes; fn calls often enough to lock both, release one and *)
(* lock it again.                                                          *)
(***************************************************************************)
EXTENDS StatefulSession

================================================================================
