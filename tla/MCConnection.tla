------------------------------ MODULE MCConnection ------------------------------
(***************************************************************************)
(* Connection for TLC.  One call of each kind meets every other.           *)
(***************************************************************************)
EXTENDS Connection

================================================================================
