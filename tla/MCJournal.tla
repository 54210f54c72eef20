------------------------------ MODULE MCJournal ------------------------------
(* Journal for TLC: three writes, the second by a process of its own. *)
EXTENDS Journal

CONSTANTS p, q

MCHome == <<p, q, p>>

==============================================================================
