-------------------------- MODULE MCCircuitBreaker --------------------------
(***************************************************************************)
(* Three callers, two of them on one session: one waits for the mutex      *)
(* while another is on the wire and a third trips or opens the breaker.    *)
(***************************************************************************)
EXTENDS CircuitBreaker

CONSTANTS r1, r2, r3, s1, s2

MCRequests  == {r1, r2, r3}
MCSessions  == {s1, s2}
MCSessionOf == [r \in MCRequests |-> IF r = r3 THEN s2 ELSE s1]

=============================================================================
