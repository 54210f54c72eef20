---------------------------- MODULE MCObjectGate ----------------------------
(***************************************************************************)
(* Two processes with one session each.  P writes one object three times,  *)
(* in two spellings (a middle link needs somebody before and somebody      *)
(* after it), through any gate; Q, with lock files, writes it once and     *)
(* runs a batch.                                                           *)
(***************************************************************************)
EXTENDS ObjectGate

CONSTANTS a1, a2, a3, b1, batch, P, Q, foo, FOO

MCCalls == {a1, a2, a3, b1, batch}
MCProcs == {P, Q}
MCNames == {foo, FOO}
MCUpper == [n \in MCNames |-> FOO]
MCProcOf == [c \in MCCalls |-> IF c \in {b1, batch} THEN Q ELSE P]
MCNameOf ==
  [c \in MCCalls |-> CASE c = batch -> None
                       [] c = a2    -> foo
                       [] OTHER     -> FOO]

MCInit == Init /\ gate[Q] = "file"
MCSpec == MCInit /\ [][Next]_vars /\ Fairness

=============================================================================
