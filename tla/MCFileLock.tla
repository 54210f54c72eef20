----------------------------- MODULE MCFileLock -----------------------------
(***************************************************************************)
(* FileLock for TLC: either a process that may be killed at any step meets *)
(* one survivor, or three processes that are not killed compete, one of    *)
(* them on another host.  Two survivors of one that is killed are the      *)
(* instance of MCFileLockBreakers.                                         *)
(***************************************************************************)
EXTENDS FileLock

Local == Contenders \ (Remote \cup Faulty)

PairOrHealthy ==
  \/ \E c \in Local : \A d \in Contenders : pc[d] = "idle" <=> d \in Faulty \cup {c}
  \/ \A d \in Contenders : pc[d] = "idle" <=> d \notin Faulty

MCInit == Init /\ PairOrHealthy

MCSpec == MCInit /\ [][Next]_vars /\ Fairness

=============================================================================
