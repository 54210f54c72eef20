-------------------------- MODULE ExclusiveSection --------------------------
(***************************************************************************)
(* What an exclusive section promises its callers: one at a time, a caller *)
(* may give up waiting, and the section of a caller that died is taken     *)
(* back.  The lock file (FileLock) implements it; the object gate          *)
(* (ObjectGate), whose processes do not die, is built on it.               *)
(***************************************************************************)
CONSTANTS
  Procs,
  Mortal,  (* those that may die, or fail to give the section back *)
  None

VARIABLES
  holder,  (* who is in the section, or None               *)
  phase    (* per process: out, waiting, in, over          *)

Phases == {"out", "waiting", "in", "over"}

(* A process that never calls is over from the start. *)
Init == holder = None /\ phase \in [Procs -> {"out", "over"}]

Call(p) ==
  /\ phase[p] = "out"
  /\ phase' = [phase EXCEPT ![p] = "waiting"]
  /\ UNCHANGED holder

Enter(p) ==
  /\ phase[p] = "waiting"
  /\ holder = None
  /\ holder' = p
  /\ phase' = [phase EXCEPT ![p] = "in"]

GiveUp(p) ==
  /\ phase[p] = "waiting"
  /\ phase' = [phase EXCEPT ![p] = "out"]
  /\ UNCHANGED holder

Exit(p) ==
  /\ phase[p] = "in"
  /\ holder = p
  /\ holder' = None
  /\ phase' = [phase EXCEPT ![p] = "over"]

(* The section stays with a holder that dies ... *)
Die(p) ==
  /\ p \in Mortal
  /\ phase[p] \in {"waiting", "in"}
  /\ phase' = [phase EXCEPT ![p] = "over"]
  /\ UNCHANGED holder

(* ... until it is taken from it: never from a holder that is inside. *)
Reclaim ==
  /\ holder # None
  /\ phase[holder] = "over"
  /\ holder' = None
  /\ UNCHANGED phase

Next ==
  \/ \E p \in Procs : Call(p) \/ Enter(p) \/ GiveUp(p) \/ Exit(p) \/ Die(p)
  \/ Reclaim

Spec == Init /\ [][Next]_<<holder, phase>>

=============================================================================
