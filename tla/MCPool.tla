------------------------------- MODULE MCPool -------------------------------
(***************************************************************************)
(* Small instances of Pool.  Slots are numbers, so that NewSlot picks the  *)
(* least unused name and states that differ in names alone are one.        *)
(***************************************************************************)
EXTENDS Pool, TLC

CONSTANTS Reads, Runs, Writes, Debugs   (* the calls, by what they ask *)

KindOf ==
  [c \in Calls |-> CASE c \in Reads  -> "read"
                     [] c \in Runs   -> "run"
                     [] c \in Writes -> "write"
                     [] c \in Debugs -> "debug"]

(* Calls that ask the same may be permuted. *)
Symmetry == Permutations(Reads) \cup Permutations(Writes)

(* A mint never lacks a name: at most these are taken. *)
ASSUME NamesSuffice ==
  Cardinality(Slots) > MaxSessions + 1 + Cardinality(Calls)

=============================================================================
