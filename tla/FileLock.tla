------------------------------ MODULE FileLock ------------------------------
(***************************************************************************)
(* The cross-process lock file (withFileLock in src/src/state-dir.ts).     *)
(*                                                                         *)
(* A contender is one process calling withFileLock on one path until it    *)
(* has run its protected section.  The holder record names the contender   *)
(* by its pid, its host and a fresh nonce; a contender creates the file at *)
(* most once per nonce, so its name stands for all three.                  *)
(*                                                                         *)
(* Every file system call is awaited, so each is a step of its own: what a *)
(* contender has read may be stale when it acts on it.                     *)
(***************************************************************************)
EXTENDS Naturals, FiniteSets

CONSTANTS
  Contenders,  (* processes                                              *)
  Remote,      (* those on a machine whose pids nobody else can probe    *)
  Faulty,      (* those that may be killed, or fail to remove their file *)
  WaitTicks,   (* waitMs: the patience of a contender                    *)
  HardStale,   (* hardStaleMs: past this age a file is removed unseen    *)
  MaxHold,     (* ticks from the holder record to the release            *)
  NoFile

(* The hard valve defaults to at least ten times the wait. *)
ASSUME FileLockAssumption ==
  /\ Remote \subseteq Contenders
  /\ Faulty \subseteq Contenders
  /\ NoFile \notin Contenders
  /\ WaitTicks \in Nat \ {0}
  /\ HardStale \in Nat /\ HardStale > 2 * WaitTicks
  /\ MaxHold \in 1 .. HardStale + 1

VARIABLES
  owner,    (* whose record the file at the path is, or NoFile       *)
  written,  (* the holder record is in the file (it is created empty) *)
  age,      (* now - mtime of the file, in ticks, capped              *)
  pc,       (* per contender: where it is in withFileLock             *)
  waited    (* per contender: ticks since its deadline was set        *)

vars == <<owner, written, age, pc, waited>>

(***************************************************************************)
(* open ... deadline   the acquire loop      created, dropping   the file  *)
(* is its own, its record not yet in it      inside   running fn           *)
(* release, unlink     the keyed release     failed   timed out; calls anew *)
(***************************************************************************)
Trying  == {"open", "stat", "breakHard", "readHolder", "breakDead", "deadline"}
Holding == {"created", "dropping", "inside", "release", "unlink"}
Places  == Trying \cup Holding \cup {"idle", "done", "failed", "crashed"}

TooOld == HardStale + 1

(* Not every process takes part: one that is done never calls. *)
Init ==
  /\ owner   = NoFile
  /\ written = FALSE
  /\ age     = 0
  /\ pc      \in [Contenders -> {"idle", "done"}]
  /\ waited  = [c \in Contenders |-> 0]

Goto(c, place) == pc' = [pc EXCEPT ![c] = place]

----------------------------------------------------------------------------
(* The deadline is set once per call. *)
Start(c) ==
  /\ pc[c] \in {"idle", "failed"}
  /\ Goto(c, "open")
  /\ waited' = [waited EXCEPT ![c] = 0]
  /\ UNCHANGED <<owner, written, age>>

(* open(path, "wx"): created empty, or EEXIST. *)
Open(c) ==
  /\ pc[c] = "open"
  /\ IF owner = NoFile
     THEN /\ owner'   = c
          /\ written' = FALSE
          /\ age'     = 0
          /\ Goto(c, "created")
     ELSE /\ Goto(c, "stat")
          /\ UNCHANGED <<owner, written, age>>
  /\ UNCHANGED waited

(* The record goes to the file just created, wherever the path now leads. *)
WriteHolder(c) ==
  /\ pc[c] = "created"
  /\ Goto(c, "inside")
  /\ written' = (written \/ owner = c)
  /\ age'     = IF owner = c THEN 0 ELSE age
  /\ UNCHANGED <<owner, waited>>

WriteFails(c) ==
  /\ pc[c] = "created"
  /\ c \in Faulty
  /\ Goto(c, "dropping")
  /\ UNCHANGED <<owner, written, age, waited>>

(* unlinkQuietly: removes whatever is at the path now. *)
Unlink == owner' = NoFile /\ written' = FALSE /\ age' = 0

Drop(c) ==
  /\ pc[c] = "dropping"
  /\ Unlink
  /\ Goto(c, "done")
  /\ UNCHANGED waited

----------------------------------------------------------------------------
(* The two valves of breakIfStale, on the age the stat returned. *)
HardStaleAge(a) == a > HardStale
SoftStaleAge(a) == a > 2 * WaitTicks

(* Plausible slips: the valve is derived from the wait; ... *)
WaitDerivedAge(a) == a > WaitTicks
(* ... or there is no hard valve. *)
NeverAge(a) == a > TooOld

HardValve(a) == HardStaleAge(a)

Stat(c) ==
  /\ pc[c] = "stat"
  /\ \/ owner = NoFile /\ Goto(c, "open")
     \/ owner # NoFile /\ HardValve(age) /\ Goto(c, "breakHard")
     \/ owner # NoFile /\ ~HardValve(age) /\ SoftStaleAge(age) /\ Goto(c, "readHolder")
     \/ owner # NoFile /\ ~HardValve(age) /\ ~SoftStaleAge(age) /\ Goto(c, "deadline")
  /\ UNCHANGED <<owner, written, age, waited>>

(* Only a dead pid on the contender's own host proves the owner gone. *)
SameHost(c, d) == (c \in Remote) = (d \in Remote)

(* A plausible slip: any owner on this host is taken for dead. *)
OwnerIsHere(c, h) == SameHost(c, h)

OwnerIsGone(c, h) == SameHost(c, h) /\ pc[h] = "crashed"

ReadHolder(c) ==
  /\ pc[c] = "readHolder"
  /\ IF owner # NoFile /\ written /\ OwnerIsGone(c, owner)
     THEN Goto(c, "breakDead")
     ELSE Goto(c, "deadline")
  /\ UNCHANGED <<owner, written, age, waited>>

(* Nothing ties the file that is unlinked to the one that was examined. *)
Break(c) ==
  /\ pc[c] \in {"breakHard", "breakDead"}
  /\ Unlink
  /\ Goto(c, "open")
  /\ UNCHANGED waited

CheckDeadline(c) ==
  /\ pc[c] = "deadline"
  /\ Goto(c, IF waited[c] >= WaitTicks THEN "failed" ELSE "open")
  /\ UNCHANGED <<owner, written, age, waited>>

----------------------------------------------------------------------------
(* fn settles; the finally releases. *)
Leave(c) ==
  /\ pc[c] = "inside"
  /\ Goto(c, "release")
  /\ UNCHANGED <<owner, written, age, waited>>

(* releaseOwnLock: a record that is not its own is left in place. *)
ReadOwn(c) ==
  /\ pc[c] = "release"
  /\ Goto(c, IF owner = c /\ written THEN "unlink" ELSE "done")
  /\ UNCHANGED <<owner, written, age, waited>>

UnlinkOwn(c) ==
  /\ pc[c] = "unlink"
  /\ Unlink
  /\ Goto(c, "done")
  /\ UNCHANGED waited

(* The read or the unlink fails: a warning, and the file stays. *)
ReleaseFails(c) ==
  /\ pc[c] \in {"release", "unlink"}
  /\ c \in Faulty
  /\ Goto(c, "done")
  /\ UNCHANGED <<owner, written, age, waited>>

Crash(c) ==
  /\ c \in Faulty
  /\ pc[c] \in Trying \cup Holding
  /\ Goto(c, "crashed")
  /\ UNCHANGED <<owner, written, age, waited>>

(***************************************************************************)
(* Time passes, except that a live holder is out of its section by MaxHold *)
(* as long as the file is still its own.                                   *)
(***************************************************************************)
Waiting == {c \in Contenders : pc[c] \in Trying /\ waited[c] < WaitTicks}

Tick ==
  /\ (owner # NoFile /\ age < TooOld) \/ Waiting # {}
  /\ (owner # NoFile /\ pc[owner] \in Holding) => age < MaxHold
  /\ age' = IF owner # NoFile /\ age < TooOld THEN age + 1 ELSE age
  /\ waited' = [c \in Contenders |->
                  IF c \in Waiting THEN waited[c] + 1 ELSE waited[c]]
  /\ UNCHANGED <<owner, written, pc>>

----------------------------------------------------------------------------
Acquire(c) ==
  \/ Open(c)
  \/ WriteHolder(c)
  \/ Drop(c)
  \/ Stat(c)
  \/ ReadHolder(c)
  \/ Break(c)
  \/ CheckDeadline(c)

Release(c) == Leave(c) \/ ReadOwn(c) \/ UnlinkOwn(c)

Fault(c) == WriteFails(c) \/ ReleaseFails(c) \/ Crash(c)

Next ==
  \/ \E c \in Contenders : Start(c) \/ Acquire(c) \/ Release(c) \/ Fault(c)
  \/ Tick

Spec == Init /\ [][Next]_vars

(***************************************************************************)
(* A process that is not killed gets its file system calls answered and    *)
(* its section done; a contender that timed out is called again.           *)
(***************************************************************************)
Fairness ==
  /\ \A c \in Contenders :
       /\ WF_vars(Acquire(c) \/ Release(c))
       /\ WF_vars(Start(c))
  /\ WF_vars(Tick)

FairSpec == Spec /\ Fairness

----------------------------------------------------------------------------
TypeOK ==
  /\ owner   \in Contenders \cup {NoFile}
  /\ written \in BOOLEAN
  /\ age     \in 0 .. TooOld
  /\ pc      \in [Contenders -> Places]
  /\ waited  \in [Contenders -> 0 .. WaitTicks]

Inside == {c \in Contenders : pc[c] = "inside"}

(***************************************************************************)
(* Two processes are never in the section guarded by one lock file.        *)
(***************************************************************************)
MutualExclusion == \A c, d \in Inside : c = d

(* ... and the lock's variables keep their types. *)
OneInside == TypeOK /\ MutualExclusion

(***************************************************************************)
(* A release unlinks only the file of the process that releases.           *)
(***************************************************************************)
ReleaseFreesOwn ==
  [][\A c \in Contenders :
       (pc[c] = "unlink" /\ owner # NoFile /\ owner' = NoFile /\ pc'[c] = "done")
         => owner = c]_vars

(***************************************************************************)
(* What a killed process, or a failed removal, leaves at the path does not *)
(* block the others for good: no empty file, no record of a foreign host.  *)
(***************************************************************************)
Wants(c) == pc[c] \in Trying \cup {"idle", "failed"}

LeftoverIsBroken ==
  \A c, d \in Contenders :
    (owner = c /\ pc[c] \in {"crashed", "done"} /\ Wants(d)) ~> (owner # c)

----------------------------------------------------------------------------
(***************************************************************************)
(* Seen from its callers the lock file is an exclusive section, held from  *)
(* the creation of the file to its removal.  Who is killed, or leaves its  *)
(* file behind, is over with the section still its own.                    *)
(***************************************************************************)
Phase == [c \in Contenders |->
            IF pc[c] \in {"idle", "failed"} THEN "out"
            ELSE IF pc[c] \in Trying THEN "waiting"
            ELSE IF pc[c] \in Holding THEN "in"
            ELSE "over"]

Section == INSTANCE ExclusiveSection
             WITH Procs <- Contenders, Mortal <- Faulty, None <- NoFile,
                  holder <- owner, phase <- Phase

(* Every step of the lock file is one of the section, or none: who creates *)
(* the file enters, who unlinks its own exits, and only a file whose       *)
(* process is dead or done is broken.                                      *)
IsExclusiveSection == Section!Spec

=============================================================================
