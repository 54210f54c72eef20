----------------------- MODULE FileLockAndLane_proofs -----------------------
(***************************************************************************)
(* The lock file between processes, and the debug lane, which holds one    *)
(* while it is armed.  The first part is about FileLock, the second, from  *)
(* the line across, about DebugLane; they share no state.                  *)
(***************************************************************************)
EXTENDS FileLock, DebugLane, FiniteSetTheorems, SequenceTheorems, TLAPS

(***************************************************************************)
(* What the lock file guarantees while no section outlasts the hard valve: *)
(* to any number of processes if none of them is killed or fails to remove *)
(* its file, and to any two whatever happens to them.  The runs show that  *)
(* both conditions matter.                                                 *)
(***************************************************************************)

(* Those who ever call. *)
Only(P) == \A c \in Contenders \ P : pc[c] = "done"

Calm(P) ==
  /\ P \subseteq Contenders
  /\ MaxHold <= HardStale
  /\ Faulty = {} \/ \A c, d, e \in P : c = d \/ d = e \/ c = e

(***************************************************************************)
(* A file belongs to a holder, who is alone and not yet old enough to be   *)
(* broken, or to somebody who is over with it for good.  Only then is      *)
(* somebody about to break it, and nobody else is there to do so as well.  *)
(***************************************************************************)
Recorded == {"inside", "release", "unlink"}
Breaking == {"breakHard", "breakDead"}
Over     == {"done", "crashed"}

Owned ==
  /\ \A c \in Contenders : pc[c] \in Holding => owner = c
  /\ \A c \in Contenders : pc[c] \in Recorded => written
  /\ owner # NoFile => pc[owner] \in Holding \cup Over

Young == owner # NoFile /\ pc[owner] \in Holding => age <= MaxHold

Abandoned ==
  /\ \A c \in Contenders : pc[c] \in Breaking => owner # NoFile /\ pc[owner] \in Over
  /\ Faulty = {} /\ owner # NoFile => pc[owner] \in Holding

IInv(P) ==
  /\ TypeOK /\ Only(P)
  /\ owner \in P \cup {NoFile}
  /\ Owned /\ Young /\ Abandoned

(* What the types say, in the form the proofs use it. *)
LEMMA Types ==
  ASSUME TypeOK
  PROVE  /\ owner \in Contenders \cup {NoFile} /\ NoFile \notin Contenders
         /\ pc \in [Contenders -> Places]
         /\ age \in Nat /\ MaxHold \in Nat \ {0} /\ HardStale \in Nat /\ WaitTicks \in Nat
         /\ waited \in [Contenders -> 0 .. WaitTicks]
         /\ written \in BOOLEAN
BY FileLockAssumption DEF TypeOK, TooOld

LEMMA TypeStep ==
  ASSUME TypeOK, [Next]_vars
  PROVE  TypeOK'
<1> USE DEF TooOld
<1>0. /\ owner \in Contenders \cup {NoFile} /\ NoFile \notin Contenders
      /\ pc \in [Contenders -> Places]
      /\ age \in 0 .. HardStale + 1 /\ HardStale \in Nat /\ WaitTicks \in Nat
      /\ 0 \in 0 .. HardStale + 1 /\ 0 \in 0 .. WaitTicks
      /\ waited \in [Contenders -> 0 .. WaitTicks]
      /\ written \in BOOLEAN
  BY FileLockAssumption DEF TypeOK
<1>1. ASSUME NEW c \in Contenders, NEW p \in Places, Goto(c, p) PROVE pc' \in [Contenders -> Places]
  BY <1>0, <1>1 DEF Goto
<1>2. ASSUME NEW c \in Contenders, Start(c) PROVE TypeOK'
  <2>1. pc' \in [Contenders -> Places]
    BY <1>1, <1>2 DEF Start, Places, Trying
  <2>2. waited' \in [Contenders -> 0 .. WaitTicks]
    BY <1>0, <1>2 DEF Start
  <2> QED BY <1>0, <1>2, <2>1, <2>2 DEF Start, TypeOK
<1>3. ASSUME NEW c \in Contenders, Open(c) \/ WriteHolder(c) PROVE TypeOK'
  <2>1. pc' \in [Contenders -> Places]
    BY <1>1, <1>3 DEF Open, WriteHolder, Places, Trying, Holding
  <2>2. age' \in 0 .. TooOld /\ written' \in BOOLEAN /\ owner' \in Contenders \cup {NoFile}
    <3>1. CASE Open(c)
      BY <1>0, <3>1 DEF Open
    <3>2. CASE WriteHolder(c)
      BY <1>0, <3>2 DEF WriteHolder
    <3> QED BY <1>3, <3>1, <3>2
  <2> QED BY <1>0, <1>3, <2>1, <2>2 DEF Open, WriteHolder, TypeOK
<1>4. ASSUME NEW c \in Contenders, Drop(c) \/ Break(c) \/ UnlinkOwn(c) PROVE TypeOK'
  <2>1. pc' \in [Contenders -> Places]
    BY <1>1, <1>4 DEF Drop, Break, UnlinkOwn, Places, Trying
  <2>2. owner' = NoFile /\ age' = 0 /\ written' = FALSE /\ waited' = waited
    BY <1>4 DEF Drop, Break, UnlinkOwn, Unlink
  <2> QED BY <1>0, <2>1, <2>2 DEF TypeOK
<1>5. ASSUME NEW c \in Contenders, Stat(c) \/ ReadHolder(c) \/ CheckDeadline(c) PROVE TypeOK'
  <2>1. pc' \in [Contenders -> Places]
    BY <1>1, <1>5 DEF Stat, ReadHolder, CheckDeadline, Places, Trying
  <2> QED BY <1>5, <2>1 DEF Stat, ReadHolder, CheckDeadline, TypeOK
<1>6. ASSUME NEW c \in Contenders, Leave(c) \/ ReadOwn(c) \/ Fault(c) PROVE TypeOK'
  <2>1. pc' \in [Contenders -> Places]
    BY <1>1, <1>6 DEF Leave, ReadOwn, Fault, WriteFails, ReleaseFails, Crash, Places, Holding
  <2> QED BY <1>6, <2>1 DEF Leave, ReadOwn, Fault, WriteFails, ReleaseFails, Crash, TypeOK
<1>7. ASSUME Tick PROVE TypeOK'
  <2>1. age' \in 0 .. TooOld
    BY <1>0, <1>7 DEF Tick
  <2>2. waited' \in [Contenders -> 0 .. WaitTicks]
    <3>1. \A c \in Contenders :
            (IF c \in Waiting THEN waited[c] + 1 ELSE waited[c]) \in 0 .. WaitTicks
      BY <1>0 DEF Waiting
    <3> QED BY <3>1, <1>7 DEF Tick
  <2> QED BY <1>7, <2>1, <2>2 DEF Tick, TypeOK
<1>8. CASE UNCHANGED vars
  BY <1>8 DEF vars, TypeOK
<1> QED BY <1>2, <1>3, <1>4, <1>5, <1>6, <1>7, <1>8 DEF Next, Acquire, Release

LEMMA InitInv == ASSUME NEW P, Calm(P), Init, Only(P) PROVE IInv(P)
<1>1. TypeOK
  <2>1. 0 \in 0 .. TooOld /\ 0 \in 0 .. WaitTicks
    BY FileLockAssumption DEF TooOld
  <2> QED BY <2>1 DEF Init, TypeOK, Places
<1>2. \A c \in Contenders : pc[c] \in {"idle", "done"}
  BY DEF Init
<1> QED BY <1>1, <1>2 DEF Init, IInv, Owned, Young, Abandoned, Holding, Recorded, Breaking

(* A process moves, and the file stays as it is: what this may disturb. *)
LEMMA MoveInv ==
  ASSUME NEW P, Calm(P), IInv(P), TypeOK',
         NEW c \in Contenders, pc[c] # "done", NEW p \in Places, Goto(c, p),
         UNCHANGED <<owner, written, age>>,
         p \in Holding => pc[c] \in Holding,
         pc[c] \in Holding => p \in Holding \/ (p \in Over /\ Faulty # {}),
         pc[c] \notin Over,
         p \in Recorded => written,
         p \in Breaking => owner # NoFile /\ pc[owner] \in Over
  PROVE  IInv(P)'
<1> USE DEF Holding, Over, Recorded, Breaking
<1>1. /\ \A d \in Contenders : pc'[d] = IF d = c THEN p ELSE pc[d]
      /\ owner \in Contenders \cup {NoFile} /\ NoFile \notin Contenders
  BY Types DEF Goto, IInv
<1>2. Only(P)'
  BY <1>1 DEF IInv, Only
<1>3. Owned'
  BY <1>1 DEF IInv, Owned
<1>4. Young'
  BY <1>1 DEF IInv, Young
<1>5. Abandoned'
  BY <1>1 DEF IInv, Abandoned
<1> QED BY <1>2, <1>3, <1>4, <1>5 DEF IInv

(* Who holds the lock is in the file. *)
LEMMA Holder ==
  ASSUME NEW P, IInv(P), NEW c \in Contenders, pc[c] \in Holding
  PROVE  /\ owner = c /\ c \in P
         /\ \A d \in Contenders : pc[d] \in Holding \cup Breaking => d = c
<1> USE DEF Holding, Over, Recorded, Breaking
<1>1. owner = c /\ c # NoFile /\ c \in P /\ pc[c] \notin Over
  BY FileLockAssumption DEF IInv, Owned
<1> QED BY <1>1 DEF IInv, Owned, Abandoned

(* Nobody else is about to break a file that somebody is about to break. *)
LEMMA Breaker ==
  ASSUME NEW P, Calm(P), IInv(P), NEW c \in Contenders, pc[c] \in Breaking
  PROVE  /\ owner # NoFile /\ pc[owner] \in Over /\ Faulty # {}
         /\ \A d \in Contenders : pc[d] \notin Holding
         /\ \A d \in Contenders : pc[d] \in Breaking => d = c
<1> USE DEF Holding, Over, Recorded, Breaking
<1>1. owner # NoFile /\ pc[owner] \in Over /\ Faulty # {}
  BY DEF IInv, Abandoned
<1>2. \A d \in Contenders : pc[d] \notin Holding
  BY <1>1 DEF IInv, Owned
<1>3. \A d \in Contenders : pc[d] \in Breaking => d \in P /\ d # owner
  BY <1>1 DEF IInv, Only
<1>4. owner \in P /\ c \in P
  BY <1>1, <1>3 DEF IInv
<1> QED BY <1>1, <1>2, <1>3, <1>4 DEF Calm

LEMMA StepInv ==
  ASSUME NEW P, Calm(P), IInv(P), [Next]_vars
  PROVE  IInv(P)'
<1> USE DEF Holding, Over, Recorded, Breaking
<1>1. TypeOK /\ TypeOK'
  BY TypeStep DEF IInv
<1>2. /\ owner \in Contenders \cup {NoFile} /\ NoFile \notin Contenders
      /\ pc \in [Contenders -> Places]
      /\ age \in Nat /\ MaxHold \in Nat \ {0} /\ HardStale \in Nat
  BY <1>1, Types
<1>3. ASSUME NEW c \in Contenders, NEW p, Goto(c, p)
      PROVE  \A d \in Contenders : pc'[d] = IF d = c THEN p ELSE pc[d]
  BY <1>2, <1>3 DEF Goto
<1>4. ASSUME NEW c \in Contenders, Start(c) \/ CheckDeadline(c) PROVE IInv(P)'
  <2>1. PICK p \in {"open", "failed"} : Goto(c, p)
    BY <1>4 DEF Start, CheckDeadline
  <2>2. UNCHANGED <<owner, written, age>> /\ pc[c] \in {"idle", "failed", "deadline"}
    BY <1>4 DEF Start, CheckDeadline
  <2>3. p \in Places
    BY <2>1 DEF Places, Trying
  <2> HIDE DEF Holding, Over, Recorded, Breaking
  <2>4. /\ pc[c] # "done" /\ pc[c] \notin Holding \cup Over
        /\ p \notin Holding \cup Recorded \cup Breaking
    BY <2>1, <2>2 DEF Holding, Over, Recorded, Breaking
  <2> QED BY <1>1, <2>1, <2>2, <2>3, <2>4, MoveInv
<1>5. ASSUME NEW c \in Contenders, Open(c) PROVE IInv(P)'
  <2>1. CASE owner = NoFile
    <3>1. /\ owner' = c /\ age' = 0 /\ written' = FALSE
          /\ \A d \in Contenders : pc'[d] = IF d = c THEN "created" ELSE pc[d]
      BY <1>3, <1>5, <2>1 DEF Open
    <3>2. \A d \in Contenders : pc[d] \notin Holding \cup Breaking
      BY <1>2, <2>1 DEF IInv, Owned, Abandoned
    <3>3. c \in P
      BY <1>5 DEF IInv, Only, Open
    <3>4. Only(P)'
      BY <3>1, <3>3 DEF IInv, Only
    <3>5. Owned' /\ Young' /\ Abandoned'
      BY <1>2, <3>1, <3>2 DEF Owned, Young, Abandoned
    <3> QED BY <1>1, <3>1, <3>3, <3>4, <3>5 DEF IInv
  <2>2. CASE owner # NoFile
    <3>1. Goto(c, "stat") /\ UNCHANGED <<owner, written, age>> /\ pc[c] = "open"
      BY <1>5, <2>2 DEF Open
    <3>2. "stat" \in Places
      BY DEF Places, Trying
    <3> QED BY <1>1, <3>1, <3>2, MoveInv
  <2> QED BY <2>1, <2>2
<1>6. ASSUME NEW c \in Contenders, WriteHolder(c) PROVE IInv(P)'
  <2>1. /\ owner = c /\ c \in P
        /\ \A d \in Contenders : pc[d] \in Holding \cup Breaking => d = c
    BY <1>6, Holder DEF WriteHolder
  <2>2. /\ owner' = c /\ age' = 0 /\ written' = TRUE
        /\ \A d \in Contenders : pc'[d] = IF d = c THEN "inside" ELSE pc[d]
    BY <1>3, <1>6, <2>1 DEF WriteHolder
  <2>3. Only(P)'
    BY <2>1, <2>2 DEF IInv, Only
  <2>4. Owned' /\ Young' /\ Abandoned'
    BY <1>2, <2>1, <2>2 DEF Owned, Young, Abandoned
  <2> QED BY <1>1, <2>1, <2>2, <2>3, <2>4 DEF IInv
<1>7. ASSUME NEW c \in Contenders, Drop(c) \/ UnlinkOwn(c) \/ Break(c) PROVE IInv(P)'
  <2>1. \A d \in Contenders : pc[d] \in Holding \cup Breaking => d = c
    <3>1. CASE pc[c] \in Holding
      BY <3>1, Holder
    <3>2. CASE pc[c] \in Breaking
      BY <3>2, Breaker
    <3> QED BY <1>7, <3>1, <3>2 DEF Drop, UnlinkOwn, Break
  <2>2. /\ owner' = NoFile /\ pc[c] # "done"
        /\ \E p \in {"open", "done"} :
             \A d \in Contenders : pc'[d] = IF d = c THEN p ELSE pc[d]
    BY <1>3, <1>7 DEF Drop, UnlinkOwn, Break, Unlink
  <2>3. Only(P)'
    BY <2>2 DEF IInv, Only
  <2>4. Owned' /\ Young' /\ Abandoned'
    BY <1>2, <2>1, <2>2 DEF Owned, Young, Abandoned
  <2> QED BY <1>1, <2>2, <2>3, <2>4 DEF IInv
<1>8. ASSUME NEW c \in Contenders, Stat(c) PROVE IInv(P)'
  <2>1. /\ pc[c] = "stat" /\ UNCHANGED <<owner, written, age>>
        /\ \E p \in {"open", "breakHard", "readHolder", "deadline"} :
             /\ Goto(c, p)
             /\ p = "breakHard" => owner # NoFile /\ HardValve(age)
    BY <1>8 DEF Stat
  <2>2. PICK p \in {"open", "breakHard", "readHolder", "deadline"} :
             /\ Goto(c, p)
             /\ p = "breakHard" => owner # NoFile /\ HardValve(age)
    BY <2>1
  <2>3. owner # NoFile /\ HardValve(age) => pc[owner] \in Over
    <3>1. HardValve(age) => ~(age <= MaxHold)
      BY <1>2 DEF HardValve, HardStaleAge, Calm
    <3> QED BY <3>1 DEF IInv, Owned, Young
  <2>4. p \in Places
    BY <2>2 DEF Places, Trying
  <2>5. p \notin Holding /\ pc[c] \notin Holding /\ pc[c] \notin Over /\ p \notin Recorded /\ pc[c] # "done"
    BY <2>1
  <2>6. p \in Breaking => owner # NoFile /\ pc[owner] \in Over
    BY <2>2, <2>3
  <2> HIDE DEF Holding, Over, Recorded, Breaking
  <2> QED BY <1>1, <2>1, <2>2, <2>4, <2>5, <2>6, MoveInv
<1>9. ASSUME NEW c \in Contenders, ReadHolder(c) PROVE IInv(P)'
  <2>1. PICK p \in {"breakDead", "deadline"} :
          Goto(c, p) /\ (p = "breakDead" => owner # NoFile /\ pc[owner] \in Over)
    BY <1>9 DEF ReadHolder, OwnerIsGone
  <2>2. pc[c] = "readHolder" /\ UNCHANGED <<owner, written, age>>
    BY <1>9 DEF ReadHolder
  <2>3. p \in Places
    BY <2>1 DEF Places, Trying
  <2>4. p \notin Holding /\ pc[c] \notin Holding /\ pc[c] \notin Over /\ p \notin Recorded /\ pc[c] # "done"
    BY <2>1, <2>2
  <2>5. p \in Breaking => owner # NoFile /\ pc[owner] \in Over
    BY <2>1
  <2> HIDE DEF Holding, Over, Recorded, Breaking
  <2> QED BY <1>1, <2>1, <2>2, <2>3, <2>4, <2>5, MoveInv
<1>10. ASSUME NEW c \in Contenders, NEW p \in Holding \cup Over, Goto(c, p),
              UNCHANGED <<owner, written, age>>, pc[c] \in Holding,
              p \in Over => Faulty # {},
              p \in Recorded => pc[c] \in Recorded
       PROVE  IInv(P)'
  <2>1. p \in Places /\ pc[c] # "done" /\ pc[c] \notin Over /\ p \notin Breaking
    BY <1>10 DEF Places
  <2>2. p \in Recorded => written
    BY <1>10 DEF IInv, Owned
  <2>3. p \in Holding \/ (p \in Over /\ Faulty # {})
    BY <1>10
  <2> HIDE DEF Holding, Over, Recorded, Breaking
  <2> QED BY <1>1, <1>10, <2>1, <2>2, <2>3, MoveInv
<1>11. ASSUME NEW c \in Contenders, Leave(c) PROVE IInv(P)'
  <2>1. "release" \in Holding \cup Over
    OBVIOUS
  <2> QED BY <1>10, <1>11, <2>1 DEF Leave
<1>12. ASSUME NEW c \in Contenders, ReadOwn(c) PROVE IInv(P)'
  <2>1. owner = c /\ written
    BY <1>12 DEF ReadOwn, IInv, Owned
  <2>2. "unlink" \in Holding \cup Over
    OBVIOUS
  <2> QED BY <1>10, <1>12, <2>1, <2>2 DEF ReadOwn
<1>13. ASSUME NEW c \in Contenders, Fault(c) PROVE IInv(P)'
  <2>1. CASE WriteFails(c)
    <3>1. "dropping" \in Holding \cup Over
      OBVIOUS
    <3> QED BY <1>10, <2>1, <3>1 DEF WriteFails
  <2>2. CASE ReleaseFails(c)
    <3>1. "done" \in Holding \cup Over
      OBVIOUS
    <3> QED BY <1>10, <2>2, <3>1 DEF ReleaseFails
  <2>3. CASE Crash(c) /\ pc[c] \in Holding
    <3>1. "crashed" \in Holding \cup Over
      OBVIOUS
    <3> QED BY <1>10, <2>3, <3>1 DEF Crash
  <2>4. CASE Crash(c) /\ pc[c] \notin Holding
    <3>1. Goto(c, "crashed") /\ UNCHANGED <<owner, written, age>> /\ pc[c] \notin Over
      BY <2>4 DEF Crash, Trying
    <3>2. "crashed" \in Places
      BY DEF Places
    <3> QED BY <1>1, <2>4, <3>1, <3>2, MoveInv
  <2> QED BY <1>13, <2>1, <2>2, <2>3, <2>4 DEF Fault
<1>14. ASSUME Tick PROVE IInv(P)'
  <2>1. UNCHANGED <<owner, written, pc>>
    BY <1>14 DEF Tick
  <2>2. owner # NoFile /\ pc[owner] \in Holding => age' <= MaxHold
    BY <1>2, <1>14 DEF Tick
  <2> QED BY <1>1, <2>1, <2>2 DEF IInv, Only, Owned, Young, Abandoned
<1>15. CASE UNCHANGED vars
  BY <1>1, <1>15 DEF vars, IInv, Only, Owned, Young, Abandoned
<1> QED
  BY <1>4, <1>5, <1>6, <1>7, <1>8, <1>9, <1>11, <1>12, <1>13, <1>14, <1>15
     DEF Next, Acquire, Release

(* The lock file excludes: at most one process is in the guarded section,  *)
(* however their file system calls interleave, among any number of healthy *)
(* ones, and of any two even if they are killed at any step or leave their *)
(* file behind.                                                            *)
THEOREM Exclusion == ASSUME NEW P, Calm(P) PROVE Spec /\ Only(P) => []OneInside
<1>1. IInv(P) => OneInside
  BY DEF IInv, Owned, OneInside, MutualExclusion, Inside, Holding
<1>2. IInv(P) /\ [Next]_vars => IInv(P)'
  BY StepInv
<1>3. Init /\ Only(P) => IInv(P)
  BY InitInv
<1> QED BY <1>1, <1>2, <1>3, PTL DEF Spec

(* ... and the release of one never removes the file of another, although  *)
(* it reads the record and unlinks the path in two steps.                  *)
THEOREM KeyedRelease == ASSUME NEW P, Calm(P) PROVE Spec /\ Only(P) => ReleaseFreesOwn
<1>1. IInv(P) => \A c \in Contenders : pc[c] = "unlink" => owner = c
  BY DEF IInv, Owned, Holding
<1>2. IInv(P) /\ [Next]_vars => IInv(P)'
  BY StepInv
<1>3. ASSUME IInv(P), [Next]_vars
      PROVE  [\A c \in Contenders :
                (pc[c] = "unlink" /\ owner # NoFile /\ owner' = NoFile /\ pc'[c] = "done")
                  => owner = c]_vars
  BY <1>1, <1>3
<1>4. Init /\ Only(P) => IInv(P)
  BY InitInv
<1> QED BY <1>2, <1>3, <1>4, PTL DEF Spec, ReleaseFreesOwn

(* The lock file implements the exclusive section its callers rely on: who *)
(* is killed, or leaves its file, dies in the section, and the file is     *)
(* broken only once its owner has.                                         *)
THEOREM Refinement == ASSUME NEW P, Calm(P) PROVE Spec /\ Only(P) => IsExclusiveSection
<1> USE FileLockAssumption DEF Trying, Holding
<1>1. Init => Section!Init
  BY DEF Init, Section!Init, Phase
<1>2. ASSUME IInv(P), [Next]_vars
      PROVE  [Section!Next]_<<owner, Phase>>
  <2>1. pc \in [Contenders -> Places]
    BY <1>2, Types DEF IInv
  <2>2. ASSUME NEW c \in Contenders, NEW p \in Places, Goto(c, p)
        PROVE  Phase' = [Phase EXCEPT ![c] =
                  IF p \in {"idle", "failed"} THEN "out"
                  ELSE IF p \in Trying THEN "waiting"
                  ELSE IF p \in Holding THEN "in" ELSE "over"]
    BY <2>1, <2>2 DEF Goto, Phase
  <2>3. ASSUME NEW c \in Contenders, Start(c)
        PROVE  Section!Call(c)
    <3>1. Phase' = [Phase EXCEPT ![c] = "waiting"]
      BY <2>2, <2>3 DEF Start, Places
    <3> QED BY <2>3, <3>1 DEF Start, Section!Call, Phase
  <2>4. ASSUME NEW c \in Contenders, Open(c), owner = NoFile
        PROVE  Section!Enter(c)
    <3>1. Phase' = [Phase EXCEPT ![c] = "in"]
      BY <2>2, <2>4 DEF Open, Places
    <3> QED BY <2>4, <3>1 DEF Open, Section!Enter, Phase
  <2>5. ASSUME NEW c \in Contenders, Drop(c) \/ UnlinkOwn(c)
        PROVE  Section!Exit(c)
    <3>1. Phase' = [Phase EXCEPT ![c] = "over"]
      BY <2>2, <2>5 DEF Drop, UnlinkOwn, Places
    <3>2. owner = c /\ owner' = NoFile
      BY <1>2, <2>5 DEF IInv, Owned, Drop, UnlinkOwn, Unlink
    <3> QED BY <2>5, <3>1, <3>2 DEF Drop, UnlinkOwn, Section!Exit, Phase
  <2>6. ASSUME NEW c \in Contenders, CheckDeadline(c)
        PROVE  Section!GiveUp(c) \/ UNCHANGED <<owner, Phase>>
    <3>1. CASE Goto(c, "failed")
      <4>1. Phase' = [Phase EXCEPT ![c] = "out"]
        BY <2>2, <3>1 DEF Places
      <4> QED BY <2>6, <4>1 DEF CheckDeadline, Section!GiveUp, Phase
    <3>2. CASE Goto(c, "open")
      <4>1. Phase' = [Phase EXCEPT ![c] = "waiting"]
        BY <2>2, <3>2 DEF Places
      <4>2. Phase[c] = "waiting"
        BY <2>6 DEF CheckDeadline, Phase
      <4>3. Phase' = Phase
        BY <4>1, <4>2 DEF Phase
      <4> QED BY <2>6, <4>3 DEF CheckDeadline
    <3> QED BY <2>6, <3>1, <3>2 DEF CheckDeadline
  <2>7. ASSUME NEW c \in Contenders, NEW p \in Places, Goto(c, p), owner' = owner,
               \/ pc[c] \in Trying /\ p \in Trying
               \/ pc[c] \in Holding /\ p \in Holding
        PROVE  UNCHANGED <<owner, Phase>>
    <3>1. Phase' = [Phase EXCEPT ![c] = Phase[c]]
      BY <2>2, <2>7 DEF Phase
    <3>2. Phase = [Phase EXCEPT ![c] = Phase[c]]
      BY DEF Phase
    <3> QED BY <2>7, <3>1, <3>2
  <2>8. ASSUME NEW c \in Contenders, Acquire(c) \/ Release(c)
        PROVE  Section!Next \/ UNCHANGED <<owner, Phase>>
    <3>1. CASE Open(c)
      <4>1. CASE owner = NoFile
        BY <3>1, <4>1, <2>4 DEF Section!Next
      <4>2. CASE owner # NoFile
        BY <3>1, <4>2, <2>7 DEF Open, Places
      <4> QED BY <4>1, <4>2
    <3>2. CASE WriteHolder(c)
      BY <3>2, <2>7 DEF WriteHolder, Places
    <3>3. CASE Drop(c) \/ UnlinkOwn(c)
      BY <3>3, <2>5 DEF Section!Next
    <3>4. CASE Stat(c)
      <4>1. PICK p \in {"open", "breakHard", "readHolder", "deadline"} : Goto(c, p)
        BY <3>4 DEF Stat
      <4> QED BY <3>4, <4>1, <2>7 DEF Stat, Places
    <3>5. CASE ReadHolder(c)
      <4>1. PICK p \in {"breakDead", "deadline"} : Goto(c, p)
        BY <3>5 DEF ReadHolder
      <4> QED BY <3>5, <4>1, <2>7 DEF ReadHolder, Places
    <3>6. CASE Break(c)
      <4>1. owner # NoFile /\ pc[owner] \in {"done", "crashed"} /\ owner' = NoFile
        BY <1>2, <3>6 DEF Break, Unlink, IInv, Abandoned, Breaking, Over
      <4>2. Phase[owner] = "over"
        <5>1. owner \in Contenders
          BY <1>2, <4>1, Types DEF IInv
        <5> QED BY <4>1, <5>1 DEF Phase
      <4>3. Phase' = Phase
        <5>1. "open" \in Places /\ Goto(c, "open") /\ pc[c] \in Trying
          BY <3>6 DEF Break, Places
        <5>2. Phase' = [Phase EXCEPT ![c] = "waiting"]
          BY <2>2, <5>1
        <5> QED BY <5>1, <5>2 DEF Phase
      <4> QED BY <4>1, <4>2, <4>3 DEF Section!Next, Section!Reclaim
    <3>7. CASE CheckDeadline(c)
      BY <3>7, <2>6 DEF Section!Next
    <3>8. CASE Leave(c)
      BY <3>8, <2>7 DEF Leave, Places
    <3>9. CASE ReadOwn(c)
      <4>1. Goto(c, "unlink")
        BY <1>2, <3>9 DEF ReadOwn, IInv, Owned, Recorded
      <4> QED BY <3>9, <4>1, <2>7 DEF ReadOwn, Places
    <3> QED BY <2>8, <3>1, <3>2, <3>3, <3>4, <3>5, <3>6, <3>7, <3>8, <3>9
            DEF Acquire, Release
  <2>9. ASSUME NEW c \in Contenders, Fault(c)
        PROVE  Section!Next \/ UNCHANGED <<owner, Phase>>
    <3>1. CASE WriteFails(c)
      <4>1. "dropping" \in Places
        BY DEF Places
      <4> QED BY <3>1, <4>1, <2>7 DEF WriteFails
    <3>2. CASE ReleaseFails(c) \/ Crash(c)
      <4>1. PICK p \in {"done", "crashed"} : Goto(c, p)
        BY <3>2 DEF ReleaseFails, Crash
      <4>2. c \in Faulty /\ owner' = owner /\ pc[c] \in Trying \cup Holding
        BY <3>2 DEF ReleaseFails, Crash
      <4>3. Phase' = [Phase EXCEPT ![c] = "over"]
        BY <2>2, <4>1 DEF Places
      <4>4. Phase[c] \in {"waiting", "in"}
        BY <4>2 DEF Phase
      <4> QED BY <4>2, <4>3, <4>4 DEF Section!Next, Section!Die
    <3> QED BY <2>9, <3>1, <3>2 DEF Fault
  <2>10. CASE Tick
    BY <2>10 DEF Tick, Phase
  <2>11. CASE UNCHANGED vars
    BY <2>11 DEF vars, Phase
  <2> QED BY <1>2, <2>3, <2>8, <2>9, <2>10, <2>11 DEF Next, Section!Next
<1>3. IInv(P) /\ [Next]_vars => IInv(P)'
  BY StepInv
<1>4. Init /\ Only(P) => IInv(P)
  BY InitInv
<1> QED BY <1>1, <1>2, <1>3, <1>4, PTL DEF Spec, IsExclusiveSection, Section!Spec

----------------------------------------------------------------------------
(***************************************************************************)
(* What holds of the debugger for any number of starts, stops and steps:   *)
(* the one lease stays with the one registered session, and the lock file  *)
(* with whoever is counted as holding it.                                  *)
(*                                                                         *)
(* A start that waits for its connection has the lease and no session yet; *)
(* Leased says that nobody has one then, so that what the clean-up of an   *)
(* earlier session does late cannot reach it.  Counted bounds the holders  *)
(* by the starts that have been past the lock.                             *)
(***************************************************************************)

(* What a session may still have to send to SAP. *)
Kinds == {"attach", "terminate", "stop"}

Todos == Seq(Kinds)

(* All of LaneTypeOK but the bound on the holders of the arm lock. *)
Typed ==
  /\ progress \in [Starts -> {"new", "connecting", "preparing", "acquiring",
                              "dispatching", "triggering", "waiting", "unlisten",
                              "attaching", "running", "failing", "closing", "over"}]
  /\ status \in [Starts -> {"none", "idle", "listening", "caught", "suspended", "dead"}]
  /\ poll \in [Starts -> {"none", "out", "empty", "debuggee", "rejected"}]
  /\ told \in [Starts -> BOOLEAN]
  /\ timer \in [Starts -> BOOLEAN]
  /\ ending \in [Starts -> BOOLEAN]
  /\ todo \in [Starts -> Todos]
  /\ registry \subseteq Starts
  /\ lease \in Starts \cup {None} /\ lane \in Starts \cup {None}
  /\ holds \in Nat
  /\ section \in {"free", "ours", "theirs"}
  /\ registered \subseteq Starts
  /\ debuggee \in [Starts -> {"none", "caught", "attached", "gone", "left"}]
  /\ at \in [Ends -> {"new", "ending", "joined", "leaked", "orphans", "closing", "over"}]
  /\ about \in [Ends -> Starts \cup {None}]

(* Ending a session, by whatever way, leaves it with requests to send. *)
LEMMA TerminationStepsTyped ==
  ASSUME NEW s \in Starts
  PROVE  TerminationSteps(s) \in Todos
<1>1. /\ <<"attach">> \in Todos /\ <<"terminate">> \in Todos
      /\ <<"stop">> \in Todos /\ << >> \in Todos
  BY DEF Todos, Kinds
<1>2. \A t, u \in Todos : t \o u \in Todos
  BY ConcatProperties DEF Todos
<1> HIDE DEF Todos
<1> QED
  BY <1>1, <1>2 DEF TerminationSteps

LEMMA TerminateTyped ==
  ASSUME Typed, NEW s \in Starts, Terminate(s)
  PROVE  /\ ending' \in [Starts -> BOOLEAN]
         /\ todo' \in [Starts -> Todos]
         /\ poll' \in [Starts -> {"none", "out", "empty", "debuggee", "rejected"}]
<1>1. todo[s] \o TerminationSteps(s) \in Todos
  BY TerminationStepsTyped, ConcatProperties DEF Typed, Todos
<1>2. CASE MayEnd(s)
  <2>1. todo' \in [Starts -> Todos]
    BY <1>1, <1>2 DEF Typed, Terminate
  <2>2. ending' \in [Starts -> BOOLEAN]
    BY <1>2 DEF Typed, Terminate
  <2>3. poll' \in [Starts -> {"none", "out", "empty", "debuggee", "rejected"}]
    BY <1>2 DEF Typed, Terminate
  <2> QED
    BY <2>1, <2>2, <2>3
<1>3. CASE ~MayEnd(s)
  BY <1>3 DEF Typed, Terminate
<1> QED
  BY <1>2, <1>3

(* The starts whose long poll goes out. *)
LEMMA LaunchedTyped ==
  ASSUME Typed, NEW S \in SUBSET Starts, Launched(S)
  PROVE  /\ progress' \in [Starts -> {"new", "connecting", "preparing", "acquiring",
                              "dispatching", "triggering", "waiting", "unlisten",
                              "attaching", "running", "failing", "closing", "over"}]
         /\ poll' \in [Starts -> {"none", "out", "empty", "debuggee", "rejected"}]
         /\ registered' \subseteq Starts
BY DEF Typed, Launched

(* Closing the connection leaves nothing to send. *)
LEMMA DisconnectTyped ==
  ASSUME Typed, NEW s, Disconnect(s)
  PROVE  /\ todo' \in [Starts -> Todos]
         /\ debuggee' \in [Starts -> {"none", "caught", "attached", "gone", "left"}]
<1>1. << >> \in Todos
  BY DEF Todos
<1>2. \A requests : Without(requests, debuggee[s]) \in {"left", debuggee[s]}
  BY DEF Without
<1> QED
  BY <1>1, <1>2 DEF Typed, Disconnect

LEMMA TypedInit == LaneInit => Typed
<1>1. << >> \in Todos
  BY DEF Todos
<1> QED
  BY <1>1 DEF LaneInit, Typed

LEMMA TypedNext ==
  ASSUME Typed, [LaneNext]_laneVars
  PROVE  Typed'
<1> USE DebugLaneAssumption
<1>1. ASSUME NEW s \in Starts, ConnectFails(s) \/ Create(s) \/ StepFails(s) PROVE Typed'
  BY <1>1 DEF ConnectFails, Create, StepFails, Typed, session, tool, armLock, sap, calls
<1>2. ASSUME NEW s \in Starts, Arm(s) PROVE Typed'
  <2>1. CASE progress' = [progress EXCEPT ![s] = "failing"] /\ UNCHANGED <<poll, registered, holds>>
    BY <1>2, <2>1 DEF Arm, Typed, session, tool, armLock, sap, calls
  <2>2. CASE progress' = [progress EXCEPT ![s] = "acquiring"] /\ UNCHANGED <<poll, registered, holds>>
    BY <1>2, <2>2 DEF Arm, Typed, session, tool, armLock, sap, calls
  <2>3. CASE holds' = holds + 1 /\ Launched({s})
    BY <1>2, <2>3, LaunchedTyped DEF Arm, Typed, session, tool, armLock, sap, calls
  <2> QED BY <1>2, <2>1, <2>2, <2>3 DEF Arm
<1>3. ASSUME NEW s \in Starts, Armed(s) \/ Wait(s) \/ Attach(s) PROVE Typed'
  <2>1. CASE Armed(s)
    BY <2>1 DEF Armed, Typed, session, tool, armLock, sap, calls
  <2>2. CASE Wait(s)
    BY <2>2 DEF Wait, Typed, session, tool, armLock, sap, calls
  <2>3. CASE Attach(s)
    BY <2>3 DEF Attach, Typed, session, tool, armLock, sap, calls
  <2> QED BY <1>3, <2>1, <2>2, <2>3
<1>4. ASSUME NEW s \in Starts, Unlisten(s) PROVE Typed'
  BY <1>4 DEF Unlisten, ReleaseArmLock, Typed, session, tool, armLock, sap, calls
<1>5. ASSUME NEW s \in Starts, Clean(s) \/ IdleTimeout(s) PROVE Typed'
  <2>1. /\ ending' \in [Starts -> BOOLEAN]
        /\ todo' \in [Starts -> Todos]
        /\ poll' \in [Starts -> {"none", "out", "empty", "debuggee", "rejected"}]
    BY <1>5, TerminateTyped DEF Clean, IdleTimeout
  <2>2. CASE Clean(s)
    BY <2>1, <2>2 DEF Clean, Typed, session, tool, armLock, sap, calls
  <2>3. CASE IdleTimeout(s)
    BY <2>1, <2>3 DEF IdleTimeout, Typed, session, tool, armLock, sap, calls
  <2> QED BY <1>5, <2>2, <2>3
<1>6. ASSUME NEW s \in Starts, TerminationStep(s) PROVE Typed'
  <2>1. Tail(todo[s]) \in Todos
    BY <1>6, HeadTailProperties DEF TerminationStep, Typed, Todos
  <2>2. \A request : /\ Outcomes(request, debuggee[s]) \subseteq {"attached", "gone", "left", debuggee[s]}
                     /\ Without({request}, debuggee[s]) \in {"left", debuggee[s]}
    BY DEF Outcomes, Without
  <2>3. \E now : /\ now \in {"attached", "gone", "left", debuggee[s]}
                 /\ debuggee' = [debuggee EXCEPT ![s] = now]
    BY <1>6, <2>2 DEF TerminationStep
  <2>4. /\ registered' \subseteq Starts
        /\ poll' \in [Starts -> {"none", "out", "empty", "debuggee", "rejected"}]
    BY <1>6 DEF TerminationStep, ListenersStopped, Typed
  <2>5. debuggee' \in [Starts -> {"none", "caught", "attached", "gone", "left"}]
    BY <2>3 DEF Typed
  <2> QED BY <1>6, <2>1, <2>4, <2>5 DEF TerminationStep, Typed, tool, armLock, calls
<1>7. ASSUME NEW s \in Starts, Finalise(s) PROVE Typed'
  BY <1>7 DEF Finalise, ReleaseLease, ReleaseArmLock, Typed, session, tool, armLock, sap, calls
<1>8. ASSUME NEW s \in Starts, Caught(s) \/ Elapsed(s) \/ PollFails(s) PROVE Typed'
  BY <1>8 DEF Caught, Elapsed, PollFails, Typed, session, tool, armLock, sap, calls
<1>9. ASSUME NEW s \in Starts, Resume(s) PROVE Typed'
  <2>1. poll' \in [Starts -> {"none", "out", "empty", "debuggee", "rejected"}]
    BY <1>9 DEF Resume, Typed
  <2>2. /\ told' \in [Starts -> BOOLEAN]
        /\ timer' \in [Starts -> BOOLEAN]
    BY <1>9 DEF Resume, Typed
  <2>3. status' \in [Starts -> {"none", "idle", "listening", "caught", "suspended", "dead"}]
    BY <1>9 DEF Resume, Typed
  <2>4. \E p \in {"attaching", "unlisten", "failing"} : progress' = [progress EXCEPT ![s] = p]
    BY <1>9 DEF Resume, Due, Typed
  <2> QED BY <1>9, <2>1, <2>2, <2>3, <2>4 DEF Resume, Typed, tool, armLock, sap, calls
<1>10. ASSUME NEW s \in Starts, Begin(s) PROVE Typed'
  BY <1>10 DEF Begin, Typed, session, tool, armLock, sap, calls
<1>11. ASSUME Granted \/ Busy PROVE Typed'
  <2>1. Acquiring \subseteq Starts /\ (Granted => Cardinality(Acquiring) \in Nat)
    BY FS_CardinalityType, FS_Subset DEF Acquiring
  <2>2. CASE Granted
    BY <2>1, <2>2, LaunchedTyped DEF Granted, Typed, session, tool, armLock, sap, calls
  <2>3. CASE Busy
    BY <2>1, <2>3 DEF Busy, Typed, session, tool, armLock, sap, calls
  <2> QED BY <1>11, <2>2, <2>3
<1>12. ASSUME NEW c \in Ends, Stop(c) \/ StepDies(c) PROVE Typed'
  BY <1>12, TerminateTyped DEF Stop, StepDies, Typed, session, tool, armLock, sap, calls
<1>13. ASSUME NEW c \in Ends, ClearLeaked(c) PROVE Typed'
  BY <1>13, TerminateTyped DEF ClearLeaked, Typed, session, tool, armLock, sap, calls
<1>14. ASSUME NEW c \in Ends, EndGoesOn(c) PROVE Typed'
  <2>1. CASE Cleared(c) \/ ReleaseOrphans(c) \/ Ended(c)
    BY <2>1 DEF Cleared, ReleaseOrphans, ListenersStopped, Ended, Typed, session, tool, armLock, sap, calls
  <2>2. CASE FreeLane(c)
    BY <2>2, DisconnectTyped DEF FreeLane, Typed, session, tool, armLock, sap, calls
  <2> QED BY <1>14, <2>1, <2>2 DEF EndGoesOn
<1>15. CASE Other
  BY <1>15 DEF Other, OtherArms, OtherDisarms, Typed, session, tool, armLock, sap, calls
<1>16. CASE UNCHANGED laneVars
  BY <1>16 DEF laneVars, Typed, session, tool, armLock, sap, calls
<1>17. ASSUME NEW s \in Starts, Close(s) PROVE Typed'
  BY <1>17, DisconnectTyped DEF Close, Typed, session, tool, armLock, sap, calls
<1> QED
  BY <1>1, <1>2, <1>3, <1>4, <1>5, <1>6, <1>7, <1>8, <1>9, <1>10, <1>11, <1>12, <1>13, <1>14, <1>15, <1>16, <1>17
     DEF LaneNext, GoesOn, Happens, StartStep, EndBegins

-------------------------------------------------------------------------------
(* Between Begin and Create a start has the lease and no session yet, and  *)
(* nobody else has one: what a session does cannot reach it.               *)
Sessionless(s) == progress[s] \in {"new", "connecting"}

Leased ==
  /\ \A s \in registry : lease = s
  /\ \A s \in Starts : progress[s] = "connecting" => lease = s /\ registry = {}
  /\ \A s \in Starts : Sessionless(s) => status[s] = "none" /\ ~ending[s]

LEMMA LeasedInit == LaneInit => Leased
BY DEF LaneInit, Leased, Sessionless

(* The steps that neither make a session nor end one. *)
LEMMA LeasedKept ==
  ASSUME Typed, Leased, lease' = lease, registry' \subseteq registry,
         \A s \in Starts :
           /\ progress'[s] = "connecting" => progress[s] = "connecting"
           /\ Sessionless(s)' =>
                Sessionless(s) /\ status'[s] = status[s] /\ (ending'[s] => ending[s])
  PROVE  Leased'
BY DEF Leased, Sessionless

LEMMA TerminateKeeps ==
  ASSUME Typed, Leased, NEW s \in Starts, Terminate(s), NEW t \in Starts, Sessionless(t)
  PROVE  ending'[t] => ending[t]
BY DEF Typed, Leased, Terminate, MayEnd, Sessionless

LEMMA LeasedNext ==
  ASSUME Typed, Leased, [LaneNext]_laneVars
  PROVE  Leased'
<1> USE DebugLaneAssumption
<1> USE DEF session, tool, armLock, sap, calls
<1>1. ASSUME NEW s \in Starts, ConnectFails(s) PROVE Leased'
  BY <1>1 DEF ConnectFails, Typed, Leased, Sessionless
<1>2. ASSUME NEW s \in Starts, Create(s) PROVE Leased'
  BY <1>2 DEF Create, Typed, Leased, Sessionless
<1>3. ASSUME NEW s \in Starts, Begin(s) PROVE Leased'
  BY <1>3 DEF Begin, Typed, Leased, Sessionless
<1>4. ASSUME NEW s \in Starts, Finalise(s) PROVE Leased'
  <2>1. ~Sessionless(s)
    BY <1>4 DEF Finalise, Leased
  <2>2. /\ registry' = registry \ {s} /\ lease' = IF lease = s THEN None ELSE lease
        /\ progress' = progress
        /\ \A t \in Starts \ {s} : status'[t] = status[t] /\ ending'[t] = ending[t]
    BY <1>4 DEF Finalise, ReleaseLease, Typed
  <2> QED BY <2>1, <2>2 DEF Leased, Typed, Sessionless
<1>5. ASSUME NEW s \in Starts, StepFails(s) \/ Wait(s) PROVE Leased'
  BY <1>5, LeasedKept DEF StepFails, Wait, Typed, Sessionless
<1>6. ASSUME NEW s \in Starts, Armed(s) \/ Attach(s) PROVE Leased'
  BY <1>6, LeasedKept DEF Armed, Attach, Typed, Sessionless
<1>7. ASSUME NEW s \in Starts, Unlisten(s) PROVE Leased'
  BY <1>7, LeasedKept DEF Unlisten, Typed, Sessionless
<1>8. ASSUME NEW s \in Starts, Arm(s) PROVE Leased'
  BY <1>8, LeasedKept DEF Arm, Launched, Typed, Sessionless
<1>9. ASSUME NEW s \in Starts, Clean(s) \/ Close(s) \/ IdleTimeout(s) PROVE Leased'
  BY <1>9, LeasedKept, TerminateKeeps DEF Clean, Close, IdleTimeout, Typed, Sessionless
<1>10. ASSUME NEW s \in Starts,
              TerminationStep(s) \/ Caught(s) \/ Elapsed(s) \/ PollFails(s)
       PROVE Leased'
  BY <1>10, LeasedKept DEF TerminationStep, Caught, Elapsed, PollFails, Sessionless
<1>11. ASSUME NEW s \in Starts, Resume(s) PROVE Leased'
  <2>1. progress[s] = "waiting" /\ \E p \in {"attaching", "unlisten", "failing"} : progress' = [progress EXCEPT ![s] = p]
    BY <1>11 DEF Resume, Due, Typed
  <2>2. /\ lease' = lease /\ registry' = registry /\ ending' = ending
        /\ \A t \in Starts \ {s} : status'[t] = status[t]
    BY <1>11 DEF Resume, Typed
  <2> QED BY <2>1, <2>2, LeasedKept DEF Typed, Sessionless
<1>12. CASE Granted \/ Busy
  BY <1>12, LeasedKept DEF Granted, Busy, Acquiring, Launched, Typed, Sessionless
<1>13. ASSUME NEW c \in Ends, Stop(c) \/ StepDies(c) PROVE Leased'
  <2>1. lane \in Starts /\ Terminate(lane)
    BY <1>13 DEF Stop, StepDies, Typed
  <2> QED BY <1>13, <2>1, LeasedKept, TerminateKeeps DEF Stop, StepDies, Sessionless
<1>14. ASSUME NEW c \in Ends, ClearLeaked(c) PROVE Leased'
  <2>1. ending' = ending \/ \E s \in Starts : Terminate(s)
    BY <1>14 DEF ClearLeaked, Typed
  <2>2. /\ lease' = lease /\ registry' = registry /\ progress' = progress /\ status' = status
    BY <1>14 DEF ClearLeaked
  <2> QED BY <2>1, <2>2, LeasedKept, TerminateKeeps DEF Sessionless
<1>15. ASSUME NEW c \in Ends, EndGoesOn(c) PROVE Leased'
  BY <1>15, LeasedKept DEF EndGoesOn, Cleared, ReleaseOrphans, Ended, FreeLane, Sessionless
<1>16. CASE Other \/ UNCHANGED laneVars
  BY <1>16, LeasedKept DEF Other, laneVars, Sessionless
<1> QED
  BY <1>1, <1>2, <1>3, <1>4, <1>5, <1>6, <1>7, <1>8, <1>9, <1>10, <1>11, <1>12, <1>13, <1>14, <1>15, <1>16
     DEF LaneNext, GoesOn, Happens, StartStep, EndBegins

-------------------------------------------------------------------------------
(* The starts that have been past the arm lock, or have failed before: a   *)
(* start asks for it once, so there are as many to be counted as holders.  *)
PastArming ==
  {s \in Starts : progress[s] \notin {"new", "connecting", "preparing", "acquiring"}}

Counted ==
  /\ holds > 0 <=> section = "ours"
  /\ holds <= Cardinality(PastArming)

LEMMA PastArmingFinite ==
  /\ IsFiniteSet(PastArming)
  /\ Cardinality(PastArming) \in Nat
  /\ Cardinality(PastArming) <= Cardinality(Starts)
BY DebugLaneAssumption, FS_Subset, FS_CardinalityType DEF PastArming

LEMMA CountedInit == LaneInit => Counted
BY PastArmingFinite DEF LaneInit, Counted

(* The steps that take no hold. *)
LEMMA CountedKept ==
  ASSUME Typed, Counted,
         \/ holds' = holds /\ (section' = "ours" <=> section = "ours")
         \/ ReleaseArmLock,
         PastArming \subseteq PastArming'
  PROVE  Counted'
<1>1. Cardinality(PastArming) <= Cardinality(PastArming')
  BY DebugLaneAssumption, FS_Subset DEF PastArming
<1>2. Cardinality(PastArming') \in Nat /\ Cardinality(PastArming) \in Nat
  BY DebugLaneAssumption, FS_Subset, FS_CardinalityType DEF PastArming
<1>3. holds' \in Nat /\ holds' <= holds /\ (holds' > 0 <=> section' = "ours")
  BY DEF ReleaseArmLock, Typed, Counted
<1> QED BY <1>1, <1>2, <1>3 DEF Counted, Typed

LEMMA CountedNext ==
  ASSUME Typed, Counted, [LaneNext]_laneVars
  PROVE  Counted'
<1> USE DebugLaneAssumption
<1> USE DEF session, tool, armLock, sap, calls
<1>1. ASSUME NEW s \in Starts, Arm(s) PROVE Counted'
  <2>1. PastArming \subseteq PastArming'
    BY <1>1 DEF Arm, Launched, Typed, PastArming
  <2>2. CASE holds' = holds + 1 /\ Launched({s})
    <3>1. s \notin PastArming /\ PastArming' = PastArming \cup {s} /\ s \in Starts
      BY <1>1, <2>2 DEF Arm, Launched, Typed, PastArming
    <3>2. Cardinality(PastArming') = Cardinality(PastArming) + 1
      BY <3>1, PastArmingFinite, FS_AddElement
    <3>3. section = "ours" /\ section' = section
      BY <1>1, <2>2 DEF Arm, Counted, Typed
    <3> QED BY <2>2, <3>2, <3>3, PastArmingFinite DEF Counted, Typed
  <2>3. CASE holds' = holds
    BY <1>1, <2>1, <2>3, CountedKept DEF Arm
  <2> QED BY <1>1, <2>2, <2>3 DEF Arm
<1>2. CASE Granted
  <2>1. Acquiring \subseteq PastArming' /\ PastArming' \subseteq Starts
    BY <1>2 DEF Granted, Launched, Acquiring, Typed, PastArming
  <2>2. IsFiniteSet(PastArming')
    BY <2>1, FS_Subset
  <2>3. IsFiniteSet(Acquiring) /\ Cardinality(Acquiring) <= Cardinality(PastArming')
    BY <2>1, <2>2, FS_Subset
  <2>4. Cardinality(Acquiring) \in Nat /\ Cardinality(Acquiring) # 0
    BY <1>2, <2>3, FS_CardinalityType, FS_EmptySet DEF Granted
  <2> QED BY <1>2, <2>3, <2>4 DEF Granted, Counted
<1>3. CASE Busy
  BY <1>3, CountedKept DEF Busy, Acquiring, Typed, PastArming
<1>4. CASE Other
  BY <1>4, CountedKept DEF Other, OtherArms, OtherDisarms, PastArming
<1>5. ASSUME NEW s \in Starts, ConnectFails(s) \/ Create(s) \/ StepFails(s) \/ Begin(s) PROVE Counted'
  BY <1>5, CountedKept DEF ConnectFails, Create, StepFails, Begin, Typed, PastArming
<1>6. ASSUME NEW s \in Starts, Armed(s) \/ Wait(s) \/ Attach(s) PROVE Counted'
  BY <1>6, CountedKept DEF Armed, Wait, Attach, Typed, PastArming
<1>7. ASSUME NEW s \in Starts, Clean(s) \/ Close(s) \/ IdleTimeout(s) PROVE Counted'
  BY <1>7, CountedKept DEF Clean, Close, IdleTimeout, Typed, PastArming
<1>8. ASSUME NEW s \in Starts, Unlisten(s) \/ Finalise(s) PROVE Counted'
  BY <1>8, CountedKept DEF Unlisten, Finalise, Typed, PastArming
<1>9. ASSUME NEW s \in Starts,
             TerminationStep(s) \/ Caught(s) \/ Elapsed(s) \/ PollFails(s)
      PROVE Counted'
  BY <1>9, CountedKept DEF TerminationStep, Caught, Elapsed, PollFails, PastArming
<1>10. ASSUME NEW s \in Starts, Resume(s) PROVE Counted'
  <2>1. progress[s] = "waiting" /\ \E p \in {"attaching", "unlisten", "failing"} : progress' = [progress EXCEPT ![s] = p]
    BY <1>10 DEF Resume, Due, Typed
  <2>2. holds' = holds /\ section' = section
    BY <1>10 DEF Resume
  <2> QED BY <2>1, <2>2, CountedKept DEF Typed, PastArming
<1>11. ASSUME NEW c \in Ends, EndBegins(c) \/ EndGoesOn(c) PROVE Counted'
  <2>1. progress' = progress /\ holds' = holds /\ section' = section
    BY <1>11 DEF EndBegins, EndGoesOn, Stop, ClearLeaked, StepDies, Cleared, ReleaseOrphans, Ended, FreeLane
  <2> QED BY <2>1, CountedKept DEF PastArming
<1>12. CASE UNCHANGED laneVars
  BY <1>12, CountedKept DEF laneVars, PastArming
<1> QED
  BY <1>1, <1>2, <1>3, <1>4, <1>5, <1>6, <1>7, <1>8, <1>9, <1>10, <1>11, <1>12
     DEF LaneNext, GoesOn, Happens, StartStep

-------------------------------------------------------------------------------
(* However late the clean-up of a session runs, whatever its requests do   *)
(* and however often it is ended: each registered session has the lease    *)
(* that counts its work processes on SAP, and the lock file that keeps     *)
(* other processes from arming is held here exactly while somebody here    *)
(* counts on it.                                                           *)
THEOREM RegistryStaysSound == LaneSpec => []RegistryIsSound
<1>1. Typed /\ Leased /\ Counted => RegistryIsSound
  <2> SUFFICES ASSUME Typed, Leased, Counted PROVE RegistryIsSound
    OBVIOUS
  <2>1. Cardinality(Starts) \in Nat /\ holds \in 0 .. Cardinality(Starts)
    BY PastArmingFinite, FS_CardinalityType, DebugLaneAssumption DEF Typed, Counted
  <2>2. LaneTypeOK
    BY <2>1 DEF Typed, LaneTypeOK, Todos, Kinds
  <2> QED BY <2>2 DEF Leased, Counted, RegistryIsSound
<1>2. Typed /\ Leased /\ Counted /\ [LaneNext]_laneVars => (Typed /\ Leased /\ Counted)'
  BY TypedNext, LeasedNext, CountedNext
<1>3. LaneInit => Typed /\ Leased /\ Counted
  BY TypedInit, LeasedInit, CountedInit
<1> QED
  BY <1>1, <1>2, <1>3, PTL DEF LaneSpec

=============================================================================
