---------------------------- MODULE Journal_proofs ----------------------------
(***************************************************************************)
(* What holds of the journal for any writes, processes, faults and caps.   *)
(* An image is safe from the sweep of a prune for two reasons, and Guarded *)
(* has both: until its line lands a marker stands for it, which was there  *)
(* before the sweep listed the image; afterwards its entry does, which no  *)
(* prune under way can have missed, because it holds the lock.             *)
(***************************************************************************)
EXTENDS Journal, TLAPS

(* A killed process has no write under way.                                *)
DeadIsDead == \A w \in Writes : ~Live(w) => stage[w] = "dead"

(* The prune under way is that of a live process, which has the lock.      *)
PrunerHasLock ==
  prune.step # "none" =>
    /\ prune.by \in Writes /\ stage[prune.by] = "pruning"
    /\ lock = Home[prune.by] /\ lock \in alive

(* The prune knows the index: what it keeps is what is there.              *)
KeptIsIndexed ==
  /\ prune.step = "rewrite" =>
       \A w \in Writes : prune.kept[w] # NoLine => prune.kept[w] = index[w]
  /\ prune.step \in {"list", "judge", "sweep"} => prune.kept = index

(* An image on disk, or in the listing of the sweep, is of a write that    *)
(* began, and while that has not landed it is one the write knows of.      *)
Listed == IF prune.step \in {"judge", "sweep"} THEN prune.found ELSE {}

ImagesAreKnown ==
  /\ \A w \in Writes : stage[w] = "idle" => images[w] = {}
  /\ \A b \in blobs \cup Listed :
       /\ stage[b[1]] # "idle"
       /\ stage[b[1]] = "claimed" => b[2] \in images[b[1]]

(* The marker of a write stands until its line has landed.                 *)
ClaimIsMarked ==
  \A w \in Writes \ unguarded : stage[w] = "claimed" => w \in markers

(* What the sweep is about to take, no entry names, and no begin() will.   *)
SweepIsOfOrphans ==
  prune.step = "sweep" =>
    \A b \in prune.found :
      /\ ~Survives(b[1])
      /\ stage[b[1]] = "claimed" => b[1] \in unguarded

(* The images a write will name are there while it has a marker or an      *)
(* entry to stand for them.                                                *)
Onward == {"landed", "returned", "pruning", "mutating", "settling"}

Guarded ==
  \A w \in Writes \ unguarded, i \in Images :
    i \in images[w] =>
      \/ stage[w] # "claimed" /\ (stage[w] \notin Onward \/ w \notin Entries)
      \/ <<w, i>> \in blobs

(* What is over was on record when its line landed.                        *)
LandedIsOnRecord ==
  \A w \in Writes \ excused :
    stage[w] \in Onward \cup {"settled"} => w \in Entries

--------------------------------------------------------------------------------
(* The empty entry, and no prune.                                          *)
LEMMA Nothings ==
  /\ NoLine \in Lines
  /\ NoPrune \in [by: Writes \cup {NoOne}, step: Steps,
                  kept: [Writes -> Lines], found: SUBSET (Writes \X Images)]
BY DEF NoLine, Lines, NoPrune, Steps

(* The initial state is well typed.                                        *)
LEMMA InitTyped == Init => TypeOK
<1> SUFFICES ASSUME Init PROVE TypeOK
  OBVIOUS
<1>1. faults \in 0 .. MaxFaults
  BY JournalAssumption DEF Init
<1>2. "idle" \in Stages /\ "none" \in Steps
  BY DEF Stages, Steps
<1>3. QED
  BY <1>1, <1>2, Nothings DEF Init, TypeOK

(* What the parts of a step do to the types.                               *)
LEMMA DiskFailsTyped ==
  ASSUME TypeOK, DiskFails \/ UNCHANGED faults
  PROVE  faults' \in 0 .. MaxFaults
<1>1. faults \in 0 .. MaxFaults /\ MaxFaults \in Nat
  BY JournalAssumption DEF TypeOK
<1>2. CASE DiskFails
  BY <1>1, <1>2 DEF DiskFails
<1>3. CASE UNCHANGED faults
  BY <1>1, <1>3
<1>4. QED
  BY <1>2, <1>3

LEMMA GoesTyped ==
  ASSUME TypeOK, NEW w \in Writes, NEW from, NEW to \in Stages, Goes(w, from, to)
  PROVE  stage' \in [Writes -> Stages]
BY DEF TypeOK, Goes

LEMMA AppendsTyped ==
  ASSUME TypeOK, NEW w \in Writes, NEW line \in Lines, Appends(w, line)
  PROVE  /\ index' \in [Writes -> Lines] /\ torn' \in BOOLEAN
         /\ excused' \subseteq Writes
         /\ UNCHANGED <<alive, blobs, lock, prune, faults, unguarded>>
BY DEF TypeOK, Appends

LEMMA PatchesTyped ==
  ASSUME TypeOK, NEW w \in Writes, NEW outcome \in Outcomes,
         NEW named \in SUBSET Images, Patches(w, outcome, named)
  PROVE  \E line \in Lines : Appends(w, line)
<1>1. [outcome |-> outcome, images |-> named] \in Lines
  BY DEF Lines
<1>2. QED
  BY <1>1, Nothings DEF Patches

LEMMA FailsTyped ==
  ASSUME TypeOK, NEW w \in Writes, Tears \/ TimesOut(w)
  PROVE  /\ torn' \in BOOLEAN /\ faults' \in 0 .. MaxFaults
         /\ UNCHANGED <<blobs, index, markers, alive, lock, prune, unguarded,
                        excused, images>>
<1>1. CASE Tears
  BY <1>1, DiskFailsTyped DEF Tears, TypeOK, history
<1>2. CASE TimesOut(w)
  BY <1>2 DEF TimesOut, TypeOK, history, files
<1>3. QED
  BY <1>1, <1>2

(* Every action keeps the types.                                           *)
LEMMA NextTyped == TypeOK /\ [Next]_vars => TypeOK'
<1> SUFFICES ASSUME TypeOK, [Next]_vars PROVE TypeOK'
  OBVIOUS
<1> USE JournalAssumption DEF TypeOK, files, history, Stages

<1>1. ASSUME NEW w \in Writes, Begin(w) PROVE TypeOK'
  <2>1. stage' \in [Writes -> Stages]
    BY <1>1, GoesTyped DEF Begin
  <2>2. faults' \in 0 .. MaxFaults
    BY <1>1, DiskFailsTyped DEF Begin
  <2>3. QED
    BY <1>1, <2>1, <2>2 DEF Begin
<1>2. ASSUME NEW w \in Writes, WriteBefore(w) PROVE TypeOK'
  <2>1. stage' \in [Writes -> Stages]
    BY <1>2, GoesTyped DEF WriteBefore
  <2>2. "before" \in Images /\ <<w, "before">> \in Writes \X Images
    BY DEF Images
  <2>3. blobs' \subseteq Writes \X Images
    BY <1>2, <2>2 DEF WriteBefore
  <2>4. images' \in [Writes -> SUBSET Images]
    BY <1>2, <2>2 DEF WriteBefore
  <2>5. QED
    BY <1>2, <2>1, <2>3, <2>4 DEF WriteBefore
<1>3. ASSUME NEW w \in Writes, BeginFails(w) PROVE TypeOK'
  BY <1>3, DiskFailsTyped DEF BeginFails, Goes, DiskFails
<1>4. ASSUME NEW w \in Writes, AppendEntry(w) PROVE TypeOK'
  <2>1. [outcome |-> "pending", images |-> images[w]] \in Lines
    BY DEF Lines, Outcomes
  <2>2. stage' \in [Writes -> Stages]
    BY <1>4, GoesTyped DEF AppendEntry
  <2>3. QED
    BY <1>4, <2>1, <2>2, AppendsTyped DEF AppendEntry
<1>5. ASSUME NEW w \in Writes, AppendFails(w) PROVE TypeOK'
  <2>1. stage' \in [Writes -> Stages]
    BY <1>5, GoesTyped DEF AppendFails
  <2>2. QED
    BY <1>5, <2>1, FailsTyped DEF AppendFails
<1>6. ASSUME NEW w \in Writes, Retract(w) PROVE TypeOK'
  <2>1. stage' \in [Writes -> Stages]
    BY <1>6, GoesTyped DEF Retract
  <2>2. faults' \in 0 .. MaxFaults
    BY <1>6, DiskFailsTyped DEF Retract
  <2>3. QED
    BY <1>6, <2>1, <2>2 DEF Retract
<1>7. ASSUME NEW w \in Writes, SkipPrune(w) PROVE TypeOK'
  BY <1>7 DEF SkipPrune, Goes
<1>8. ASSUME NEW w \in Writes, StartPrune(w) PROVE TypeOK'
  <2>1. PICK K \in SUBSET Entries :
          prune' = [by |-> w, found |-> {},
                    kept |-> [v \in Writes |-> IF v \in K THEN index[v] ELSE NoLine],
                    step |-> IF K = Entries THEN "list" ELSE "rewrite"]
    BY <1>8 DEF StartPrune
  <2>2. [v \in Writes |-> IF v \in K THEN index[v] ELSE NoLine] \in [Writes -> Lines]
    BY Nothings
  <2>3. prune' \in [by: Writes \cup {NoOne}, step: Steps,
                    kept: [Writes -> Lines], found: SUBSET (Writes \X Images)]
    BY <2>1, <2>2 DEF Steps
  <2>4. QED
    BY <1>8, <2>3 DEF StartPrune, Goes
<1>9. ASSUME NEW w \in Writes, ReadEntry(w) PROVE TypeOK'
  BY <1>9 DEF ReadEntry, Goes
<1>10. ASSUME NEW w \in Writes, LeavePending(w) PROVE TypeOK'
  BY <1>10 DEF LeavePending, Goes
<1>11. ASSUME NEW w \in Writes, WriteAfter(w) PROVE TypeOK'
  <2>1. stage' \in [Writes -> Stages]
    BY <1>11, GoesTyped DEF WriteAfter
  <2>2. "after" \in Images /\ <<w, "after">> \in Writes \X Images
    BY DEF Images
  <2>3. blobs' \subseteq Writes \X Images
    BY <1>11, <2>2 DEF WriteAfter
  <2>4. images' \in [Writes -> SUBSET Images]
    BY <1>11, <2>2 DEF WriteAfter
  <2>5. QED
    BY <1>11, <2>1, <2>3, <2>4 DEF WriteAfter
<1>12. ASSUME NEW w \in Writes, AppendOutcome(w) PROVE TypeOK'
  <2>1. stage' \in [Writes -> Stages]
    BY <1>12, GoesTyped DEF AppendOutcome
  <2>2. PICK line \in Lines : Appends(w, line)
    BY <1>12, PatchesTyped DEF AppendOutcome, Outcomes
  <2>3. QED
    BY <1>12, <2>1, <2>2, AppendsTyped DEF AppendOutcome
<1>13. ASSUME NEW w \in Writes, SettleFails(w) PROVE TypeOK'
  <2>1. stage' \in [Writes -> Stages]
    BY <1>13, GoesTyped DEF SettleFails
  <2>2. QED
    BY <1>13, <2>1, FailsTyped DEF SettleFails
<1>14. ASSUME NEW w \in Writes, Reconcile(w) PROVE TypeOK'
  BY <1>14 DEF Reconcile
<1>15. ASSUME NEW w \in Writes, AppendAssertion(w) PROVE TypeOK'
  <2>1. CASE Patches(w, "asserted", index[w].images) /\ UNCHANGED <<images, markers>>
    <3>1. index[w].images \in SUBSET Images
      BY DEF Lines
    <3>2. PICK line \in Lines : Appends(w, line)
      BY <2>1, <3>1, PatchesTyped DEF Outcomes
    <3>3. QED
      BY <1>15, <2>1, <3>2, AppendsTyped DEF AppendAssertion
  <2>2. CASE Tears
    BY <1>15, <2>2, FailsTyped DEF AppendAssertion
  <2>3. QED
    BY <1>15, <2>1, <2>2 DEF AppendAssertion
<1>16. ASSUME Rewrite PROVE TypeOK'
  <2>1. prune.kept \in [Writes -> Lines] /\ Entries \subseteq Writes
    BY DEF Entries
  <2>2. prune' \in [by: Writes \cup {NoOne}, step: Steps,
                    kept: [Writes -> Lines], found: SUBSET (Writes \X Images)]
    BY <1>16 DEF Rewrite, Steps
  <2>3. QED
    BY <1>16, <2>1, <2>2 DEF Rewrite
<1>17. ASSUME ListBlobs PROVE TypeOK'
  BY <1>17 DEF ListBlobs, Prunes, Steps
<1>18. ASSUME Judge PROVE TypeOK'
  <2>1. PICK reaped \in SUBSET {w \in markers : ~Live(w)} :
          /\ markers' = markers \ reaped
          /\ prune' = [prune EXCEPT !.step = "sweep",
                         !.found = {b \in prune.found : ~Spares(b[1], markers \ reaped)}]
    BY <1>18 DEF Judge
  <2>2. {b \in prune.found : ~Spares(b[1], markers \ reaped)} \in SUBSET (Writes \X Images)
    OBVIOUS
  <2> DEFINE orphans == {b \in prune.found : ~Spares(b[1], markers \ reaped)}
  <2> HIDE DEF orphans
  <2>3. prune' \in [by: Writes \cup {NoOne}, step: Steps,
                    kept: [Writes -> Lines], found: SUBSET (Writes \X Images)]
    <3>1. prune' = [prune EXCEPT !.step = "sweep", !.found = orphans]
      BY <2>1 DEF orphans
    <3>2. QED
      BY <2>2, <3>1 DEF Steps, orphans
  <2>4. QED
    BY <1>18, <2>1, <2>3 DEF Judge, Prunes
<1>19. ASSUME NEW b \in prune.found, Unlink(b) PROVE TypeOK'
  <2>1. faults' \in 0 .. MaxFaults
    BY <1>19, DiskFailsTyped DEF Unlink
  <2>2. QED
    BY <1>19, <2>1 DEF Unlink, Prunes
<1>20. ASSUME EndPrune PROVE TypeOK'
  BY <1>20, Nothings DEF EndPrune, Ends
<1>21. ASSUME PruneFails PROVE TypeOK'
  <2>1. faults' \in 0 .. MaxFaults
    BY <1>21, DiskFailsTyped DEF PruneFails
  <2>2. QED
    BY <1>21, <2>1, Nothings DEF PruneFails, Ends
<1>22. ASSUME NEW p \in Procs, Crash(p) PROVE TypeOK'
  BY <1>22, Nothings DEF Crash
<1>23. ASSUME BreakLock PROVE TypeOK'
  BY <1>23 DEF BreakLock
<1>24. CASE UNCHANGED vars
  BY <1>24 DEF vars
<1>25. QED
  BY <1>1, <1>2, <1>3, <1>4, <1>5, <1>6, <1>7, <1>8, <1>9, <1>10, <1>11,
     <1>12, <1>13, <1>14, <1>15, <1>16, <1>17, <1>18, <1>19, <1>20, <1>21,
     <1>22, <1>23, <1>24 DEF Next, BeginStep, Proceeds, SettleStep,
     PruneStep

(* Type correctness.                                                       *)
THEOREM TypeCorrect == Spec => []TypeOK
<1>1. Init => TypeOK
  BY InitTyped
<1>2. TypeOK /\ [Next]_vars => TypeOK'
  BY NextTyped
<1>3. QED
  BY <1>1, <1>2, PTL DEF Spec

--------------------------------------------------------------------------------
(* The record of the prune, step by step.                                  *)
LEMMA NoPruneIsIdle == NoPrune.step = "none" /\ NoPrune.found = {}
BY DEF NoPrune

LEMMA StartFields ==
  ASSUME TypeOK, NEW w \in Writes, StartPrune(w)
  PROVE  /\ prune'.by = w /\ prune'.found = {}
         /\ prune'.step \in {"list", "rewrite"}
         /\ \A v \in Writes : prune'.kept[v] # NoLine => prune'.kept[v] = index[v]
         /\ prune'.step = "list" => prune'.kept = index
<1>1. PICK K \in SUBSET Entries :
        prune' = [by |-> w, found |-> {},
                  kept |-> [v \in Writes |-> IF v \in K THEN index[v] ELSE NoLine],
                  step |-> IF K = Entries THEN "list" ELSE "rewrite"]
  BY DEF StartPrune
<1>2. prune'.kept = [v \in Writes |-> IF v \in K THEN index[v] ELSE NoLine]
  BY <1>1
<1>3. \A v \in Writes : prune'.kept[v] # NoLine => prune'.kept[v] = index[v]
  BY <1>2
<1>4. ASSUME prune'.step = "list" PROVE prune'.kept = index
  <2>1. K = Entries
    BY <1>1, <1>4
  <2>2. \A v \in Writes : prune'.kept[v] = index[v]
    BY <1>2, <2>1 DEF Entries
  <2>3. QED
    BY <1>2, <2>2 DEF TypeOK
<1>5. QED
  BY <1>1, <1>3, <1>4

LEMMA RewriteFields ==
  ASSUME TypeOK, Rewrite
  PROVE  /\ prune'.by = prune.by /\ prune'.kept = prune.kept
         /\ prune'.found = prune.found /\ prune'.step = "list"
BY DEF TypeOK, Rewrite

LEMMA ListFields ==
  ASSUME TypeOK, ListBlobs
  PROVE  /\ prune'.by = prune.by /\ prune'.kept = prune.kept
         /\ prune'.found = blobs /\ prune'.step = "judge"
BY DEF TypeOK, ListBlobs

LEMMA JudgeFields ==
  ASSUME TypeOK, Judge
  PROVE  \E reaped \in SUBSET {w \in markers : ~Live(w)} :
           /\ markers' = markers \ reaped
           /\ prune'.by = prune.by /\ prune'.kept = prune.kept
           /\ prune'.found = {b \in prune.found : ~Spares(b[1], markers \ reaped)}
           /\ prune'.step = "sweep"
<1>1. PICK reaped \in SUBSET {w \in markers : ~Live(w)} :
        /\ markers' = markers \ reaped
        /\ prune' = [prune EXCEPT !.step = "sweep",
                       !.found = {b \in prune.found : ~Spares(b[1], markers \ reaped)}]
  BY DEF Judge
<1> DEFINE orphans == {b \in prune.found : ~Spares(b[1], markers \ reaped)}
<1>2. prune' = [prune EXCEPT !.step = "sweep", !.found = orphans]
  BY <1>1
<1> HIDE DEF orphans
<1>3. /\ prune'.by = prune.by /\ prune'.kept = prune.kept
      /\ prune'.found = orphans /\ prune'.step = "sweep"
  BY <1>2 DEF TypeOK
<1>4. QED
  BY <1>1, <1>3 DEF orphans

LEMMA UnlinkFields ==
  ASSUME TypeOK, NEW b \in prune.found, Unlink(b)
  PROVE  /\ prune'.by = prune.by /\ prune'.kept = prune.kept
         /\ prune'.found = prune.found \ {b} /\ prune'.step = "sweep"
BY DEF TypeOK, Unlink, Prunes

(* Whoever finds the lock free finds no prune.                             *)
LEMMA FreeIsIdle ==
  ASSUME TypeOK, PrunerHasLock, lock = NoOne
  PROVE  prune.step = "none"
BY JournalAssumption DEF TypeOK, PrunerHasLock

(* What a line appended for a write makes of the others.                   *)
LEMMA AppendsOne ==
  ASSUME TypeOK, NEW w \in Writes, NEW line, Appends(w, line)
  PROVE  /\ lock = NoOne
         /\ \A v \in Writes : v # w => index'[v] = index[v]
         /\ index'[w] = index[w] \/ index'[w] = line
         /\ w \in excused' \/ index'[w] = line
         /\ excused \subseteq excused'
BY DEF TypeOK, Appends, MayAppend

(* A patch changes the outcome of an entry, or what is none.               *)
LEMMA PatchesOne ==
  ASSUME TypeOK, NEW w \in Writes, NEW outcome \in Outcomes,
         NEW named \in SUBSET Images, Patches(w, outcome, named)
  PROVE  /\ lock = NoOne
         /\ \A v \in Writes : v # w => index'[v] = index[v]
         /\ index[w] = NoLine => index'[w] = NoLine
         /\ index[w] # NoLine =>
              /\ index'[w] # NoLine
              /\ index'[w] = index[w] \/ index'[w].images = named
              /\ w \in excused' \/ index'[w].outcome = outcome
         /\ excused \subseteq excused'
<1> DEFINE line == [outcome |-> outcome, images |-> named]
<1>1. line # NoLine
  BY DEF Outcomes, NoLine
<1>2. Appends(w, IF index[w] = NoLine THEN NoLine ELSE line)
  BY DEF Patches
<1>3. /\ line.images = named /\ line.outcome = outcome
  OBVIOUS
<1> HIDE DEF line
<1>4. QED
  BY <1>1, <1>2, <1>3, AppendsOne

(* A prune begins with the lock and ends with it, and nobody breaks a lock *)
(* of the living.                                                          *)
LEMMA PrunerHasLockKept ==
  TypeOK /\ PrunerHasLock /\ [Next]_vars => PrunerHasLock'
<1> SUFFICES ASSUME TypeOK, PrunerHasLock, [Next]_vars PROVE PrunerHasLock'
  OBVIOUS
<1> USE JournalAssumption DEF TypeOK, PrunerHasLock, files, history, Live

<1>1. ASSUME NEW w \in Writes, Begin(w) PROVE PrunerHasLock'
  BY <1>1, TRUE DEF Begin, Goes, DiskFails
<1>2. ASSUME NEW w \in Writes, WriteBefore(w) PROVE PrunerHasLock'
  BY <1>2 DEF WriteBefore, Goes
<1>3. ASSUME NEW w \in Writes, BeginFails(w) PROVE PrunerHasLock'
  BY <1>3 DEF BeginFails, Goes, DiskFails
<1>4. ASSUME NEW w \in Writes, AppendEntry(w) PROVE PrunerHasLock'
  BY <1>4 DEF AppendEntry, Goes, Appends, MayAppend
<1>5. ASSUME NEW w \in Writes, AppendFails(w) PROVE PrunerHasLock'
  BY <1>5, TRUE DEF AppendFails, Goes, Tears, TimesOut, DiskFails, MayAppend
<1>6. ASSUME NEW w \in Writes, Retract(w) PROVE PrunerHasLock'
  BY <1>6 DEF Retract, Goes, DiskFails
<1>7. ASSUME NEW w \in Writes, SkipPrune(w) PROVE PrunerHasLock'
  BY <1>7 DEF SkipPrune, Goes
<1>8. ASSUME NEW w \in Writes, StartPrune(w) PROVE PrunerHasLock'
  BY <1>8, StartFields DEF StartPrune, Goes
<1>9. ASSUME NEW w \in Writes, ReadEntry(w) PROVE PrunerHasLock'
  BY <1>9 DEF ReadEntry, Goes
<1>10. ASSUME NEW w \in Writes, LeavePending(w) PROVE PrunerHasLock'
  BY <1>10 DEF LeavePending, Goes
<1>11. ASSUME NEW w \in Writes, WriteAfter(w) PROVE PrunerHasLock'
  BY <1>11 DEF WriteAfter, Goes
<1>12. ASSUME NEW w \in Writes, AppendOutcome(w) PROVE PrunerHasLock'
  <2>1. lock = NoOne
    BY <1>12 DEF AppendOutcome, Patches, Appends, MayAppend
  <2>2. QED
    BY <1>12, <2>1, FreeIsIdle DEF AppendOutcome, Patches, Appends
<1>13. ASSUME NEW w \in Writes, SettleFails(w) PROVE PrunerHasLock'
  BY <1>13 DEF SettleFails, Goes, Tears, TimesOut, DiskFails, MayAppend
<1>14. ASSUME NEW w \in Writes, Reconcile(w) PROVE PrunerHasLock'
  BY <1>14 DEF Reconcile
<1>15. ASSUME NEW w \in Writes, AppendAssertion(w) PROVE PrunerHasLock'
  <2>1. lock = NoOne
    BY <1>15 DEF AppendAssertion, Patches, Appends, MayAppend, Tears
  <2>2. UNCHANGED <<prune, lock, stage, alive>>
    BY <1>15 DEF AppendAssertion, Patches, Appends, Tears
  <2>3. QED
    BY <2>2
<1>16. ASSUME Rewrite PROVE PrunerHasLock'
  BY <1>16, RewriteFields DEF Rewrite
<1>17. ASSUME ListBlobs PROVE PrunerHasLock'
  BY <1>17, ListFields DEF ListBlobs, Prunes
<1>18. ASSUME Judge PROVE PrunerHasLock'
  BY <1>18, JudgeFields DEF Judge, Prunes
<1>19. ASSUME NEW b \in prune.found, Unlink(b) PROVE PrunerHasLock'
  BY <1>19, UnlinkFields DEF Unlink, Prunes, DiskFails
<1>20. ASSUME EndPrune PROVE PrunerHasLock'
  BY <1>20, NoPruneIsIdle DEF EndPrune, Ends
<1>21. ASSUME PruneFails PROVE PrunerHasLock'
  BY <1>21, NoPruneIsIdle DEF PruneFails, Ends, DiskFails
<1>22. ASSUME NEW p \in Procs, Crash(p) PROVE PrunerHasLock'
  <2>1. CASE lock = p
    BY <1>22, <2>1, NoPruneIsIdle DEF Crash
  <2>2. CASE lock # p
    <3>1. prune' = prune
      BY <1>22, <2>2 DEF Crash
    <3>2. ASSUME prune.step # "none" PROVE PrunerHasLock'
      <4>1. lock # NoOne /\ lock \in alive \ {p}
        BY <2>2, <3>2
      <4>2. lock' = lock /\ alive' = alive \ {p}
        BY <1>22, <4>1 DEF Crash
      <4>3. stage'[prune.by] = stage[prune.by]
        BY <1>22, <2>2, <3>2 DEF Crash
      <4>4. QED
        BY <3>1, <3>2, <4>1, <4>2, <4>3
    <3>3. QED
      BY <3>1, <3>2
  <2>3. QED
    BY <2>1, <2>2
<1>23. ASSUME BreakLock PROVE PrunerHasLock'
  BY <1>23 DEF BreakLock
<1>24. CASE UNCHANGED vars
  BY <1>24 DEF vars
<1>25. QED
  BY <1>1, <1>2, <1>3, <1>4, <1>5, <1>6, <1>7, <1>8, <1>9, <1>10, <1>11,
     <1>12, <1>13, <1>14, <1>15, <1>16, <1>17, <1>18, <1>19, <1>20, <1>21,
     <1>22, <1>23, <1>24 DEF Next, BeginStep, Proceeds, SettleStep,
     PruneStep

(* Only what is alive goes on.                                             *)
LEMMA DeadIsDeadKept ==
  TypeOK /\ PrunerHasLock /\ DeadIsDead /\ [Next]_vars => DeadIsDead'
<1> SUFFICES ASSUME TypeOK, PrunerHasLock, DeadIsDead, [Next]_vars
             PROVE  DeadIsDead'
  OBVIOUS
<1> USE JournalAssumption DEF TypeOK, PrunerHasLock, DeadIsDead, files, history, Live

<1>1. ASSUME NEW w \in Writes, Begin(w) PROVE DeadIsDead'
  BY <1>1 DEF Begin, Goes, DiskFails
<1>2. ASSUME NEW w \in Writes, WriteBefore(w) PROVE DeadIsDead'
  BY <1>2 DEF WriteBefore, Goes
<1>3. ASSUME NEW w \in Writes, BeginFails(w) PROVE DeadIsDead'
  BY <1>3 DEF BeginFails, Goes, DiskFails
<1>4. ASSUME NEW w \in Writes, AppendEntry(w) PROVE DeadIsDead'
  <2>1. UNCHANGED alive
    BY <1>4 DEF AppendEntry, Patches, Appends, Tears, TimesOut
  <2>2. QED
    BY <1>4, <2>1 DEF AppendEntry, Goes
<1>5. ASSUME NEW w \in Writes, AppendFails(w) PROVE DeadIsDead'
  <2>1. UNCHANGED alive
    BY <1>5 DEF AppendFails, Patches, Appends, Tears, TimesOut
  <2>2. QED
    BY <1>5, <2>1 DEF AppendFails, Goes
<1>6. ASSUME NEW w \in Writes, Retract(w) PROVE DeadIsDead'
  BY <1>6 DEF Retract, Goes, DiskFails
<1>7. ASSUME NEW w \in Writes, SkipPrune(w) PROVE DeadIsDead'
  BY <1>7 DEF SkipPrune, Goes
<1>8. ASSUME NEW w \in Writes, StartPrune(w) PROVE DeadIsDead'
  BY <1>8 DEF StartPrune, Goes
<1>9. ASSUME NEW w \in Writes, ReadEntry(w) PROVE DeadIsDead'
  BY <1>9 DEF ReadEntry, Goes
<1>10. ASSUME NEW w \in Writes, LeavePending(w) PROVE DeadIsDead'
  BY <1>10 DEF LeavePending, Goes
<1>11. ASSUME NEW w \in Writes, WriteAfter(w) PROVE DeadIsDead'
  BY <1>11 DEF WriteAfter, Goes
<1>12. ASSUME NEW w \in Writes, AppendOutcome(w) PROVE DeadIsDead'
  <2>1. UNCHANGED alive
    BY <1>12 DEF AppendOutcome, Patches, Appends, Tears, TimesOut
  <2>2. QED
    BY <1>12, <2>1 DEF AppendOutcome, Goes
<1>13. ASSUME NEW w \in Writes, SettleFails(w) PROVE DeadIsDead'
  <2>1. UNCHANGED alive
    BY <1>13 DEF SettleFails, Patches, Appends, Tears, TimesOut
  <2>2. QED
    BY <1>13, <2>1 DEF SettleFails, Goes
<1>14. ASSUME NEW w \in Writes, Reconcile(w) PROVE DeadIsDead'
  BY <1>14 DEF Reconcile
<1>15. ASSUME NEW w \in Writes, AppendAssertion(w) PROVE DeadIsDead'
  <2>1. UNCHANGED alive
    BY <1>15 DEF AppendAssertion, Patches, Appends, Tears, TimesOut
  <2>2. QED
    BY <1>15, <2>1 DEF AppendAssertion, Goes
<1>16. ASSUME Rewrite PROVE DeadIsDead'
  BY <1>16 DEF Rewrite
<1>17. ASSUME ListBlobs PROVE DeadIsDead'
  BY <1>17 DEF ListBlobs, Prunes
<1>18. ASSUME Judge PROVE DeadIsDead'
  BY <1>18 DEF Judge, Prunes
<1>19. ASSUME NEW b \in prune.found, Unlink(b) PROVE DeadIsDead'
  BY <1>19 DEF Unlink, Prunes, DiskFails
<1>20. ASSUME EndPrune PROVE DeadIsDead'
  BY <1>20 DEF EndPrune, Ends
<1>21. ASSUME PruneFails PROVE DeadIsDead'
  BY <1>21 DEF PruneFails, Ends, DiskFails
<1>22. ASSUME NEW p \in Procs, Crash(p) PROVE DeadIsDead'
  BY <1>22 DEF Crash
<1>23. ASSUME BreakLock PROVE DeadIsDead'
  BY <1>23 DEF BreakLock
<1>24. CASE UNCHANGED vars
  BY <1>24 DEF vars
<1>25. QED
  BY <1>1, <1>2, <1>3, <1>4, <1>5, <1>6, <1>7, <1>8, <1>9, <1>10, <1>11,
     <1>12, <1>13, <1>14, <1>15, <1>16, <1>17, <1>18, <1>19, <1>20, <1>21,
     <1>22, <1>23, <1>24 DEF Next, BeginStep, Proceeds, SettleStep,
     PruneStep

(* While a prune has the lock nobody appends.                              *)
LEMMA KeptIsIndexedKept ==
  TypeOK /\ PrunerHasLock /\ KeptIsIndexed /\ [Next]_vars => KeptIsIndexed'
<1> SUFFICES ASSUME TypeOK, PrunerHasLock, KeptIsIndexed, [Next]_vars
             PROVE  KeptIsIndexed'
  OBVIOUS
<1> USE JournalAssumption DEF KeptIsIndexed, files, history

<1>1. ASSUME NEW w \in Writes, Begin(w) PROVE KeptIsIndexed'
  BY <1>1 DEF Begin, Goes, DiskFails
<1>2. ASSUME NEW w \in Writes, WriteBefore(w) PROVE KeptIsIndexed'
  BY <1>2 DEF WriteBefore, Goes
<1>3. ASSUME NEW w \in Writes, BeginFails(w) PROVE KeptIsIndexed'
  BY <1>3 DEF BeginFails, Goes, DiskFails
<1>4. ASSUME NEW w \in Writes, AppendEntry(w) PROVE KeptIsIndexed'
  <2>1. lock = NoOne /\ UNCHANGED prune
    BY <1>4 DEF AppendEntry, Patches, Appends, MayAppend
  <2>2. QED
    BY <2>1, FreeIsIdle
<1>5. ASSUME NEW w \in Writes, AppendFails(w) PROVE KeptIsIndexed'
  BY <1>5 DEF AppendFails, Goes, Tears, TimesOut, DiskFails, MayAppend
<1>6. ASSUME NEW w \in Writes, Retract(w) PROVE KeptIsIndexed'
  BY <1>6 DEF Retract, Goes, DiskFails
<1>7. ASSUME NEW w \in Writes, SkipPrune(w) PROVE KeptIsIndexed'
  BY <1>7 DEF SkipPrune, Goes
<1>8. ASSUME NEW w \in Writes, StartPrune(w) PROVE KeptIsIndexed'
  <2>1. UNCHANGED index
    BY <1>8 DEF StartPrune
  <2>2. QED
    BY <1>8, <2>1, StartFields
<1>9. ASSUME NEW w \in Writes, ReadEntry(w) PROVE KeptIsIndexed'
  BY <1>9 DEF ReadEntry, Goes
<1>10. ASSUME NEW w \in Writes, LeavePending(w) PROVE KeptIsIndexed'
  BY <1>10 DEF LeavePending, Goes
<1>11. ASSUME NEW w \in Writes, WriteAfter(w) PROVE KeptIsIndexed'
  BY <1>11 DEF WriteAfter, Goes
<1>12. ASSUME NEW w \in Writes, AppendOutcome(w) PROVE KeptIsIndexed'
  <2>1. lock = NoOne /\ UNCHANGED prune
    BY <1>12 DEF AppendOutcome, Patches, Appends, MayAppend
  <2>2. QED
    BY <2>1, FreeIsIdle
<1>13. ASSUME NEW w \in Writes, SettleFails(w) PROVE KeptIsIndexed'
  BY <1>13 DEF SettleFails, Goes, Tears, TimesOut, DiskFails, MayAppend
<1>14. ASSUME NEW w \in Writes, Reconcile(w) PROVE KeptIsIndexed'
  BY <1>14 DEF Reconcile
<1>15. ASSUME NEW w \in Writes, AppendAssertion(w) PROVE KeptIsIndexed'
  <2>1. lock = NoOne /\ UNCHANGED prune
    BY <1>15 DEF AppendAssertion, Patches, Appends, MayAppend, Tears
  <2>2. QED
    BY <2>1, FreeIsIdle
<1>16. ASSUME Rewrite PROVE KeptIsIndexed'
  <2>1. index' = prune.kept
    BY <1>16 DEF Rewrite
  <2>2. QED
    BY <1>16, <2>1, RewriteFields
<1>17. ASSUME ListBlobs PROVE KeptIsIndexed'
  BY <1>17, ListFields DEF ListBlobs, Prunes
<1>18. ASSUME Judge PROVE KeptIsIndexed'
  BY <1>18, JudgeFields DEF Judge, Prunes
<1>19. ASSUME NEW b \in prune.found, Unlink(b) PROVE KeptIsIndexed'
  BY <1>19, UnlinkFields DEF Unlink, Prunes, DiskFails
<1>20. ASSUME EndPrune PROVE KeptIsIndexed'
  BY <1>20, NoPruneIsIdle DEF EndPrune, Ends
<1>21. ASSUME PruneFails PROVE KeptIsIndexed'
  BY <1>21, NoPruneIsIdle DEF PruneFails, Ends, DiskFails
<1>22. ASSUME NEW p \in Procs, Crash(p) PROVE KeptIsIndexed'
  BY <1>22, NoPruneIsIdle DEF Crash
<1>23. ASSUME BreakLock PROVE KeptIsIndexed'
  BY <1>23 DEF BreakLock
<1>24. CASE UNCHANGED vars
  BY <1>24 DEF vars
<1>25. QED
  BY <1>1, <1>2, <1>3, <1>4, <1>5, <1>6, <1>7, <1>8, <1>9, <1>10, <1>11,
     <1>12, <1>13, <1>14, <1>15, <1>16, <1>17, <1>18, <1>19, <1>20, <1>21,
     <1>22, <1>23, <1>24 DEF Next, BeginStep, Proceeds, SettleStep,
     PruneStep

(* Only its owner, and the reaper of the dead, removes a marker.           *)
LEMMA ClaimIsMarkedKept ==
  TypeOK /\ DeadIsDead /\ PrunerHasLock /\ ClaimIsMarked /\ [Next]_vars =>
  ClaimIsMarked'
<1> SUFFICES ASSUME TypeOK, DeadIsDead, PrunerHasLock, ClaimIsMarked,
                    [Next]_vars
             PROVE  ClaimIsMarked'
  OBVIOUS
<1> USE JournalAssumption DEF TypeOK, ClaimIsMarked, files, history

<1>1. ASSUME NEW w \in Writes, Begin(w) PROVE ClaimIsMarked'
  BY <1>1 DEF Begin, Goes, DiskFails
<1>2. ASSUME NEW w \in Writes, WriteBefore(w) PROVE ClaimIsMarked'
  BY <1>2 DEF WriteBefore, Goes
<1>3. ASSUME NEW w \in Writes, BeginFails(w) PROVE ClaimIsMarked'
  BY <1>3 DEF BeginFails, Goes, DiskFails
<1>4. ASSUME NEW w \in Writes, AppendEntry(w) PROVE ClaimIsMarked'
  BY <1>4 DEF AppendEntry, Goes, Appends, MayAppend
<1>5. ASSUME NEW w \in Writes, AppendFails(w) PROVE ClaimIsMarked'
  BY <1>5 DEF AppendFails, Goes, Tears, TimesOut, DiskFails, MayAppend
<1>6. ASSUME NEW w \in Writes, Retract(w) PROVE ClaimIsMarked'
  BY <1>6 DEF Retract, Goes, DiskFails
<1>7. ASSUME NEW w \in Writes, SkipPrune(w) PROVE ClaimIsMarked'
  BY <1>7 DEF SkipPrune, Goes
<1>8. ASSUME NEW w \in Writes, StartPrune(w) PROVE ClaimIsMarked'
  BY <1>8 DEF StartPrune, Goes
<1>9. ASSUME NEW w \in Writes, ReadEntry(w) PROVE ClaimIsMarked'
  BY <1>9 DEF ReadEntry, Goes
<1>10. ASSUME NEW w \in Writes, LeavePending(w) PROVE ClaimIsMarked'
  BY <1>10 DEF LeavePending, Goes
<1>11. ASSUME NEW w \in Writes, WriteAfter(w) PROVE ClaimIsMarked'
  BY <1>11 DEF WriteAfter, Goes
<1>12. ASSUME NEW w \in Writes, AppendOutcome(w) PROVE ClaimIsMarked'
  <2>1. UNCHANGED <<markers, unguarded>>
    BY <1>12 DEF AppendOutcome, Patches, Appends
  <2>2. QED
    BY <1>12, <2>1 DEF AppendOutcome, Goes
<1>13. ASSUME NEW w \in Writes, SettleFails(w) PROVE ClaimIsMarked'
  BY <1>13 DEF SettleFails, Goes, Tears, TimesOut, DiskFails, MayAppend
<1>14. ASSUME NEW w \in Writes, Reconcile(w) PROVE ClaimIsMarked'
  BY <1>14 DEF Reconcile
<1>15. ASSUME NEW w \in Writes, AppendAssertion(w) PROVE ClaimIsMarked'
  <2>1. UNCHANGED <<markers, unguarded, stage>>
    BY <1>15 DEF AppendAssertion, Patches, Appends, Tears
  <2>2. QED
    BY <2>1
<1>16. ASSUME Rewrite PROVE ClaimIsMarked'
  BY <1>16 DEF Rewrite
<1>17. ASSUME ListBlobs PROVE ClaimIsMarked'
  BY <1>17 DEF ListBlobs, Prunes
<1>18. ASSUME Judge PROVE ClaimIsMarked'
  <2>1. PICK reaped \in SUBSET {w \in markers : ~Live(w)} : markers' = markers \ reaped
    BY <1>18 DEF Judge
  <2>2. \A w \in Writes : stage[w] = "claimed" => w \notin reaped
    BY <2>1 DEF DeadIsDead
  <2>3. UNCHANGED <<stage, unguarded>>
    BY <1>18 DEF Judge, Prunes
  <2>4. QED
    BY <2>1, <2>2, <2>3
<1>19. ASSUME NEW b \in prune.found, Unlink(b) PROVE ClaimIsMarked'
  BY <1>19 DEF Unlink, Prunes, DiskFails
<1>20. ASSUME EndPrune PROVE ClaimIsMarked'
  BY <1>20 DEF EndPrune, Ends, PrunerHasLock
<1>21. ASSUME PruneFails PROVE ClaimIsMarked'
  BY <1>21 DEF PruneFails, Ends, DiskFails, PrunerHasLock
<1>22. ASSUME NEW p \in Procs, Crash(p) PROVE ClaimIsMarked'
  BY <1>22 DEF Crash
<1>23. ASSUME BreakLock PROVE ClaimIsMarked'
  BY <1>23 DEF BreakLock
<1>24. CASE UNCHANGED vars
  BY <1>24 DEF vars
<1>25. QED
  BY <1>1, <1>2, <1>3, <1>4, <1>5, <1>6, <1>7, <1>8, <1>9, <1>10, <1>11,
     <1>12, <1>13, <1>14, <1>15, <1>16, <1>17, <1>18, <1>19, <1>20, <1>21,
     <1>22, <1>23, <1>24 DEF Next, BeginStep, Proceeds, SettleStep,
     PruneStep

(* Images appear under begin() and settle(), and a listing shows no more.  *)
LEMMA ImagesAreKnownKept ==
  TypeOK /\ ImagesAreKnown /\ [Next]_vars => ImagesAreKnown'
<1> SUFFICES ASSUME TypeOK, ImagesAreKnown, [Next]_vars
             PROVE  ImagesAreKnown'
  OBVIOUS
<1> USE JournalAssumption DEF TypeOK, ImagesAreKnown, files, history

<1>1. ASSUME NEW w \in Writes, Begin(w) PROVE ImagesAreKnown'
  <2>1. blobs' = blobs /\ Listed' = Listed
    BY <1>1 DEF Begin, Goes, DiskFails, Listed
  <2>2. QED
    BY <1>1, <2>1 DEF Begin, Goes, DiskFails
<1>2. ASSUME NEW w \in Writes, WriteBefore(w) PROVE ImagesAreKnown'
  <2>1. Listed' = Listed
    BY <1>2 DEF WriteBefore, Listed
  <2>2. /\ blobs' = blobs \cup {<<w, "before">>}
        /\ images' = [images EXCEPT ![w] = @ \cup {"before"}]
        /\ stage' = stage /\ stage[w] # "idle"
    BY <1>2 DEF WriteBefore, Goes
  <2>3. ASSUME NEW b \in blobs' \cup Listed'
        PROVE  stage'[b[1]] # "idle" /\ (stage'[b[1]] = "claimed" => b[2] \in images'[b[1]])
    <3>1. CASE b = <<w, "before">>
      BY <2>2, <3>1
    <3>2. CASE b \in blobs \cup Listed
      <4>1. b[1] \in Writes
        BY <3>2 DEF Listed
      <4>2. QED
        BY <2>2, <3>2, <4>1
    <3>3. QED
      BY <2>1, <2>2, <2>3, <3>1, <3>2
  <2>4. QED
    BY <2>2, <2>3
<1>3. ASSUME NEW w \in Writes, BeginFails(w) PROVE ImagesAreKnown'
  <2>1. blobs' = blobs /\ Listed' = Listed
    BY <1>3 DEF BeginFails, Goes, DiskFails, Listed
  <2>2. QED
    BY <1>3, <2>1 DEF BeginFails, Goes, DiskFails
<1>4. ASSUME NEW w \in Writes, AppendEntry(w) PROVE ImagesAreKnown'
  <2>1. blobs' = blobs /\ Listed' = Listed
    BY <1>4 DEF AppendEntry, Goes, Appends, MayAppend, Listed
  <2>2. QED
    BY <1>4, <2>1 DEF AppendEntry, Goes, Appends, MayAppend
<1>5. ASSUME NEW w \in Writes, AppendFails(w) PROVE ImagesAreKnown'
  <2>1. blobs' = blobs /\ Listed' = Listed
    BY <1>5 DEF AppendFails, Goes, Tears, TimesOut, DiskFails, MayAppend, Listed
  <2>2. QED
    BY <1>5, <2>1 DEF AppendFails, Goes, Tears, TimesOut, DiskFails, MayAppend
<1>6. ASSUME NEW w \in Writes, Retract(w) PROVE ImagesAreKnown'
  <2>1. blobs' = blobs /\ Listed' = Listed
    BY <1>6 DEF Retract, Listed
  <2>2. \A v \in Writes :
          stage'[v] = stage[v] \/ stage'[v] \in {"returned", "refused"}
    BY <1>6 DEF Retract, Goes
  <2>3. UNCHANGED images
    BY <1>6 DEF Retract
  <2>4. \A b \in blobs \cup Listed : b[1] \in Writes
    BY DEF Listed
  <2>5. QED
    BY <2>1, <2>2, <2>3, <2>4
<1>7. ASSUME NEW w \in Writes, SkipPrune(w) PROVE ImagesAreKnown'
  <2>1. blobs' = blobs /\ Listed' = Listed
    BY <1>7 DEF SkipPrune, Goes, Listed
  <2>2. QED
    BY <1>7, <2>1 DEF SkipPrune, Goes
<1>8. ASSUME NEW w \in Writes, StartPrune(w) PROVE ImagesAreKnown'
  <2>1. Listed' = {}
    BY <1>8, StartFields DEF Listed
  <2>2. UNCHANGED <<blobs, images>>
    BY <1>8 DEF StartPrune
  <2>3. QED
    BY <1>8, <2>1, <2>2 DEF StartPrune, Goes
<1>9. ASSUME NEW w \in Writes, ReadEntry(w) PROVE ImagesAreKnown'
  <2>1. blobs' = blobs /\ Listed' = Listed
    BY <1>9 DEF ReadEntry, Goes, Listed
  <2>2. QED
    BY <1>9, <2>1 DEF ReadEntry, Goes
<1>10. ASSUME NEW w \in Writes, LeavePending(w) PROVE ImagesAreKnown'
  <2>1. blobs' = blobs /\ Listed' = Listed
    BY <1>10 DEF LeavePending, Goes, Listed
  <2>2. QED
    BY <1>10, <2>1 DEF LeavePending, Goes
<1>11. ASSUME NEW w \in Writes, WriteAfter(w) PROVE ImagesAreKnown'
  <2>1. Listed' = Listed
    BY <1>11 DEF WriteAfter, Listed
  <2>2. /\ blobs' = blobs \cup {<<w, "after">>}
        /\ images' = [images EXCEPT ![w] = @ \cup {"after"}]
        /\ stage' = stage /\ stage[w] # "idle"
    BY <1>11 DEF WriteAfter, Goes
  <2>3. ASSUME NEW b \in blobs' \cup Listed'
        PROVE  stage'[b[1]] # "idle" /\ (stage'[b[1]] = "claimed" => b[2] \in images'[b[1]])
    <3>1. CASE b = <<w, "after">>
      BY <2>2, <3>1
    <3>2. CASE b \in blobs \cup Listed
      <4>1. b[1] \in Writes
        BY <3>2 DEF Listed
      <4>2. QED
        BY <2>2, <3>2, <4>1
    <3>3. QED
      BY <2>1, <2>2, <2>3, <3>1, <3>2
  <2>4. QED
    BY <2>2, <2>3
<1>12. ASSUME NEW w \in Writes, AppendOutcome(w) PROVE ImagesAreKnown'
  <2>1. blobs' = blobs /\ Listed' = Listed
    BY <1>12 DEF AppendOutcome, Goes, Patches, Appends, MayAppend, Listed
  <2>2. QED
    BY <1>12, <2>1 DEF AppendOutcome, Goes, Patches, Appends, MayAppend
<1>13. ASSUME NEW w \in Writes, SettleFails(w) PROVE ImagesAreKnown'
  <2>1. blobs' = blobs /\ Listed' = Listed
    BY <1>13 DEF SettleFails, Goes, Tears, TimesOut, DiskFails, MayAppend, Listed
  <2>2. QED
    BY <1>13, <2>1 DEF SettleFails, Goes, Tears, TimesOut, DiskFails, MayAppend
<1>14. ASSUME NEW w \in Writes, Reconcile(w) PROVE ImagesAreKnown'
  <2>1. UNCHANGED <<stage, images, blobs, prune>>
    BY <1>14 DEF Reconcile
  <2>2. QED
    BY <2>1 DEF Listed
<1>15. ASSUME NEW w \in Writes, AppendAssertion(w) PROVE ImagesAreKnown'
  <2>1. UNCHANGED <<blobs, prune, stage, images>>
    BY <1>15 DEF AppendAssertion, Patches, Appends, Tears
  <2>2. QED
    BY <2>1 DEF Listed
<1>16. ASSUME Rewrite PROVE ImagesAreKnown'
  <2>1. Listed' = {}
    BY <1>16, RewriteFields DEF Listed
  <2>2. QED
    BY <1>16, <2>1 DEF Rewrite
<1>17. ASSUME ListBlobs PROVE ImagesAreKnown'
  <2>1. Listed' = blobs
    BY <1>17, ListFields DEF Listed
  <2>2. QED
    BY <1>17, <2>1 DEF ListBlobs, Prunes
<1>18. ASSUME Judge PROVE ImagesAreKnown'
  <2>1. Listed' \subseteq Listed
    BY <1>18, JudgeFields DEF Listed, Judge, Prunes
  <2>2. QED
    BY <1>18, <2>1 DEF Judge, Prunes
<1>19. ASSUME NEW b \in prune.found, Unlink(b) PROVE ImagesAreKnown'
  <2>1. Listed' \subseteq Listed
    BY <1>19, UnlinkFields DEF Listed, Unlink, Prunes
  <2>2. blobs' \subseteq blobs
    BY <1>19 DEF Unlink
  <2>3. QED
    BY <1>19, <2>1, <2>2 DEF Unlink, Prunes
<1>20. ASSUME EndPrune PROVE ImagesAreKnown'
  <2>1. Listed' = {} /\ UNCHANGED <<blobs, images>>
    BY <1>20, NoPruneIsIdle DEF EndPrune, Ends, Listed
  <2>2. stage' = [stage EXCEPT ![prune.by] = "mutating"]
    BY <1>20 DEF EndPrune, Ends
  <2>3. QED
    BY <2>1, <2>2
<1>21. ASSUME PruneFails PROVE ImagesAreKnown'
  <2>1. Listed' = {} /\ UNCHANGED <<blobs, images>>
    BY <1>21, NoPruneIsIdle DEF PruneFails, Ends, Listed
  <2>2. stage' = [stage EXCEPT ![prune.by] = "mutating"]
    BY <1>21 DEF PruneFails, Ends
  <2>3. QED
    BY <2>1, <2>2
<1>22. ASSUME NEW p \in Procs, Crash(p) PROVE ImagesAreKnown'
  <2>1. Listed' \subseteq Listed /\ blobs' = blobs
    BY <1>22, NoPruneIsIdle DEF Listed, Crash
  <2>2. \A w \in Writes :
          \/ stage'[w] = "dead"
          \/ stage'[w] = stage[w] /\ images'[w] = images[w]
    BY <1>22 DEF Crash
  <2>3. \A b \in blobs \cup Listed : b[1] \in Writes
    BY DEF Listed
  <2>4. QED
    BY <2>1, <2>2, <2>3
<1>23. ASSUME BreakLock PROVE ImagesAreKnown'
  <2>1. UNCHANGED <<stage, images, blobs, prune>>
    BY <1>23 DEF BreakLock
  <2>2. QED
    BY <2>1 DEF Listed
<1>24. CASE UNCHANGED vars
  BY <1>24 DEF vars, Listed
<1>25. QED
  BY <1>1, <1>2, <1>3, <1>4, <1>5, <1>6, <1>7, <1>8, <1>9, <1>10, <1>11,
     <1>12, <1>13, <1>14, <1>15, <1>16, <1>17, <1>18, <1>19, <1>20, <1>21,
     <1>22, <1>23, <1>24 DEF Next, BeginStep, Proceeds, SettleStep,
     PruneStep

(* A write that claims its id after the listing has no image in it.        *)
LEMMA SweepIsOfOrphansKept ==
  TypeOK /\ PrunerHasLock /\ DeadIsDead /\ ClaimIsMarked /\ ImagesAreKnown
  /\ SweepIsOfOrphans /\ [Next]_vars => SweepIsOfOrphans'
<1> SUFFICES ASSUME TypeOK, PrunerHasLock, DeadIsDead, ClaimIsMarked,
                    ImagesAreKnown, SweepIsOfOrphans, [Next]_vars
             PROVE  SweepIsOfOrphans'
  OBVIOUS
<1> USE JournalAssumption DEF TypeOK, SweepIsOfOrphans, files, history

<1>1. ASSUME NEW w \in Writes, Begin(w) PROVE SweepIsOfOrphans'
  <2>1. ASSUME prune.step = "sweep", NEW b \in prune.found PROVE b[1] # w
    BY <1>1, <2>1 DEF Begin, Goes, ImagesAreKnown, Listed
  <2>2. UNCHANGED prune /\ unguarded \subseteq unguarded'
    BY <1>1 DEF Begin
  <2>3. stage' = [stage EXCEPT ![w] = "claimed"]
    BY <1>1 DEF Begin, Goes
  <2>4. QED
    BY <2>1, <2>2, <2>3 DEF Survives
<1>2. ASSUME NEW w \in Writes, WriteBefore(w) PROVE SweepIsOfOrphans'
  <2>1. UNCHANGED <<prune, unguarded>>
    BY <1>2 DEF WriteBefore, Goes
  <2>2. \A v \in Writes : stage'[v] = "claimed" => stage[v] = "claimed"
    BY <1>2 DEF WriteBefore, Goes
  <2>3. \A b \in prune.found : b[1] \in Writes
    OBVIOUS
  <2>4. QED
    BY <2>1, <2>2, <2>3 DEF Survives
<1>3. ASSUME NEW w \in Writes, BeginFails(w) PROVE SweepIsOfOrphans'
  <2>1. UNCHANGED <<prune, unguarded>>
    BY <1>3 DEF BeginFails, Goes, DiskFails
  <2>2. \A v \in Writes : stage'[v] = "claimed" => stage[v] = "claimed"
    BY <1>3 DEF BeginFails, Goes, DiskFails
  <2>3. \A b \in prune.found : b[1] \in Writes
    OBVIOUS
  <2>4. QED
    BY <2>1, <2>2, <2>3 DEF Survives
<1>4. ASSUME NEW w \in Writes, AppendEntry(w) PROVE SweepIsOfOrphans'
  <2>1. UNCHANGED <<prune, unguarded>>
    BY <1>4 DEF AppendEntry, Goes, Appends, MayAppend
  <2>2. \A v \in Writes : stage'[v] = "claimed" => stage[v] = "claimed"
    BY <1>4 DEF AppendEntry, Goes, Appends, MayAppend
  <2>3. \A b \in prune.found : b[1] \in Writes
    OBVIOUS
  <2>4. QED
    BY <2>1, <2>2, <2>3 DEF Survives
<1>5. ASSUME NEW w \in Writes, AppendFails(w) PROVE SweepIsOfOrphans'
  <2>1. UNCHANGED <<prune, unguarded>>
    BY <1>5 DEF AppendFails, Goes, Tears, TimesOut, DiskFails, MayAppend
  <2>2. \A v \in Writes : stage'[v] = "claimed" => stage[v] = "claimed"
    BY <1>5 DEF AppendFails, Goes, Tears, TimesOut, DiskFails, MayAppend
  <2>3. \A b \in prune.found : b[1] \in Writes
    OBVIOUS
  <2>4. QED
    BY <2>1, <2>2, <2>3 DEF Survives
<1>6. ASSUME NEW w \in Writes, Retract(w) PROVE SweepIsOfOrphans'
  <2>1. UNCHANGED <<prune, unguarded>>
    BY <1>6 DEF Retract, Goes, DiskFails
  <2>2. \A v \in Writes : stage'[v] = "claimed" => stage[v] = "claimed"
    BY <1>6 DEF Retract, Goes, DiskFails
  <2>3. \A b \in prune.found : b[1] \in Writes
    OBVIOUS
  <2>4. QED
    BY <2>1, <2>2, <2>3 DEF Survives
<1>7. ASSUME NEW w \in Writes, SkipPrune(w) PROVE SweepIsOfOrphans'
  <2>1. UNCHANGED <<prune, unguarded>>
    BY <1>7 DEF SkipPrune, Goes
  <2>2. \A v \in Writes : stage'[v] = "claimed" => stage[v] = "claimed"
    BY <1>7 DEF SkipPrune, Goes
  <2>3. \A b \in prune.found : b[1] \in Writes
    OBVIOUS
  <2>4. QED
    BY <2>1, <2>2, <2>3 DEF Survives
<1>8. ASSUME NEW w \in Writes, StartPrune(w) PROVE SweepIsOfOrphans'
  BY <1>8, StartFields DEF StartPrune, Goes
<1>9. ASSUME NEW w \in Writes, ReadEntry(w) PROVE SweepIsOfOrphans'
  <2>1. UNCHANGED <<prune, unguarded>>
    BY <1>9 DEF ReadEntry, Goes
  <2>2. \A v \in Writes : stage'[v] = "claimed" => stage[v] = "claimed"
    BY <1>9 DEF ReadEntry, Goes
  <2>3. \A b \in prune.found : b[1] \in Writes
    OBVIOUS
  <2>4. QED
    BY <2>1, <2>2, <2>3 DEF Survives
<1>10. ASSUME NEW w \in Writes, LeavePending(w) PROVE SweepIsOfOrphans'
  <2>1. UNCHANGED <<prune, unguarded>>
    BY <1>10 DEF LeavePending, Goes
  <2>2. \A v \in Writes : stage'[v] = "claimed" => stage[v] = "claimed"
    BY <1>10 DEF LeavePending, Goes
  <2>3. \A b \in prune.found : b[1] \in Writes
    OBVIOUS
  <2>4. QED
    BY <2>1, <2>2, <2>3 DEF Survives
<1>11. ASSUME NEW w \in Writes, WriteAfter(w) PROVE SweepIsOfOrphans'
  <2>1. UNCHANGED <<prune, unguarded>>
    BY <1>11 DEF WriteAfter, Goes
  <2>2. \A v \in Writes : stage'[v] = "claimed" => stage[v] = "claimed"
    BY <1>11 DEF WriteAfter, Goes
  <2>3. \A b \in prune.found : b[1] \in Writes
    OBVIOUS
  <2>4. QED
    BY <2>1, <2>2, <2>3 DEF Survives
<1>12. ASSUME NEW w \in Writes, AppendOutcome(w) PROVE SweepIsOfOrphans'
  <2>1. UNCHANGED <<prune, unguarded>>
    BY <1>12 DEF AppendOutcome, Goes, Patches, Appends, MayAppend
  <2>2. \A v \in Writes : stage'[v] = "claimed" => stage[v] = "claimed"
    BY <1>12 DEF AppendOutcome, Goes, Patches, Appends, MayAppend
  <2>3. \A b \in prune.found : b[1] \in Writes
    OBVIOUS
  <2>4. QED
    BY <2>1, <2>2, <2>3 DEF Survives
<1>13. ASSUME NEW w \in Writes, SettleFails(w) PROVE SweepIsOfOrphans'
  <2>1. UNCHANGED <<prune, unguarded>>
    BY <1>13 DEF SettleFails, Goes, Tears, TimesOut, DiskFails, MayAppend
  <2>2. \A v \in Writes : stage'[v] = "claimed" => stage[v] = "claimed"
    BY <1>13 DEF SettleFails, Goes, Tears, TimesOut, DiskFails, MayAppend
  <2>3. \A b \in prune.found : b[1] \in Writes
    OBVIOUS
  <2>4. QED
    BY <2>1, <2>2, <2>3 DEF Survives
<1>14. ASSUME NEW w \in Writes, Reconcile(w) PROVE SweepIsOfOrphans'
  <2>1. UNCHANGED <<prune, unguarded>>
    BY <1>14 DEF Reconcile
  <2>2. \A v \in Writes : stage'[v] = "claimed" => stage[v] = "claimed"
    BY <1>14 DEF Reconcile
  <2>3. \A b \in prune.found : b[1] \in Writes
    OBVIOUS
  <2>4. QED
    BY <2>1, <2>2, <2>3 DEF Survives
<1>15. ASSUME NEW w \in Writes, AppendAssertion(w) PROVE SweepIsOfOrphans'
  <2>1. UNCHANGED <<prune, unguarded>>
    BY <1>15 DEF AppendAssertion, Patches, Appends, MayAppend, Tears, DiskFails
  <2>2. \A v \in Writes : stage'[v] = "claimed" => stage[v] = "claimed"
    BY <1>15 DEF AppendAssertion, Patches, Appends, MayAppend, Tears, DiskFails
  <2>3. \A b \in prune.found : b[1] \in Writes
    OBVIOUS
  <2>4. QED
    BY <2>1, <2>2, <2>3 DEF Survives
<1>16. ASSUME Rewrite PROVE SweepIsOfOrphans'
  BY <1>16, RewriteFields DEF Rewrite
<1>17. ASSUME ListBlobs PROVE SweepIsOfOrphans'
  BY <1>17, ListFields DEF ListBlobs, Prunes
<1>18. ASSUME Judge PROVE SweepIsOfOrphans'
  <2>1. PICK reaped \in SUBSET {w \in markers : ~Live(w)} :
          /\ prune'.kept = prune.kept
          /\ prune'.found = {b \in prune.found : ~Spares(b[1], markers \ reaped)}
    BY <1>18, JudgeFields
  <2>2. UNCHANGED <<stage, unguarded>>
    BY <1>18 DEF Judge, Prunes
  <2>3. ASSUME NEW b \in prune'.found
        PROVE  /\ ~Survives(b[1])'
               /\ stage'[b[1]] = "claimed" => b[1] \in unguarded'
    <3>1. /\ b[1] \in Writes /\ ~Survives(b[1]) /\ b[1] \notin markers \ reaped
      BY <2>1, <2>3 DEF Spares
    <3>2. ASSUME stage[b[1]] = "claimed" PROVE b[1] \notin reaped
      BY <2>1, <3>1, <3>2 DEF DeadIsDead
    <3>3. QED
      BY <2>1, <2>2, <3>1, <3>2 DEF Survives, ClaimIsMarked
  <2>4. QED
    BY <2>3
<1>19. ASSUME NEW b \in prune.found, Unlink(b) PROVE SweepIsOfOrphans'
  <2>1. /\ prune.step = "sweep" /\ UNCHANGED <<stage, unguarded>>
    BY <1>19 DEF Unlink, Prunes
  <2>2. prune'.found \subseteq prune.found /\ prune'.kept = prune.kept
    BY <1>19, UnlinkFields
  <2>3. QED
    BY <2>1, <2>2 DEF Survives
<1>20. ASSUME EndPrune PROVE SweepIsOfOrphans'
  BY <1>20, NoPruneIsIdle DEF EndPrune, Ends
<1>21. ASSUME PruneFails PROVE SweepIsOfOrphans'
  BY <1>21, NoPruneIsIdle DEF PruneFails, Ends, DiskFails
<1>22. ASSUME NEW p \in Procs, Crash(p) PROVE SweepIsOfOrphans'
  <2>1. prune' = NoPrune \/ prune' = prune
    BY <1>22 DEF Crash
  <2>2. /\ \A v \in Writes : stage'[v] = "claimed" => stage[v] = "claimed"
        /\ UNCHANGED unguarded
    BY <1>22 DEF Crash
  <2>3. \A b \in prune.found : b[1] \in Writes
    OBVIOUS
  <2>4. QED
    BY <2>1, <2>2, <2>3, NoPruneIsIdle DEF Survives
<1>23. ASSUME BreakLock PROVE SweepIsOfOrphans'
  <2>1. UNCHANGED <<prune, unguarded>>
    BY <1>23 DEF BreakLock
  <2>2. \A v \in Writes : stage'[v] = "claimed" => stage[v] = "claimed"
    BY <1>23 DEF BreakLock
  <2>3. \A b \in prune.found : b[1] \in Writes
    OBVIOUS
  <2>4. QED
    BY <2>1, <2>2, <2>3 DEF Survives
<1>24. CASE UNCHANGED vars
  BY <1>24 DEF vars, Survives
<1>25. QED
  BY <1>1, <1>2, <1>3, <1>4, <1>5, <1>6, <1>7, <1>8, <1>9, <1>10, <1>11,
     <1>12, <1>13, <1>14, <1>15, <1>16, <1>17, <1>18, <1>19, <1>20, <1>21,
     <1>22, <1>23, <1>24 DEF Next, BeginStep, Proceeds, SettleStep,
     PruneStep

(* An unlinked image has no entry, and no marked claim, to name it.        *)
LEMMA GuardedKept ==
  TypeOK /\ PrunerHasLock /\ KeptIsIndexed /\ SweepIsOfOrphans /\
  ImagesAreKnown /\ Guarded /\ [Next]_vars => Guarded'
<1> SUFFICES ASSUME TypeOK, PrunerHasLock, KeptIsIndexed, SweepIsOfOrphans,
                    ImagesAreKnown, Guarded, [Next]_vars
             PROVE  Guarded'
  OBVIOUS
<1> USE JournalAssumption DEF TypeOK, Guarded, Onward, files, history

<1>1. ASSUME NEW w \in Writes, Begin(w) PROVE Guarded'
  <2>1. images[w] = {} /\ UNCHANGED <<images, blobs, index>>
    BY <1>1 DEF Begin, Goes, ImagesAreKnown
  <2>2. /\ stage' = [stage EXCEPT ![w] = "claimed"]
        /\ unguarded \subseteq unguarded'
    BY <1>1 DEF Begin, Goes
  <2>3. QED
    BY <2>1, <2>2 DEF Entries
<1>2. ASSUME NEW w \in Writes, WriteBefore(w) PROVE Guarded'
  <2>1. /\ UNCHANGED <<stage, index, unguarded>>
        /\ images' = [images EXCEPT ![w] = @ \cup {"before"}]
        /\ blobs' = blobs \cup {<<w, "before">>}
    BY <1>2 DEF WriteBefore, Goes
  <2>2. ASSUME NEW v \in Writes, NEW i \in images'[v]
        PROVE  i \in images[v] \/ <<v, i>> \in blobs'
    BY <2>1, <2>2
  <2>3. QED
    BY <2>1, <2>2 DEF Entries
<1>3. ASSUME NEW w \in Writes, BeginFails(w) PROVE Guarded'
  <2>1. UNCHANGED <<images, blobs, index, unguarded>>
    BY <1>3 DEF BeginFails, Goes, DiskFails
  <2>2. \A v \in Writes :
          \/ stage'[v] = stage[v] \/ stage'[v] \in {"failing", "unsettled"}
          \/ stage[v] \in Onward /\ stage'[v] \in Onward
    BY <1>3 DEF BeginFails, Goes, DiskFails
  <2>3. QED
    BY <2>1, <2>2 DEF Entries
<1>4. ASSUME NEW w \in Writes, AppendEntry(w) PROVE Guarded'
  <2>1. UNCHANGED <<images, blobs, unguarded>>
    BY <1>4 DEF AppendEntry, Appends
  <2>2. /\ stage[w] = "claimed" /\ stage' = [stage EXCEPT ![w] = "landed"]
    BY <1>4 DEF AppendEntry, Goes
  <2>3. \A v \in Writes : v # w => index'[v] = index[v]
    BY <1>4 DEF AppendEntry, Appends
  <2>4. QED
    BY <2>1, <2>2, <2>3 DEF Entries
<1>5. ASSUME NEW w \in Writes, AppendFails(w) PROVE Guarded'
  <2>1. UNCHANGED <<images, blobs, index, unguarded>>
    BY <1>5 DEF AppendFails, Goes, Tears, TimesOut, DiskFails, MayAppend
  <2>2. \A v \in Writes :
          \/ stage'[v] = stage[v] \/ stage'[v] \in {"failing", "unsettled"}
          \/ stage[v] \in Onward /\ stage'[v] \in Onward
    BY <1>5 DEF AppendFails, Goes, Tears, TimesOut, DiskFails, MayAppend
  <2>3. QED
    BY <2>1, <2>2 DEF Entries
<1>6. ASSUME NEW w \in Writes, Retract(w) PROVE Guarded'
  <2>1. UNCHANGED <<images, blobs, index, unguarded>>
    BY <1>6 DEF Retract
  <2>2. /\ stage[w] = "landed" \/ stage'[w] = "refused"
        /\ \A v \in Writes : v # w => stage'[v] = stage[v]
        /\ stage'[w] \in {"returned", "refused"}
    BY <1>6 DEF Retract, Goes
  <2>3. QED
    BY <2>1, <2>2 DEF Entries
<1>7. ASSUME NEW w \in Writes, SkipPrune(w) PROVE Guarded'
  <2>1. UNCHANGED <<images, blobs, index, unguarded>>
    BY <1>7 DEF SkipPrune, Goes
  <2>2. \A v \in Writes :
          \/ stage'[v] = stage[v] \/ stage'[v] \in {"failing", "unsettled"}
          \/ stage[v] \in Onward /\ stage'[v] \in Onward
    BY <1>7 DEF SkipPrune, Goes
  <2>3. QED
    BY <2>1, <2>2 DEF Entries
<1>8. ASSUME NEW w \in Writes, StartPrune(w) PROVE Guarded'
  <2>1. UNCHANGED <<images, blobs, index, unguarded>>
    BY <1>8 DEF StartPrune, Goes
  <2>2. \A v \in Writes :
          \/ stage'[v] = stage[v] \/ stage'[v] \in {"failing", "unsettled"}
          \/ stage[v] \in Onward /\ stage'[v] \in Onward
    BY <1>8 DEF StartPrune, Goes
  <2>3. QED
    BY <2>1, <2>2 DEF Entries
<1>9. ASSUME NEW w \in Writes, ReadEntry(w) PROVE Guarded'
  <2>1. UNCHANGED <<images, blobs, index, unguarded>>
    BY <1>9 DEF ReadEntry
  <2>2. /\ stage[w] = "mutating"
        /\ \A v \in Writes : v # w => stage'[v] = stage[v]
        /\ stage'[w] \in {"unsettled", "settling"}
    BY <1>9 DEF ReadEntry, Goes
  <2>3. QED
    BY <2>1, <2>2 DEF Entries
<1>10. ASSUME NEW w \in Writes, LeavePending(w) PROVE Guarded'
  <2>1. UNCHANGED <<images, blobs, index, unguarded>>
    BY <1>10 DEF LeavePending, Goes
  <2>2. \A v \in Writes :
          \/ stage'[v] = stage[v] \/ stage'[v] \in {"failing", "unsettled"}
          \/ stage[v] \in Onward /\ stage'[v] \in Onward
    BY <1>10 DEF LeavePending, Goes
  <2>3. QED
    BY <2>1, <2>2 DEF Entries
<1>11. ASSUME NEW w \in Writes, WriteAfter(w) PROVE Guarded'
  <2>1. /\ UNCHANGED <<stage, index, unguarded>>
        /\ images' = [images EXCEPT ![w] = @ \cup {"after"}]
        /\ blobs' = blobs \cup {<<w, "after">>}
    BY <1>11 DEF WriteAfter, Goes
  <2>2. ASSUME NEW v \in Writes, NEW i \in images'[v]
        PROVE  i \in images[v] \/ <<v, i>> \in blobs'
    BY <2>1, <2>2
  <2>3. QED
    BY <2>1, <2>2 DEF Entries
<1>12. ASSUME NEW w \in Writes, AppendOutcome(w) PROVE Guarded'
  <2>1. UNCHANGED <<images, blobs, unguarded>>
    BY <1>12 DEF AppendOutcome, Patches, Appends
  <2>2. /\ stage' = [stage EXCEPT ![w] = "settled"]
    BY <1>12 DEF AppendOutcome, Goes
  <2>3. \A v \in Writes : v # w => index'[v] = index[v]
    BY <1>12 DEF AppendOutcome, Patches, Appends
  <2>4. QED
    BY <2>1, <2>2, <2>3 DEF Entries
<1>13. ASSUME NEW w \in Writes, SettleFails(w) PROVE Guarded'
  <2>1. UNCHANGED <<images, blobs, index, unguarded>>
    BY <1>13 DEF SettleFails, Goes, Tears, TimesOut, DiskFails, MayAppend
  <2>2. \A v \in Writes :
          \/ stage'[v] = stage[v] \/ stage'[v] \in {"failing", "unsettled"}
          \/ stage[v] \in Onward /\ stage'[v] \in Onward
    BY <1>13 DEF SettleFails, Goes, Tears, TimesOut, DiskFails, MayAppend
  <2>3. QED
    BY <2>1, <2>2 DEF Entries
<1>14. ASSUME NEW w \in Writes, Reconcile(w) PROVE Guarded'
  <2>1. UNCHANGED <<images, blobs, index, unguarded>>
    BY <1>14 DEF Reconcile
  <2>2. \A v \in Writes :
          \/ stage'[v] = stage[v] \/ stage'[v] \in {"failing", "unsettled"}
          \/ stage[v] \in Onward /\ stage'[v] \in Onward
    BY <1>14 DEF Reconcile
  <2>3. QED
    BY <2>1, <2>2 DEF Entries
<1>15. ASSUME NEW w \in Writes, AppendAssertion(w) PROVE Guarded'
  <2>1. UNCHANGED <<images, blobs, unguarded, stage>>
    BY <1>15 DEF AppendAssertion, Patches, Appends, Tears
  <2>2. \A v \in Writes : index'[v] # NoLine => index[v] # NoLine
    <3>1. CASE Patches(w, "asserted", index[w].images)
      <4>1. index[w].images \in SUBSET Images
        BY DEF Lines
      <4>2. QED
        BY <3>1, <4>1, PatchesOne DEF Outcomes
    <3>2. CASE Tears
      BY <3>2 DEF Tears
    <3>3. QED
      BY <1>15, <3>1, <3>2 DEF AppendAssertion
  <2>3. QED
    BY <2>1, <2>2 DEF Entries
<1>16. ASSUME Rewrite PROVE Guarded'
  <2>1. UNCHANGED <<stage, images, blobs, unguarded>>
    BY <1>16 DEF Rewrite
  <2>2. \A v \in Writes : index'[v] # NoLine => index[v] # NoLine
    BY <1>16 DEF Rewrite, KeptIsIndexed
  <2>3. QED
    BY <2>1, <2>2 DEF Entries
<1>17. ASSUME ListBlobs PROVE Guarded'
  BY <1>17 DEF ListBlobs, Prunes, Entries
<1>18. ASSUME Judge PROVE Guarded'
  BY <1>18 DEF Judge, Prunes, Entries
<1>19. ASSUME NEW b \in prune.found, Unlink(b) PROVE Guarded'
  <2>1. UNCHANGED <<stage, images, index, unguarded>> /\ prune.step = "sweep"
    BY <1>19 DEF Unlink, Prunes
  <2>2. /\ index[b[1]] = NoLine
        /\ stage[b[1]] = "claimed" => b[1] \in unguarded
    BY <2>1 DEF SweepIsOfOrphans, KeptIsIndexed, Survives
  <2>3. blobs \ {b} \subseteq blobs'
    BY <1>19 DEF Unlink
  <2>4. ASSUME NEW v \in Writes \ unguarded, NEW i \in Images, <<v, i>> = b
        PROVE  stage[v] # "claimed" /\ v \notin Entries
    BY <2>2, <2>4 DEF Entries
  <2>5. QED
    BY <2>1, <2>3, <2>4 DEF Entries
<1>20. ASSUME EndPrune PROVE Guarded'
  <2>1. UNCHANGED <<images, blobs, index, unguarded>>
    BY <1>20 DEF EndPrune, Ends
  <2>2. /\ stage' = [stage EXCEPT ![prune.by] = "mutating"]
        /\ prune.step # "none"
    BY <1>20 DEF EndPrune, Ends
  <2>3. QED
    BY <2>1, <2>2 DEF Entries, PrunerHasLock
<1>21. ASSUME PruneFails PROVE Guarded'
  <2>1. UNCHANGED <<images, blobs, index, unguarded>>
    BY <1>21 DEF PruneFails, Ends
  <2>2. /\ stage' = [stage EXCEPT ![prune.by] = "mutating"]
        /\ prune.step # "none"
    BY <1>21 DEF PruneFails, Ends
  <2>3. QED
    BY <2>1, <2>2 DEF Entries, PrunerHasLock
<1>22. ASSUME NEW p \in Procs, Crash(p) PROVE Guarded'
  <2>1. UNCHANGED <<blobs, index, unguarded>>
    BY <1>22 DEF Crash
  <2>2. \A v \in Writes :
          \/ stage'[v] = "dead"
          \/ stage'[v] = stage[v] /\ images'[v] = images[v]
    BY <1>22 DEF Crash
  <2>3. QED
    BY <2>1, <2>2 DEF Entries
<1>23. ASSUME BreakLock PROVE Guarded'
  <2>1. UNCHANGED <<images, blobs, index, unguarded>>
    BY <1>23 DEF BreakLock
  <2>2. \A v \in Writes :
          \/ stage'[v] = stage[v] \/ stage'[v] \in {"failing", "unsettled"}
          \/ stage[v] \in Onward /\ stage'[v] \in Onward
    BY <1>23 DEF BreakLock
  <2>3. QED
    BY <2>1, <2>2 DEF Entries
<1>24. CASE UNCHANGED vars
  BY <1>24 DEF vars, Entries
<1>25. QED
  BY <1>1, <1>2, <1>3, <1>4, <1>5, <1>6, <1>7, <1>8, <1>9, <1>10, <1>11,
     <1>12, <1>13, <1>14, <1>15, <1>16, <1>17, <1>18, <1>19, <1>20, <1>21,
     <1>22, <1>23, <1>24 DEF Next, BeginStep, Proceeds, SettleStep,
     PruneStep

(* A line that landed stays, or its entry fell to the retention.           *)
LEMMA LandedIsOnRecordKept ==
  TypeOK /\ PrunerHasLock /\ KeptIsIndexed /\ LandedIsOnRecord /\
  [Next]_vars => LandedIsOnRecord'
<1> SUFFICES ASSUME TypeOK, PrunerHasLock, KeptIsIndexed, LandedIsOnRecord,
                    [Next]_vars
             PROVE  LandedIsOnRecord'
  OBVIOUS
<1> USE JournalAssumption DEF TypeOK, LandedIsOnRecord, Onward, files, history

<1>1. ASSUME NEW w \in Writes, Begin(w) PROVE LandedIsOnRecord'
  BY <1>1 DEF Begin, Goes, DiskFails, Entries
<1>2. ASSUME NEW w \in Writes, WriteBefore(w) PROVE LandedIsOnRecord'
  BY <1>2 DEF WriteBefore, Goes, Entries
<1>3. ASSUME NEW w \in Writes, BeginFails(w) PROVE LandedIsOnRecord'
  BY <1>3 DEF BeginFails, Goes, DiskFails, Entries
<1>4. ASSUME NEW w \in Writes, AppendEntry(w) PROVE LandedIsOnRecord'
  <2> DEFINE line == [outcome |-> "pending", images |-> images[w]]
  <2>1. line # NoLine
    BY DEF NoLine
  <2>2. Appends(w, line)
    BY <1>4 DEF AppendEntry
  <2> HIDE DEF line
  <2>3. /\ \A v \in Writes : v # w => index'[v] = index[v]
        /\ w \in excused' \/ index'[w] # NoLine
        /\ excused \subseteq excused'
    BY <2>1, <2>2, AppendsOne
  <2>4. stage' = [stage EXCEPT ![w] = "landed"]
    BY <1>4 DEF AppendEntry, Goes
  <2>5. QED
    BY <2>3, <2>4 DEF Entries
<1>5. ASSUME NEW w \in Writes, AppendFails(w) PROVE LandedIsOnRecord'
  <2>1. UNCHANGED <<index, excused>>
    BY <1>5 DEF AppendFails, Goes, Tears, TimesOut, DiskFails, MayAppend
  <2>2. /\ \A v \in Writes : v # w => stage'[v] = stage[v]
        /\ stage'[w] \in {"failing", "unsettled"}
    BY <1>5 DEF AppendFails, Goes, Tears, TimesOut, DiskFails, MayAppend
  <2>3. QED
    BY <2>1, <2>2 DEF Entries
<1>6. ASSUME NEW w \in Writes, Retract(w) PROVE LandedIsOnRecord'
  <2>1. UNCHANGED <<index, excused>>
    BY <1>6 DEF Retract
  <2>2. /\ stage[w] = "landed" \/ stage'[w] = "refused"
        /\ \A v \in Writes : v # w => stage'[v] = stage[v]
        /\ stage'[w] \in {"returned", "refused"}
    BY <1>6 DEF Retract, Goes
  <2>3. QED
    BY <2>1, <2>2 DEF Entries
<1>7. ASSUME NEW w \in Writes, SkipPrune(w) PROVE LandedIsOnRecord'
  BY <1>7 DEF SkipPrune, Goes, Entries
<1>8. ASSUME NEW w \in Writes, StartPrune(w) PROVE LandedIsOnRecord'
  <2>1. UNCHANGED <<index, excused>>
    BY <1>8 DEF StartPrune
  <2>2. stage[w] = "returned" /\ stage' = [stage EXCEPT ![w] = "pruning"]
    BY <1>8 DEF StartPrune, Goes
  <2>3. QED
    BY <2>1, <2>2 DEF Entries
<1>9. ASSUME NEW w \in Writes, ReadEntry(w) PROVE LandedIsOnRecord'
  BY <1>9 DEF ReadEntry, Goes, Entries
<1>10. ASSUME NEW w \in Writes, LeavePending(w) PROVE LandedIsOnRecord'
  BY <1>10 DEF LeavePending, Goes, Entries
<1>11. ASSUME NEW w \in Writes, WriteAfter(w) PROVE LandedIsOnRecord'
  BY <1>11 DEF WriteAfter, Goes, Entries
<1>12. ASSUME NEW w \in Writes, AppendOutcome(w) PROVE LandedIsOnRecord'
  <2>1. /\ \A v \in Writes : v # w => index'[v] = index[v]
        /\ index[w] # NoLine => index'[w] # NoLine
        /\ excused \subseteq excused'
    BY <1>12, PatchesOne DEF AppendOutcome, Outcomes
  <2>2. stage[w] = "settling" /\ stage' = [stage EXCEPT ![w] = "settled"]
    BY <1>12 DEF AppendOutcome, Goes
  <2>3. QED
    BY <2>1, <2>2 DEF Entries
<1>13. ASSUME NEW w \in Writes, SettleFails(w) PROVE LandedIsOnRecord'
  <2>1. UNCHANGED <<index, excused>>
    BY <1>13 DEF SettleFails, Goes, Tears, TimesOut, DiskFails, MayAppend
  <2>2. /\ \A v \in Writes : v # w => stage'[v] = stage[v]
        /\ stage'[w] \in {"failing", "unsettled"}
    BY <1>13 DEF SettleFails, Goes, Tears, TimesOut, DiskFails, MayAppend
  <2>3. QED
    BY <2>1, <2>2 DEF Entries
<1>14. ASSUME NEW w \in Writes, Reconcile(w) PROVE LandedIsOnRecord'
  BY <1>14 DEF Reconcile, Entries
<1>15. ASSUME NEW w \in Writes, AppendAssertion(w) PROVE LandedIsOnRecord'
  <2>1. UNCHANGED stage
    BY <1>15 DEF AppendAssertion
  <2>2. \A v \in Writes : index[v] # NoLine => index'[v] # NoLine
    <3>1. CASE Patches(w, "asserted", index[w].images)
      <4>1. index[w].images \in SUBSET Images
        BY DEF Lines
      <4>2. QED
        BY <3>1, <4>1, PatchesOne DEF Outcomes
    <3>2. CASE Tears
      BY <3>2 DEF Tears
    <3>3. QED
      BY <1>15, <3>1, <3>2 DEF AppendAssertion
  <2>3. excused \subseteq excused'
    BY <1>15 DEF AppendAssertion, Patches, Appends, Tears
  <2>4. QED
    BY <2>1, <2>2, <2>3 DEF Entries
<1>16. ASSUME Rewrite PROVE LandedIsOnRecord'
  <2>1. /\ index' = prune.kept /\ UNCHANGED stage
        /\ excused' = excused \cup {w \in Entries : ~Survives(w)}
    BY <1>16 DEF Rewrite
  <2>2. \A w \in Entries : w \in excused' \/ index'[w] # NoLine
    BY <2>1 DEF Survives
  <2>3. QED
    BY <2>1, <2>2 DEF Entries
<1>17. ASSUME ListBlobs PROVE LandedIsOnRecord'
  BY <1>17 DEF ListBlobs, Prunes, Entries
<1>18. ASSUME Judge PROVE LandedIsOnRecord'
  BY <1>18 DEF Judge, Prunes, Entries
<1>19. ASSUME NEW b \in prune.found, Unlink(b) PROVE LandedIsOnRecord'
  BY <1>19 DEF Unlink, Prunes, DiskFails, Entries
<1>20. ASSUME EndPrune PROVE LandedIsOnRecord'
  <2>1. UNCHANGED <<index, excused>>
    BY <1>20 DEF EndPrune, Ends
  <2>2. /\ stage' = [stage EXCEPT ![prune.by] = "mutating"]
        /\ stage[prune.by] = "pruning" /\ prune.by \in Writes
    BY <1>20 DEF EndPrune, Ends, PrunerHasLock
  <2>3. QED
    BY <2>1, <2>2 DEF Entries
<1>21. ASSUME PruneFails PROVE LandedIsOnRecord'
  <2>1. UNCHANGED <<index, excused>>
    BY <1>21 DEF PruneFails, Ends
  <2>2. /\ stage' = [stage EXCEPT ![prune.by] = "mutating"]
        /\ stage[prune.by] = "pruning" /\ prune.by \in Writes
    BY <1>21 DEF PruneFails, Ends, PrunerHasLock
  <2>3. QED
    BY <2>1, <2>2 DEF Entries
<1>22. ASSUME NEW p \in Procs, Crash(p) PROVE LandedIsOnRecord'
  BY <1>22 DEF Crash, Entries
<1>23. ASSUME BreakLock PROVE LandedIsOnRecord'
  BY <1>23 DEF BreakLock, Entries
<1>24. CASE UNCHANGED vars
  BY <1>24 DEF vars, Entries
<1>25. QED
  BY <1>1, <1>2, <1>3, <1>4, <1>5, <1>6, <1>7, <1>8, <1>9, <1>10, <1>11,
     <1>12, <1>13, <1>14, <1>15, <1>16, <1>17, <1>18, <1>19, <1>20, <1>21,
     <1>22, <1>23, <1>24 DEF Next, BeginStep, Proceeds, SettleStep,
     PruneStep

(* An entry comes with its images, and a sweep passes them by.             *)
LEMMA IndexedHasImageKept ==
  TypeOK /\ PrunerHasLock /\ KeptIsIndexed /\ SweepIsOfOrphans /\ Guarded /\
  IndexedHasImage /\ [Next]_vars => IndexedHasImage'
<1> SUFFICES ASSUME TypeOK, PrunerHasLock, KeptIsIndexed, SweepIsOfOrphans,
                    Guarded, IndexedHasImage, [Next]_vars
             PROVE  IndexedHasImage'
  OBVIOUS
<1> USE JournalAssumption DEF TypeOK, files, history

<1>1. ASSUME NEW w \in Writes, Begin(w) PROVE IndexedHasImage'
  <2>1. /\ index' = index /\ blobs \subseteq blobs'
        /\ unguarded \subseteq unguarded'
    BY <1>1 DEF Begin, Goes, DiskFails
  <2>2. QED
    BY <2>1 DEF Entries, IndexedHasImage
<1>2. ASSUME NEW w \in Writes, WriteBefore(w) PROVE IndexedHasImage'
  <2>1. /\ index' = index /\ blobs \subseteq blobs'
        /\ unguarded \subseteq unguarded'
    BY <1>2 DEF WriteBefore, Goes
  <2>2. QED
    BY <2>1 DEF Entries, IndexedHasImage
<1>3. ASSUME NEW w \in Writes, BeginFails(w) PROVE IndexedHasImage'
  <2>1. /\ index' = index /\ blobs \subseteq blobs'
        /\ unguarded \subseteq unguarded'
    BY <1>3 DEF BeginFails, Goes, DiskFails
  <2>2. QED
    BY <2>1 DEF Entries, IndexedHasImage
<1>4. ASSUME NEW w \in Writes, AppendEntry(w) PROVE IndexedHasImage'
  <2> DEFINE line == [outcome |-> "pending", images |-> images[w]]
  <2>1. line.images = images[w]
    OBVIOUS
  <2>2. Appends(w, line)
    BY <1>4 DEF AppendEntry
  <2> HIDE DEF line
  <2>3. /\ \A v \in Writes : v # w => index'[v] = index[v]
        /\ index'[w] = index[w] \/ index'[w].images = images[w]
    BY <2>1, <2>2, AppendsOne
  <2>4. UNCHANGED <<blobs, unguarded>>
    BY <2>2 DEF Appends
  <2>5. \A i \in images[w] : w \in unguarded \/ <<w, i>> \in blobs
    BY <1>4 DEF AppendEntry, Goes, Guarded
  <2>6. QED
    BY <2>3, <2>4, <2>5 DEF Entries, IndexedHasImage
<1>5. ASSUME NEW w \in Writes, AppendFails(w) PROVE IndexedHasImage'
  <2>1. /\ index' = index /\ blobs \subseteq blobs'
        /\ unguarded \subseteq unguarded'
    BY <1>5 DEF AppendFails, Goes, Tears, TimesOut, DiskFails, MayAppend
  <2>2. QED
    BY <2>1 DEF Entries, IndexedHasImage
<1>6. ASSUME NEW w \in Writes, Retract(w) PROVE IndexedHasImage'
  <2>1. /\ index' = index /\ blobs \subseteq blobs'
        /\ unguarded \subseteq unguarded'
    BY <1>6 DEF Retract, Goes, DiskFails
  <2>2. QED
    BY <2>1 DEF Entries, IndexedHasImage
<1>7. ASSUME NEW w \in Writes, SkipPrune(w) PROVE IndexedHasImage'
  <2>1. /\ index' = index /\ blobs \subseteq blobs'
        /\ unguarded \subseteq unguarded'
    BY <1>7 DEF SkipPrune, Goes
  <2>2. QED
    BY <2>1 DEF Entries, IndexedHasImage
<1>8. ASSUME NEW w \in Writes, StartPrune(w) PROVE IndexedHasImage'
  <2>1. /\ index' = index /\ blobs \subseteq blobs'
        /\ unguarded \subseteq unguarded'
    BY <1>8 DEF StartPrune, Goes
  <2>2. QED
    BY <2>1 DEF Entries, IndexedHasImage
<1>9. ASSUME NEW w \in Writes, ReadEntry(w) PROVE IndexedHasImage'
  <2>1. /\ index' = index /\ blobs \subseteq blobs'
        /\ unguarded \subseteq unguarded'
    BY <1>9 DEF ReadEntry, Goes
  <2>2. QED
    BY <2>1 DEF Entries, IndexedHasImage
<1>10. ASSUME NEW w \in Writes, LeavePending(w) PROVE IndexedHasImage'
  <2>1. /\ index' = index /\ blobs \subseteq blobs'
        /\ unguarded \subseteq unguarded'
    BY <1>10 DEF LeavePending, Goes
  <2>2. QED
    BY <2>1 DEF Entries, IndexedHasImage
<1>11. ASSUME NEW w \in Writes, WriteAfter(w) PROVE IndexedHasImage'
  <2>1. /\ index' = index /\ blobs \subseteq blobs'
        /\ unguarded \subseteq unguarded'
    BY <1>11 DEF WriteAfter, Goes
  <2>2. QED
    BY <2>1 DEF Entries, IndexedHasImage
<1>12. ASSUME NEW w \in Writes, AppendOutcome(w) PROVE IndexedHasImage'
  <2>1. /\ \A v \in Writes : v # w => index'[v] = index[v]
        /\ index'[w] = NoLine \/ index[w] # NoLine
        /\ \/ index'[w] = NoLine
           \/ index'[w] = index[w] \/ index'[w].images = images[w]
    BY <1>12, PatchesOne DEF AppendOutcome, Outcomes
  <2>2. UNCHANGED <<blobs, unguarded>>
    BY <1>12 DEF AppendOutcome, Patches, Appends
  <2>3. ASSUME w \in Entries, w \notin unguarded
        PROVE  \A i \in images[w] : <<w, i>> \in blobs
    BY <1>12, <2>3 DEF AppendOutcome, Goes, Guarded, Onward
  <2>4. QED
    BY <2>1, <2>2, <2>3 DEF Entries, IndexedHasImage
<1>13. ASSUME NEW w \in Writes, SettleFails(w) PROVE IndexedHasImage'
  <2>1. /\ index' = index /\ blobs \subseteq blobs'
        /\ unguarded \subseteq unguarded'
    BY <1>13 DEF SettleFails, Goes, Tears, TimesOut, DiskFails, MayAppend
  <2>2. QED
    BY <2>1 DEF Entries, IndexedHasImage
<1>14. ASSUME NEW w \in Writes, Reconcile(w) PROVE IndexedHasImage'
  <2>1. /\ index' = index /\ blobs \subseteq blobs'
        /\ unguarded \subseteq unguarded'
    BY <1>14 DEF Reconcile
  <2>2. QED
    BY <2>1 DEF Entries, IndexedHasImage
<1>15. ASSUME NEW w \in Writes, AppendAssertion(w) PROVE IndexedHasImage'
  <2>1. \A v \in Writes :
          \/ index'[v] = NoLine
          \/ index[v] # NoLine /\ index'[v].images = index[v].images
    <3>1. CASE Patches(w, "asserted", index[w].images)
      <4>1. index[w].images \in SUBSET Images
        BY DEF Lines
      <4>2. QED
        BY <3>1, <4>1, PatchesOne DEF Outcomes
    <3>2. CASE Tears
      BY <3>2 DEF Tears
    <3>3. QED
      BY <1>15, <3>1, <3>2 DEF AppendAssertion
  <2>2. UNCHANGED <<blobs, unguarded>>
    BY <1>15 DEF AppendAssertion, Patches, Appends, Tears
  <2>3. QED
    BY <2>1, <2>2 DEF Entries, IndexedHasImage
<1>16. ASSUME Rewrite PROVE IndexedHasImage'
  <2>1. UNCHANGED <<blobs, unguarded>>
    BY <1>16 DEF Rewrite
  <2>2. \A w \in Writes : index'[w] # NoLine => index'[w] = index[w]
    BY <1>16 DEF Rewrite, KeptIsIndexed
  <2>3. QED
    BY <2>1, <2>2 DEF Entries, IndexedHasImage
<1>17. ASSUME ListBlobs PROVE IndexedHasImage'
  <2>1. /\ index' = index /\ blobs \subseteq blobs'
        /\ unguarded \subseteq unguarded'
    BY <1>17 DEF ListBlobs, Prunes
  <2>2. QED
    BY <2>1 DEF Entries, IndexedHasImage
<1>18. ASSUME Judge PROVE IndexedHasImage'
  <2>1. /\ index' = index /\ blobs \subseteq blobs'
        /\ unguarded \subseteq unguarded'
    BY <1>18 DEF Judge, Prunes
  <2>2. QED
    BY <2>1 DEF Entries, IndexedHasImage
<1>19. ASSUME NEW b \in prune.found, Unlink(b) PROVE IndexedHasImage'
  <2>1. UNCHANGED <<index, unguarded>> /\ prune.step = "sweep"
    BY <1>19 DEF Unlink, Prunes
  <2>2. index[b[1]] = NoLine
    BY <2>1 DEF SweepIsOfOrphans, KeptIsIndexed, Survives
  <2>3. blobs \ {b} \subseteq blobs'
    BY <1>19 DEF Unlink
  <2>4. ASSUME NEW v \in Entries, NEW i \in Images PROVE <<v, i>> # b
    BY <2>2, <2>4 DEF Entries
  <2>5. QED
    BY <2>1, <2>3, <2>4 DEF Entries, IndexedHasImage
<1>20. ASSUME EndPrune PROVE IndexedHasImage'
  <2>1. /\ index' = index /\ blobs \subseteq blobs'
        /\ unguarded \subseteq unguarded'
    BY <1>20 DEF EndPrune, Ends
  <2>2. QED
    BY <2>1 DEF Entries, IndexedHasImage
<1>21. ASSUME PruneFails PROVE IndexedHasImage'
  <2>1. /\ index' = index /\ blobs \subseteq blobs'
        /\ unguarded \subseteq unguarded'
    BY <1>21 DEF PruneFails, Ends, DiskFails
  <2>2. QED
    BY <2>1 DEF Entries, IndexedHasImage
<1>22. ASSUME NEW p \in Procs, Crash(p) PROVE IndexedHasImage'
  <2>1. /\ index' = index /\ blobs \subseteq blobs'
        /\ unguarded \subseteq unguarded'
    BY <1>22 DEF Crash
  <2>2. QED
    BY <2>1 DEF Entries, IndexedHasImage
<1>23. ASSUME BreakLock PROVE IndexedHasImage'
  <2>1. /\ index' = index /\ blobs \subseteq blobs'
        /\ unguarded \subseteq unguarded'
    BY <1>23 DEF BreakLock
  <2>2. QED
    BY <2>1 DEF Entries, IndexedHasImage
<1>24. CASE UNCHANGED vars
  BY <1>24 DEF vars, Entries, IndexedHasImage
<1>25. QED
  BY <1>1, <1>2, <1>3, <1>4, <1>5, <1>6, <1>7, <1>8, <1>9, <1>10, <1>11,
     <1>12, <1>13, <1>14, <1>15, <1>16, <1>17, <1>18, <1>19, <1>20, <1>21,
     <1>22, <1>23, <1>24 DEF Next, BeginStep, Proceeds, SettleStep,
     PruneStep

(* The half of ReportedIsOnRecord that is about outcomes.                  *)
SettledIsClosed ==
  \A w \in Writes \ excused : stage[w] = "settled" => index[w].outcome # "pending"

LEMMA RecordParts ==
  LandedIsOnRecord /\ SettledIsClosed => ReportedIsOnRecord
BY DEF LandedIsOnRecord, SettledIsClosed, ReportedIsOnRecord, Onward

(* An outcome is not taken back by what is appended or rewritten later.    *)
LEMMA SettledIsClosedKept ==
  TypeOK /\ PrunerHasLock /\ KeptIsIndexed /\ LandedIsOnRecord /\
  SettledIsClosed /\ [Next]_vars => SettledIsClosed'
<1> SUFFICES ASSUME TypeOK, PrunerHasLock, KeptIsIndexed, LandedIsOnRecord,
                    SettledIsClosed, [Next]_vars
             PROVE  SettledIsClosed'
  OBVIOUS
<1> USE JournalAssumption DEF TypeOK, files, history

<1>1. ASSUME NEW w \in Writes, Begin(w) PROVE SettledIsClosed'
  <2>1. UNCHANGED <<index, excused>>
    BY <1>1 DEF Begin, Goes, DiskFails
  <2>2. \A v \in Writes : stage'[v] = "settled" => stage[v] = "settled"
    BY <1>1 DEF Begin, Goes, DiskFails
  <2>3. QED
    BY <2>1, <2>2 DEF SettledIsClosed
<1>2. ASSUME NEW w \in Writes, WriteBefore(w) PROVE SettledIsClosed'
  <2>1. UNCHANGED <<index, excused>>
    BY <1>2 DEF WriteBefore, Goes
  <2>2. \A v \in Writes : stage'[v] = "settled" => stage[v] = "settled"
    BY <1>2 DEF WriteBefore, Goes
  <2>3. QED
    BY <2>1, <2>2 DEF SettledIsClosed
<1>3. ASSUME NEW w \in Writes, BeginFails(w) PROVE SettledIsClosed'
  <2>1. UNCHANGED <<index, excused>>
    BY <1>3 DEF BeginFails, Goes, DiskFails
  <2>2. \A v \in Writes : stage'[v] = "settled" => stage[v] = "settled"
    BY <1>3 DEF BeginFails, Goes, DiskFails
  <2>3. QED
    BY <2>1, <2>2 DEF SettledIsClosed
<1>4. ASSUME NEW w \in Writes, AppendEntry(w) PROVE SettledIsClosed'
  <2>1. /\ \A v \in Writes : v # w => index'[v] = index[v]
        /\ excused \subseteq excused'
    BY <1>4 DEF AppendEntry, Appends
  <2>2. stage' = [stage EXCEPT ![w] = "landed"]
    BY <1>4 DEF AppendEntry, Goes
  <2>3. QED
    BY <2>1, <2>2 DEF SettledIsClosed
<1>5. ASSUME NEW w \in Writes, AppendFails(w) PROVE SettledIsClosed'
  <2>1. UNCHANGED <<index, excused>>
    BY <1>5 DEF AppendFails, Goes, Tears, TimesOut, DiskFails, MayAppend
  <2>2. \A v \in Writes : stage'[v] = "settled" => stage[v] = "settled"
    BY <1>5 DEF AppendFails, Goes, Tears, TimesOut, DiskFails, MayAppend
  <2>3. QED
    BY <2>1, <2>2 DEF SettledIsClosed
<1>6. ASSUME NEW w \in Writes, Retract(w) PROVE SettledIsClosed'
  <2>1. UNCHANGED <<index, excused>>
    BY <1>6 DEF Retract, Goes, DiskFails
  <2>2. \A v \in Writes : stage'[v] = "settled" => stage[v] = "settled"
    BY <1>6 DEF Retract, Goes, DiskFails
  <2>3. QED
    BY <2>1, <2>2 DEF SettledIsClosed
<1>7. ASSUME NEW w \in Writes, SkipPrune(w) PROVE SettledIsClosed'
  <2>1. UNCHANGED <<index, excused>>
    BY <1>7 DEF SkipPrune, Goes
  <2>2. \A v \in Writes : stage'[v] = "settled" => stage[v] = "settled"
    BY <1>7 DEF SkipPrune, Goes
  <2>3. QED
    BY <2>1, <2>2 DEF SettledIsClosed
<1>8. ASSUME NEW w \in Writes, StartPrune(w) PROVE SettledIsClosed'
  <2>1. UNCHANGED <<index, excused>>
    BY <1>8 DEF StartPrune, Goes
  <2>2. \A v \in Writes : stage'[v] = "settled" => stage[v] = "settled"
    BY <1>8 DEF StartPrune, Goes
  <2>3. QED
    BY <2>1, <2>2 DEF SettledIsClosed
<1>9. ASSUME NEW w \in Writes, ReadEntry(w) PROVE SettledIsClosed'
  <2>1. UNCHANGED <<index, excused>>
    BY <1>9 DEF ReadEntry, Goes
  <2>2. \A v \in Writes : stage'[v] = "settled" => stage[v] = "settled"
    BY <1>9 DEF ReadEntry, Goes
  <2>3. QED
    BY <2>1, <2>2 DEF SettledIsClosed
<1>10. ASSUME NEW w \in Writes, LeavePending(w) PROVE SettledIsClosed'
  <2>1. UNCHANGED <<index, excused>>
    BY <1>10 DEF LeavePending, Goes
  <2>2. \A v \in Writes : stage'[v] = "settled" => stage[v] = "settled"
    BY <1>10 DEF LeavePending, Goes
  <2>3. QED
    BY <2>1, <2>2 DEF SettledIsClosed
<1>11. ASSUME NEW w \in Writes, WriteAfter(w) PROVE SettledIsClosed'
  <2>1. UNCHANGED <<index, excused>>
    BY <1>11 DEF WriteAfter, Goes
  <2>2. \A v \in Writes : stage'[v] = "settled" => stage[v] = "settled"
    BY <1>11 DEF WriteAfter, Goes
  <2>3. QED
    BY <2>1, <2>2 DEF SettledIsClosed
<1>12. ASSUME NEW w \in Writes, AppendOutcome(w) PROVE SettledIsClosed'
  <2>1. /\ \A v \in Writes : v # w => index'[v] = index[v]
        /\ index[w] # NoLine => w \in excused' \/ index'[w].outcome = "observed"
        /\ excused \subseteq excused'
    BY <1>12, PatchesOne DEF AppendOutcome, Outcomes
  <2>2. stage[w] = "settling" /\ stage' = [stage EXCEPT ![w] = "settled"]
    BY <1>12 DEF AppendOutcome, Goes
  <2>3. w \in excused \/ index[w] # NoLine
    BY <2>2 DEF LandedIsOnRecord, Onward, Entries
  <2>4. QED
    BY <2>1, <2>2, <2>3 DEF SettledIsClosed
<1>13. ASSUME NEW w \in Writes, SettleFails(w) PROVE SettledIsClosed'
  <2>1. UNCHANGED <<index, excused>>
    BY <1>13 DEF SettleFails, Goes, Tears, TimesOut, DiskFails, MayAppend
  <2>2. \A v \in Writes : stage'[v] = "settled" => stage[v] = "settled"
    BY <1>13 DEF SettleFails, Goes, Tears, TimesOut, DiskFails, MayAppend
  <2>3. QED
    BY <2>1, <2>2 DEF SettledIsClosed
<1>14. ASSUME NEW w \in Writes, Reconcile(w) PROVE SettledIsClosed'
  <2>1. UNCHANGED <<index, excused>>
    BY <1>14 DEF Reconcile
  <2>2. \A v \in Writes : stage'[v] = "settled" => stage[v] = "settled"
    BY <1>14 DEF Reconcile
  <2>3. QED
    BY <2>1, <2>2 DEF SettledIsClosed
<1>15. ASSUME NEW w \in Writes, AppendAssertion(w) PROVE SettledIsClosed'
  <2>1. /\ \A v \in Writes : v # w => index'[v] = index[v]
        /\ \/ w \in excused' \/ index'[w] = index[w]
           \/ index'[w].outcome = "asserted"
        /\ excused \subseteq excused'
    <3>1. CASE Patches(w, "asserted", index[w].images)
      <4>1. index[w].images \in SUBSET Images
        BY DEF Lines
      <4>2. QED
        BY <3>1, <4>1, PatchesOne DEF Outcomes
    <3>2. CASE Tears
      BY <3>2 DEF Tears
    <3>3. QED
      BY <1>15, <3>1, <3>2 DEF AppendAssertion
  <2>2. UNCHANGED stage
    BY <1>15 DEF AppendAssertion
  <2>3. QED
    BY <2>1, <2>2 DEF SettledIsClosed
<1>16. ASSUME Rewrite PROVE SettledIsClosed'
  <2>1. /\ index' = prune.kept /\ UNCHANGED stage
        /\ excused' = excused \cup {w \in Entries : ~Survives(w)}
    BY <1>16 DEF Rewrite
  <2>2. ASSUME NEW w \in Writes \ excused', stage[w] = "settled"
        PROVE  index'[w] = index[w]
    <3>1. w \in Entries /\ w \notin {v \in Entries : ~Survives(v)}
      BY <2>1, <2>2 DEF LandedIsOnRecord
    <3>2. QED
      BY <1>16, <2>1, <3>1 DEF Rewrite, KeptIsIndexed, Survives
  <2>3. QED
    BY <2>1, <2>2 DEF SettledIsClosed
<1>17. ASSUME ListBlobs PROVE SettledIsClosed'
  <2>1. UNCHANGED <<index, excused>>
    BY <1>17 DEF ListBlobs, Prunes
  <2>2. \A v \in Writes : stage'[v] = "settled" => stage[v] = "settled"
    BY <1>17 DEF ListBlobs, Prunes
  <2>3. QED
    BY <2>1, <2>2 DEF SettledIsClosed
<1>18. ASSUME Judge PROVE SettledIsClosed'
  <2>1. UNCHANGED <<index, excused>>
    BY <1>18 DEF Judge, Prunes
  <2>2. \A v \in Writes : stage'[v] = "settled" => stage[v] = "settled"
    BY <1>18 DEF Judge, Prunes
  <2>3. QED
    BY <2>1, <2>2 DEF SettledIsClosed
<1>19. ASSUME NEW b \in prune.found, Unlink(b) PROVE SettledIsClosed'
  <2>1. UNCHANGED <<index, excused>>
    BY <1>19 DEF Unlink, Prunes, DiskFails
  <2>2. \A v \in Writes : stage'[v] = "settled" => stage[v] = "settled"
    BY <1>19 DEF Unlink, Prunes, DiskFails
  <2>3. QED
    BY <2>1, <2>2 DEF SettledIsClosed
<1>20. ASSUME EndPrune PROVE SettledIsClosed'
  <2>1. UNCHANGED <<index, excused>>
    BY <1>20 DEF EndPrune, Ends
  <2>2. \A v \in Writes : stage'[v] = "settled" => stage[v] = "settled"
    BY <1>20 DEF EndPrune, Ends
  <2>3. QED
    BY <2>1, <2>2 DEF SettledIsClosed
<1>21. ASSUME PruneFails PROVE SettledIsClosed'
  <2>1. UNCHANGED <<index, excused>>
    BY <1>21 DEF PruneFails, Ends, DiskFails
  <2>2. \A v \in Writes : stage'[v] = "settled" => stage[v] = "settled"
    BY <1>21 DEF PruneFails, Ends, DiskFails
  <2>3. QED
    BY <2>1, <2>2 DEF SettledIsClosed
<1>22. ASSUME NEW p \in Procs, Crash(p) PROVE SettledIsClosed'
  <2>1. UNCHANGED <<index, excused>>
    BY <1>22 DEF Crash
  <2>2. \A v \in Writes : stage'[v] = "settled" => stage[v] = "settled"
    BY <1>22 DEF Crash
  <2>3. QED
    BY <2>1, <2>2 DEF SettledIsClosed
<1>23. ASSUME BreakLock PROVE SettledIsClosed'
  <2>1. UNCHANGED <<index, excused>>
    BY <1>23 DEF BreakLock
  <2>2. \A v \in Writes : stage'[v] = "settled" => stage[v] = "settled"
    BY <1>23 DEF BreakLock
  <2>3. QED
    BY <2>1, <2>2 DEF SettledIsClosed
<1>24. CASE UNCHANGED vars
  BY <1>24 DEF vars, SettledIsClosed
<1>25. QED
  BY <1>1, <1>2, <1>3, <1>4, <1>5, <1>6, <1>7, <1>8, <1>9, <1>10, <1>11,
     <1>12, <1>13, <1>14, <1>15, <1>16, <1>17, <1>18, <1>19, <1>20, <1>21,
     <1>22, <1>23, <1>24 DEF Next, BeginStep, Proceeds, SettleStep,
     PruneStep

--------------------------------------------------------------------------------
(* All of it together is kept by every step.                               *)
IInv ==
  /\ TypeOK /\ PrunerHasLock /\ DeadIsDead /\ KeptIsIndexed
  /\ ImagesAreKnown /\ ClaimIsMarked /\ SweepIsOfOrphans /\ Guarded
  /\ IndexedHasImage /\ LandedIsOnRecord /\ SettledIsClosed

LEMMA InitInv == Init => IInv
<1> SUFFICES ASSUME Init PROVE IInv
  OBVIOUS
<1>1. TypeOK
  BY InitTyped
<1>2. prune.step = "none" /\ Entries = {}
  BY NoPruneIsIdle DEF Init, Entries
<1>3. PrunerHasLock /\ KeptIsIndexed /\ SweepIsOfOrphans
  BY <1>2 DEF PrunerHasLock, KeptIsIndexed, SweepIsOfOrphans
<1>4. DeadIsDead
  BY JournalAssumption DEF Init, DeadIsDead, Live
<1>5. ImagesAreKnown
  BY <1>2 DEF Init, ImagesAreKnown, Listed
<1>6. ClaimIsMarked /\ Guarded
  BY DEF Init, ClaimIsMarked, Guarded
<1>7. IndexedHasImage
  BY <1>2 DEF IndexedHasImage
<1>8. LandedIsOnRecord /\ SettledIsClosed
  BY DEF Init, LandedIsOnRecord, SettledIsClosed, Onward
<1>9. QED
  BY <1>1, <1>3, <1>4, <1>5, <1>6, <1>7, <1>8 DEF IInv

LEMMA NextInv == IInv /\ [Next]_vars => IInv'
BY NextTyped, PrunerHasLockKept, DeadIsDeadKept, KeptIsIndexedKept,
   ImagesAreKnownKept, ClaimIsMarkedKept, SweepIsOfOrphansKept, GuardedKept,
   IndexedHasImageKept, LandedIsOnRecordKept, SettledIsClosedKept
   DEF IInv

LEMMA InvAlways == Spec => []IInv
<1>1. Init => IInv
  BY InitInv
<1>2. IInv /\ [Next]_vars => IInv'
  BY NextInv
<1>3. QED
  BY <1>1, <1>2, PTL DEF Spec

(* No sweep, by whatever process and at whatever moment of a begin() or a  *)
(* settle(), takes an image an entry names: the index never points at a    *)
(* blob that is not there, but for a write whose marker was not published. *)
THEOREM IndexStaysSound == Spec => []IndexIsSound
<1>1. IInv => IndexIsSound
  BY DEF IInv, IndexIsSound
<1>2. QED
  BY <1>1, InvAlways, PTL

(* What begin() and settle() reported stays in the index, but for what the *)
(* retention let go and for a line that met a torn one.                    *)
THEOREM RecordIsKept == Spec => []ReportedIsOnRecord
<1>1. IInv => ReportedIsOnRecord
  BY RecordParts DEF IInv
<1>2. QED
  BY <1>1, InvAlways, PTL

================================================================================
