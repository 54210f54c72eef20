----------------------- MODULE SessionAndWrite_proofs -----------------------
(***************************************************************************)
(* A window of locks on one session, and the calls that change an object   *)
(* through such windows.  The first part is about StatefulSession, the     *)
(* second, from the line across, about WriteFlow; they share no state.     *)
(***************************************************************************)
EXTENDS StatefulSession, WriteFlow, TLAPS

(***************************************************************************)
(* What holds of a window's locks for any set of objects, any number of    *)
(* attempts and of calls.  Tracked is the inductive invariant: it ties the *)
(* request in flight to the release it belongs to, and says when a release *)
(* can outlive its ledger entry (only over an object or a session that is  *)
(* gone, so that SAP grants nothing under it).                             *)
(***************************************************************************)

(* The request in flight is the one its caller waits for. *)
WireFits ==
  /\ wire.op \in {"lock", "unlock", "delete"} => wire.obj \in Objects
  /\ wire.op = "lock" =>
       stage = "working" /\ fn.call.op = "lock" /\ wire.obj \notin held
  /\ wire.op = "unlock" =>
       /\ release[wire.obj].state = "sent"
       /\ release[wire.obj].handle = wire.handle

(* A session that is gone has no enqueues, a deleted object none either. *)
GoneIsFree ==
  \A o \in Objects : ~sap.alive \/ o \in sap.gone => sap.enq[o] = NoHandle

(* A release under way whose ledger entry was forgotten. *)
Orphans ==
  \A o \in Objects : Busy(o) /\ o \notin held => ~sap.alive \/ o \in sap.gone

(* What unlockAll() has still to do covers the ledger. *)
SweepCovers == stage = "closing" => held \subseteq sweep["window"]

Tracked ==
  /\ TypeOK
  /\ WireFits
  /\ GoneIsFree
  /\ Orphans
  /\ SweepCovers
  /\ EveryEnqueueIsKnown
  /\ ReleaseIsOfItsLock
  /\ NothingStaysLocked

-------------------------------------------------------------------------------
(* What each of SAP's answers does to the session. *)

(* The session as it was, but for o's enqueue. *)
OnlyEnqueue(o) ==
  /\ sap' \in Sessions
  /\ sap'.alive = sap.alive
  /\ \A p \in Objects : p # o => sap'.enq[p] = sap.enq[p]

LEMMA GrantedOne ==
  ASSUME sap \in Sessions, NEW o \in Objects, Granted(o)
  PROVE  /\ OnlyEnqueue(o)
         /\ sap'.gone = sap.gone
         /\ sap'.enq[o] = sap.last + 1
         /\ sap.alive /\ o \notin sap.gone
<1> DEFINE enq == [sap.enq EXCEPT ![o] = sap.last + 1]
<1>1. sap' = [sap EXCEPT !.enq = enq, !.last = sap.last + 1]
  BY DEF Granted, Sessions
<1>2. enq \in [Objects -> Nat]
  BY DEF Sessions
<1> QED
  BY <1>1, <1>2 DEF Granted, Grantable, OnlyEnqueue, Sessions

LEMMA FreesOne ==
  ASSUME sap \in Sessions, NEW o \in Objects, Frees(o)
  PROVE  /\ OnlyEnqueue(o)
         /\ sap'.gone = sap.gone
         /\ sap'.enq[o] = IF sap.enq[o] = wire.handle THEN NoHandle ELSE sap.enq[o]
<1> DEFINE left == IF sap.enq[o] = wire.handle THEN NoHandle ELSE sap.enq[o]
<1> DEFINE enq == [sap.enq EXCEPT ![o] = left]
<1>1. sap' = [sap EXCEPT !.enq = enq]
  BY DEF Frees, Sessions
<1>2. enq \in [Objects -> Nat]
  BY DEF Sessions, NoHandle
<1> QED
  BY <1>1, <1>2 DEF OnlyEnqueue, Sessions

LEMMA DeletesOne ==
  ASSUME sap \in Sessions, NEW o \in Objects, Deletes(o)
  PROVE  /\ OnlyEnqueue(o)
         /\ sap'.gone = sap.gone \cup {o}
         /\ sap'.enq[o] = NoHandle
<1> DEFINE enq == [sap.enq EXCEPT ![o] = NoHandle]
<1>1. sap' = [sap EXCEPT !.enq = enq, !.gone = sap.gone \cup {o}]
  BY DEF Deletes, Sessions
<1>2. enq \in [Objects -> Nat]
  BY DEF Sessions, NoHandle
<1> QED
  BY <1>1, <1>2 DEF OnlyEnqueue, Sessions

(* No enqueue is left, and what is gone stays gone. *)
AllFree ==
  /\ sap' \in Sessions
  /\ sap'.gone = sap.gone
  /\ \A p \in Objects : sap'.enq[p] = NoHandle

LEMMA DroppedAll ==
  ASSUME sap \in Sessions, Dropped
  PROVE  AllFree /\ sap'.alive = sap.alive
BY DEF Dropped, AllFree, Sessions, NoHandle

LEMMA ExpireAll ==
  ASSUME sap \in Sessions, Expire
  PROVE  AllFree /\ sap'.alive = FALSE
<1> DEFINE enq == [o \in Objects |-> NoHandle]
<1>1. sap' = [sap EXCEPT !.alive = FALSE, !.enq = enq]
  BY DEF Expire
<1>2. enq \in [Objects -> Nat]
  BY DEF NoHandle
<1> QED
  BY <1>1, <1>2 DEF AllFree, Sessions, NoHandle

-------------------------------------------------------------------------------
(* Types are kept. *)
LEMMA TypeStep ==
  ASSUME TypeOK, [Next]_vars
  PROVE  TypeOK'
<1> USE ObjectsAssumption, BoundsAssumption
        DEF ledger, sweeps, doubts, process, NoHandle, Sweepers, Stages
<1>1. ASSUME NEW o \in Objects, CallLock(o) PROVE TypeOK'
  BY <1>1 DEF CallLock, Free, Awaits, Asks, Running, Idle, Silence, TypeOK
<1>2. ASSUME NEW o \in Objects, RefuseLock(o) PROVE TypeOK'
  BY <1>2 DEF RefuseLock, Free, Running, Idle, TypeOK
<1>3. ASSUME NEW o \in Objects, LockSucceeds(o) PROVE TypeOK'
  <2>1. sap' \in Sessions /\ sap.last + 1 \in Nat
    BY <1>3, GrantedOne DEF LockSucceeds, OnlyEnqueue, Sessions, TypeOK
  <2>2. held' \subseteq Objects /\ handle' \in [Objects -> Nat]
    BY <1>3, <2>1 DEF LockSucceeds, Enters, TypeOK
  <2> QED
    BY <1>3, <2>1, <2>2 DEF LockSucceeds, Answered, Returns, Idle, Silence, TypeOK
<1>4. ASSUME NEW o \in Objects, LockStrands(o) PROVE TypeOK'
  BY <1>4, GrantedOne DEF LockStrands, Answered, LockFailed, Returns, Idle,
                          Silence, OnlyEnqueue, TypeOK
<1>5. ASSUME NEW o \in Objects, LockLost(o) PROVE TypeOK'
  BY <1>5 DEF LockLost, LockFailed, Answered, Returns, Idle, Silence, TypeOK
<1>6. ASSUME NEW o \in Objects, LockRefused(o) PROVE TypeOK'
  BY <1>6 DEF LockRefused, LockFailed, Answered, Returns, Idle, Silence, TypeOK
<1>7. ASSUME NEW o \in Objects, CallUnlock(o) PROVE TypeOK'
  BY <1>7 DEF CallUnlock, Free, Awaits, Starts, Busy, Running, Idle, TypeOK
<1>8. ASSUME NEW o \in Objects, SendUnlock(o) PROVE TypeOK'
  BY <1>8 DEF SendUnlock, Asks, Running, Silence, TypeOK
<1>9. ASSUME NEW o \in Objects, Released(o) PROVE TypeOK'
  BY <1>9, FreesOne DEF Released, Answered, Leaves, Settles, Wakes, NoRelease,
                        Idle, Silence, OnlyEnqueue, TypeOK
<1>10. ASSUME NEW o \in Objects, BackOff(o) PROVE TypeOK'
  BY <1>10, FreesOne DEF BackOff, UnlockFails, Answered, Silence, OnlyEnqueue,
                         TypeOK
<1>11. ASSUME NEW o \in Objects, Wake(o) PROVE TypeOK'
  BY <1>11 DEF Wake, TypeOK
<1>12. ASSUME NEW o \in Objects, GiveUp(o) PROVE TypeOK'
  BY <1>12, FreesOne DEF GiveUp, UnlockFails, Answered, Leaks, Leaves, Settles,
                         Wakes, NoRelease, Idle, Silence, OnlyEnqueue, TypeOK
<1>13. ASSUME NEW o \in Objects, Withhold(o) PROVE TypeOK'
  BY <1>13 DEF Withhold, Leaks, Leaves, Settles, Wakes, NoRelease, Idle, TypeOK
<1>14. ASSUME NEW o \in Objects, CallDelete(o) PROVE TypeOK'
  BY <1>14 DEF CallDelete, Free, Awaits, Asks, Running, Idle, Silence, TypeOK
<1>15. ASSUME NEW o \in Objects, DeleteSucceeds(o) PROVE TypeOK'
  BY <1>15, DeletesOne DEF DeleteSucceeds, DeleteEnds, Answered, Returns,
                           Leaves, Idle, Silence, OnlyEnqueue, TypeOK
<1>16. ASSUME NEW o \in Objects, DeleteFails(o) PROVE TypeOK'
  BY <1>16, DeletesOne DEF DeleteFails, DeleteEnds, Answered, Returns, Idle,
                           Silence, OnlyEnqueue, TypeOK
<1>17. ASSUME NEW s \in Sweepers, NEW o \in Objects, SweepOn(s, o) PROVE TypeOK'
  BY <1>17 DEF SweepOn, Starts, Busy, TypeOK
<1>18. CASE FnEnds
  BY <1>18 DEF FnEnds, Free, Sweeps, Idle, Running, TypeOK
<1>19. CASE EndWindow
  BY <1>19 DEF EndWindow, Swept, Doubt, TypeOK
<1>20. CASE DropSession
  BY <1>20 DEF DropSession, Swept, Asks, Silence, TypeOK
<1>21. CASE RefuseDrop
  BY <1>21 DEF RefuseDrop, Swept, NotDropped, TypeOK
<1>22. CASE SessionDropped
  BY <1>22, DroppedAll DEF SessionDropped, Answered, NotDropped, Silence,
                           AllFree, TypeOK
<1>23. CASE Signal
  BY <1>23 DEF Signal, Sweeps, TypeOK
<1>24. CASE ShutdownDrops
  BY <1>24 DEF ShutdownDrops, Asks, Silence, TypeOK
<1>25. CASE Exit
  <2>1. sap' \in Sessions
    BY <1>25, DroppedAll DEF Exit, AllFree, TypeOK
  <2> QED
    BY <1>25, <2>1 DEF Exit, Answered, Silence, Exits, TypeOK
<1>26. CASE ForceExit
  BY <1>26 DEF ForceExit, Exits, TypeOK
<1>27. CASE Expire
  BY <1>27, ExpireAll DEF Expire, AllFree, TypeOK
<1>28. CASE Trip
  BY <1>28 DEF Trip, TypeOK
<1>29. CASE UNCHANGED vars
  BY <1>29 DEF vars, TypeOK
<1> QED
  BY <1>1, <1>2, <1>3, <1>4, <1>5, <1>6, <1>7, <1>8, <1>9, <1>10, <1>11,
     <1>12, <1>13, <1>14, <1>15, <1>16, <1>17, <1>18, <1>19, <1>20, <1>21,
     <1>22, <1>23, <1>24, <1>25, <1>26, <1>27, <1>28, <1>29
     DEF Next, LockStep, UnlockStep, DeleteStep, WindowStep, ShutdownStep

-------------------------------------------------------------------------------
(* The rest of Tracked. *)
Kept ==
  /\ WireFits /\ GoneIsFree /\ Orphans /\ SweepCovers
  /\ EveryEnqueueIsKnown /\ ReleaseIsOfItsLock /\ NothingStaysLocked

(* So is the rest. *)
LEMMA TrackedStep ==
  ASSUME Tracked, TypeOK', [Next]_vars
  PROVE  Kept'
<1> USE ObjectsAssumption, BoundsAssumption
        DEF ledger, sweeps, doubts, process, NoHandle, Sweepers, Stages
<1>1. ASSUME NEW o \in Objects, CallLock(o) PROVE Kept'
  BY <1>1 DEF CallLock, Free, Awaits, Asks, Running, Idle, Silence, Kept, Busy,
              Tracked, TypeOK, WireFits, GoneIsFree, Orphans, SweepCovers,
              EveryEnqueueIsKnown, ReleaseIsOfItsLock, NothingStaysLocked
<1>2. ASSUME NEW o \in Objects, RefuseLock(o) PROVE Kept'
  BY <1>2 DEF RefuseLock, Free, Running, Idle, Kept, Busy, Tracked, TypeOK,
              WireFits, GoneIsFree, Orphans, SweepCovers, EveryEnqueueIsKnown,
              ReleaseIsOfItsLock, NothingStaysLocked
<1>3. ASSUME NEW o \in Objects, LockSucceeds(o) PROVE Kept'
  BY <1>3, GrantedOne DEF LockSucceeds, Answered, Enters, Returns, Idle,
                          Silence, OnlyEnqueue, Kept, Busy, Tracked, TypeOK,
                          WireFits, GoneIsFree, Orphans, SweepCovers,
                          EveryEnqueueIsKnown, ReleaseIsOfItsLock,
                          NothingStaysLocked
<1>4. ASSUME NEW o \in Objects, LockStrands(o) PROVE Kept'
  <2>1. /\ OnlyEnqueue(o) /\ sap'.gone = sap.gone
        /\ sap.alive /\ o \notin sap.gone
    BY <1>4, GrantedOne DEF LockStrands, Tracked, TypeOK
  <2>2. /\ wire' = Silence /\ stage = "working" /\ suspected' = suspected \cup {o}
        /\ UNCHANGED <<stage, ledger, release, sweeps, leaked>>
    BY <1>4 DEF LockStrands, LockFailed, Answered, Tracked, WireFits
  <2>3. /\ WireFits' /\ Orphans' /\ SweepCovers'
        /\ ReleaseIsOfItsLock' /\ NothingStaysLocked'
    BY <2>1, <2>2 DEF OnlyEnqueue, Silence, Busy, Tracked, WireFits, Orphans,
         SweepCovers, ReleaseIsOfItsLock, NothingStaysLocked
  <2>4. GoneIsFree' /\ EveryEnqueueIsKnown'
    BY <2>1, <2>2 DEF OnlyEnqueue, Tracked, GoneIsFree, EveryEnqueueIsKnown
  <2> QED
    BY <2>3, <2>4 DEF Kept
<1>5. ASSUME NEW o \in Objects, LockLost(o) PROVE Kept'
  BY <1>5 DEF LockLost, LockFailed, Answered, Returns, Idle, Silence, Kept,
              Busy, Tracked, TypeOK, WireFits, GoneIsFree, Orphans,
              SweepCovers, EveryEnqueueIsKnown, ReleaseIsOfItsLock,
              NothingStaysLocked
<1>6. ASSUME NEW o \in Objects, LockRefused(o) PROVE Kept'
  BY <1>6 DEF LockRefused, LockFailed, Answered, Returns, Idle, Silence, Kept,
              Busy, Tracked, TypeOK, WireFits, GoneIsFree, Orphans,
              SweepCovers, EveryEnqueueIsKnown, ReleaseIsOfItsLock,
              NothingStaysLocked
<1>7. ASSUME NEW o \in Objects, CallUnlock(o) PROVE Kept'
  BY <1>7 DEF CallUnlock, Free, Awaits, Starts, Busy, Running, Idle, Kept,
              Busy, Tracked, TypeOK, WireFits, GoneIsFree, Orphans,
              SweepCovers, EveryEnqueueIsKnown, ReleaseIsOfItsLock,
              NothingStaysLocked
<1>8. ASSUME NEW o \in Objects, SendUnlock(o) PROVE Kept'
  BY <1>8 DEF SendUnlock, Asks, Running, Silence, Kept, Busy, Tracked, TypeOK,
              WireFits, GoneIsFree, Orphans, SweepCovers, EveryEnqueueIsKnown,
              ReleaseIsOfItsLock, NothingStaysLocked
<1>9. ASSUME NEW o \in Objects, Released(o) PROVE Kept'
  <2>1. \/ OnlyEnqueue(o) /\ sap'.gone = sap.gone
           /\ sap'.enq[o] = IF sap.enq[o] = wire.handle THEN NoHandle ELSE sap.enq[o]
        \/ UNCHANGED sap /\ ~sap.alive
    BY <1>9, FreesOne DEF Released, Tracked, TypeOK
  <2>2. /\ wire.op = "unlock" /\ wire.obj = o /\ wire' = Silence
        /\ held' = held \ {o} /\ handle' = [handle EXCEPT ![o] = NoHandle]
        /\ release' = [release EXCEPT ![o] = NoRelease]
        /\ sweep' = [s \in Sweepers |->
                       IF joined[s] = o THEN sweep[s] \ {o} ELSE sweep[s]]
        /\ UNCHANGED leaked
        /\ UNCHANGED <<stage, suspected>>
    BY <1>9 DEF Released, Answered, Leaves, Settles, Wakes
  <2>3. /\ \A p \in Objects : p # o => UNCHANGED <<handle[p], release[p], sap.enq[p]>>
        /\ release'[o] = NoRelease /\ UNCHANGED <<sap.alive, sap.gone>>
    BY <2>1, <2>2 DEF OnlyEnqueue, Tracked, TypeOK
  <2>4. WireFits' /\ Orphans' /\ ReleaseIsOfItsLock'
    BY <2>2, <2>3 DEF Silence, NoRelease, Busy, Tracked, WireFits, Orphans,
         ReleaseIsOfItsLock
  <2>5. sap'.enq[o] # NoHandle => o \in leaked' \cup suspected'
    <3>1. release[o].handle = wire.handle /\ Busy(o)
      BY <2>2 DEF Tracked, WireFits, Busy
    <3>2. CASE o \in held
      BY <2>1, <2>2, <3>1, <3>2 DEF Tracked, GoneIsFree, EveryEnqueueIsKnown,
           ReleaseIsOfItsLock
    <3>3. CASE o \notin held
      BY <2>1, <3>1, <3>3 DEF Tracked, Orphans, GoneIsFree, NoHandle
    <3> QED
      BY <3>2, <3>3
  <2>6. GoneIsFree' /\ NothingStaysLocked'
    BY <2>1, <2>2, <2>3 DEF Tracked, GoneIsFree, NothingStaysLocked
  <2>7. EveryEnqueueIsKnown'
    BY <2>2, <2>3, <2>5 DEF Tracked, EveryEnqueueIsKnown
  <2>8. SweepCovers'
    BY <2>2 DEF Tracked, SweepCovers
  <2> QED
    BY <2>4, <2>6, <2>7, <2>8 DEF Kept
<1>10. ASSUME NEW o \in Objects, BackOff(o) PROVE Kept'
  BY <1>10, FreesOne DEF BackOff, UnlockFails, Answered, Silence, OnlyEnqueue,
                         Kept, Busy, Tracked, TypeOK, WireFits, GoneIsFree,
                         Orphans, SweepCovers, EveryEnqueueIsKnown,
                         ReleaseIsOfItsLock, NothingStaysLocked
<1>11. ASSUME NEW o \in Objects, Wake(o) PROVE Kept'
  BY <1>11 DEF Wake, Kept, Busy, Tracked, TypeOK, WireFits, GoneIsFree,
               Orphans, SweepCovers, EveryEnqueueIsKnown, ReleaseIsOfItsLock,
               NothingStaysLocked
<1>12. ASSUME NEW o \in Objects, GiveUp(o) PROVE Kept'
  <2>1. \/ OnlyEnqueue(o) /\ sap'.gone = sap.gone
           /\ sap'.enq[o] = IF sap.enq[o] = wire.handle THEN NoHandle ELSE sap.enq[o]
        \/ UNCHANGED sap 
    BY <1>12, FreesOne DEF GiveUp, UnlockFails, Tracked, TypeOK
  <2>2. /\ wire.op = "unlock" /\ wire.obj = o /\ wire' = Silence
        /\ held' = held \ {o} /\ handle' = [handle EXCEPT ![o] = NoHandle]
        /\ release' = [release EXCEPT ![o] = NoRelease]
        /\ sweep' = [s \in Sweepers |->
                       IF joined[s] = o THEN sweep[s] \ {o} ELSE sweep[s]]
        /\ leaked' = leaked \cup {o}
        /\ UNCHANGED <<stage, suspected>>
    BY <1>12 DEF GiveUp, UnlockFails, Answered, Leaves, Settles, Wakes, Leaks
  <2>3. /\ \A p \in Objects : p # o => UNCHANGED <<handle[p], release[p], sap.enq[p]>>
        /\ release'[o] = NoRelease /\ UNCHANGED <<sap.alive, sap.gone>>
    BY <2>1, <2>2 DEF OnlyEnqueue, Tracked, TypeOK
  <2>4. WireFits' /\ Orphans' /\ ReleaseIsOfItsLock'
    BY <2>2, <2>3 DEF Silence, NoRelease, Busy, Tracked, WireFits, Orphans,
         ReleaseIsOfItsLock
  <2>5. sap'.enq[o] # NoHandle => o \in leaked' \cup suspected'
    BY <2>2
  <2>6. GoneIsFree' /\ NothingStaysLocked'
    BY <2>1, <2>2, <2>3 DEF Tracked, GoneIsFree, NothingStaysLocked
  <2>7. EveryEnqueueIsKnown'
    BY <2>2, <2>3, <2>5 DEF Tracked, EveryEnqueueIsKnown
  <2>8. SweepCovers'
    BY <2>2 DEF Tracked, SweepCovers
  <2> QED
    BY <2>4, <2>6, <2>7, <2>8 DEF Kept
<1>13. ASSUME NEW o \in Objects, Withhold(o) PROVE Kept'
  BY <1>13 DEF Withhold, Leaks, Leaves, Settles, Wakes, NoRelease, Idle, Kept,
               Busy, Tracked, TypeOK, WireFits, GoneIsFree, Orphans,
               SweepCovers, EveryEnqueueIsKnown, ReleaseIsOfItsLock,
               NothingStaysLocked
<1>14. ASSUME NEW o \in Objects, CallDelete(o) PROVE Kept'
  BY <1>14 DEF CallDelete, Free, Awaits, Asks, Running, Idle, Silence, Kept,
               Busy, Tracked, TypeOK, WireFits, GoneIsFree, Orphans,
               SweepCovers, EveryEnqueueIsKnown, ReleaseIsOfItsLock,
               NothingStaysLocked
<1>15. ASSUME NEW o \in Objects, DeleteSucceeds(o) PROVE Kept'
  <2>1. \/ /\ OnlyEnqueue(o) /\ sap'.gone = sap.gone \cup {o}
           /\ sap'.enq[o] = NoHandle
        \/ UNCHANGED sap /\ ~sap.alive
    BY <1>15, DeletesOne DEF DeleteSucceeds, Tracked, TypeOK
  <2>2. /\ wire.op = "delete" /\ wire.obj = o /\ wire' = Silence
        /\ held' = held \ {o} /\ handle' = [handle EXCEPT ![o] = NoHandle]
        /\ UNCHANGED <<stage, release, sweeps, doubts>>
    BY <1>15 DEF DeleteSucceeds, DeleteEnds, Answered, Leaves
  <2>3. /\ \A p \in Objects : p # o => UNCHANGED <<handle[p], sap.enq[p]>>
        /\ UNCHANGED sap.alive
    BY <2>1, <2>2 DEF OnlyEnqueue, Tracked, TypeOK
  <2>4. GoneIsFree' /\ NothingStaysLocked'
    BY <2>1, <2>2, <2>3 DEF Tracked, GoneIsFree, NothingStaysLocked, Sessions, TypeOK
  <2>5. EveryEnqueueIsKnown'
    BY <2>1, <2>2, <2>3 DEF Tracked, EveryEnqueueIsKnown, GoneIsFree
  <2>6. WireFits' /\ Orphans' /\ SweepCovers' /\ ReleaseIsOfItsLock'
    BY <2>1, <2>2, <2>3 DEF Silence, Busy, Tracked, TypeOK, WireFits, Orphans,
         SweepCovers, ReleaseIsOfItsLock
  <2> QED
    BY <2>4, <2>5, <2>6 DEF Kept
<1>16. ASSUME NEW o \in Objects, DeleteFails(o) PROVE Kept'
  <2>1. \/ /\ OnlyEnqueue(o) /\ sap'.gone = sap.gone \cup {o}
           /\ sap'.enq[o] = NoHandle
        \/ UNCHANGED sap
    BY <1>16, DeletesOne DEF DeleteFails, Tracked, TypeOK
  <2>2. /\ wire.op = "delete" /\ wire.obj = o /\ wire' = Silence
        /\ UNCHANGED ledger
        /\ UNCHANGED <<stage, release, sweeps, doubts>>
    BY <1>16 DEF DeleteFails, DeleteEnds, Answered
  <2>3. /\ \A p \in Objects : p # o => UNCHANGED <<handle[p], sap.enq[p]>>
        /\ UNCHANGED sap.alive
    BY <2>1, <2>2 DEF OnlyEnqueue, Tracked, TypeOK
  <2>4. GoneIsFree' /\ NothingStaysLocked'
    BY <2>1, <2>2, <2>3 DEF Tracked, GoneIsFree, NothingStaysLocked, Sessions, TypeOK
  <2>5. EveryEnqueueIsKnown'
    BY <2>1, <2>2, <2>3 DEF Tracked, EveryEnqueueIsKnown, GoneIsFree
  <2>6. WireFits' /\ Orphans' /\ SweepCovers' /\ ReleaseIsOfItsLock'
    BY <2>1, <2>2, <2>3 DEF Silence, Busy, Tracked, TypeOK, WireFits, Orphans,
         SweepCovers, ReleaseIsOfItsLock
  <2> QED
    BY <2>4, <2>5, <2>6 DEF Kept
<1>17. ASSUME NEW s \in Sweepers, NEW o \in Objects, SweepOn(s, o) PROVE Kept'
  <2>1. UNCHANGED <<stage, fn, held, handle, doubts, wire, sap>>
    BY <1>17 DEF SweepOn
  <2>2. \/ UNCHANGED release
        \/ /\ o \in held /\ release[o].state = "none"
           /\ release' = [release EXCEPT ![o] =
                [state |-> "ready", handle |-> handle[o], attempt |-> 1]]
    BY <1>17 DEF SweepOn, Starts, Busy
  <2>3. WireFits'
    BY <2>1, <2>2 DEF Tracked, TypeOK, WireFits
  <2>4. Orphans' /\ ReleaseIsOfItsLock'
    BY <2>1, <2>2 DEF Busy, Tracked, TypeOK, Orphans, ReleaseIsOfItsLock
  <2>5. SweepCovers'
    BY <1>17, <2>1 DEF SweepOn, Tracked, TypeOK, SweepCovers
  <2> QED
    BY <2>1, <2>3, <2>4, <2>5 DEF Kept, Tracked, GoneIsFree, EveryEnqueueIsKnown,
         NothingStaysLocked
<1>18. CASE FnEnds
  BY <1>18 DEF FnEnds, Free, Sweeps, Idle, Running, Kept, Busy, Tracked,
               TypeOK, WireFits, GoneIsFree, Orphans, SweepCovers,
               EveryEnqueueIsKnown, ReleaseIsOfItsLock, NothingStaysLocked
<1>19. CASE EndWindow
  BY <1>19 DEF EndWindow, Swept, Doubt, Kept, Busy, Tracked, TypeOK, WireFits,
               GoneIsFree, Orphans, SweepCovers, EveryEnqueueIsKnown,
               ReleaseIsOfItsLock, NothingStaysLocked
<1>20. CASE DropSession
  BY <1>20 DEF DropSession, Swept, Asks, Silence, Kept, Busy, Tracked, TypeOK,
               WireFits, GoneIsFree, Orphans, SweepCovers, EveryEnqueueIsKnown,
               ReleaseIsOfItsLock, NothingStaysLocked
<1>21. CASE RefuseDrop
  BY <1>21 DEF RefuseDrop, Swept, NotDropped, Kept, Busy, Tracked, TypeOK,
               WireFits, GoneIsFree, Orphans, SweepCovers, EveryEnqueueIsKnown,
               ReleaseIsOfItsLock, NothingStaysLocked
<1>22. CASE SessionDropped
  <2>1. \/ UNCHANGED sap /\ NotDropped
        \/ AllFree /\ sap'.alive = sap.alive /\ stage' = "ended"
    BY <1>22, DroppedAll DEF SessionDropped, Tracked, TypeOK
  <2>2. /\ wire.op = "drop" /\ wire' = Silence
        /\ UNCHANGED <<fn, ledger, release, sweeps, doubts>>
    BY <1>22 DEF SessionDropped, Answered
  <2> QED
    BY <2>1, <2>2 DEF AllFree, NotDropped, Silence, Kept, Busy, Tracked, TypeOK,
         WireFits, GoneIsFree, Orphans, SweepCovers, EveryEnqueueIsKnown,
         ReleaseIsOfItsLock, NothingStaysLocked
<1>23. CASE Signal
  BY <1>23 DEF Signal, Sweeps, Kept, Busy, Tracked, TypeOK, WireFits,
               GoneIsFree, Orphans, SweepCovers, EveryEnqueueIsKnown,
               ReleaseIsOfItsLock, NothingStaysLocked
<1>24. CASE ShutdownDrops
  BY <1>24 DEF ShutdownDrops, Asks, Silence, Kept, Busy, Tracked, TypeOK,
               WireFits, GoneIsFree, Orphans, SweepCovers, EveryEnqueueIsKnown,
               ReleaseIsOfItsLock, NothingStaysLocked
<1>25. CASE Exit
  <2>1. \/ UNCHANGED sap
        \/ AllFree /\ sap'.alive = sap.alive
    BY <1>25, DroppedAll DEF Exit, Tracked, TypeOK
  <2>2. /\ wire' \in {wire, Silence}
        /\ UNCHANGED <<stage, fn, ledger, release, sweeps, doubts>>
    BY <1>25 DEF Exit, Exits
  <2> QED
    BY <2>1, <2>2 DEF AllFree, Silence, Kept, Busy, Tracked, TypeOK, WireFits,
         GoneIsFree, Orphans, SweepCovers, EveryEnqueueIsKnown,
         ReleaseIsOfItsLock, NothingStaysLocked
<1>26. CASE ForceExit
  BY <1>26 DEF ForceExit, Exits, Kept, Busy, Tracked, TypeOK, WireFits,
               GoneIsFree, Orphans, SweepCovers, EveryEnqueueIsKnown,
               ReleaseIsOfItsLock, NothingStaysLocked
<1>27. CASE Expire
  BY <1>27, ExpireAll DEF Expire, AllFree, Kept, Busy, Tracked, TypeOK,
                          WireFits, GoneIsFree, Orphans, SweepCovers,
                          EveryEnqueueIsKnown, ReleaseIsOfItsLock,
                          NothingStaysLocked
<1>28. CASE Trip
  BY <1>28 DEF Trip, Kept, Busy, Tracked, TypeOK, WireFits, GoneIsFree,
               Orphans, SweepCovers, EveryEnqueueIsKnown, ReleaseIsOfItsLock,
               NothingStaysLocked
<1>29. CASE UNCHANGED vars
  BY <1>29 DEF vars, Kept, Busy, Tracked, TypeOK, WireFits, GoneIsFree, Orphans,
       SweepCovers, EveryEnqueueIsKnown, ReleaseIsOfItsLock, NothingStaysLocked
<1> QED
  BY <1>1, <1>2, <1>3, <1>4, <1>5, <1>6, <1>7, <1>8, <1>9, <1>10, <1>11,
     <1>12, <1>13, <1>14, <1>15, <1>16, <1>17, <1>18, <1>19, <1>20, <1>21,
     <1>22, <1>23, <1>24, <1>25, <1>26, <1>27, <1>28, <1>29
     DEF Next, LockStep, UnlockStep, DeleteStep, WindowStep, ShutdownStep

LEMMA InitTracked == Init => Tracked
<1> SUFFICES ASSUME Init PROVE Tracked
  OBVIOUS
<1>1. 0 \in 0..MaxCalls /\ 0 \in 0..Attempts
  BY BoundsAssumption
<1>2. Idle \in [op: {"idle", "lock", "unlock", "delete"}, obj: Objects \cup {NoObject}]
  BY DEF Idle
<1>3. TypeOK
  BY <1>1, <1>2 DEF Init, TypeOK, NoRelease, Silence, NoHandle, Stages, Sweepers, Sessions
<1> QED
  BY <1>3 DEF Init, Tracked, WireFits, GoneIsFree, Orphans, SweepCovers,
       EveryEnqueueIsKnown, ReleaseIsOfItsLock, NothingStaysLocked, Busy,
       NoRelease, Silence, NoHandle

LEMMA TrackedAlways == Spec => []Tracked
<1>1. Tracked /\ [Next]_vars => Tracked'
  BY TypeStep, TrackedStep DEF Tracked, Kept
<1> QED
  BY <1>1, InitTracked, PTL DEF Spec

-------------------------------------------------------------------------------
(* The fields keep their types; a release makes no attempt beyond Attempts. *)
THEOREM TypeCorrect == Spec => []TypeOK
BY TrackedAlways, PTL DEF Tracked

(* No enqueue of the session is out of sight, however answers are lost and  *)
(* releases, deletions and a shutdown interleave.                           *)
THEOREM EnqueuesAreKnown == Spec => []EveryEnqueueIsKnown
BY TrackedAlways, PTL DEF Tracked

(* A release never meets a lock taken after the one it was started for.     *)
THEOREM ReleasesMeetTheirLock == Spec => []ReleaseIsOfItsLock
BY TrackedAlways, PTL DEF Tracked

(* So the ledger is right at all times.                                     *)
THEOREM LedgerAlwaysSound == Spec => []LedgerIsSound
BY TrackedAlways, PTL DEF Tracked, LedgerIsSound

(* A window leaves no enqueue behind, unless the drop failed.               *)
THEOREM WindowsLeaveNothing == Spec => []NothingStaysLocked
BY TrackedAlways, PTL DEF Tracked

----------------------------------------------------------------------------
(***************************************************************************)
(* What holds of writes, deletes and undos of one object for any number of *)
(* calls, other editors and texts, in and out of the gate, killed anywhere *)
(* and with the lock taken from them at any time.                          *)
(*                                                                         *)
(* OnRecord says, place by place, what the journal has of a call and what  *)
(* the call believes of the object; it needs nothing of the gate.  Guarded *)
(* adds the gate: who is in it is alone, so what it wrote, and what an     *)
(* undo is about to replace, changes from outside only.                    *)
(***************************************************************************)

(* The calls under way. *)
UnderWay(c) == at[c] \notin {"idle", "done"}

(* The types, and that an undo under way knows which entry it is for.      *)
Typed ==
  /\ WriteTypeOK
  /\ \A c \in Calls : UnderWay(c) /\ kind[c] = "undo" => undoes[c] \in Calls
  /\ \A c \in Calls : at[c] = "plan" => kind[c] = "undo"

(* Marking an entry leaves an entry. *)
LEMMA EntryTyped ==
  /\ NoEntry \in Entries
  /\ WriteTypeOK => \A c \in Calls : Entry(c) \in Entries
  /\ \A e \in Entries :
       /\ \A o \in Outcomes : [e EXCEPT !.outcome = o] \in Entries
       /\ \A t \in Contents :
            [[e EXCEPT !.outcome = "succeeded"] EXCEPT !.after = t] \in Entries
       /\ \A c \in Calls : [e EXCEPT !.undoneBy = c] \in Entries
BY DEF NoEntry, Entries, Entry, WriteTypeOK, Contents, Outcomes

(* How a call leaves a place: for another one, or for good. *)
Moves(c) ==
  \/ End(c)
  \/ (\E p \in Places : Goto(c, p)) /\ UNCHANGED <<gate, enqueue>>

LEMMA MovesTyped ==
  ASSUME WriteTypeOK, NEW c \in Calls, Moves(c)
  PROVE  /\ at' \in [Calls -> Places]
         /\ gate' \in Gated \cup {None}
         /\ enqueue' \in Calls \cup {None}
BY DEF WriteTypeOK, Moves, End, Goto, FreedBy, Places

LEMMA GotoTyped ==
  ASSUME WriteTypeOK, NEW c \in Calls, NEW p \in Places, Goto(c, p)
  PROVE  at' \in [Calls -> Places]
BY DEF WriteTypeOK, Goto

LEMMA TypedInit == WriteInit => Typed
<1> SUFFICES ASSUME WriteInit PROVE Typed
  OBVIOUS
<1> USE WriteFlowAssumption DEF WriteInit, Contents
<1>1. want \in [Calls -> Contents]
  BY DEF Texts
<1>2. at \in [Calls -> Places] /\ \A c \in Calls : ~UnderWay(c) /\ at[c] # "plan"
  BY DEF Places, UnderWay
<1>3. content \in Contents
  BY DEF Texts
<1>4. entry \in [Calls -> Entries]
  BY EntryTyped
<1>5. WriteTypeOK
  BY <1>1, <1>2, <1>3, <1>4 DEF WriteTypeOK
<1> QED BY <1>2, <1>5 DEF Typed

LEMMA BeforeTyped ==
  ASSUME Typed, NEW c \in Calls, Before(c)
  PROVE  WriteTypeOK'
<1>0. WriteTypeOK
  BY DEF Typed
<1> USE DEF server, private, history
<1>1. CASE See(c)
  BY <1>0, <1>1, WriteFlowAssumption DEF See, WriteTypeOK, Contents
<1>2. CASE Start(c)
  <2>1. at' \in [Calls -> Places]
    BY <1>0, <1>2, GotoTyped DEF Start, Places
  <2>2. gate' \in Gated \cup {None} /\ undoes' \in [Calls -> Calls \cup {None}]
    BY <1>0, <1>2 DEF Start, EnterGate, WriteTypeOK
  <2> QED BY <1>0, <1>2, <2>1, <2>2 DEF Start, WriteTypeOK
<1>3. CASE Resolve(c)
  <2>1. Moves(c)
    BY <1>3 DEF Resolve, Moves, Places
  <2>2. absent' \in [Calls -> BOOLEAN]
    BY <1>0, <1>3 DEF Resolve, WriteTypeOK
  <2> QED BY <1>0, <1>3, <2>1, <2>2, MovesTyped DEF Resolve, WriteTypeOK
<1>4. CASE Plan(c)
  <2>1. Moves(c)
    BY <1>4 DEF Plan, Moves, Places
  <2>2. want' \in [Calls -> Contents]
    <3>1. CASE UNCHANGED want
      BY <1>0, <3>1 DEF WriteTypeOK
    <3>2. CASE want' = [want EXCEPT ![c] = entry[undoes[c]].before]
      <4>1. undoes[c] \in Calls
        BY <1>4, <3>2 DEF Plan, Typed, UnderWay
      <4>2. entry[undoes[c]].before \in Contents
        BY <1>0, <4>1 DEF WriteTypeOK, Entries
      <4> QED BY <1>0, <3>2, <4>2 DEF WriteTypeOK
    <3> QED BY <1>4, <3>1, <3>2 DEF Plan
  <2> QED BY <1>0, <1>4, <2>1, <2>2, MovesTyped DEF Plan, WriteTypeOK
<1>5. CASE Read(c)
  <2>1. Moves(c)
    BY <1>5 DEF Read, Moves, Places
  <2>2. base' \in [Calls -> Contents]
    BY <1>0, <1>5 DEF Read, Reads, WriteTypeOK, Contents
  <2> QED BY <1>0, <1>5, <2>1, <2>2, MovesTyped DEF Read, WriteTypeOK
<1>6. CASE Begin(c)
  <2>1. Moves(c)
    BY <1>6 DEF Begin, Moves, Places
  <2>2. entry' \in [Calls -> Entries]
    BY <1>0, <1>6, EntryTyped DEF Begin, WriteTypeOK
  <2> QED BY <1>0, <1>6, <2>1, <2>2, MovesTyped DEF Begin, WriteTypeOK
<1> QED BY <1>1, <1>2, <1>3, <1>4, <1>5, <1>6 DEF Before

LEMMA LockedTyped ==
  ASSUME WriteTypeOK, NEW c \in Calls, Locked(c)
  PROVE  WriteTypeOK'
<1> USE DEF server, private, history
<1>1. CASE Create(c)
  <2>1. at' \in [Calls -> Places]
    BY <1>1, GotoTyped DEF Create, Places
  <2>2. replaced' \in [Calls -> Contents \cup {None}]
    BY <1>1 DEF Create, WriteTypeOK, Contents
  <2>3. content' \in Contents /\ author' \in Calls \cup Editors \cup {None}
    BY <1>1 DEF Create, WriteTypeOK, Contents, Texts
  <2> QED BY <1>1, <2>1, <2>2, <2>3 DEF Create, WriteTypeOK
<1>2. CASE Lock(c)
  <2>1. at' \in [Calls -> Places] /\ gate' \in Gated \cup {None} /\ enqueue' \in Calls \cup {None}
    <3>1. CASE Moves(c)
      BY <3>1, MovesTyped
    <3>2. CASE (\E p \in Places : Goto(c, p)) /\ UNCHANGED gate /\ enqueue' = c
      BY <3>2, GotoTyped DEF WriteTypeOK
    <3> QED BY <1>2, <3>1, <3>2 DEF Lock, Moves, Places
  <2> QED BY <1>2, <2>1 DEF Lock, WriteTypeOK
<1>3. CASE Recheck(c)
  <2>1. Moves(c)
    BY <1>3 DEF Recheck, Moves, Places
  <2> QED BY <1>3, <2>1, MovesTyped DEF Recheck, WriteTypeOK
<1>4. CASE Change(c)
  <2>1. at' \in [Calls -> Places]
    BY <1>4, GotoTyped DEF Change, Places
  <2>2. replaced' \in [Calls -> Contents \cup {None}]
    BY <1>4 DEF Change, Lands, WriteTypeOK
  <2>5. overrun' \in [Calls -> SUBSET (Calls \cup Editors \cup {None})]
    BY <1>4 DEF Change, Lands, Overruns, WriteTypeOK
  <2>3. content' \in Contents /\ active' \in Contents /\ author' \in Calls \cup Editors \cup {None}
    BY <1>4 DEF Change, Lands, WriteTypeOK, Contents
  <2>4. enqueue' \in Calls \cup {None}
    BY <1>4 DEF Change, WriteTypeOK
  <2> QED BY <1>4, <2>1, <2>2, <2>3, <2>4, <2>5 DEF Change, WriteTypeOK
<1>5. CASE Reject(c) \/ Rollback(c) \/ Unlock(c)
  <2>1. at' \in [Calls -> Places]
    BY <1>5, GotoTyped DEF Reject, Rollback, Unlock, Places
  <2>2. content' \in Contents /\ active' \in Contents /\ author' \in Calls \cup Editors \cup {None}
    BY <1>5 DEF Reject, Rollback, Unlock, WriteTypeOK, Contents
  <2>3. enqueue' \in Calls \cup {None}
    BY <1>5 DEF Reject, Rollback, Unlock, FreedBy, WriteTypeOK
  <2>4. overrun' \in [Calls -> SUBSET (Calls \cup Editors \cup {None})]
    BY <1>5 DEF Reject, Rollback, Unlock, Overruns, WriteTypeOK
  <2> QED BY <1>5, <2>1, <2>2, <2>3, <2>4 DEF Reject, Rollback, Unlock, WriteTypeOK
<1> QED BY <1>1, <1>2, <1>3, <1>4, <1>5 DEF Locked

LEMMA SettledTyped ==
  ASSUME WriteTypeOK, NEW c \in Calls, NEW o \in Outcomes, SettledAs(c, o)
  PROVE  entry' \in [Calls -> Entries]
<1>1. [entry EXCEPT ![c].outcome = o] = [entry EXCEPT ![c] = [entry[c] EXCEPT !.outcome = o]]
  BY DEF WriteTypeOK
<1>2. entry[c] \in Entries /\ [entry[c] EXCEPT !.outcome = o] \in Entries
  BY EntryTyped DEF WriteTypeOK
<1>3. [entry EXCEPT ![c].outcome = o] \in [Calls -> Entries]
  BY <1>1, <1>2 DEF WriteTypeOK
<1> QED BY <1>3 DEF WriteTypeOK, SettledAs

LEMMA AfterTyped ==
  ASSUME Typed, NEW c \in Calls, After(c)
  PROVE  WriteTypeOK'
<1>0. WriteTypeOK
  BY DEF Typed
<1> USE DEF server, private, history
<1>1. CASE Look(c)
  <2>1. Moves(c)
    BY <1>1 DEF Look, GivesUp, Moves, Places
  <2> QED BY <1>0, <1>1, <2>1, MovesTyped DEF Look, WriteTypeOK
<1>2. CASE Activate(c)
  <2>1. Moves(c)
    BY <1>2 DEF Activate, GivesUp, Moves, Places
  <2>2. active' \in Contents
    BY <1>0, <1>2 DEF Activate, WriteTypeOK
  <2> QED BY <1>0, <1>2, <2>1, <2>2, MovesTyped DEF Activate, WriteTypeOK
<1>3. CASE Verify(c)
  <2>1. Moves(c)
    BY <1>3 DEF Verify, Moves, Places
  <2>2. entry' \in [Calls -> Entries]
    BY <1>0, <1>3, SettledTyped DEF Verify, WriteTypeOK, Outcomes
  <2> QED BY <1>0, <1>3, <2>1, <2>2, MovesTyped DEF Verify, WriteTypeOK
<1>4. CASE Settle(c)
  <2>1. Moves(c)
    BY <1>4 DEF Settle, Moves, Places
  <2>2. entry' \in [Calls -> Entries]
    BY <1>0, <1>4, SettledTyped DEF Settle, Outcomes
  <2> QED BY <1>0, <1>4, <2>1, <2>2, MovesTyped DEF Settle, WriteTypeOK
<1>5. CASE Reread(c)
  <2>1. Moves(c)
    BY <1>5 DEF Reread, Moves
  <2>2. \A t \in Contents :
          [entry EXCEPT ![c].outcome = "succeeded", ![c].after = t]
            = [entry EXCEPT ![c] = [[entry[c] EXCEPT !.outcome = "succeeded"] EXCEPT !.after = t]]
    BY <1>0 DEF WriteTypeOK
  <2>3. ASSUME NEW t \in Contents
        PROVE  [entry EXCEPT ![c].outcome = "succeeded", ![c].after = t] \in [Calls -> Entries]
    <3>1. [[entry[c] EXCEPT !.outcome = "succeeded"] EXCEPT !.after = t] \in Entries
      BY <1>0, EntryTyped DEF WriteTypeOK
    <3> QED BY <1>0, <2>2, <3>1 DEF WriteTypeOK
  <2>4. \/ entry' = entry
        \/ \E t \in Contents : entry' = [entry EXCEPT ![c].outcome = "succeeded", ![c].after = t]
    BY <1>0, <1>5 DEF Reread, WriteTypeOK
  <2>5. entry' \in [Calls -> Entries]
    BY <1>0, <2>3, <2>4 DEF WriteTypeOK
  <2> QED BY <1>0, <1>5, <2>1, <2>5, MovesTyped DEF Reread, WriteTypeOK
<1>6. CASE MarkUndone(c)
  <2>1. Moves(c)
    BY <1>6 DEF MarkUndone, Moves
  <2>2. [entry EXCEPT ![undoes[c]].undoneBy = c] \in [Calls -> Entries]
    <3>1. CASE undoes[c] \in Calls
      <4>1. [entry EXCEPT ![undoes[c]].undoneBy = c]
              = [entry EXCEPT ![undoes[c]] = [entry[undoes[c]] EXCEPT !.undoneBy = c]]
        BY <1>0, <3>1 DEF WriteTypeOK
      <4> QED BY <1>0, <3>1, <4>1, EntryTyped DEF WriteTypeOK
    <3>2. CASE undoes[c] \notin Calls
      BY <1>0, <3>2 DEF WriteTypeOK
    <3> QED BY <3>1, <3>2
  <2>3. entry' \in [Calls -> Entries]
    BY <1>0, <1>6, <2>2 DEF MarkUndone, WriteTypeOK
  <2> QED BY <1>0, <1>6, <2>1, <2>3, MovesTyped DEF MarkUndone, WriteTypeOK
<1>7. CASE Fail(c)
  <2>1. Moves(c)
    BY <1>7 DEF Fail, Moves
  <2>2. entry' \in [Calls -> Entries]
    BY <1>0, <1>7, SettledTyped DEF Fail, WriteTypeOK, Outcomes
  <2> QED BY <1>0, <1>7, <2>1, <2>2, MovesTyped DEF Fail, WriteTypeOK
<1> QED BY <1>1, <1>2, <1>3, <1>4, <1>5, <1>6, <1>7 DEF After

LEMMA TypedNext ==
  ASSUME Typed, [WriteNext]_writeVars
  PROVE  Typed'
<1>0. WriteTypeOK
  BY DEF Typed
<1> USE DEF server, private, history
<1>1. ASSUME NEW c \in Calls, Crash(c) PROVE WriteTypeOK'
  <2>1. at' \in [Calls -> Places] /\ gate' \in Gated \cup {None}
    BY <1>0, <1>1, GotoTyped DEF Crash, FreedBy, WriteTypeOK, Places
  <2> QED BY <1>0, <1>1, <2>1 DEF Crash, WriteTypeOK
<1>2. ASSUME LockExpires PROVE WriteTypeOK'
  BY <1>0, <1>2 DEF LockExpires, WriteTypeOK
<1>3. ASSUME NEW p \in Editors, Edit(p) PROVE WriteTypeOK'
  BY <1>0, <1>3 DEF Edit, WriteTypeOK, Contents, Texts
<1>4. ASSUME UNCHANGED writeVars PROVE WriteTypeOK'
  <2>1. /\ UNCHANGED <<content, active, author, enqueue, gate, kind, at, seen>>
        /\ UNCHANGED <<absent, want, base, undoes, entry, replaced, overrun>>
    BY <1>4 DEF writeVars
  <2> QED BY <1>0, <2>1 DEF WriteTypeOK
<1>5. WriteTypeOK'
  <2>1. CASE \E c \in Calls : Before(c) \/ Locked(c) \/ After(c) \/ Crash(c)
    BY <1>0, <2>1, <1>1, BeforeTyped, LockedTyped, AfterTyped
  <2> QED BY <2>1, <1>2, <1>3, <1>4 DEF WriteNext
(* Who runs an undo has been told, when it started, which entry it is for. *)
<1>6. ASSUME NEW d \in Calls, Before(d)
      PROVE  /\ kind' = kind
             /\ Start(d) \/ (undoes' = undoes /\ \A c \in Calls : UnderWay(c)' => UnderWay(c))
             /\ \A c \in Calls : at'[c] = "plan" => at[c] = "plan" \/ kind[c] = "undo"
  <2>1. CASE See(d) \/ Resolve(d) \/ Plan(d) \/ Read(d) \/ Begin(d)
    BY <1>0, <2>1 DEF See, Resolve, Plan, Read, Begin, UnderWay, Goto, End, WriteTypeOK
  <2>2. CASE Start(d)
    BY <1>0, <2>2 DEF Start, Goto, WriteTypeOK
  <2> QED BY <1>6, <2>1, <2>2 DEF Before
<1>7. ASSUME NEW d \in Calls, Locked(d) \/ After(d) \/ Crash(d)
      PROVE  /\ UNCHANGED <<kind, undoes>>
             /\ \A c \in Calls : (UnderWay(c)' => UnderWay(c)) /\ (at'[c] = "plan" => at[c] = "plan")
  <2>1. CASE Create(d) \/ Lock(d) \/ Recheck(d) \/ Change(d)
    BY <1>0, <2>1 DEF Create, Lock, Recheck, Change, UnderWay, Goto, End, WriteTypeOK
  <2>2. CASE Reject(d) \/ Rollback(d) \/ Unlock(d) \/ Crash(d)
    BY <1>0, <2>2 DEF Reject, Rollback, Unlock, Crash, UnderWay, Goto, WriteTypeOK
  <2>3. CASE Look(d) \/ Activate(d) \/ Verify(d) \/ Settle(d)
    BY <1>0, <2>3 DEF Look, GivesUp, Activate, Verify, Settle, UnderWay, Goto, End, WriteTypeOK
  <2>4. CASE Reread(d) \/ MarkUndone(d) \/ Fail(d)
    BY <1>0, <2>4 DEF Reread, MarkUndone, Fail, UnderWay, Goto, End, WriteTypeOK
  <2> QED BY <1>7, <2>1, <2>2, <2>3, <2>4 DEF Locked, After
<1>8. ASSUME NEW c \in Calls, kind'[c] = "undo", UnderWay(c)' PROVE undoes'[c] \in Calls
  <2>1. ASSUME NEW d \in Calls, Start(d) PROVE undoes'[c] \in Calls
    BY <1>0, <1>8, <2>1 DEF Start, Goto, UnderWay, Typed, WriteTypeOK
  <2>2. CASE UNCHANGED <<kind, undoes>> /\ UnderWay(c)
    BY <1>8, <2>2 DEF Typed
  <2>3. CASE LockExpires \/ (\E p \in Editors : Edit(p)) \/ UNCHANGED writeVars
    BY <1>8, <2>3, <2>2 DEF LockExpires, Edit, writeVars, UnderWay
  <2> QED BY <1>6, <1>7, <1>8, <2>1, <2>2, <2>3 DEF WriteNext
<1>9. ASSUME NEW c \in Calls, at'[c] = "plan" PROVE kind'[c] = "undo"
  <2>1. CASE LockExpires \/ (\E p \in Editors : Edit(p)) \/ UNCHANGED writeVars
    BY <1>9, <2>1 DEF LockExpires, Edit, writeVars, Typed
  <2> QED BY <1>6, <1>7, <1>9, <2>1 DEF WriteNext, Typed
<1> QED BY <1>5, <1>8, <1>9 DEF Typed

-------------------------------------------------------------------------------
(***************************************************************************)
(* What is on record of a call, by where it is.  Nothing is before its     *)
(* entry is begun, and nothing is changed before that; what it is going to *)
(* replace is what it read, and what it read is what it expects.           *)
(* A create has the image of an object that was not there from before its  *)
(* POST until it is over.                                                  *)
(***************************************************************************)
Unrecorded(c) ==
  /\ entry[c].op = "none" /\ entry[c].outcome = "pending"
  /\ replaced[c] = None /\ overrun[c] = {}

Imaged(c, t) == entry[c].op # "none" /\ entry[c].before = t

PutOnNothing(c) == entry[c].op = "put" /\ entry[c].before = Absent

Approaching == {"record", "create", "lock", "recheck", "begin", "change"}

Landed == {"unlock", "verify", "look", "activate", "active", "settle", "reread", "mark"}

PlacedRight(c) ==
  /\ at[c] \in {"record", "create"} => Creates(c) /\ base[c] = Absent
  /\ at[c] \in {"recheck", "begin"} => ~Creates(c)
  /\ at[c] \in Approaching /\ seen[c] # None => ~absent[c] /\ base[c] = seen[c]
  /\ at[c] \in Approaching \cup {"read"} /\ absent[c] /\ Removes(c) => kind[c] = "undo"
  /\ at[c] \in {"reject", "rollback"} => Creates(c) /\ seen[c] = None
  /\ kind[c] = "write" => want[c] = c

RecordedRight(c) ==
  /\ at[c] \in {"idle", "resolve", "plan", "read", "record", "recheck", "begin"} => Unrecorded(c)
  /\ at[c] = "lock" /\ ~Creates(c) => Unrecorded(c)
  /\ at[c] = "create" => PutOnNothing(c) /\ replaced[c] = None
  /\ at[c] \in {"lock", "change"} /\ Creates(c) => PutOnNothing(c) /\ replaced[c] = Absent
  /\ at[c] \in {"reject", "rollback"} => PutOnNothing(c)
  /\ at[c] = "change" /\ ~Creates(c) => Imaged(c, base[c]) /\ replaced[c] = None
  /\ at[c] \in Landed => replaced[c] # None

Outcome(c) ==
  /\ replaced[c] # None => entry[c].op # "none" /\ (entry[c].before = replaced[c] \/ ToldBoth(c))
  /\ seen[c] # None /\ replaced[c] # None => replaced[c] = seen[c]
  /\ entry[c].outcome = "succeeded" => replaced[c] # None
  /\ overrun[c] # {} => PutOnNothing(c) /\ seen[c] = None

Facts(c) == PlacedRight(c) /\ RecordedRight(c) /\ Outcome(c)

(* While a call has the lock, the text it rechecked is still there. *)
Stable(c) ==
  at[c] \in {"begin", "change"} /\ enqueue = c /\ ~Creates(c) => Reads(c) = base[c]

(* Who is on record as having undone an entry has changed something. *)
UndoneRight(c) == entry[c].undoneBy # None => replaced[entry[c].undoneBy] # None

OnRecord == \A c \in Calls : Facts(c) /\ Stable(c) /\ UndoneRight(c)

(* A step leaves a call as it is, but for who has undone it. *)
Spared(c) ==
  /\ at'[c] = at[c] /\ kind'[c] = kind[c] /\ seen'[c] = seen[c] /\ absent'[c] = absent[c]
  /\ want'[c] = want[c] /\ base'[c] = base[c]
  /\ replaced'[c] = replaced[c] /\ overrun'[c] = overrun[c]
  /\ entry'[c].op = entry[c].op /\ entry'[c].before = entry[c].before
  /\ entry'[c].outcome = entry[c].outcome

LEMMA SparedFacts ==
  ASSUME NEW c \in Calls, Facts(c), Spared(c)
  PROVE  Facts(c)'
BY DEF Facts, Spared, PlacedRight, RecordedRight, Outcome, Unrecorded, Imaged,
       PutOnNothing, Creates, Removes, ToldBoth

LEMMA OnRecordInit == WriteInit => OnRecord
<1> SUFFICES ASSUME WriteInit, NEW c \in Calls PROVE Facts(c) /\ Stable(c) /\ UndoneRight(c)
  BY DEF OnRecord
<1>1. /\ at[c] \in {"idle", "done"} /\ entry[c] = NoEntry /\ replaced[c] = None /\ seen[c] = None
      /\ overrun[c] = {}
      /\ kind[c] = "write" => want[c] = c
  BY DEF WriteInit
<1>2. PlacedRight(c)
  BY <1>1 DEF PlacedRight, Approaching
<1>3. RecordedRight(c) /\ Outcome(c)
  BY <1>1 DEF RecordedRight, Outcome, Unrecorded, Landed, NoEntry
<1> QED
  BY <1>1, <1>2, <1>3 DEF Facts, Stable, UndoneRight, NoEntry

LEMMA SettledParts ==
  ASSUME WriteTypeOK, NEW c \in Calls, NEW o, SettledAs(c, o)
  PROVE  /\ \A d \in Calls : entry'[d].op = entry[d].op /\ entry'[d].before = entry[d].before
         /\ \A d \in Calls : entry'[d].after = entry[d].after /\ entry'[d].undoneBy = entry[d].undoneBy
         /\ \A d \in Calls \ {c} : entry'[d].outcome = entry[d].outcome
         /\ entry'[c].outcome \in {entry[c].outcome, o}
<1>1. /\ entry \in [Calls -> Entries]
      /\ entry' = entry \/ entry' = [entry EXCEPT ![c].outcome = o]
  BY DEF WriteTypeOK, SettledAs
<1> QED BY <1>1 DEF Entries

(* Each step of a call keeps its own facts, and spares the other calls. *)
Keeps(c) == Facts(c)' /\ \A d \in Calls \ {c} : Spared(d)

LEMMA BeforeKeeps ==
  ASSUME Typed, OnRecord, NEW c \in Calls, Before(c)
  PROVE  Keeps(c)
<1> USE WriteFlowAssumption DEF server, private, history
<1>0. WriteTypeOK /\ Facts(c)
  BY DEF Typed, OnRecord
<1>1. CASE See(c)
  <2>1. \A d \in Calls \ {c} : Spared(d)
    BY <1>0, <1>1 DEF See, Spared, WriteTypeOK
  <2>2. Facts(c)'
    BY <1>0, <1>1 DEF See, WriteTypeOK, Facts, PlacedRight, RecordedRight, Outcome, Unrecorded,
       Imaged, PutOnNothing, Creates, Removes, ToldBoth, Approaching, Landed
  <2> QED BY <2>1, <2>2 DEF Keeps
<1>2. CASE Start(c)
  <2>1. \A d \in Calls \ {c} : Spared(d)
    BY <1>0, <1>2 DEF Start, Goto, Spared, WriteTypeOK
  <2>2. Facts(c)'
    BY <1>0, <1>2 DEF Start, Goto, WriteTypeOK, Facts, PlacedRight, RecordedRight, Outcome, Unrecorded,
       Imaged, PutOnNothing, Creates, Removes, ToldBoth, Approaching, Landed
  <2> QED BY <2>1, <2>2 DEF Keeps
<1>3. CASE Resolve(c)
  <2>1. \A d \in Calls \ {c} : Spared(d)
    BY <1>0, <1>3 DEF Resolve, Goto, End, Spared, WriteTypeOK
  <2>2. Facts(c)'
    <3>1. /\ at[c] = "resolve" /\ at'[c] \in {"done", "plan", "read"}
          /\ at'[c] = "read" => kind[c] # "undo" /\ ~(kind[c] = "delete" /\ absent'[c])
      BY <1>0, <1>3 DEF Resolve, Goto, End, WriteTypeOK
    <3>2. UNCHANGED <<kind, seen, want, base, entry, replaced, overrun>>
      BY <1>3 DEF Resolve
    <3>3. kind[c] \in Kinds /\ c # Absent
      BY <1>0 DEF WriteTypeOK, Texts
    <3> QED BY <1>0, <3>1, <3>2, <3>3 DEF Facts, PlacedRight, RecordedRight, Outcome, Unrecorded,
       Imaged, PutOnNothing, Creates, Removes, ToldBoth, Approaching, Landed, Kinds
  <2> QED BY <2>1, <2>2 DEF Keeps
<1>4. CASE Plan(c)
  <2>1. \A d \in Calls \ {c} : Spared(d)
    BY <1>0, <1>4 DEF Plan, Goto, End, Spared, WriteTypeOK
  <2>2. Facts(c)'
    <3>1. at[c] = "plan" /\ at'[c] \in {"done", "read"} /\ kind[c] = "undo"
      BY <1>0, <1>4 DEF Plan, Goto, End, WriteTypeOK, Typed
    <3>2. UNCHANGED <<kind, seen, absent, base, entry, replaced, overrun>>
      BY <1>4 DEF Plan
    <3> QED BY <1>0, <3>1, <3>2 DEF Facts, PlacedRight, RecordedRight, Outcome, Unrecorded,
       Imaged, PutOnNothing, Creates, Removes, ToldBoth, Approaching, Landed
  <2> QED BY <2>1, <2>2 DEF Keeps
<1>5. CASE Read(c)
  <2>1. \A d \in Calls \ {c} : Spared(d)
    BY <1>0, <1>5 DEF Read, Goto, End, Spared, WriteTypeOK
  <2>2. Facts(c)'
    <3>1. /\ at[c] = "read" /\ base'[c] = Reads(c)
          /\ at'[c] = "done" \/ (~Refused(c) /\ at'[c] = IF Creates(c) THEN "record" ELSE "lock")
      BY <1>0, <1>5 DEF Read, Goto, End, WriteTypeOK
    <3>2. UNCHANGED <<kind, seen, absent, want, entry, replaced, overrun>>
      BY <1>5 DEF Read
    <3>3. seen[c] # None => seen[c] # Absent
      BY <1>0 DEF WriteTypeOK
    <3> QED BY <1>0, <3>1, <3>2, <3>3 DEF Facts, PlacedRight, RecordedRight, Outcome, Unrecorded,
       Imaged, PutOnNothing, Creates, Removes, ToldBoth, Approaching, Landed, Refused, Reads
  <2> QED BY <2>1, <2>2 DEF Keeps
<1>6. CASE Begin(c)
  <2>1. \A d \in Calls \ {c} : Spared(d)
    BY <1>0, <1>6 DEF Begin, Goto, End, Spared, WriteTypeOK
  <2>2. Facts(c)'
    <3>1. \/ at'[c] = "done" /\ entry' = entry
          \/ /\ entry'[c] = Entry(c)
             /\ \/ at[c] = "record" /\ at'[c] = "create"
                \/ at[c] = "begin" /\ at'[c] = "change"
      BY <1>0, <1>6 DEF Begin, Goto, End, WriteTypeOK
    <3>2. /\ UNCHANGED <<kind, seen, absent, want, base, replaced, overrun>>
          /\ at[c] \in {"record", "begin"}
      BY <1>6 DEF Begin
    <3> QED BY <1>0, <3>1, <3>2 DEF Facts, PlacedRight, RecordedRight, Outcome, Unrecorded,
       Imaged, PutOnNothing, Creates, Removes, ToldBoth, Approaching, Landed, Entry
  <2> QED BY <2>1, <2>2 DEF Keeps
<1> QED BY <1>1, <1>2, <1>3, <1>4, <1>5, <1>6 DEF Before

LEMMA LockedKeeps ==
  ASSUME Typed, OnRecord, NEW c \in Calls, Locked(c)
  PROVE  Keeps(c)
<1> USE WriteFlowAssumption DEF server, private, history
<1>0. WriteTypeOK /\ Facts(c) /\ Stable(c)
  BY DEF Typed, OnRecord
<1>1. CASE Create(c)
  <2>1. \A d \in Calls \ {c} : Spared(d)
    BY <1>0, <1>1 DEF Create, Goto, Spared, WriteTypeOK
  <2>2. Facts(c)'
    <3>1. /\ at[c] = "create"
          /\ \/ replaced'[c] = Absent /\ at'[c] \in {"lock", "failed"}
             \/ replaced' = replaced /\ at'[c] = "failed"
      BY <1>0, <1>1 DEF Create, Goto, WriteTypeOK
    <3>2. UNCHANGED <<kind, seen, absent, want, base, entry, overrun>>
      BY <1>1 DEF Create
    <3> QED BY <1>0, <3>1, <3>2 DEF Facts, PlacedRight, RecordedRight, Outcome, Unrecorded,
       Imaged, PutOnNothing, Creates, Removes, ToldBoth, Approaching, Landed, Contents
  <2> QED BY <2>1, <2>2 DEF Keeps
<1>2. CASE Lock(c) \/ Recheck(c) \/ Reject(c) \/ Unlock(c)
  <2>1. \A d \in Calls \ {c} : Spared(d)
    BY <1>0, <1>2 DEF Lock, Recheck, Reject, Unlock, Goto, End, Spared, WriteTypeOK
  <2>2. Facts(c)'
    <3>1. \/ at[c] = "lock" /\ at'[c] \in {IF Creates(c) THEN "change" ELSE "recheck", "failed", "done"}
          \/ at[c] = "recheck" /\ at'[c] \in {"begin", "done"}
          \/ at[c] = "unlock" /\ at'[c] = "look"
          \/ at[c] = "reject" /\ at'[c] = "rollback"
          \/ at'[c] \in {"failing", "failed"}
      BY <1>0, <1>2 DEF Lock, Recheck, Reject, Unlock, Goto, End, WriteTypeOK
    <3>2. UNCHANGED <<kind, seen, absent, want, base, entry, replaced, overrun>>
      BY <1>2 DEF Lock, Recheck, Reject, Unlock
    <3> QED BY <1>0, <3>1, <3>2 DEF Facts, PlacedRight, RecordedRight, Outcome, Unrecorded,
       Imaged, PutOnNothing, Creates, Removes, ToldBoth, Approaching, Landed
  <2> QED BY <2>1, <2>2 DEF Keeps
<1>3. CASE Change(c)
  <2>1. \A d \in Calls \ {c} : Spared(d)
    BY <1>0, <1>3 DEF Change, Lands, Overruns, Goto, Spared, WriteTypeOK
  <2>2. Facts(c)'
    <3>1. /\ at[c] = "change"
          /\ \/ /\ at'[c] \in {"verify", "unlock", "failing"} /\ enqueue = c
                /\ \/ Creates(c) /\ replaced'[c] = replaced[c]
                   \/ ~Creates(c) /\ replaced'[c] = content /\ overrun' = overrun
             \/ /\ replaced' = replaced /\ overrun' = overrun
                /\ at'[c] = IF Creates(c) THEN "reject" ELSE "failing"
      BY <1>0, <1>3 DEF Change, Lands, Goto, WriteTypeOK
    <3>2. UNCHANGED <<kind, seen, absent, want, base, entry>>
      BY <1>3 DEF Change
    <3>3. content \in Contents
      BY <1>0 DEF WriteTypeOK
    <3> QED BY <1>0, <3>1, <3>2, <3>3 DEF Facts, PlacedRight, RecordedRight, Outcome, Unrecorded,
       Imaged, PutOnNothing, Creates, Removes, ToldBoth, Approaching, Landed, Contents, Stable, Reads
  <2> QED BY <2>1, <2>2 DEF Keeps
<1>4. CASE Rollback(c)
  <2>1. \A d \in Calls \ {c} : Spared(d)
    BY <1>0, <1>4 DEF Rollback, Overruns, Goto, Spared, WriteTypeOK
  <2>2. Facts(c)'
    <3>1. at[c] = "rollback" /\ at'[c] = "failed"
      BY <1>0, <1>4 DEF Rollback, Goto, WriteTypeOK
    <3>2. UNCHANGED <<kind, seen, absent, want, base, entry, replaced>>
      BY <1>4 DEF Rollback
    <3> QED BY <1>0, <3>1, <3>2 DEF Facts, PlacedRight, RecordedRight, Outcome, Unrecorded,
       Imaged, PutOnNothing, Creates, Removes, ToldBoth, Approaching, Landed
  <2> QED BY <2>1, <2>2 DEF Keeps
<1> QED BY <1>1, <1>2, <1>3, <1>4 DEF Locked

LEMMA AfterKeeps ==
  ASSUME Typed, OnRecord, NEW c \in Calls, After(c) \/ Crash(c)
  PROVE  Keeps(c)
<1> USE WriteFlowAssumption DEF server, private, history
<1>0. WriteTypeOK /\ Facts(c)
  BY DEF Typed, OnRecord
<1>1. CASE Look(c) \/ Activate(c) \/ Crash(c)
  <2>1. \A d \in Calls \ {c} : Spared(d)
    BY <1>0, <1>1 DEF Look, Activate, Crash, GivesUp, Goto, End, Spared, WriteTypeOK
  <2>2. Facts(c)'
    <3>1. \/ at[c] \in Landed /\ at'[c] \in {"activate", "settle", "active", "done"}
          \/ at'[c] = "dead"
      BY <1>0, <1>1 DEF Look, Activate, Crash, GivesUp, Goto, End, WriteTypeOK, Landed
    <3>2. UNCHANGED <<kind, seen, absent, want, base, entry, replaced, overrun>>
      BY <1>1 DEF Look, Activate, Crash
    <3> QED BY <1>0, <3>1, <3>2 DEF Facts, PlacedRight, RecordedRight, Outcome, Unrecorded,
       Imaged, PutOnNothing, Creates, Removes, ToldBoth, Approaching, Landed
  <2> QED BY <2>1, <2>2 DEF Keeps
<1>2. CASE Verify(c) \/ Settle(c) \/ Fail(c)
  <2>1. \/ entry' = entry
        \/ SettledAs(c, "failed")
        \/ at[c] \in Landed /\ SettledAs(c, "succeeded")
    BY <1>2 DEF Verify, Settle, Fail, Landed
  <2>2. /\ \A d \in Calls : entry'[d].op = entry[d].op /\ entry'[d].before = entry[d].before
        /\ \A d \in Calls \ {c} : entry'[d].outcome = entry[d].outcome
        /\ entry'[c].outcome = "succeeded" => entry[c].outcome = "succeeded" \/ at[c] \in Landed
    BY <1>0, <2>1, SettledParts
  <2>3. /\ \A d \in Calls \ {c} : at'[d] = at[d]
        /\ \/ at[c] \in Landed /\ at'[c] \in {"settle", "mark", "reread", "done"}
           \/ at'[c] = "done"
    BY <1>0, <1>2 DEF Verify, Settle, Fail, Goto, End, WriteTypeOK, Landed
  <2>4. UNCHANGED <<kind, seen, absent, want, base, replaced, overrun>>
    BY <1>2 DEF Verify, Settle, Fail
  <2>5. \A d \in Calls \ {c} : Spared(d)
    BY <2>2, <2>3, <2>4 DEF Spared
  <2>6. Facts(c)'
    BY <1>0, <2>2, <2>3, <2>4 DEF Facts, PlacedRight, RecordedRight, Outcome, Unrecorded,
       Imaged, PutOnNothing, Creates, Removes, ToldBoth, Approaching, Landed
  <2> QED BY <2>5, <2>6 DEF Keeps
<1>3. CASE Reread(c) \/ MarkUndone(c)
  <2>1. /\ \A d \in Calls : entry'[d].op = entry[d].op /\ entry'[d].before = entry[d].before
        /\ \A d \in Calls \ {c} : entry'[d].outcome = entry[d].outcome
        /\ entry'[c].outcome \in {entry[c].outcome, "succeeded"}
    <3>1. \/ entry' = entry
          \/ \E t \in Contents : entry' = [entry EXCEPT ![c].outcome = "succeeded", ![c].after = t]
          \/ entry' = [entry EXCEPT ![undoes[c]].undoneBy = c]
      BY <1>0, <1>3 DEF Reread, MarkUndone, WriteTypeOK
    <3>2. entry \in [Calls -> Entries]
      BY <1>0 DEF WriteTypeOK
    <3> QED BY <3>1, <3>2 DEF Entries
  <2>2. at[c] \in Landed /\ at' = [at EXCEPT ![c] = "done"]
    BY <1>3 DEF Reread, MarkUndone, End, Goto, Landed
  <2>3. UNCHANGED <<kind, seen, absent, want, base, replaced, overrun>>
    BY <1>3 DEF Reread, MarkUndone
  <2>4. at \in [Calls -> Places]
    BY <1>0 DEF WriteTypeOK
  <2>5. \A d \in Calls \ {c} : Spared(d)
    BY <2>1, <2>2, <2>3, <2>4 DEF Spared
  <2>6. Facts(c)'
    BY <1>0, <2>1, <2>2, <2>3, <2>4 DEF Facts, PlacedRight, RecordedRight, Outcome, Unrecorded,
       Imaged, PutOnNothing, Creates, Removes, ToldBoth, Approaching, Landed
  <2> QED BY <2>5, <2>6 DEF Keeps
<1> QED BY <1>1, <1>2, <1>3 DEF After

(* What a step of one call does to the object, its lock and the entries. *)
Steps(c) == Before(c) \/ Locked(c) \/ After(c) \/ Crash(c)

LEMMA StepKeeps ==
  ASSUME Typed, OnRecord, NEW c \in Calls, Steps(c)
  PROVE  Keeps(c)
BY BeforeKeeps, LockedKeeps, AfterKeeps DEF Steps

LEMMA StepOnObject ==
  ASSUME WriteTypeOK, NEW c \in Calls, Steps(c)
  PROVE  /\ (content' = content /\ author' = author) \/ author' = c
         /\ enqueue' \in {enqueue, c, None}
         /\ enqueue \notin {c, None} => content' = content
<1> USE DEF server, private, history
<1>1. CASE Before(c)
  BY <1>1 DEF Before, See, Start, Resolve, Plan, Read, Begin, End, FreedBy
<1>2. CASE Create(c) \/ Rollback(c) \/ Change(c)
  BY <1>2 DEF Create, Rollback, Change, Lands
<1>3. CASE Lock(c) \/ Recheck(c) \/ Reject(c) \/ Unlock(c) \/ Crash(c)
  BY <1>3 DEF Lock, Recheck, Reject, Unlock, Crash, End, FreedBy
<1>4. CASE After(c)
  BY <1>4 DEF After, Look, Activate, GivesUp, Verify, Settle, Reread, MarkUndone, Fail, End, FreedBy
<1> QED BY <1>1, <1>2, <1>3, <1>4 DEF Steps, Locked

(* Who is about to change the object has just rechecked it, or begun an entry. *)
LEMMA StepToChange ==
  ASSUME WriteTypeOK, NEW c \in Calls, Steps(c), at'[c] \in {"begin", "change"}
  PROVE  (Lock(c) /\ Creates(c)) \/ Recheck(c) \/ (Begin(c) /\ at[c] = "begin")
<1> USE DEF Goto, End, WriteTypeOK
<1>1. CASE Before(c)
  BY <1>1 DEF Before, See, Start, Resolve, Plan, Read, Begin
<1>2. CASE Locked(c)
  BY <1>2 DEF Locked, Create, Lock, Recheck, Change, Reject, Rollback, Unlock
<1>3. CASE After(c)
  BY <1>3 DEF After, Look, Activate, GivesUp, Verify, Settle, Reread, MarkUndone, Fail
<1>4. CASE Crash(c)
  BY <1>4 DEF Crash
<1> QED BY <1>1, <1>2, <1>3, <1>4 DEF Steps

(* No step of another call moves the text under a lock. *)
LEMMA StepStable ==
  ASSUME Typed, OnRecord, NEW c \in Calls, Steps(c), NEW d \in Calls
  PROVE  Stable(d)'
<1> SUFFICES ASSUME at'[d] \in {"begin", "change"}, enqueue' = d, ~Creates(d)'
             PROVE  Reads(d)' = base'[d]
  BY DEF Stable
<1>0. WriteTypeOK /\ Stable(d) /\ Keeps(c) /\ d # None
  BY StepKeeps, WriteFlowAssumption DEF Typed, OnRecord, Contents, Texts
<1>1. CASE d # c
  <2>1. enqueue = d /\ content' = content
    BY <1>0, <1>1, StepOnObject
  <2> QED BY <1>0, <1>1, <2>1 DEF Keeps, Spared, Stable, Creates, Removes, Reads
<1>2. CASE d = c
  <2>1. UNCHANGED <<absent, want, base, content>>
    BY <1>0, <1>2, StepToChange DEF Lock, Recheck, Begin, server, private, history
  <2>2. CASE Recheck(c)
    BY <1>2, <2>1, <2>2, <1>0 DEF Recheck, Unchanged, Reads, End, Goto, WriteTypeOK
  <2>3. CASE Begin(c) /\ at[c] = "begin"
    <3>1. enqueue = c
      BY <1>0, <1>2, <2>3 DEF Begin, End, FreedBy
    <3> QED BY <1>0, <1>2, <2>1, <2>3, <3>1 DEF Stable, Reads, Creates, Removes
  <2>4. CASE Lock(c) /\ Creates(c)
    BY <1>2, <2>1, <2>4 DEF Creates, Removes
  <2> QED BY <1>0, <1>2, <2>2, <2>3, <2>4, StepToChange
<1> QED BY <1>1, <1>2

(* What was changed stays changed, and an entry begun stays begun. *)
LEMMA StepOnRecord ==
  ASSUME Typed, OnRecord, NEW c \in Calls, Steps(c)
  PROVE  /\ \A d \in Calls : replaced[d] # None => replaced'[d] # None
         /\ \A d \in Calls : entry[d].op # "none" => entry'[d].op # "none"
         /\ \A d \in Calls : entry'[d].undoneBy \in {entry[d].undoneBy, None}
                               \/ (at[c] = "mark" /\ entry'[d].undoneBy = c)
         /\ \A d \in Calls : entry[d].op # "none" => entry'[d].after \in {entry[d].after, content}
<1> USE WriteFlowAssumption DEF server, private, history
<1>0. WriteTypeOK /\ Facts(c) /\ entry \in [Calls -> Entries]
  BY DEF Typed, OnRecord, WriteTypeOK
<1>1. CASE entry' = entry /\ replaced' = replaced
  BY <1>1
<1>2. CASE Begin(c) /\ entry' # entry
  <2>1. /\ entry' = [entry EXCEPT ![c] = Entry(c)] /\ replaced' = replaced
        /\ entry[c].op = "none"
    BY <1>0, <1>2 DEF Begin, Facts, RecordedRight, Unrecorded
  <2> QED BY <1>0, <2>1 DEF Entry
<1>3. CASE (Create(c) \/ Change(c)) /\ entry' = entry
  <2>1. \A d \in Calls : replaced'[d] \in {replaced[d], Absent, content}
    BY <1>0, <1>3 DEF Create, Change, Lands, WriteTypeOK
  <2>2. {Absent, content} \subseteq Contents
    BY <1>0 DEF WriteTypeOK, Contents
  <2> QED BY <1>3, <2>1, <2>2
<1>4. CASE \E o \in Outcomes : SettledAs(c, o) /\ replaced' = replaced
  BY <1>0, <1>4, SettledParts
<1>5. CASE Reread(c) \/ MarkUndone(c)
  <2>1. \/ entry' = entry
        \/ entry' = [entry EXCEPT ![c].outcome = "succeeded", ![c].after = content]
        \/ at[c] = "mark" /\ entry' = [entry EXCEPT ![undoes[c]].undoneBy = c]
    BY <1>5 DEF Reread, MarkUndone
  <2>2. replaced' = replaced
    BY <1>5 DEF Reread, MarkUndone
  <2> QED BY <1>0, <2>1, <2>2 DEF Entries
<1>6. CASE Before(c)
  <2>1. replaced' = replaced /\ (entry' = entry \/ Begin(c))
    BY <1>6 DEF Before, See, Start, Resolve, Plan, Read, Begin
  <2> QED BY <1>1, <1>2, <2>1
<1>7. CASE Locked(c) \/ Crash(c)
  <2>1. entry' = entry /\ (replaced' = replaced \/ Create(c) \/ Change(c))
    BY <1>7 DEF Locked, Create, Lock, Recheck, Change, Reject, Rollback, Unlock, Crash
  <2> QED BY <1>1, <1>3, <2>1
<1>8. CASE After(c)
  <2>1. CASE Look(c) \/ Activate(c)
    BY <1>1, <2>1 DEF Look, Activate
  <2>2. CASE Verify(c) \/ Settle(c) \/ Fail(c)
    BY <1>1, <1>4, <2>2 DEF Verify, Settle, Fail, Outcomes
  <2> QED BY <1>5, <1>8, <2>1, <2>2 DEF After
<1> QED BY <1>6, <1>7, <1>8 DEF Steps

(* What no call does leaves the calls alone, and no lock on a changed object. *)
StillCalls == UNCHANGED <<kind, seen, absent, want, base, undoes, at, entry, replaced, overrun, gate>>

NobodyLocks == enqueue' = None \/ (enqueue' = enqueue /\ content' = content)

LEMMA StepElsewhere ==
  ASSUME LockExpires \/ (\E p \in Editors : Edit(p)) \/ UNCHANGED writeVars
  PROVE  /\ StillCalls /\ NobodyLocks
         /\ (content' = content /\ author' = author) \/ author' \in Editors
<1>1. CASE LockExpires
  BY <1>1 DEF LockExpires, StillCalls, NobodyLocks, private, server, history
<1>2. ASSUME NEW p \in Editors, Edit(p)
      PROVE  StillCalls /\ NobodyLocks /\ author' \in Editors
  BY <1>2 DEF Edit, StillCalls, NobodyLocks, private, history
<1>3. CASE UNCHANGED writeVars
  BY <1>3 DEF writeVars, StillCalls, NobodyLocks, private, server, history
<1> QED BY <1>1, <1>2, <1>3

LEMMA OnRecordNext ==
  ASSUME Typed, OnRecord, [WriteNext]_writeVars
  PROVE  OnRecord'
<1>1. ASSUME NEW c \in Calls, Steps(c) PROVE OnRecord'
  <2>1. ASSUME NEW d \in Calls PROVE Facts(d)'
    BY <1>1, StepKeeps, SparedFacts DEF Keeps, OnRecord
  <2>2. ASSUME NEW d \in Calls PROVE UndoneRight(d)'
    <3>1. at[c] = "mark" => replaced[c] # None
      BY DEF OnRecord, Facts, RecordedRight, Landed
    <3>2. entry[d].undoneBy \in Calls \cup {None}
      BY DEF Typed, WriteTypeOK, Entries
    <3>3. UndoneRight(d)
      BY DEF OnRecord
    <3> QED BY <1>1, <3>1, <3>2, <3>3, StepOnRecord DEF UndoneRight
  <2> QED BY <1>1, <2>1, <2>2, StepStable DEF OnRecord
<1>2. ASSUME StillCalls, NobodyLocks PROVE OnRecord'
  <2>1. ASSUME NEW d \in Calls PROVE Facts(d)' /\ UndoneRight(d)'
    BY <1>2, SparedFacts DEF OnRecord, Spared, UndoneRight, StillCalls
  <2>2. ASSUME NEW d \in Calls PROVE Stable(d)'
    <3>1. d # None /\ Stable(d)
      BY WriteFlowAssumption DEF Contents, Texts, OnRecord
    <3> QED BY <1>2, <3>1 DEF Stable, Creates, Removes, Reads, StillCalls, NobodyLocks
  <2> QED BY <2>1, <2>2 DEF OnRecord
<1>3. CASE LockExpires \/ (\E p \in Editors : Edit(p)) \/ UNCHANGED writeVars
  BY <1>2, <1>3, StepElsewhere
<1> QED BY <1>1, <1>3 DEF WriteNext, Steps

LEMMA RecordAlways == WriteSpec => [](Typed /\ OnRecord)
<1>1. Typed /\ OnRecord /\ [WriteNext]_writeVars => (Typed /\ OnRecord)'
  BY TypedNext, OnRecordNext
<1> QED BY <1>1, TypedInit, OnRecordInit, PTL DEF WriteSpec

-------------------------------------------------------------------------------
(* A call in the gate is alone there until it ends or is killed. *)
InGate(c) == c \in Gated /\ UnderWay(c) /\ at[c] # "dead"

GateHeld == \A c \in Calls : InGate(c) => gate = c

(* What it has put there is replaced only from outside the gate ...        *)
HasPut(c) ==
  \/ at[c] \in {"reject", "rollback", "unlock", "look", "activate"}
  \/ at[c] \in {"lock", "change"} /\ Creates(c)

AuthorKnown(c) == c \in Gated /\ HasPut(c) => author \in {c} \cup Outside

(* ... as is what its create overruns; ...                                 *)
OverrunKnown(c) == c \in Gated => overrun[c] \subseteq Outside

(* ... and so is what an undo has planned to take back.                    *)
PlanKnown(c) ==
  /\ c \in Gated /\ kind[c] = "undo" /\ ~Creates(c)
  /\ at[c] \in {"read", "lock", "recheck", "begin", "change"}
  => content = entry[undoes[c]].after \/ author \in Outside

(* An undo is of an entry that another call has begun. *)
UndoesAnother(c) ==
  UnderWay(c) /\ kind[c] = "undo" => undoes[c] # c /\ entry[undoes[c]].op # "none"

Guarded ==
  /\ GateHeld
  /\ \A c \in Calls : AuthorKnown(c) /\ OverrunKnown(c) /\ PlanKnown(c) /\ UndoesAnother(c)

LEMMA GuardedInit == WriteInit => Guarded
BY DEF WriteInit, Guarded, GateHeld, InGate, AuthorKnown, HasPut, OverrunKnown, PlanKnown,
       UndoesAnother, UnderWay

(* Who steps: a call on its way, or one that is about to start. *)
LEMMA StepInGate ==
  ASSUME WriteTypeOK, NEW c \in Calls, Steps(c)
  PROVE  /\ at[c] \notin {"done", "dead"}
         /\ at[c] = "idle" => See(c) \/ Start(c)
         /\ c \in Gated /\ Start(c) => gate = None /\ gate' = c
         /\ ~Start(c) => gate' = gate \/ (gate = c /\ ~InGate(c)')
         /\ c \notin Gated => gate' = gate
<1>0. c # None /\ gate \in Gated \cup {None} /\ at \in [Calls -> Places]
  BY WriteFlowAssumption DEF WriteTypeOK, Contents, Texts
<1>1. CASE See(c)
  <2>1. ~Start(c)
    BY <1>0, <1>1 DEF See, Start, Goto
  <2> QED BY <1>1, <2>1 DEF See
<1>2. CASE Start(c)
  BY <1>2 DEF Start, EnterGate
<1>3. ASSUME at[c] \notin {"idle", "done", "dead"}, gate' = gate \/ End(c) \/ Crash(c)
      PROVE  /\ gate' = gate \/ (gate = c /\ ~InGate(c)')
             /\ c \notin Gated => gate' = gate
             /\ ~Start(c)
  <2>1. ~Start(c)
    BY <1>3 DEF Start
  <2>2. CASE gate' # gate
    <3>1. gate' = FreedBy(gate, c) /\ at'[c] \in {"done", "dead"}
      BY <1>0, <1>3, <2>2 DEF End, Crash, Goto
    <3> QED BY <1>0, <2>1, <2>2, <3>1 DEF FreedBy, InGate, UnderWay
  <2> QED BY <2>1, <2>2
<1>4. CASE Resolve(c) \/ Plan(c) \/ Read(c) \/ Begin(c)
  BY <1>3, <1>4 DEF Resolve, Plan, Read, Begin
<1>5. CASE Locked(c)
  BY <1>3, <1>5 DEF Locked, Create, Lock, Recheck, Change, Reject, Rollback, Unlock
<1>6. CASE Look(c) \/ Activate(c)
  BY <1>3, <1>6 DEF Look, Activate, GivesUp
<1>7. CASE Verify(c) \/ Settle(c) \/ Reread(c) \/ MarkUndone(c) \/ Fail(c)
  BY <1>3, <1>7 DEF Verify, Settle, Reread, MarkUndone, Fail
<1>8. CASE Crash(c)
  BY <1>3, <1>8 DEF Crash
<1> QED BY <1>1, <1>2, <1>4, <1>5, <1>6, <1>7, <1>8 DEF Steps, Before, After

(* A step of one call leaves the other calls where they are. *)
LEMMA StepElsewhereIsSpared ==
  ASSUME WriteTypeOK, NEW c \in Calls, Steps(c), NEW d \in Calls, d # c
  PROVE  at'[d] = at[d] /\ kind'[d] = kind[d] /\ undoes'[d] = undoes[d]
<1> USE DEF Goto, End, WriteTypeOK, private
<1>1. CASE Before(c)
  BY <1>1 DEF Before, See, Start, Resolve, Plan, Read, Begin
<1>2. CASE Locked(c)
  BY <1>2 DEF Locked, Create, Lock, Recheck, Change, Reject, Rollback, Unlock
<1>3. CASE After(c)
  BY <1>3 DEF After, Look, Activate, GivesUp, Verify, Settle, Reread, MarkUndone, Fail
<1>4. CASE Crash(c)
  BY <1>4 DEF Crash
<1> QED BY <1>1, <1>2, <1>3, <1>4 DEF Steps

(* Where a call has come from, when it is where the gate matters. *)
LEMMA StepToLanded ==
  ASSUME Typed, OnRecord, NEW c \in Calls, Steps(c), HasPut(c)'
  PROVE  author' = c \/ (HasPut(c) /\ author' = author)
<1>0. WriteTypeOK /\ Facts(c)
  BY DEF Typed, OnRecord
<1> USE <1>0 DEF Goto, End, WriteTypeOK, server, private, HasPut, Creates, Removes
<1>1. CASE Before(c)
  BY <1>1 DEF Before, See, Start, Resolve, Plan, Read, Begin, Facts, PlacedRight
<1>2. CASE Locked(c)
  BY <1>2 DEF Locked, Create, Lock, Recheck, Change, Lands, Reject, Rollback, Unlock
<1>3. CASE After(c)
  BY <1>3 DEF After, Look, Activate, GivesUp, Verify, Settle, Reread, MarkUndone, Fail
<1>4. CASE Crash(c)
  BY <1>4 DEF Crash
<1> QED BY <1>1, <1>2, <1>3, <1>4 DEF Steps

(* Only what a call has put there itself can be overrun by it. *)
LEMMA StepOverruns ==
  ASSUME Typed, OnRecord, NEW c \in Calls, Steps(c)
  PROVE  overrun'[c] = overrun[c] \/ (HasPut(c) /\ overrun'[c] = overrun[c] \cup ({author} \ {c}))
<1>0. WriteTypeOK
  BY DEF Typed
<1> USE <1>0 DEF WriteTypeOK, history, HasPut
<1>1. CASE Before(c)
  BY <1>1 DEF Before, See, Start, Resolve, Plan, Read, Begin
<1>2. CASE Locked(c)
  BY <1>2 DEF Locked, Create, Lock, Recheck, Change, Lands, Overruns, Reject, Rollback, Unlock
<1>3. CASE After(c)
  BY <1>3 DEF After, Look, Activate, Verify, Settle, Reread, MarkUndone, Fail
<1>4. CASE Crash(c)
  BY <1>4 DEF Crash
<1> QED BY <1>1, <1>2, <1>3, <1>4 DEF Steps

(* A call that runs after a step other than its start ran before. *)
LEMMA StepRunsOn ==
  ASSUME WriteTypeOK, NEW c \in Calls, Steps(c)
  PROVE  /\ kind' = kind
         /\ ~Start(c) /\ at'[c] \notin {"idle", "done"} => undoes' = undoes /\ at[c] # "idle"
<1> USE DEF Goto, End, WriteTypeOK, private
<1>1. CASE Before(c)
  BY <1>1 DEF Before, See, Start, Resolve, Plan, Read, Begin
<1>2. CASE Locked(c)
  BY <1>2 DEF Locked, Create, Lock, Recheck, Change, Reject, Rollback, Unlock
<1>3. CASE After(c)
  BY <1>3 DEF After, Look, Activate, GivesUp, Verify, Settle, Reread, MarkUndone, Fail
<1>4. CASE Crash(c)
  BY <1>4 DEF Crash
<1> QED BY <1>1, <1>2, <1>3, <1>4 DEF Steps

(* A change that is on its way replaces a text by landing. *)
LEMMA StepFromChange ==
  ASSUME WriteTypeOK, NEW c \in Calls, Steps(c), at[c] = "change", replaced'[c] # replaced[c]
  PROVE  ~Creates(c)
<1> USE DEF history
<1>1. CASE Before(c)
  BY <1>1 DEF Before, See, Start, Resolve, Plan, Read, Begin
<1>2. CASE Locked(c)
  BY <1>2 DEF Locked, Create, Lock, Recheck, Change, Lands, Reject, Rollback, Unlock, WriteTypeOK
<1>3. CASE After(c)
  BY <1>3 DEF After, Look, Activate, Verify, Settle, Reread, MarkUndone, Fail
<1>4. CASE Crash(c)
  BY <1>4 DEF Crash
<1> QED BY <1>1, <1>2, <1>3, <1>4 DEF Steps

(* Nor does a call on its way to its change forget what it is for. *)
LEMMA StepToPlanned ==
  ASSUME Typed, OnRecord, NEW c \in Calls, UndoesAnother(c), Steps(c),
         at'[c] \in {"read", "lock", "recheck", "begin", "change"}, kind[c] = "undo", ~Creates(c)'
  PROVE  /\ content' = content /\ author' = author
         /\ undoes'[c] = undoes[c] /\ entry'[undoes[c]] = entry[undoes[c]]
         /\ \/ at[c] \in {"read", "lock", "recheck", "begin"} /\ ~Creates(c)
            \/ content = entry[undoes[c]].after
<1> DEFINE To == {"read", "lock", "recheck", "begin", "change"}
<1> USE DEF server, private, history
<1>0. WriteTypeOK /\ Facts(c)
  BY DEF Typed, OnRecord
<1>1. CASE Plan(c)
  <2>1. at'[c] \in To => ~Drifted(entry[undoes[c]]) /\ ~Undone(entry[undoes[c]])
    BY <1>0, <1>1 DEF Plan, End, Goto, WriteTypeOK
  <2> QED BY <1>1, <2>1 DEF Plan, Drifted, Undone
<1>2. CASE Read(c)
  <2>1. UNCHANGED <<content, author, absent, want, undoes, entry>> /\ at[c] = "read"
    BY <1>2 DEF Read
  <2> QED BY <2>1 DEF Creates, Removes
<1>3. CASE Lock(c) \/ Recheck(c)
  <2>1. UNCHANGED <<content, author, absent, want, undoes, entry>> /\ at[c] \in {"lock", "recheck"}
    BY <1>3 DEF Lock, Recheck
  <2> QED BY <2>1 DEF Creates, Removes
<1>4. CASE Begin(c)
  <2>1. UNCHANGED <<content, author, absent, want, undoes>> /\ at[c] = "begin"
    BY <1>0, <1>4 DEF Begin, End, Goto, WriteTypeOK
  <2>2. entry'[undoes[c]] = entry[undoes[c]]
    <3>1. undoes[c] # c /\ undoes[c] \in Calls
      BY <2>1 DEF UndoesAnother, UnderWay, Typed
    <3> QED BY <1>0, <1>4, <3>1 DEF Begin, WriteTypeOK
  <2> QED BY <2>1, <2>2 DEF Creates, Removes
<1>5. CASE Create(c)
  BY <1>0, <1>5 DEF Create, Goto, WriteTypeOK, Facts, PlacedRight, Creates, Removes
<1>6. CASE See(c) \/ Start(c) \/ Resolve(c)
  BY <1>0, <1>6 DEF See, Start, Resolve, Goto, End, WriteTypeOK
<1>7. CASE Change(c) \/ Reject(c) \/ Rollback(c) \/ Unlock(c)
  BY <1>0, <1>7 DEF Change, Reject, Rollback, Unlock, Goto, WriteTypeOK
<1>8. CASE After(c) \/ Crash(c)
  <2> USE DEF Goto, End, WriteTypeOK
  <2>1. CASE Crash(c)
    BY <1>0, <2>1 DEF Crash
  <2>2. CASE After(c)
    BY <1>0, <2>2 DEF After, Look, Activate, GivesUp, Verify, Settle, Reread, MarkUndone, Fail
  <2> QED BY <1>8, <2>1, <2>2
<1> QED BY <1>1, <1>2, <1>3, <1>4, <1>5, <1>6, <1>7, <1>8 DEF Steps, Before, Locked

(* The other calls of the gate have no request to make meanwhile. *)
LEMMA OthersWait ==
  ASSUME Typed, Guarded, NEW c \in Calls, InGate(c), NEW d \in Gated, d # c, Steps(d)
  PROVE  See(d)
<1>0. WriteTypeOK /\ d \in Calls /\ gate = c /\ c # None
  BY WriteFlowAssumption DEF Typed, Guarded, GateHeld, Contents, Texts
<1>1. ~InGate(d)
  BY <1>0 DEF Guarded, GateHeld
<1>2. at[d] = "idle"
  BY <1>0, <1>1, StepInGate DEF InGate, UnderWay
<1> QED BY <1>0, <1>2, StepInGate

LEMMA HeldNext ==
  ASSUME Typed, Guarded, [WriteNext]_writeVars
  PROVE  GateHeld'
<1>0. WriteTypeOK
  BY DEF Typed
<1>1. ASSUME NEW c \in Calls, Steps(c), NEW d \in Calls, InGate(d)' PROVE gate' = d
  <2>0. c \in Calls /\ kind \in [Calls -> Kinds] /\ at \in [Calls -> Places]
    BY <1>0 DEF WriteTypeOK
  <2>1. CASE d # c
    <3>1. InGate(d)
      <4>1. at'[d] = at[d]
        BY <1>0, <1>1, <2>1, StepElsewhereIsSpared
      <4> QED BY <1>1, <4>1 DEF InGate, UnderWay
    <3>2. gate = d /\ d # None
      BY <3>1, WriteFlowAssumption DEF Guarded, GateHeld, Contents, Texts
    <3> QED BY <1>0, <1>1, <2>1, <3>2, StepInGate DEF Start, EnterGate
  <2>2. CASE d = c
    <3>1. CASE Start(c)
      BY <1>0, <1>1, <2>2, <3>1, StepInGate DEF InGate
    <3>2. CASE ~Start(c)
      <4>1. at[c] # "idle"
        BY <1>0, <1>1, <2>2, <3>2, StepInGate DEF See, InGate, UnderWay
      <4>2. InGate(c)
        BY <1>0, <1>1, <2>2, <4>1, StepInGate DEF InGate, UnderWay
      <4>3. gate = c
        BY <4>2 DEF Guarded, GateHeld
      <4> QED BY <1>0, <1>1, <2>2, <3>2, <4>3, StepInGate
    <3> QED BY <3>1, <3>2
  <2> QED BY <2>1, <2>2
<1>2. CASE LockExpires \/ (\E p \in Editors : Edit(p)) \/ UNCHANGED writeVars
  BY <1>2, StepElsewhere DEF StillCalls, Guarded, GateHeld, InGate, UnderWay
<1>3. CASE \E c \in Calls : Steps(c)
  BY <1>1, <1>3 DEF GateHeld
<1> QED BY <1>2, <1>3 DEF WriteNext, Steps

(* What the others can do to a call in the gate, they do from outside. *)
Meddles(c) ==
  \/ content' = content /\ author' = author
  \/ author' \in Outside

LEMMA StepOfOthers ==
  ASSUME Typed, OnRecord, Guarded, NEW c \in Calls, InGate(c), NEW d \in Calls, d # c, Steps(d)
  PROVE  Meddles(c)
<1>1. CASE d \in Gated
  BY <1>1, OthersWait DEF See, server, Meddles
<1>2. CASE d \notin Gated
  BY <1>2, StepOnObject DEF Meddles, Outside, Typed
<1> QED BY <1>1, <1>2

LEMMA UndoesAnotherNext ==
  ASSUME Typed, OnRecord, Guarded, NEW d \in Calls, Steps(d), NEW c \in Calls
  PROVE  UndoesAnother(c)'
<1> SUFFICES ASSUME UnderWay(c)', kind'[c] = "undo"
             PROVE  undoes'[c] # c /\ entry'[undoes'[c]].op # "none"
  BY DEF UndoesAnother
<1>0. WriteTypeOK
  BY DEF Typed
<1>1. CASE c # d \/ ~Start(d)
  <2>1. at[c] \notin {"idle", "done"} /\ kind[c] = "undo" /\ undoes'[c] = undoes[c]
    BY <1>0, <1>1, StepElsewhereIsSpared, StepRunsOn, StepInGate DEF UnderWay
  <2>2. undoes[c] \in Calls /\ undoes[c] # c /\ entry[undoes[c]].op # "none"
    BY <2>1 DEF Guarded, UndoesAnother, UnderWay, Typed
  <2> QED BY <2>1, <2>2, StepOnRecord
<1>2. CASE c = d /\ Start(d)
  <2>1. PICK e \in Calls : Undoable(entry[e]) /\ undoes' = [undoes EXCEPT ![c] = e]
    BY <1>2 DEF Start
  <2>2. e # c
    BY <1>2, <2>1 DEF OnRecord, Facts, RecordedRight, Unrecorded, Undoable, Start
  <2>3. undoes'[c] = e /\ entry' = entry
    BY <1>0, <1>2, <2>1 DEF Start, WriteTypeOK
  <2> QED BY <2>1, <2>2, <2>3 DEF Undoable
<1> QED BY <1>1, <1>2

LEMMA AuthorKnownNext ==
  ASSUME Typed, OnRecord, Guarded, NEW d \in Calls, Steps(d), NEW c \in Calls
  PROVE  AuthorKnown(c)' /\ OverrunKnown(c)'
<1>0. WriteTypeOK /\ AuthorKnown(c) /\ OverrunKnown(c)
  BY DEF Typed, Guarded
<1>1. ASSUME c \in Gated, HasPut(c)' PROVE author' \in {c} \cup Outside
  <2>1. CASE c = d
    BY <1>0, <1>1, <2>1, StepToLanded DEF AuthorKnown
  <2>2. CASE c # d
    <3>1. Spared(c)
      BY <2>2, StepKeeps DEF Keeps
    <3>2. HasPut(c)
      BY <1>1, <3>1 DEF Spared, HasPut, Creates, Removes
    <3>3. InGate(c)
      BY <1>1, <3>2 DEF InGate, UnderWay, HasPut
    <3> QED BY <1>0, <1>1, <2>2, <3>2, <3>3, StepOfOthers DEF Meddles, AuthorKnown
  <2> QED BY <2>1, <2>2
<1>2. ASSUME c \in Gated PROVE overrun'[c] \subseteq Outside
  <2>1. CASE c = d
    BY <1>0, <1>2, <2>1, StepOverruns DEF AuthorKnown, OverrunKnown
  <2>2. CASE c # d
    BY <1>0, <1>2, <2>2, StepKeeps DEF Keeps, Spared, OverrunKnown
  <2> QED BY <2>1, <2>2
<1> QED BY <1>1, <1>2 DEF AuthorKnown, OverrunKnown, Outside

LEMMA PlanKnownNext ==
  ASSUME Typed, OnRecord, Guarded, NEW d \in Calls, Steps(d), NEW c \in Calls
  PROVE  PlanKnown(c)'
<1> DEFINE To == {"read", "lock", "recheck", "begin", "change"}
<1> SUFFICES ASSUME c \in Gated, kind'[c] = "undo", ~Creates(c)', at'[c] \in To
             PROVE  content' = entry'[undoes'[c]].after \/ author' \in Outside
  BY DEF PlanKnown, Outside
<1>0. WriteTypeOK /\ PlanKnown(c) /\ UndoesAnother(c)
  BY DEF Typed, Guarded
<1>1. CASE c = d
  <2>1. kind[c] = "undo"
    BY <1>0, <1>1, StepRunsOn
  <2> QED BY <1>0, <1>1, <2>1, StepToPlanned DEF PlanKnown
<1>2. CASE c # d
  <2>1. at'[c] = at[c] /\ kind[c] = "undo" /\ undoes'[c] = undoes[c] /\ InGate(c) /\ UnderWay(c)
    BY <1>0, <1>2, StepElsewhereIsSpared DEF InGate, UnderWay
  <2>2. ~Creates(c)
    BY <1>2, StepKeeps DEF Keeps, Spared, Creates, Removes
  <2>3. content = entry[undoes[c]].after \/ author \in Outside
    BY <1>0, <2>1, <2>2 DEF PlanKnown
  <2>4. entry'[undoes[c]].after \in {entry[undoes[c]].after, content}
    <3>1. undoes[c] \in Calls /\ entry[undoes[c]].op # "none"
      BY <1>0, <2>1 DEF UndoesAnother, Typed
    <3> QED BY <3>1, StepOnRecord
  <2>5. Meddles(c)
    BY <1>2, <2>1, StepOfOthers
  <2> QED BY <2>1, <2>3, <2>4, <2>5 DEF Meddles
<1> QED BY <1>1, <1>2

LEMMA GuardedNext ==
  ASSUME Typed, OnRecord, Guarded, [WriteNext]_writeVars
  PROVE  Guarded'
<1>1. CASE \E c \in Calls : Steps(c)
  BY <1>1, HeldNext, AuthorKnownNext, PlanKnownNext, UndoesAnotherNext DEF Guarded
<1>2. CASE LockExpires \/ (\E p \in Editors : Edit(p)) \/ UNCHANGED writeVars
  <2> SUFFICES ASSUME NEW c \in Calls PROVE (AuthorKnown(c) /\ OverrunKnown(c) /\ PlanKnown(c) /\ UndoesAnother(c))'
    BY HeldNext DEF Guarded
  <2>1. StillCalls /\ Meddles(c)
    BY <1>2, StepElsewhere DEF Meddles, Outside
  <2> QED BY <2>1 DEF Guarded, StillCalls, Meddles, AuthorKnown, HasPut, OverrunKnown, PlanKnown,
                      UndoesAnother, UnderWay, Creates, Removes, Outside
<1> QED BY <1>1, <1>2 DEF WriteNext, Steps

LEMMA GuardedAlways == WriteSpec => [](Typed /\ OnRecord /\ Guarded)
<1>1. Typed /\ OnRecord /\ Guarded /\ [WriteNext]_writeVars => (Typed /\ OnRecord /\ Guarded)'
  BY TypedNext, OnRecordNext, GuardedNext
<1> QED BY <1>1, TypedInit, OnRecordInit, GuardedInit, PTL DEF WriteSpec

(* The journal tells the truth about every change, whoever makes it and    *)
(* however it ends: the image kept of an object is what the change         *)
(* replaced, but for an undo's delete that SAP told both that the object   *)
(* is gone and what is in it; only a create removes a text of which there  *)
(* is no image, one that others put after its POST, and a gated create     *)
(* only what came from outside the gate; an expected text is what was      *)
(* replaced; and nothing is on record as done or undone that did not       *)
(* change the object.                                                      *)
THEOREM ChangesStayOnRecord == WriteSpec => []ChangesAreOnRecord
<1>1. Typed /\ OnRecord /\ Guarded => ChangesAreOnRecord
  BY DEF Typed, OnRecord, Guarded, OverrunKnown, ChangesAreOnRecord, Facts, Outcome, UndoneRight,
         PutOnNothing, ImageIsExact, OnlyCreatesOverrun, ExpectedIsHonoured, RecordedIsDone
<1> QED BY <1>1, GuardedAlways, PTL

(* The gate spans a call from its first read to its activation: what a     *)
(* gated write activates is its own text, and what an undo takes back is   *)
(* what the undone call left, unless an editor or an ungated call has      *)
(* changed the object behind the gate's back.                              *)
THEOREM GateSpansTheWholeCall == WriteSpec => GateSpansTheCall
<1> DEFINE Spans(c) ==
      /\ Publishes(c) => author \in {c} \cup Outside
      /\ TakesBack(c) => content = entry[undoes[c]].after \/ author \in Outside
<1>1. ASSUME Typed, OnRecord, Guarded, [WriteNext]_writeVars, NEW c \in Gated PROVE Spans(c)
  <2>0. c \in Calls /\ AuthorKnown(c) /\ PlanKnown(c)
    BY <1>1, WriteFlowAssumption DEF Guarded
  <2>1. Publishes(c) => author \in {c} \cup Outside
    BY <2>0 DEF Publishes, AuthorKnown, HasPut
  <2>2. ASSUME TakesBack(c) PROVE ~Creates(c)
    <3>1. CASE \E d \in Calls : Steps(d)
      <4>1. PICK d \in Calls : Steps(d)
        BY <3>1
      <4>2. d = c
        BY <1>1, <2>0, <2>2, <4>1, StepKeeps DEF Keeps, Spared, TakesBack
      <4> QED BY <1>1, <2>0, <2>2, <4>1, <4>2, StepFromChange DEF TakesBack, Typed
    <3>2. CASE LockExpires \/ (\E p \in Editors : Edit(p)) \/ UNCHANGED writeVars
      BY <2>2, <3>2, StepElsewhere DEF TakesBack, StillCalls
    <3> QED BY <1>1, <3>1, <3>2 DEF WriteNext, Steps
  <2> QED BY <2>0, <2>1, <2>2 DEF PlanKnown, TakesBack
<1>2. Typed /\ OnRecord /\ Guarded /\ [WriteNext]_writeVars
        => [\A c \in Gated : Spans(c)]_writeVars
  BY <1>1
<1> QED BY <1>2, GuardedAlways, PTL DEF WriteSpec, GateSpansTheCall

=============================================================================
