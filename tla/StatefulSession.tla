----------------------------- MODULE StatefulSession -----------------------------
(***************************************************************************)
(* One window of withStatefulSession() (src/src/adt/connection.ts) and its *)
(* ledger of ADT locks (StatefulSession, src/src/adt/session.ts), from the *)
(* first LOCK to the end of the window, with a shutdown signal that may    *)
(* come at any moment and release the same locks from outside.             *)
(*                                                                         *)
(* An ADT lock is an enqueue of the ABAP session.  It goes when an UNLOCK  *)
(* with its handle is processed, when its object is deleted or when the    *)
(* session ends, and not before: what the window does not release stays    *)
(* locked for everybody.  SAP processes a request and its answer may be    *)
(* lost; an UNLOCK answers 200 whatever the handle.                        *)
(*                                                                         *)
(* The session mutex lets one request on the wire, also after shutdown()   *)
(* has taken the hold away from the window.                                *)
(***************************************************************************)
EXTENDS Integers

CONSTANTS Objects,    \* the object URIs, after objectUriOf()
          NoObject,
          Attempts,   \* 1 + unlockRetries
          MaxCalls    \* bound: calls fn makes on the session

ASSUME ObjectsAssumption == NoObject \notin Objects
ASSUME BoundsAssumption == Attempts \in Nat \ {0} /\ MaxCalls \in Nat

Sweepers == {"window", "shutdown"}    \* who runs unlockAll()
NoHandle == 0

VARIABLES
  stage,      \* the window: fn runs, unlockAll() runs, the session is dropped
  fn,         \* the call fn awaits, and how many it has made
  held,       \* the ledger's keys
  handle,     \* the handle of each ledger entry
  release,    \* inFlight: the releaseLock() under way for each object
  sweep,      \* each unlockAll(): the objects still to release
  joined,     \* the object whose release each of them awaits
  suspected,  \* suspectedEnqueues
  conflicts,  \* lockConflicts that name our own user
  leaked,     \* leakedLocks
  wire,       \* the request in flight
  tripped,    \* the auth breaker has latched
  shutdown,   \* how far shutdown() is
  exit,       \* the exit code
  sap         \* enqueues of our session; objects; is it alive; handles given

vars == <<stage, fn, held, handle, release, sweep, joined, suspected, conflicts,
          leaked, wire, tripped, shutdown, exit, sap>>

ledger == <<held, handle>>
sweeps == <<sweep, joined>>
doubts == <<suspected, conflicts, leaked>>
process == <<tripped, shutdown, exit>>

Stages == {"working", "closing", "dropping", "ended", "dropFailed"}
Running == exit = "none"    \* the process

Idle == [op |-> "idle", obj |-> NoObject]
NoRelease == [state |-> "none", handle |-> NoHandle, attempt |-> 0]
Silence == [op |-> "none", obj |-> NoObject, handle |-> NoHandle]

Sessions ==
  [enq: [Objects -> Nat], gone: SUBSET Objects, alive: BOOLEAN, last: Nat]

Busy(o) == release[o].state # "none"

Init ==
  /\ stage = "working"
  /\ fn = [call |-> Idle, calls |-> 0]
  /\ held = {}
  /\ handle = [o \in Objects |-> NoHandle]
  /\ release = [o \in Objects |-> NoRelease]
  /\ sweep = [s \in Sweepers |-> {}]
  /\ joined = [s \in Sweepers |-> NoObject]
  /\ suspected = {} /\ conflicts = {} /\ leaked = {}
  /\ wire = Silence
  /\ tripped = FALSE
  /\ shutdown = "no"
  /\ exit = "none"
  /\ sap = [enq |-> [o \in Objects |-> NoHandle], gone |-> {}, alive |-> TRUE,
            last |-> NoHandle]

-------------------------------------------------------------------------------
(* The ledger                                                              *)

Enters(o, h) ==
  /\ held' = held \cup {o}
  /\ handle' = [handle EXCEPT ![o] = h]

Leaves(o) ==
  /\ held' = held \ {o}
  /\ handle' = [handle EXCEPT ![o] = NoHandle]

(* fn's next call may come.                                                *)
Free == Running /\ stage = "working" /\ fn.call = Idle

Awaits(op, o) == fn' = [call |-> [op |-> op, obj |-> o], calls |-> fn.calls + 1]
Returns == fn' = [fn EXCEPT !.call = Idle]

Asks(op, o, h) == wire' = [op |-> op, obj |-> o, handle |-> h]

Answered(op, o) == Running /\ wire.op = op /\ wire.obj = o

-------------------------------------------------------------------------------
(* SAP                                                                     *)

(* The session ends on its own; so do its enqueues.                        *)
Expire ==
  /\ Running /\ sap.alive
  /\ sap' = [sap EXCEPT !.alive = FALSE, !.enq = [o \in Objects |-> NoHandle]]
  /\ UNCHANGED <<stage, fn, ledger, release, sweeps, doubts, wire, process>>

(* An answer, to anybody, latches the auth breaker.                        *)
Trip ==
  /\ Running /\ ~tripped
  /\ tripped' = TRUE
  /\ UNCHANGED <<stage, fn, ledger, release, sweeps, doubts, wire, shutdown, exit, sap>>

(* An UNLOCK frees what its handle names, if it is processed.              *)
Frees(o) ==
  sap' = [sap EXCEPT !.enq[o] = IF @ = wire.handle THEN NoHandle ELSE @]

-------------------------------------------------------------------------------
(* lock()                                                                  *)

(* An object the ledger holds is answered from it.                         *)
CallLock(o) ==
  /\ Free /\ fn.calls < MaxCalls /\ wire = Silence /\ ~tripped
  /\ o \notin held
  /\ Awaits("lock", o)
  /\ Asks("lock", o, NoHandle)
  /\ UNCHANGED <<stage, ledger, release, sweeps, doubts, process, sap>>

(* The breaker refuses the request: that, too, counts as suspect.          *)
RefuseLock(o) ==
  /\ Free /\ fn.calls < MaxCalls /\ tripped
  /\ o \notin held
  /\ fn' = [fn EXCEPT !.calls = @ + 1]
  /\ suspected' = suspected \cup {o}
  /\ UNCHANGED <<stage, ledger, release, sweeps, conflicts, leaked, wire, process, sap>>

Grantable(o) == sap.alive /\ o \notin sap.gone /\ sap.enq[o] = NoHandle

Granted(o) ==
  /\ Grantable(o)
  /\ sap' = [sap EXCEPT !.enq[o] = sap.last + 1, !.last = @ + 1]

LockSucceeds(o) ==
  /\ Answered("lock", o)
  /\ Granted(o)
  /\ Enters(o, sap.last + 1)
  /\ Returns /\ wire' = Silence
  /\ UNCHANGED <<stage, release, sweeps, doubts, process>>

LockFailed(o, suspects, ours) ==
  /\ Answered("lock", o)
  /\ suspected' = suspected \cup suspects
  /\ conflicts' = conflicts \cup ours
  /\ Returns /\ wire' = Silence
  /\ UNCHANGED <<stage, ledger, release, sweeps, leaked, process>>

(* Granted, and the answer is lost or has no handle in it.                 *)
LockStrands(o) == Granted(o) /\ LockFailed(o, {o}, {})

(* Never processed, or refused because the session is gone.                *)
LockLost(o) == LockFailed(o, {o}, {}) /\ UNCHANGED sap

(* LOCKED, by a stranger or by our own user (any enqueue this very session *)
(* has lost track of is), or NOT_FOUND.                                    *)
LockRefused(o) ==
  /\ \E ours \in SUBSET {o} : LockFailed(o, {}, ours)
  /\ UNCHANGED sap

-------------------------------------------------------------------------------
(* unlock(), releaseLock()                                                 *)

(* unlock(o) finds an entry, and no release of it under way: it starts one.*)
Starts(o) ==
  release' = IF Busy(o) \/ o \notin held THEN release
             ELSE [release EXCEPT ![o] =
                     [state |-> "ready", handle |-> handle[o], attempt |-> 1]]

(* A plausible slip: only the call that fn made is woken.                  *)
WakesFnOnly(o) ==
  /\ fn' = [fn EXCEPT !.call = IF @ = [op |-> "unlock", obj |-> o] THEN Idle ELSE @]
  /\ UNCHANGED sweeps

Wakes(o) ==
  /\ fn' = [fn EXCEPT !.call = IF @ = [op |-> "unlock", obj |-> o] THEN Idle ELSE @]
  /\ sweep' = [s \in Sweepers |->
                 IF joined[s] = o THEN sweep[s] \ {o} ELSE sweep[s]]
  /\ joined' = [s \in Sweepers |-> IF joined[s] = o THEN NoObject ELSE joined[s]]

(* The promise of o's release settles: whoever awaits it goes on.          *)
Settles(o) == Wakes(o) /\ release' = [release EXCEPT ![o] = NoRelease]

(* fn releases a lock; withRelockRetry() does before it locks again, and   *)
(* the forgetLock() it adds finds nothing.  A plausible slip, once real:   *)
(* forget first, and unlock() has nothing to release.                      *)
CallUnlockForgetting(o) ==
  /\ Free /\ fn.calls < MaxCalls /\ o \in held
  /\ fn' = [fn EXCEPT !.calls = @ + 1]
  /\ Leaves(o)
  /\ UNCHANGED <<stage, release, sweeps, doubts, wire, process, sap>>

CallUnlock(o) ==
  /\ Free /\ fn.calls < MaxCalls
  /\ o \in held \/ Busy(o)
  /\ Awaits("unlock", o)
  /\ Starts(o)
  /\ UNCHANGED <<stage, ledger, sweeps, doubts, wire, process, sap>>

SendUnlock(o) ==
  /\ Running /\ release[o].state = "ready" /\ wire = Silence /\ ~tripped
  /\ release' = [release EXCEPT ![o].state = "sent"]
  /\ Asks("unlock", o, release[o].handle)
  /\ UNCHANGED <<stage, fn, ledger, sweeps, doubts, process, sap>>

(* 200, or a failure that means the enqueue is not ours any more: the      *)
(* session is dead, the object deleted, or another session holds it.       *)
Released(o) ==
  /\ Answered("unlock", o)
  /\ \/ sap.alive /\ Frees(o)
     \/ ~sap.alive /\ UNCHANGED sap
  /\ Leaves(o) /\ Settles(o)
  /\ wire' = Silence
  /\ UNCHANGED <<stage, doubts, process>>

(* The failure leaves open whether the UNLOCK was processed.               *)
UnlockFails(o) ==
  /\ Answered("unlock", o)
  /\ Frees(o) \/ UNCHANGED sap
  /\ wire' = Silence

BackOff(o) ==
  /\ UnlockFails(o)
  /\ release[o].attempt < Attempts
  /\ release' = [release EXCEPT ![o].state = "asleep", ![o].attempt = @ + 1]
  /\ UNCHANGED <<stage, fn, ledger, sweeps, doubts, process>>

Wake(o) ==
  /\ Running /\ release[o].state = "asleep"
  /\ release' = [release EXCEPT ![o].state = "ready"]
  /\ UNCHANGED <<stage, fn, ledger, sweeps, doubts, wire, process, sap>>

Leaks(o) ==
  /\ Leaves(o) /\ Settles(o)
  /\ leaked' = leaked \cup {o}
  /\ UNCHANGED <<stage, suspected, conflicts, process>>

(* The last attempt has failed, or the time for them is spent.             *)
GiveUp(o) == UnlockFails(o) /\ Leaks(o)

(* The breaker has tripped: no attempt is made.                            *)
Withhold(o) ==
  /\ Running /\ release[o].state = "ready" /\ tripped
  /\ Leaks(o)
  /\ UNCHANGED <<wire, sap>>

-------------------------------------------------------------------------------
(* DELETE and forgetLock()                                                 *)

CallDelete(o) ==
  /\ Free /\ fn.calls < MaxCalls /\ wire = Silence /\ ~tripped
  /\ o \in held
  /\ Awaits("delete", o)
  /\ Asks("delete", o, handle[o])
  /\ UNCHANGED <<stage, ledger, release, sweeps, doubts, process, sap>>

Deletable(o) == sap.alive /\ sap.enq[o] = wire.handle

Deletes(o) ==
  /\ Deletable(o)
  /\ sap' = [sap EXCEPT !.enq[o] = NoHandle, !.gone = @ \cup {o}]

DeleteEnds(o) ==
  /\ Answered("delete", o)
  /\ Returns /\ wire' = Silence
  /\ UNCHANGED <<stage, release, sweeps, doubts, process>>

(* Deleted, enqueue and all; or the session is dead: the lock is forgotten.*)
DeleteSucceeds(o) ==
  /\ DeleteEnds(o)
  /\ Deletes(o) \/ (~sap.alive /\ UNCHANGED sap)
  /\ Leaves(o)

DeleteFails(o) ==
  /\ DeleteEnds(o)
  /\ Deletes(o) \/ UNCHANGED sap
  /\ UNCHANGED ledger

-------------------------------------------------------------------------------
(* unlockAll()                                                             *)

(* The snapshot; the code goes through it newest first, here in any order. *)
Sweeps(s) == sweep' = [sweep EXCEPT ![s] = held]

(* The next object: release it or join its release, or find it released.   *)
SweepOn(s, o) ==
  /\ Running /\ o \in sweep[s] /\ joined[s] = NoObject
  /\ \/ /\ Busy(o) \/ o \in held
        /\ Starts(o)
        /\ joined' = [joined EXCEPT ![s] = o]
        /\ UNCHANGED sweep
     \/ /\ ~Busy(o) /\ o \notin held
        /\ sweep' = [sweep EXCEPT ![s] = @ \ {o}]
        /\ UNCHANGED <<joined, release>>
  /\ UNCHANGED <<stage, fn, ledger, doubts, wire, process, sap>>

-------------------------------------------------------------------------------
(* The end of the window                                                   *)

(* fn returns or throws: unlockAll().                                      *)
FnEnds ==
  /\ Free
  /\ stage' = "closing"
  /\ Sweeps("window")
  /\ UNCHANGED <<fn, ledger, release, joined, doubts, wire, process, sap>>

Swept == Running /\ stage = "closing" /\ sweep["window"] = {}

(* Whatever may still be enqueued goes with the session.  A plausible      *)
(* slip: only what releaseLock() gave up on.                               *)
DoubtLeaksOnly == leaked # {}

Doubt == leaked # {} \/ suspected # {} \/ conflicts # {}

EndWindow ==
  /\ Swept /\ ~Doubt
  /\ stage' = "ended"
  /\ UNCHANGED <<fn, ledger, release, sweeps, doubts, wire, process, sap>>

DropSession ==
  /\ Swept /\ Doubt /\ wire = Silence /\ ~tripped
  /\ stage' = "dropping"
  /\ Asks("drop", NoObject, NoHandle)
  /\ UNCHANGED <<fn, ledger, release, sweeps, doubts, process, sap>>

Dropped == sap' = [sap EXCEPT !.enq = [o \in Objects |-> NoHandle]]

NotDropped == stage' = IF sap.alive THEN "dropFailed" ELSE "ended"

(* The drop's failure is swallowed, and so is its local refusal.           *)
RefuseDrop ==
  /\ Swept /\ Doubt
  /\ tripped \/ ~sap.alive
  /\ NotDropped
  /\ UNCHANGED <<fn, ledger, release, sweeps, doubts, wire, process, sap>>

SessionDropped ==
  /\ Answered("drop", NoObject)
  /\ \/ Dropped /\ stage' = "ended"
     \/ UNCHANGED sap /\ NotDropped
  /\ wire' = Silence
  /\ UNCHANGED <<fn, ledger, release, sweeps, doubts, process>>

-------------------------------------------------------------------------------
(* shutdown(): takes the mutex from the window, runs its cleanup and drops *)
(* the session, while fn goes on.                                          *)

Signal ==
  /\ Running /\ shutdown = "no"
  /\ stage \in {"working", "closing", "dropping"}
  /\ shutdown' = "sweeping"
  /\ Sweeps("shutdown")
  /\ UNCHANGED <<stage, fn, ledger, release, joined, doubts, wire, tripped, exit, sap>>

ShutdownDrops ==
  /\ Running /\ shutdown = "sweeping" /\ sweep["shutdown"] = {} /\ wire = Silence
  /\ ~tripped
  /\ shutdown' = "dropping"
  /\ Asks("shutdownDrop", NoObject, NoHandle)
  /\ UNCHANGED <<stage, fn, ledger, release, sweeps, doubts, tripped, exit, sap>>

Exits(code) ==
  /\ exit' = code
  /\ UNCHANGED <<stage, fn, ledger, release, sweeps, doubts, tripped, shutdown>>

(* Dropped or not, no cleanup task threw: the process exits with 0.  On a  *)
(* dead connection or a tripped breaker nothing is dropped.                *)
Exit ==
  /\ \/ /\ Answered("shutdownDrop", NoObject)
        /\ Dropped \/ UNCHANGED sap
        /\ wire' = Silence
     \/ /\ Running /\ shutdown = "sweeping" /\ sweep["shutdown"] = {}
        /\ tripped \/ ~sap.alive
        /\ UNCHANGED <<wire, sap>>
  /\ Exits("0")

(* The deadline, or a second signal.                                       *)
ForceExit ==
  /\ Running /\ shutdown # "no"
  /\ Exits("1")
  /\ UNCHANGED <<wire, sap>>

-------------------------------------------------------------------------------
LockStep(o) ==
  \/ CallLock(o) \/ RefuseLock(o) \/ LockSucceeds(o) \/ LockStrands(o)
  \/ LockLost(o) \/ LockRefused(o)

UnlockStep(o) ==
  \/ CallUnlock(o) \/ SendUnlock(o) \/ Released(o) \/ BackOff(o) \/ Wake(o)
  \/ GiveUp(o) \/ Withhold(o)

DeleteStep(o) == CallDelete(o) \/ DeleteSucceeds(o) \/ DeleteFails(o)

WindowStep == FnEnds \/ EndWindow \/ DropSession \/ RefuseDrop \/ SessionDropped

ShutdownStep == Signal \/ ShutdownDrops \/ Exit \/ ForceExit

Next ==
  \/ \E o \in Objects : LockStep(o) \/ UnlockStep(o) \/ DeleteStep(o)
  \/ \E s \in Sweepers, o \in Objects : SweepOn(s, o)
  \/ WindowStep
  \/ ShutdownStep
  \/ Expire \/ Trip

Spec == Init /\ [][Next]_vars

(* A request is answered, a timer fires, and the code goes on.  fn calls   *)
(* what it likes, and nobody has to send a signal.                         *)
Proceeds(o) ==
  \/ LockSucceeds(o) \/ LockStrands(o) \/ LockLost(o) \/ LockRefused(o)
  \/ SendUnlock(o) \/ Released(o) \/ BackOff(o) \/ Wake(o) \/ GiveUp(o) \/ Withhold(o)
  \/ DeleteSucceeds(o) \/ DeleteFails(o)

Fairness ==
  /\ \A o \in Objects : WF_vars(Proceeds(o))
  /\ \A s \in Sweepers : WF_vars(\E o \in Objects : SweepOn(s, o))
  /\ WF_vars(EndWindow \/ DropSession \/ RefuseDrop \/ SessionDropped)
  /\ WF_vars(ShutdownDrops \/ Exit)

FairSpec == Spec /\ Fairness

-------------------------------------------------------------------------------
(* Types.                                                                  *)
TypeOK ==
  /\ stage \in Stages
  /\ fn \in [call: [op: {"idle", "lock", "unlock", "delete"},
                    obj: Objects \cup {NoObject}],
             calls: 0..MaxCalls]
  /\ held \subseteq Objects
  /\ handle \in [Objects -> Nat]
  /\ release \in [Objects -> [state: {"none", "ready", "sent", "asleep"},
                              handle: Nat, attempt: 0..Attempts]]
  /\ sweep \in [Sweepers -> SUBSET Objects]
  /\ joined \in [Sweepers -> Objects \cup {NoObject}]
  /\ suspected \subseteq Objects /\ conflicts \subseteq Objects /\ leaked \subseteq Objects
  /\ wire \in [op: {"none", "lock", "unlock", "delete", "drop", "shutdownDrop"},
               obj: Objects \cup {NoObject}, handle: Nat]
  /\ tripped \in BOOLEAN
  /\ shutdown \in {"no", "sweeping", "dropping"}
  /\ exit \in {"none", "0", "1"}
  /\ sap \in Sessions

(* An enqueue our session holds is in the ledger under the handle SAP gave *)
(* for it, or it is among the doubts that make the window drop the session:*)
(* no order of lost answers, retries, deletions and releases joined from   *)
(* two sides lets one slip.                                                *)
EveryEnqueueIsKnown ==
  \A o \in Objects :
    sap.enq[o] # NoHandle
      => \/ o \in held /\ handle[o] = sap.enq[o]
         \/ o \in leaked \cup suspected

(* "unlockAll() runs on EVERY exit path": when the window has ended,       *)
(* nothing of it is locked, unless dropping the session failed too.        *)
NothingStaysLocked ==
  stage = "ended" => \A o \in Objects : sap.enq[o] = NoHandle

(* forgetLock()'s hazard, "not reachable today": a release under way never *)
(* has the handle of an older lock than the ledger's, so its retries spend *)
(* no other lock's handle and its end removes no other lock's entry.       *)
ReleaseIsOfItsLock ==
  \A o \in Objects : Busy(o) /\ o \in held => release[o].handle = handle[o]

(* The ledger is right about the session and about the releases under way. *)
LedgerIsSound == TypeOK /\ EveryEnqueueIsKnown /\ ReleaseIsOfItsLock

(* Once fn is over the window ends, whatever is answered, unless the       *)
(* process exits.                                                          *)
WindowEnds ==
  stage = "closing" ~> stage \in {"ended", "dropFailed"} \/ ~Running

================================================================================
