---------------------------- MODULE SessionLock ----------------------------
(***************************************************************************)
(* The mutex of one stateful ADT session (src/src/adt/session-lock.ts).    *)
(*                                                                         *)
(* A frame is one call of runExclusive, acquireImplicit or acquireLease on *)
(* the lock of one connection.  A call mints a fresh Symbol as its token;  *)
(* since a frame makes one call, the frame itself stands for its token.    *)
(* A frame that ran inside runExclusive carries, in its asynchronous       *)
(* context, the tokens of every frame it is nested in (ambient).           *)
(*                                                                         *)
(* The JavaScript event loop runs each step below to completion; a step    *)
(* boundary is an await, a timer or a request in flight.                   *)
(***************************************************************************)
EXTENDS Naturals, Sequences, SequencesExt

CONSTANTS
  Frames,    (* the calls; each is made at most once               *)
  Locks,     (* one lock per AbapConnection                        *)
  MaxQueue,  (* the longest queue of parked waiters (maxQueue)     *)
  LeaseTtl,  (* clock ticks a lease lives unless it is renewed     *)
  None       (* nobody holds the lock; no enclosing frame          *)

ASSUME SessionLockAssumption ==
  /\ None \notin Frames
  /\ MaxQueue \in Nat
  /\ LeaseTtl \in Nat \ {0}

VARIABLES
  hold,      (* per lock: the frame whose token holds it, or None   *)
  waiters,   (* per lock: the FIFO queue of parked frames           *)
  ttl,       (* per lock: ticks left of the lease that holds it     *)
  status,    (* per frame: where its call stands                    *)
  lock,      (* per frame: the lock it called (once not new)        *)
  kind,      (* per frame: how it called it (once not new)          *)
  ambient,   (* per frame: the AsyncLocalStorage token set          *)
  enclosing  (* per frame: the frames it really runs inside         *)

vars == <<hold, waiters, ttl, status, lock, kind, ambient, enclosing>>

Kinds == {"exclusive", "implicit", "lease"}

(***************************************************************************)
(* new      not called yet          parked   waiting in the queue          *)
(* granted  the token is its own but the caller has not resumed yet        *)
(* inside   its work or its request is running, or its lease is out        *)
(* through  re-entrant: running under the token of an enclosing frame      *)
(* ended, passed, refused   the call is over                               *)
(***************************************************************************)
Statuses == {"new", "parked", "granted", "inside", "through",
             "ended", "passed", "refused"}

Over == {"ended", "passed", "refused"}

Init ==
  /\ hold    = [l \in Locks |-> None]
  /\ waiters = [l \in Locks |-> <<>>]
  /\ ttl     = [l \in Locks |-> 0]
  /\ status  = [f \in Frames |-> "new"]
  /\ lock    \in [Frames -> Locks]
  /\ kind    \in [Frames -> Kinds]
  /\ ambient = [f \in Frames |-> {}]
  /\ enclosing = [f \in Frames |-> {}]

----------------------------------------------------------------------------
(***************************************************************************)
(* The token set of a call made inside frame p: what p itself carries,     *)
(* extended with the token of p.                                           *)
(***************************************************************************)
(* A plausible slip: the inner token replaces the outer ones. *)
ReplaceToken(S, t) == {t}

WithToken(S, t) == S \cup {t}

AmbientIn(p) == IF p = None THEN {} ELSE WithToken(ambient[p], p)

EnclosingIn(p) == IF p = None THEN {} ELSE enclosing[p] \cup {p}

(***************************************************************************)
(* Work can be started from the top level, inside a runExclusive frame, or *)
(* by work such a frame left behind, whose token is stale by then.         *)
(***************************************************************************)
CanEnclose(p) ==
  p # None => kind[p] = "exclusive" /\ status[p] \in {"inside", "ended"}

IsReentrant(l, p) == hold[l] # None /\ hold[l] \in AmbientIn(p)

Called(f, p, s) ==
  /\ status[f] = "new"
  /\ CanEnclose(p)
  /\ status'  = [status EXCEPT ![f] = s]
  /\ ambient' = [ambient EXCEPT ![f] = AmbientIn(p)]
  /\ enclosing' = [enclosing EXCEPT ![f] = EnclosingIn(p)]
  /\ UNCHANGED <<lock, kind>>

Exclusive(f) == kind[f] \in {"exclusive", "implicit"}

(* runExclusive and acquireImplicit inside the hold: no state changes. *)
PassThrough(f, p) ==
  /\ Exclusive(f)
  /\ IsReentrant(lock[f], p)
  /\ Called(f, p, "through")
  /\ UNCHANGED <<hold, waiters, ttl>>

(* acquireExclusiveToken on a free lock takes it in the same block. *)
TakeFree(f, p) ==
  /\ Exclusive(f)
  /\ hold[lock[f]] = None
  /\ Called(f, p, "granted")
  /\ hold' = [hold EXCEPT ![lock[f]] = f]
  /\ UNCHANGED <<waiters, ttl>>

(* A lease is never queued behind; a full queue takes nobody. *)
RefuseExclusive(f, p) ==
  /\ Exclusive(f)
  /\ hold[lock[f]] # None
  /\ ~IsReentrant(lock[f], p)
  /\ \/ kind[hold[lock[f]]] = "lease"
     \/ Len(waiters[lock[f]]) >= MaxQueue
  /\ Called(f, p, "refused")
  /\ UNCHANGED <<hold, waiters, ttl>>

Park(f, p) ==
  /\ Exclusive(f)
  /\ hold[lock[f]] # None
  /\ ~IsReentrant(lock[f], p)
  /\ kind[hold[lock[f]]] # "lease"
  /\ Len(waiters[lock[f]]) < MaxQueue
  /\ Called(f, p, "parked")
  /\ waiters' = [waiters EXCEPT ![lock[f]] = Append(@, f)]
  /\ UNCHANGED <<hold, ttl>>

(* acquireLease is synchronous: the lease is out when the call returns. *)
TakeLease(f, p) ==
  /\ kind[f] = "lease"
  /\ hold[lock[f]] = None
  /\ Called(f, p, "inside")
  /\ hold' = [hold EXCEPT ![lock[f]] = f]
  /\ ttl'  = [ttl EXCEPT ![lock[f]] = LeaseTtl]
  /\ UNCHANGED waiters

RefuseLease(f, p) ==
  /\ kind[f] = "lease"
  /\ hold[lock[f]] # None
  /\ Called(f, p, "refused")
  /\ UNCHANGED <<hold, waiters, ttl>>

Call(f, p) ==
  \/ PassThrough(f, p)
  \/ TakeFree(f, p)
  \/ RefuseExclusive(f, p)
  \/ Park(f, p)
  \/ TakeLease(f, p)
  \/ RefuseLease(f, p)

----------------------------------------------------------------------------
InQueue(f, l) == \E i \in 1 .. Len(waiters[l]) : waiters[l][i] = f

(***************************************************************************)
(* handOff on lock l, st being the statuses after the holder's own change: *)
(* settled waiters at the head are dropped, the first live one is given    *)
(* the lock before it resumes, and with no live waiter the lock is free.   *)
(***************************************************************************)
LiveAt(l, st, i) == st[waiters[l][i]] = "parked"

(* A plausible slip: the last waiter in is served first. *)
HandOffLast(l, st) ==
  LET n == Len(waiters[l]) IN
  IF n = 0
  THEN /\ hold' = [hold EXCEPT ![l] = None]
       /\ status' = st
       /\ UNCHANGED waiters
  ELSE /\ hold'    = [hold EXCEPT ![l] = waiters[l][n]]
       /\ waiters' = [waiters EXCEPT ![l] = SubSeq(@, 1, n - 1)]
       /\ status'  = [st EXCEPT ![waiters[l][n]] = "granted"]

HandOff(l, st) ==
  \/ /\ \A i \in 1 .. Len(waiters[l]) : ~LiveAt(l, st, i)
     /\ hold'    = [hold EXCEPT ![l] = None]
     /\ waiters' = [waiters EXCEPT ![l] = <<>>]
     /\ status'  = st
  \/ \E i \in 1 .. Len(waiters[l]) :
       /\ LiveAt(l, st, i)
       /\ \A j \in 1 .. (i - 1) : ~LiveAt(l, st, j)
       /\ hold'    = [hold EXCEPT ![l] = waiters[l][i]]
       /\ waiters' = [waiters EXCEPT ![l] = SubSeq(@, i + 1, Len(@))]
       /\ status'  = [st EXCEPT ![waiters[l][i]] = "granted"]

(***************************************************************************)
(* releaseToken: a no-op unless the token still owns the lock.             *)
(***************************************************************************)
(* Plausible slips: the release is not keyed by the token; ... *)
ReleaseAny(f, st) == HandOff(lock[f], st)

(* ... the lock is freed and the next waiter is left asleep. *)
ReleaseWithoutHandOff(f, st) ==
  /\ hold' = IF hold[lock[f]] = f THEN [hold EXCEPT ![lock[f]] = None] ELSE hold
  /\ status' = st
  /\ UNCHANGED waiters

ReleaseToken(f, st) ==
  IF hold[lock[f]] = f
  THEN HandOff(lock[f], st)
  ELSE status' = st /\ UNCHANGED <<hold, waiters>>

(* The caller resumes with its token; runExclusive now extends the set. *)
Enter(f) ==
  /\ status[f] = "granted"
  /\ status' = [status EXCEPT ![f] = "inside"]
  /\ UNCHANGED <<hold, waiters, ttl, lock, kind, ambient, enclosing>>

(* A flow awaits what it calls; nobody awaits a lease. *)
AwaitedBy(f) ==
  {c \in Frames : f \in enclosing[c] /\ kind[c] # "lease"
                  /\ status[c] \notin Over}

(* The finally of runExclusive, a Release closure, SessionLease.release. *)
Leave(f) ==
  /\ status[f] = "inside"
  /\ AwaitedBy(f) = {}
  /\ ReleaseToken(f, [status EXCEPT ![f] = "ended"])
  /\ UNCHANGED <<ttl, lock, kind, ambient, enclosing>>

LeavePassThrough(f) ==
  /\ status[f] = "through"
  /\ status' = [status EXCEPT ![f] = "passed"]
  /\ UNCHANGED <<hold, waiters, ttl, lock, kind, ambient, enclosing>>

(* A plausible slip: no timeout while the holder is still at work. *)
TimeOutIdleWaiter(f) ==
  /\ status[f] = "parked"
  /\ hold[lock[f]] = None
  /\ status' = [status EXCEPT ![f] = "refused"]
  /\ waiters' = [waiters EXCEPT ![lock[f]] = SelectSeq(@, LAMBDA g : g # f)]
  /\ UNCHANGED <<hold, ttl, lock, kind, ambient, enclosing>>

(* timeOutWaiter: the waiter is spliced out, not skipped at hand-off. *)
TimeOutWaiter(f) ==
  /\ status[f] = "parked"
  /\ status' = [status EXCEPT ![f] = "refused"]
  /\ \E i \in 1 .. Len(waiters[lock[f]]) :
       /\ waiters[lock[f]][i] = f
       /\ waiters' = [waiters EXCEPT ![lock[f]] = RemoveAt(@, i)]
  /\ UNCHANGED <<hold, ttl, lock, kind, ambient, enclosing>>

----------------------------------------------------------------------------
LeaseHeld(l) == hold[l] # None /\ kind[hold[l]] = "lease"

(* The injected clock. *)
Tick(l) ==
  /\ LeaseHeld(l)
  /\ ttl[l] > 0
  /\ ttl' = [ttl EXCEPT ![l] = @ - 1]
  /\ UNCHANGED <<hold, waiters, status, lock, kind, ambient, enclosing>>

(* renew: refused once the lease is released or past its expiry. *)
Renew(f) ==
  /\ kind[f] = "lease"
  /\ status[f] = "inside"
  /\ hold[lock[f]] = f
  /\ ttl[lock[f]] > 0
  /\ ttl' = [ttl EXCEPT ![lock[f]] = LeaseTtl]
  /\ UNCHANGED <<hold, waiters, status, lock, kind, ambient, enclosing>>

(* A plausible slip: only a waiter's interest reclaims the lease. *)
ExpireAwaitedLease(l) ==
  /\ LeaseHeld(l)
  /\ ttl[l] = 0
  /\ waiters[l] # <<>>
  /\ HandOff(l, status)
  /\ UNCHANGED <<ttl, lock, kind, ambient, enclosing>>

(* expireLease: the TTL timer; the owner still believes it has the lease. *)
ExpireLease(l) ==
  /\ LeaseHeld(l)
  /\ ttl[l] = 0
  /\ HandOff(l, status)
  /\ UNCHANGED <<ttl, lock, kind, ambient, enclosing>>

(***************************************************************************)
(* forceRelease: drop the hold, whoever has it, and reject every waiter.   *)
(* The evicted frame runs on, without the lock.                            *)
(***************************************************************************)
ForceRelease(l) ==
  /\ hold'    = [hold EXCEPT ![l] = None]
  /\ waiters' = [waiters EXCEPT ![l] = <<>>]
  /\ status'  = [f \in Frames |->
                   IF InQueue(f, l) THEN "refused" ELSE status[f]]
  /\ UNCHANGED <<ttl, lock, kind, ambient, enclosing>>

----------------------------------------------------------------------------
FrameStep(f) ==
  \/ \E p \in Frames \cup {None} : Call(f, p)
  \/ Enter(f)
  \/ Leave(f)
  \/ LeavePassThrough(f)
  \/ TimeOutWaiter(f)
  \/ Renew(f)

LockStep(l) == Tick(l) \/ ExpireLease(l) \/ ForceRelease(l)

Next ==
  \/ \E f \in Frames : FrameStep(f)
  \/ \E l \in Locks : LockStep(l)

Spec == Init /\ [][Next]_vars

(***************************************************************************)
(* A resolved promise resumes its caller, a request is answered or times   *)
(* out, so the work of a call ends; every armed timer fires and the clock  *)
(* advances.  Nobody owes it to anybody to release a lease.                *)
(***************************************************************************)
Fairness ==
  /\ \A f \in Frames : WF_vars(Exclusive(f) /\ (Enter(f) \/ Leave(f)))
  /\ \A f \in Frames : WF_vars(LeavePassThrough(f))
  /\ \A f \in Frames : WF_vars(TimeOutWaiter(f))
  /\ \A l \in Locks : WF_vars(Tick(l)) /\ WF_vars(ExpireLease(l))

FairSpec == Spec /\ Fairness

----------------------------------------------------------------------------
TypeOK ==
  /\ hold    \in [Locks -> Frames \cup {None}]
  /\ waiters \in [Locks -> Seq(Frames)]
  /\ ttl     \in [Locks -> 0 .. LeaseTtl]
  /\ status  \in [Frames -> Statuses]
  /\ lock    \in [Frames -> Locks]
  /\ kind    \in [Frames -> Kinds]
  /\ ambient \in [Frames -> SUBSET Frames]
  /\ enclosing \in [Frames -> SUBSET Frames]

(***************************************************************************)
(* The hold is never ownerless: whoever the lock says has it was really    *)
(* given it, on that lock, and has not settled its call yet.  An ownerless *)
(* hold would wedge the connection, as the comment on timeOutWaiter warns. *)
(***************************************************************************)
HoldIsOwned ==
  \A l \in Locks : hold[l] # None =>
    /\ lock[hold[l]] = l
    /\ status[hold[l]] \in {"granted", "inside"}

(***************************************************************************)
(* No lost wakeup: somebody is in the queue only while another call has    *)
(* the lock and will hand it over, and that call is not a lease, whose     *)
(* holder may keep it for minutes (the refusal in acquireExclusiveToken).  *)
(***************************************************************************)
QueueServed ==
  \A l \in Locks : waiters[l] # <<>> =>
    hold[l] # None /\ kind[hold[l]] # "lease"

(* The queue holds exactly the calls that still wait, each of them once:   *)
(* a timed out or evicted call is spliced out, so it takes no slot.        *)
QueueIsParked ==
  \A l \in Locks :
    /\ Len(waiters[l]) <= MaxQueue
    /\ \A i, j \in 1 .. Len(waiters[l]) :
         i # j => waiters[l][i] # waiters[l][j]
    /\ \A f \in Frames :
         (status[f] = "parked" /\ lock[f] = l) <=> InQueue(f, l)

(***************************************************************************)
(* Nobody is stranded: types, a hold somebody will give back, a queue that *)
(* holds those who wait and whose head somebody will serve.                *)
(***************************************************************************)
NobodyIsStranded == TypeOK /\ HoldIsOwned /\ QueueServed /\ QueueIsParked

(***************************************************************************)
(* A call never waits for a hold it runs inside: A then B then A, nested,  *)
(* passes through (isReentrant looks in a set of tokens, not at one).      *)
(***************************************************************************)
NoSelfDeadlock ==
  \A f \in Frames : status[f] = "parked" => hold[lock[f]] \notin enclosing[f]

(***************************************************************************)
(* A holder loses the lock by its own release and by nobody else's: the    *)
(* exceptions are the TTL of a lease and the eviction of everybody by      *)
(* forceRelease.  In particular the late release of an evicted call does   *)
(* not free the hold of its successor (releaseToken is keyed).             *)
(***************************************************************************)
HoldIsKept ==
  [][\A l \in Locks :
       (hold[l] # None /\ hold'[l] # hold[l]) =>
         \/ status[hold[l]] = "inside" /\ status'[hold[l]] = "ended"
         \/ kind[hold[l]] = "lease" /\ ttl[l] = 0
         \/ ForceRelease(l)]_vars

(***************************************************************************)
(* First come, first served: whoever gets the lock while others wait is    *)
(* the one that has waited longest, and the lock is never free in between, *)
(* where a newcomer could take it before the woken waiter resumes.         *)
(***************************************************************************)
NoOvertaking ==
  [][\A l \in Locks :
       (waiters[l] # <<>> /\ hold'[l] # hold[l]) =>
         \/ hold'[l] = Head(waiters[l])
         \/ ForceRelease(l)]_vars

(***************************************************************************)
(* Every exclusive call settles, even when two flows take two locks in     *)
(* opposite orders: the wait timeout breaks the cycle.                     *)
(***************************************************************************)
EveryCallSettles ==
  \A f \in Frames :
    (Exclusive(f) /\ status[f] # "new") ~> (status[f] \in Over)

(***************************************************************************)
(* A lease whose owner stops renewing it is reclaimed, released or not:    *)
(* the TTL is the only recovery from a poll that crashed.                  *)
(***************************************************************************)
LeaseReclaimed ==
  \A f \in Frames :
    (kind[f] = "lease" /\ <>[][~Renew(f)]_vars) => []<>(hold[lock[f]] # f)

(***************************************************************************)
(* Nothing holds a session up for good: no call that waits for another, no *)
(* lease that nobody gives back.                                           *)
(***************************************************************************)
NobodyWaitsForEver == EveryCallSettles /\ LeaseReclaimed

=============================================================================
