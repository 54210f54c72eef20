-------------------------------- MODULE Pool --------------------------------
(***************************************************************************)
(* The session pool of one system (src/src/adt/pool.ts, AdtSessionPool).   *)
(*                                                                         *)
(* A call is one withRead, one withWrite (from the moment the object gate  *)
(* lets it run) or one reserveDebug.  A slot is one session.  Slots are    *)
(* named from a finite set; the name of a dropped slot is used again once  *)
(* nothing refers to it.                                                   *)
(*                                                                         *)
(* Every step but Handoff runs with nothing left to drain: handoff is a    *)
(* loop inside one synchronous block, written here as one step per round,  *)
(* and draining and retrying keep every other step out until the block has *)
(* come to its end.                                                        *)
(*                                                                         *)
(* Clocks are left out.  Which idle slot is the warmest, which have idled  *)
(* past sessionIdleMs, and whether a deadline has passed, may be anything. *)
(***************************************************************************)
EXTENDS Integers, Sequences, FiniteSets, SequencesExt

CONSTANTS
  Calls,             (* each is made at most once                          *)
  Kind,              (* per call: what it asks of the pool                 *)
  Slots,             (* names for sessions                                 *)
  MaxSessions,       (* cfg.maxSessions                                    *)
  ReadConcurrency,   (* cfg.readConcurrency                                *)
  WriteConcurrency,  (* cfg.writeConcurrency                               *)
  DebugSessions,     (* cfg.debugSessions                                  *)
  DiaBudget,         (* cfg.debugDiaBudget                                 *)
  MaxQueue,          (* the longest queue of parked calls                  *)
  MaxAttempts,       (* MAX_PREPARE_ATTEMPTS                               *)
  MaxDeaths,         (* bound: sessions that die by themselves             *)
  None               (* no slot, no call, no lease                         *)

(* run: a withRead whose op executes customer ABAP. *)
Kinds == {"read", "run", "write", "debug"}
Roles == {"read", "write", "debug"}

ASSUME PoolAssumption ==
  /\ Kind \in [Calls -> Kinds]
  /\ None \notin Slots /\ None \notin Calls /\ None \notin Roles
  /\ Slots # {} /\ IsFiniteSet(Slots)
  /\ MaxSessions \in Nat \ {0}
  /\ ReadConcurrency \in Nat \ {0} /\ WriteConcurrency \in Nat \ {0}
  /\ DebugSessions \in Nat /\ DiaBudget \in Nat
  /\ MaxQueue \in Nat
  /\ MaxAttempts \in Nat \ {0}
  /\ MaxDeaths \in Nat

VARIABLES
  slots,      (* the slots in the pool                                     *)
  dead,       (* names of no live session: it died, or is not in the pool  *)
  role,       (* per slot: the role of its lease; None when it is not busy *)
  memo,       (* per slot: the memoised preparation (slot.prepared)        *)
  primary,    (* the pinned slot, whose connection primary() returns       *)
  waiters,    (* parked calls, first come first                            *)
  closed,     (* shutdown or dispose has run                               *)
  draining,   (* the running block is in handoff's loop                    *)
  retrying,   (* the call that goes round acquire's loop when it is done   *)
  pc,         (* per call: where it stands                                 *)
  at,         (* per call: the slot it was given                           *)
  attempts,   (* per call: preparations in this acquire                    *)
  replayed,   (* calls going round that are in their second try            *)
  released,   (* debug calls going round whose lease the pool has released *)
  prepared,   (* history, per call: preparations asked for in both tries   *)
  runs,       (* history, per call: how often its work or lease was begun  *)
  deaths      (* sessions that died by themselves so far                   *)

slotVars == <<slots, dead, role, memo>>
loopVars == <<draining, retrying>>
callVars == <<pc, at, attempts, replayed, released, prepared, runs>>
vars == <<slotVars, primary, waiters, closed, loopVars, callVars, deaths>>

Memos == {"none", "pending", "ok", "failed"}
(***************************************************************************)
(* new        not made yet           retry      about to go round acquire  *)
(* waiting    parked                 granted    given a slot, not resumed  *)
(* preparing  awaits preparation     running    its work or lease is out   *)
(***************************************************************************)
Stages ==
  {"new", "retry", "waiting", "granted", "preparing", "running", "over"}

Init ==
  /\ primary = CHOOSE s \in Slots : TRUE
  /\ slots = {primary}
  /\ dead  = Slots \ {primary}
  /\ role  = [s \in Slots |-> None]
  /\ memo  = [s \in Slots |-> "none"]
  /\ waiters = <<>> /\ closed = FALSE
  /\ draining = FALSE /\ retrying = None
  /\ pc  = [c \in Calls |-> "new"]
  /\ at  = [c \in Calls |-> None]
  /\ attempts = [c \in Calls |-> 0]
  /\ replayed = {} /\ released = {}
  /\ prepared = [c \in Calls |-> 0]
  /\ runs = [c \in Calls |-> 0]
  /\ deaths = 0

Quiet == ~draining /\ retrying = None

RoleOf(c) == IF Kind[c] = "run" THEN "read" ELSE Kind[c]

Held == {at[c] : c \in Calls} \ {None}

(* slot.preparing is set exactly while its call awaits the preparation. *)
Preparing == {at[c] : c \in {d \in Calls : pc[d] = "preparing"}}

----------------------------------------------------------------------------
(***************************************************************************)
(* What the pool counts and picks from.                                    *)
(***************************************************************************)
DiaCost == 2   (* DIA_COST_PER_DEBUG_SESSION *)

Larger(m, n)  == IF m > n THEN m ELSE n
Smaller(m, n) == IF m < n THEN m ELSE n

DebugLimit ==
  Larger(1, Smaller(IF DebugSessions = 0 THEN 1 ELSE DebugSessions,
                    DiaBudget \div DiaCost))

RoleLimit(r) ==
  CASE r = "read"  -> ReadConcurrency
    [] r = "write" -> WriteConcurrency
    [] r = "debug" -> DebugLimit

Busy == {s \in Slots : role[s] # None}

FitIn(S) == S \ dead

(* A slip: a corpse that is still leased is not counted. *)
InFlightFit(r) == {s \in slots : role[s] = r /\ s \notin dead}

InFlight(r) == {s \in slots : role[s] = r}

LiveIn(S) == (S \cap Busy) \cup FitIn(S)

RoomIn(S) == Cardinality(LiveIn(S)) < MaxSessions

IdleIn(S) == FitIn(S) \ Busy

Evictable == IdleIn(slots) \ {primary}

(* dropDeadIdle, then evictStaleIdle when E is what has idled too long. *)
Swept(E) == (slots \cap Busy) \cup (FitIn(slots) \ E)

Fresh == Slots \ (slots \cup {primary} \cup Held)

NewSlot == CHOOSE s \in Fresh : TRUE

(***************************************************************************)
(* What the preparations come to when m is done to them: a name that       *)
(* neither the pool nor a call knows any more is blank again.              *)
(***************************************************************************)
Memo(m) ==
  memo' = [s \in Slots |-> IF s \in slots' \cup Held' THEN m[s] ELSE "none"]

(***************************************************************************)
(* tryTake: the slot s is leased in role r.  Either s was live and idle,   *)
(* or there was none and the cap left room to mint it.                     *)
(***************************************************************************)
Passes(r) == ~closed /\ Cardinality(InFlight(r)) < RoleLimit(r)

MayMint(E) == IdleIn(Swept(E)) = {} /\ RoomIn(Swept(E))

Sweeps(E) ==
  /\ slots' = Swept(E)
  /\ dead' = dead \cup (slots \ slots')

Mints(s, E) ==
  /\ s \in Fresh /\ s = NewSlot
  /\ slots' = Swept(E) \cup {s}
  /\ dead' = (dead \cup (slots \ slots')) \ {s}

Takes(r, s, E) ==
  /\ Passes(r)
  /\ \/ s \in IdleIn(Swept(E)) /\ Sweeps(E)
     \/ MayMint(E) /\ Mints(s, E)
  /\ role' = [role EXCEPT ![s] = r]

(* createSlot throws: the factory's connection has another breaker. *)
MintThrows(r, E) ==
  /\ Passes(r)
  /\ MayMint(E)
  /\ Sweeps(E)
  /\ UNCHANGED role

TakesNone(r, E) ==
  /\ \/ ~Passes(r) /\ UNCHANGED <<slots, dead>>
     \/ /\ Passes(r)
        /\ IdleIn(Swept(E)) = {} /\ ~RoomIn(Swept(E))
        /\ Sweeps(E)
  /\ UNCHANGED role

(***************************************************************************)
(* releaseSlot: D is what is dead by now.  What has idled too long is      *)
(* evicted on the way, and the block goes on to drain the queue.           *)
(***************************************************************************)
FreesSlot(s, D) ==
  /\ \E E \in SUBSET Evictable : slots' = slots \ (E \cup ({s} \cap D))
  /\ dead' = D \cup (slots \ slots')
  /\ role' = [role EXCEPT ![s] = None]
  /\ draining' = TRUE

(* Nothing of a call that is over is remembered. *)
Ends(c) ==
  /\ pc' = [pc EXCEPT ![c] = "over"]
  /\ at' = [at EXCEPT ![c] = None]
  /\ attempts' = [attempts EXCEPT ![c] = 0]
  /\ replayed' = replayed \ {c}
  /\ released' = released \ {c}
  /\ prepared' = [prepared EXCEPT ![c] = 0]
  /\ runs' = [runs EXCEPT ![c] = 0]

----------------------------------------------------------------------------
(***************************************************************************)
(* acquire.                                                                *)
(***************************************************************************)
PassesDoor(c) ==
  /\ Kind[c] = "debug" => DiaBudget >= DiaCost
  /\ Kind[c] # "run"

AtLoopTop(c) ==
  \/ pc[c] = "new" /\ Quiet /\ PassesDoor(c)
  \/ pc[c] = "retry" /\ retrying = c /\ ~draining

(* A slip: a newcomer takes whatever is free. *)
Barges(c) == TRUE

MayTake(c) == Kind[c] = "debug" \/ waiters = <<>>

(* prepare: the first to ask starts it, the memo serves the others. *)
Started(s) == [memo EXCEPT ![s] = IF @ = "none" THEN "pending" ELSE @]

Fails(c) ==
  /\ Ends(c)
  /\ retrying' = None
  /\ UNCHANGED <<primary, closed, draining, deaths>>

RefuseAtDoor(c) ==
  /\ pc[c] = "new" /\ Quiet
  /\ ~PassesDoor(c)
  /\ Fails(c)
  /\ UNCHANGED <<slotVars, waiters>>

FindClosed(c) ==
  /\ AtLoopTop(c)
  /\ closed
  /\ Fails(c)
  /\ UNCHANGED <<slotVars, waiters>>

TakeNow(c) ==
  /\ AtLoopTop(c)
  /\ ~closed
  /\ MayTake(c)
  /\ \E E \in SUBSET Evictable, s \in Slots :
       /\ Takes(RoleOf(c), s, E)
       /\ at' = [at EXCEPT ![c] = s]
       /\ Memo(Started(s))
  /\ pc' = [pc EXCEPT ![c] = "preparing"]
  /\ attempts' = [attempts EXCEPT ![c] = @ + 1]
  /\ prepared' = [prepared EXCEPT ![c] = @ + 1]
  /\ retrying' = None
  /\ UNCHANGED <<primary, waiters, closed, draining, replayed, released, runs,
                 deaths>>

TakeThrows(c) ==
  /\ AtLoopTop(c)
  /\ ~closed
  /\ MayTake(c)
  /\ \E E \in SUBSET Evictable : MintThrows(RoleOf(c), E)
  /\ Fails(c)
  /\ Memo(memo)
  /\ UNCHANGED waiters

CannotTake(c) ==
  /\ AtLoopTop(c)
  /\ ~closed
  /\ \/ MayTake(c) /\ \E E \in SUBSET Evictable : TakesNone(RoleOf(c), E)
     \/ ~MayTake(c) /\ UNCHANGED <<slots, dead, role>>

BlockedOnlyByDebugLease ==
  /\ ~RoomIn(slots)
  /\ IdleIn(slots) = {}
  /\ slots \cap Busy # {}
  /\ \A s \in slots \cap Busy : role[s] = "debug"

MayPark(c) ==
  /\ Kind[c] # "debug"
  /\ ~BlockedOnlyByDebugLease
  /\ Len(waiters) < MaxQueue

Park(c) ==
  /\ CannotTake(c)
  /\ MayPark(c)
  /\ waiters' = Append(waiters, c)
  /\ pc' = [pc EXCEPT ![c] = "waiting"]
  /\ retrying' = None
  /\ UNCHANGED <<primary, closed, draining, at, attempts, replayed, released,
                 prepared, runs, deaths>>
  /\ Memo(memo)

ParkRefused(c) ==
  /\ CannotTake(c)
  /\ ~MayPark(c)
  /\ Fails(c)
  /\ Memo(memo)
  /\ UNCHANGED waiters

Acquire(c) ==
  \/ FindClosed(c) \/ TakeNow(c) \/ TakeThrows(c) \/ Park(c) \/ ParkRefused(c)

(* The promise of park was resolved with a slot; its caller goes on. *)
Resume(c) ==
  /\ Quiet
  /\ pc[c] = "granted"
  /\ pc' = [pc EXCEPT ![c] = "preparing"]
  /\ attempts' = [attempts EXCEPT ![c] = @ + 1]
  /\ prepared' = [prepared EXCEPT ![c] = @ + 1]
  /\ memo' = Started(at[c])
  /\ UNCHANGED <<slots, dead, role, primary, waiters, closed, loopVars, at,
                 replayed, released, runs, deaths>>

(* The parked caller's timer: a queue exit, so the queue is drained. *)
TimeoutWithoutDrain(c) ==
  /\ Quiet
  /\ pc[c] = "waiting"
  /\ \E i \in DOMAIN waiters :
       waiters[i] = c /\ waiters' = RemoveAt(waiters, i)
  /\ Ends(c)
  /\ UNCHANGED <<slotVars, primary, closed, loopVars, deaths>>

Timeout(c) ==
  /\ Quiet
  /\ pc[c] = "waiting"
  /\ \E i \in DOMAIN waiters :
       waiters[i] = c /\ waiters' = RemoveAt(waiters, i)
  /\ Ends(c)
  /\ draining' = TRUE
  /\ UNCHANGED <<slotVars, primary, closed, retrying, deaths>>

----------------------------------------------------------------------------
(***************************************************************************)
(* How a preparation ends.  The pinned slot is not prepared here at all    *)
(* (context.ts connects it), so its preparation cannot fail.               *)
(***************************************************************************)
PrepareOk(c) ==
  /\ Quiet
  /\ pc[c] = "preparing"
  /\ memo[at[c]] # "failed"
  /\ memo' = [memo EXCEPT ![at[c]] = "ok"]
  /\ pc' = [pc EXCEPT ![c] = "running"]
  /\ attempts' = [attempts EXCEPT ![c] = 0]
  /\ runs' = [runs EXCEPT ![c] = @ + 1]
  /\ UNCHANGED <<slots, dead, role, primary, waiters, closed, loopVars, at,
                 replayed, released, prepared, deaths>>

PreparationFails(c) ==
  /\ Quiet
  /\ pc[c] = "preparing"
  /\ \/ memo[at[c]] = "pending" /\ at[c] # primary
     \/ memo[at[c]] = "failed"

(* Credentials, breaker or an unreachable system: the slot is kept, and    *)
(* whoever takes it next prepares it again.                                *)
PrepareAuthFails(c) ==
  /\ PreparationFails(c)
  /\ FreesSlot(at[c], dead)
  /\ Ends(c)
  /\ Memo([memo EXCEPT ![at[c]] = "none"])
  /\ UNCHANGED <<primary, waiters, closed, retrying, deaths>>

AttemptsLeft(c) == attempts[c] < MaxAttempts

(* A slip: the freed capacity is left for the next release to notice. *)
RetiresQuietly(c) ==
  /\ PreparationFails(c)
  /\ slots' = slots \ {at[c]}
  /\ dead' = dead \cup {at[c]}
  /\ role' = [role EXCEPT ![at[c]] = None]
  /\ UNCHANGED <<primary, waiters, closed, draining, deaths>>

(* Dead on arrival: retire the slot, drain, then try again or give up. *)
Retires(c) ==
  /\ PreparationFails(c)
  /\ slots' = slots \ {at[c]}
  /\ dead' = dead \cup {at[c]}
  /\ role' = [role EXCEPT ![at[c]] = None]
  /\ draining' = TRUE
  /\ UNCHANGED <<primary, waiters, closed, deaths>>

RetireAndRetry(c) ==
  /\ Retires(c)
  /\ AttemptsLeft(c)
  /\ retrying' = c
  /\ pc' = [pc EXCEPT ![c] = "retry"]
  /\ at' = [at EXCEPT ![c] = None]
  /\ UNCHANGED <<attempts, replayed, released, prepared, runs>>
  /\ Memo(memo)

(* The deadline has passed or the attempts are used up. *)
RetireAndFail(c) ==
  /\ Retires(c)
  /\ Ends(c)
  /\ UNCHANGED retrying
  /\ Memo(memo)

----------------------------------------------------------------------------
(***************************************************************************)
(* runOnAttempt: what becomes of a lease.                                  *)
(***************************************************************************)
(* The work returned, or threw what says nothing of the session. *)
Finish(c) ==
  /\ Quiet
  /\ pc[c] = "running" /\ Kind[c] # "debug"
  /\ FreesSlot(at[c], dead)
  /\ Ends(c)
  /\ Memo(memo)
  /\ UNCHANGED <<primary, waiters, closed, retrying, deaths>>

(* A slip: the second try, too, is a fresh runOnAttempt. *)
ReplaysAgain(c, condemned, fast) ==
  RoleOf(c) = "read" \/ (~condemned /\ fast)

EligibleForReplay(c, condemned, fast) ==
  /\ c \notin replayed
  /\ RoleOf(c) = "read" \/ (~condemned /\ fast)

(***************************************************************************)
(* SESSION_DEAD.  condemned: the connection itself had been declared dead; *)
(* fast: it came within DEAD_ON_ARRIVAL_MS.  Whether the work reached the  *)
(* server first is known to neither: fast is a heuristic.                  *)
(***************************************************************************)
SessionDead(c, condemned) ==
  /\ Quiet
  /\ pc[c] = "running" /\ Kind[c] # "debug"
  /\ condemned => at[c] \in dead
  /\ FreesSlot(at[c], dead \cup {at[c]})
  /\ UNCHANGED <<primary, waiters, closed, deaths>>

(* The finally of the first try finds its lease released: it does nothing. *)
Replay(c) ==
  \E condemned, fast \in BOOLEAN :
    /\ SessionDead(c, condemned)
    /\ EligibleForReplay(c, condemned, fast)
    /\ replayed' = replayed \cup {c}
    /\ pc' = [pc EXCEPT ![c] = "retry"]
    /\ at' = [at EXCEPT ![c] = None]
    /\ retrying' = c
    /\ UNCHANGED <<attempts, released, prepared, runs>>
    /\ Memo(memo)

ThrowDead(c) ==
  \E condemned, fast \in BOOLEAN :
    /\ SessionDead(c, condemned)
    /\ ~EligibleForReplay(c, condemned, fast)
    /\ Ends(c)
    /\ Memo(memo)
    /\ UNCHANGED retrying

(* The owner of a debug lease calls release(). *)
EndDebug(c) ==
  /\ Quiet
  /\ pc[c] = "running" /\ Kind[c] = "debug"
  /\ \/ c \notin released /\ FreesSlot(at[c], dead)
     \/ c \in released /\ UNCHANGED <<slots, dead, role, draining>>
  /\ Ends(c)
  /\ Memo(memo)
  /\ UNCHANGED <<primary, waiters, closed, retrying, deaths>>

----------------------------------------------------------------------------
(***************************************************************************)
(* handoff: one round of its loop.                                         *)
(***************************************************************************)
StopDraining ==
  /\ draining
  /\ \/ waiters = <<>> /\ UNCHANGED <<slots, dead, role>>
     \/ /\ waiters # <<>>
        /\ \E E \in SUBSET Evictable : TakesNone(RoleOf(Head(waiters)), E)
  /\ draining' = FALSE
  /\ UNCHANGED <<primary, waiters, closed, retrying, callVars, deaths>>
  /\ Memo(memo)

ServeHead ==
  /\ draining
  /\ waiters # <<>>
  /\ LET c == Head(waiters) IN
       /\ \E E \in SUBSET Evictable, s \in Slots :
            /\ Takes(RoleOf(c), s, E)
            /\ at' = [at EXCEPT ![c] = s]
       /\ pc' = [pc EXCEPT ![c] = "granted"]
  /\ Memo(memo)
  /\ waiters' = Tail(waiters)
  /\ UNCHANGED <<primary, closed, loopVars, attempts, replayed, released,
                 prepared, runs, deaths>>

RejectHead ==
  /\ draining
  /\ waiters # <<>>
  /\ \E E \in SUBSET Evictable : MintThrows(RoleOf(Head(waiters)), E)
  /\ Ends(Head(waiters))
  /\ Memo(memo)
  /\ waiters' = Tail(waiters)
  /\ UNCHANGED <<primary, closed, loopVars, deaths>>

Handoff == StopDraining \/ ServeHead \/ RejectHead

----------------------------------------------------------------------------
(***************************************************************************)
(* onSlotConnectionDied.  A session that was never logged on cannot die.   *)
(***************************************************************************)
Dies(s) ==
  /\ Quiet
  /\ s \in slots \ dead
  /\ memo[s] # "none" \/ s = primary
  /\ deaths < MaxDeaths
  /\ deaths' = deaths + 1
  /\ UNCHANGED <<primary, waiters, closed, retrying, pc, at, attempts, replayed,
                 prepared, runs>>

DiesIdle(s) ==
  /\ Dies(s)
  /\ s \notin Busy
  /\ slots' = slots \ {s}
  /\ dead' = dead \cup {s}
  /\ draining' = TRUE
  /\ UNCHANGED <<role, released>>
  /\ Memo(memo)

(* A slip: the lease of a request in flight is ended with its session. *)
EndedAtOnce(s) == FALSE

LeftToFinally(s) == s \in Busy /\ role[s] # "debug"

DiesInUse(s) ==
  /\ Dies(s)
  /\ LeftToFinally(s)
  /\ dead' = dead \cup {s}
  /\ UNCHANGED <<slots, role, draining, released>>
  /\ Memo(memo)

(* The lease's activeRelease, or releaseSlot while there is no lease yet. *)
DiesUnderDebug(s) ==
  /\ Dies(s)
  /\ s \in Busy /\ ~LeftToFinally(s)
  /\ FreesSlot(s, dead \cup {s})
  /\ released' = released \cup
       {c \in Calls : pc[c] = "running" /\ at[c] = s}
  /\ Memo(memo)

----------------------------------------------------------------------------
(***************************************************************************)
(* primary(): seatPrimary.                                                 *)
(***************************************************************************)
Reseats ==
  /\ Quiet
  /\ ~closed
  /\ primary \notin slots \/ primary \in dead
  /\ UNCHANGED <<role, waiters, closed, loopVars, callVars, deaths>>

SeatIdle ==
  /\ Reseats
  /\ \E E \in SUBSET Evictable :
       /\ Sweeps(E)
       /\ primary' \in IdleIn(slots')
  /\ Memo(memo)

SeatMints(E) == MayMint(E)

SeatMinted ==
  /\ Reseats
  /\ \E E \in SUBSET Evictable, s \in Slots :
       /\ SeatMints(E)
       /\ Mints(s, E)
       /\ primary' = s
  /\ Memo(memo)

(* The mint threw, or nothing fit is left: the old seat stays. *)
SeatNobody ==
  /\ Reseats
  /\ \E E \in SUBSET Evictable :
       /\ IdleIn(Swept(E)) = {}
       /\ RoomIn(Swept(E)) \/ FitIn(slots) \subseteq Preparing
       /\ Sweeps(E)
  /\ UNCHANGED primary
  /\ Memo(memo)

SeatShared ==
  /\ Reseats
  /\ IdleIn(slots) = {} /\ ~RoomIn(slots)
  /\ Sweeps({})
  /\ primary' \in FitIn(slots) \ Preparing
  /\ Memo(memo)

Primary == SeatIdle \/ SeatMinted \/ SeatNobody \/ SeatShared

----------------------------------------------------------------------------
(***************************************************************************)
(* shutdown closes the sessions but keeps the slots; dispose drops them.   *)
(***************************************************************************)
Closes ==
  /\ Quiet
  /\ closed' = TRUE
  /\ waiters' = <<>>
  /\ pc' = [c \in Calls |-> IF pc[c] = "waiting" THEN "over" ELSE pc[c]]
  /\ UNCHANGED <<role, primary, loopVars, at, attempts, replayed, released,
                 prepared, runs, deaths>>

Shutdown == ~closed /\ Closes /\ UNCHANGED <<slots, dead, memo>>

Dispose == slots # {} /\ Closes /\ slots' = {} /\ dead' = Slots /\ Memo(memo)

----------------------------------------------------------------------------
CallStep(c) ==
  \/ Resume(c)
  \/ PrepareOk(c) \/ PrepareAuthFails(c)
  \/ RetireAndRetry(c) \/ RetireAndFail(c)
  \/ Finish(c) \/ Replay(c) \/ ThrowDead(c)

Next ==
  \/ Handoff
  \/ \E c \in Calls :
       \/ RefuseAtDoor(c) \/ Acquire(c) \/ Timeout(c)
       \/ CallStep(c) \/ EndDebug(c)
  \/ \E s \in Slots : DiesIdle(s) \/ DiesInUse(s) \/ DiesUnderDebug(s)
  \/ Primary
  \/ Shutdown \/ Dispose

Spec == Init /\ [][Next]_vars

(***************************************************************************)
(* The event loop runs a block to its end, a promise that is settled is    *)
(* delivered, a preparation ends and every request has an HTTP timeout.    *)
(* Strong, because what others do in between disables a call's step only   *)
(* while their block runs.  Nothing is promised of a parked caller's timer *)
(* or of a debug lease.                                                    *)
(***************************************************************************)
Fairness ==
  /\ WF_vars(Handoff)
  /\ \A c \in Calls :
       WF_vars(pc[c] = "retry" /\ Acquire(c)) /\ SF_vars(CallStep(c))

FairSpec == Spec /\ Fairness

----------------------------------------------------------------------------
TypeOK ==
  /\ slots \subseteq Slots /\ dead \subseteq Slots
  /\ role \in [Slots -> Roles \cup {None}]
  /\ memo \in [Slots -> Memos]
  /\ primary \in Slots
  /\ waiters \in Seq(Calls) /\ Len(waiters) <= MaxQueue
  /\ closed \in BOOLEAN /\ draining \in BOOLEAN
  /\ retrying \in Calls \cup {None}
  /\ pc \in [Calls -> Stages]
  /\ at \in [Calls -> Slots \cup {None}]
  /\ attempts \in [Calls -> 0..MaxAttempts]
  /\ replayed \subseteq Calls /\ released \subseteq Calls
  /\ prepared \in [Calls -> Nat] /\ runs \in [Calls -> Nat]
  /\ deaths \in 0..MaxDeaths

(* A call that has been given a slot and has not given it back. *)
Using(c) == pc[c] \in {"granted", "preparing", "running"}

(***************************************************************************)
(* The pool never counts more sessions than maxSessions, a corpse somebody *)
(* still leases being one: neither tryTake, nor the re-seated primary, nor *)
(* a slot that died under its lease lets it mint one too many.             *)
(***************************************************************************)
CapacityBound ==
  Cardinality({s \in slots : role[s] # None \/ s \notin dead}) <= MaxSessions

(***************************************************************************)
(* No more calls of a role than its limit are using a session: one whose   *)
(* session has died still counts until its own finally, except a debug     *)
(* lease, which ends with its session.                                     *)
(***************************************************************************)
RoleBound ==
  \A r \in Roles :
    Cardinality({c \in Calls : /\ Using(c) /\ RoleOf(c) = r
                               /\ r = "debug" => at[c] \notin dead})
      <= RoleLimit(r)

(***************************************************************************)
(* Types, and the pool within its limits.                                  *)
(***************************************************************************)
WithinLimits == TypeOK /\ CapacityBound /\ RoleBound

(***************************************************************************)
(* A session is given to one call at a time and stays that call's until it *)
(* gives it back: neither a second release of an old lease, nor the end of *)
(* a replay, nor a death, nor an eviction takes it away.  Only a debug     *)
(* lease whose session is dead is ended for its owner.                     *)
(***************************************************************************)
LeaseIsKept ==
  \A c \in Calls : Using(c) =>
    /\ \A d \in Calls \ {c} : Using(d) => at[d] # at[c]
    /\ \/ role[at[c]] = RoleOf(c) /\ (at[c] \in slots \/ closed)
       \/ Kind[c] = "debug" /\ at[c] \in dead

(***************************************************************************)
(* No wake-up is lost: whenever a block has come to its end, the first     *)
(* parked call is one that could not be served now.                        *)
(***************************************************************************)
HeadIsBlocked ==
  ~draining /\ waiters # <<>> =>
    LET r == RoleOf(Head(waiters)) IN
    \/ Cardinality({s \in slots : role[s] = r}) >= RoleLimit(r)
    \/ /\ \A s \in slots : role[s] # None
       /\ Cardinality(slots) >= MaxSessions

(***************************************************************************)
(* A debugger whose session died holds nothing back: its slot is out of    *)
(* the pool although its owner may sit in a long poll that never returns.  *)
(***************************************************************************)
CorpseFreesDebug == \A s \in slots : role[s] = "debug" => s \notin dead

(***************************************************************************)
(* Nobody waits for what is free: neither for a place whose wake-up was    *)
(* lost nor for one that a dead debugger keeps.                            *)
(***************************************************************************)
NothingHeldBack == HeadIsBlocked /\ CorpseFreesDebug

(***************************************************************************)
(* FIFO is a property of the pool: a read or write that is given a session *)
(* while others are parked was the first of them.                          *)
(***************************************************************************)
NoBarging ==
  [][\A c \in Calls :
       ~Using(c) /\ Using(c)' /\ waiters # <<>> /\ Kind[c] # "debug"
         => c = Head(waiters)]_vars

(***************************************************************************)
(* A call is no logon amplifier and is not run for ever: however sessions  *)
(* die under it, before its work or in it, it asks for at most twice       *)
(* MAX_PREPARE_ATTEMPTS preparations and its work begins at most twice; a  *)
(* debug lease begins once.  Each acquire counts its attempts from zero,   *)
(* so the bound rests on the second try being the last.                    *)
(***************************************************************************)
RetriesAreBounded ==
  \A c \in Calls :
    LET tries == IF Kind[c] = "debug" THEN 1 ELSE 2 IN
    prepared[c] <= tries * MaxAttempts /\ runs[c] <= tries

(***************************************************************************)
(* A parked call leaves the queue without the help of its timer, unless a  *)
(* debug lease is out: sessions that are given back reach it.              *)
(***************************************************************************)
ParkedIsServed ==
  \A c \in Calls :
    pc[c] = "waiting" ~>
      \/ pc[c] # "waiting"
      \/ \E d \in Calls : Kind[d] = "debug" /\ pc[d] = "running"

=============================================================================
