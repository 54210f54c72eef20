# abapsmith in TLA+

abapsmith is an MCP server (TypeScript, `src/src/`) that lets an agent read,
write, activate, test and debug ABAP objects on SAP systems over ADT, SAP's HTTP
development interface. Several server processes may share one state directory,
one process talks to several systems, and every system is reached over a pool of
stateful HTTP sessions. What can go wrong is in the coordination: who holds a
session, which of several sessions carries a lock, what a second process does to
a lock file, what a retry repeats. This directory models that coordination,
checks it with TLC and proves parts of it with TLAPS.

## 1. The system: parts, state, operations

| Part | State it keeps | Operations | Interacts with |
|---|---|---|---|
| Session lock (`src/src/adt/session-lock.ts`) | hold, FIFO of waiters, async token set | `runExclusive`, `acquireImplicit`, `acquireLease`, `forceRelease` | every HTTP request of a connection |
| File lock (`src/src/state-dir.ts`) | one lock file per path: holder record, mtime | `withFileLock`, its synchronous twin, stale breaking, keyed release | journal, object gate, auth latch, debug arm lock |
| Object gate (`src/src/adt/object-gate.ts`) | promise chain per object, lock file per object | `run` | pool writes; file lock |
| Session pool (`src/src/adt/pool.ts`) | slots, waiters per lane, the pinned primary | `withRead`, `withWrite`, `reserveDebug`, `primary`, `shutdown`, retirement, replay | connections, object gate, sessions |
| Connection (`src/src/adt/connection.ts`) | liveness, generation, logon, deferred death | `connect`, `request`, `withStatefulSession`, `withFreshSession`, `dropSession`, `shutdown` | session lock, circuit breaker, pool |
| Stateful session (`src/src/adt/session.ts`) | ledger of ADT locks per object | `lock`, `unlock`, `withLock`, recovery | connection, write tools |
| Circuit breaker (`src/src/adt/circuit-breaker.ts`, `http-guard.ts`, `auth-latch.ts`) | latch in memory and on disk; phase, failure count, probe slot | admit, inspect, `trip`, re-arm, probe | every request of a connection, file lock |
| Journal (`src/src/journal.ts`) | index, images and in-flight markers on disk | `begin`, `settle`, `reconcile`, prune of the index, sweep of the images | write tools, undo, file lock |
| Write, undo and activation (`src/src/tools/write.ts`, `src/src/adt/undo.ts`, `activate.ts`) | none of their own | lock, put, unlock, activate; etag guard | journal, sessions, pool |
| Debug lane (`src/src/debug/`) | arm lock, listener, attached session | arm, listen, attach, step, stop | pool debug slots, file lock |
| MCP front end (`src/src/server.ts`, `mcp-http`) | HTTP sessions | dispatch, shutdown | all tools |
| System registry and context (`src/src/systems/`) | per system: config, pool, memoised logon | `ensureConnected`, routing | pool, connection |
| Session transport (`src/src/adt/session-transport.ts`) | the transport a session's writes share | resolve, remember | write tools |
| Configuration, modes, safety gate (`config.ts`, `mode.ts`, `safety.ts`) | none | allow or refuse one call | all tools |
| Snapshots, credentials, fluid programs | files, tokens, sources on SAP | one call each | tools, connection |
| Tools, parsers, formatting (`src/src/tools/`, `src/src/adt/` the rest) | none | one ADT request each | connection |

What makes each of them correct:

* Session lock: one holder; it loses the lock only by its own release, its TTL
  or an eviction; no nesting blocks itself; first come, first served; every call
  settles.
* File lock: one process in the section; a release removes its own file; what a
  dead process leaves is removed.
* Object gate: two writes of one object never overlap and keep their order; the
  map empties; "busy" means that nothing was written.
* Pool: the cap and the role limits; a lease stays with its call; first come,
  first served, with no lost wake-up; no write is carried out twice.
* Connection and logon: a death is reported once, against its own generation;
  one logon per session, shared by all who wait for it.
* Circuit breaker: a rejected password is sent once more per file the operator
  leaves, and no more often; one probe per half-open phase, and it gives its
  slot back.
* Stateful session: every ADT lock taken is given back or reported.
* Journal: what was written on SAP is on record, and its images outlive every
  reader that needs them.
* Write, undo, activation: nothing is overwritten that the caller has not seen.
* Debug lane: a caught debuggee is let go whoever forgets it, unless SAP refuses
  to or the lane's connection is closed first, and every way out of a debug
  session gives up its registration, its arm lock and its lease.

## 2. What is hard

* Interleaving: all parts run on one event loop, so every `await` is a point
  where another call may run; several processes share the state directory.
* Order: hand-over of a lock or a slot resolves a promise now and resumes its
  caller later.
* Failure: a session dies while a lease is out; a process is killed holding a
  lock file; a request that changed the server is answered by an error.
* Time: wait timeouts race hand-over; leases and lock files expire.

`PROJECT.json` lists the hazards one by one, each at its line, with the
properties that catch it. Two have none: the code does not guard against the
split window (`connection.ts:2302`) nor against the stale memo of a logon
(`systems/context.ts:372`); section 4 describes both under "Observations".

## 3. The modules

| Module | Models | Checked by | Proved in |
|---|---|---|---|
| `SessionLock` | `session-lock.ts` | `MCSessionLock` | `SessionLock_proofs` |
| `ExclusiveSection` | what a lock file promises (no code of its own) | through the next two | through the next two |
| `FileLock` | `withFileLock` in `state-dir.ts` | `MCFileLock` | `FileLockAndLane_proofs` |
| `Pool` | `pool.ts` | `MCPool` | `Pool_proofs` |
| `ObjectGate` | `object-gate.ts`, and `withWrite` around it | `MCObjectGate` | `ObjectGate_proofs` |
| `CircuitBreaker` | `circuit-breaker.ts`, and `GuardedHttpClient.request` in `http-guard.ts` | `MCCircuitBreaker` | `CircuitBreaker_proofs` |
| `Connection` | `connection.ts` | `MCConnection` | `Connection_proofs` |
| `StatefulSession` | `session.ts`, and the end of a window and of the process in `connection.ts` | `MCStatefulSession` | `SessionAndWrite_proofs` |
| `Journal` | `journal.ts` | `MCJournal` | `Journal_proofs` |
| `DebugLane` | `debug/session.ts`, `debug/arm-lock.ts`, the poll in `debug/transport.ts`, start, step and stop in `tools/debug.ts` | `MCDebugLane` | `FileLockAndLane_proofs` |
| `WriteFlow` | `write.ts`, `undo.ts`, `activate.ts` in `adt/`, and `tools/write.ts` | `MCWriteFlow` | `SessionAndWrite_proofs` |

How they compose: `FileLock` implements `ExclusiveSection` (a refinement
mapping, checked and proved). `ObjectGate` does not repeat the lock file: it
uses one `ExclusiveSection` per key, and `LockFilesAreSections` says that its
steps on a key are steps of that section. Inside the gate the pool is a number
of sessions handed out in any order; `Pool` in turn starts a write at the moment
the gate lets it run. `SessionLock` sits under all of them, one per connection,
and shares no state with them. `CircuitBreaker` takes from it that one request
at a time is sent on a session, and that a wait for it may fail.
`Connection` has the session lock as a plain queue and the breaker closed.
`StatefulSession` is one window of `Connection`, seen from inside: there the
window makes two requests, here it makes calls on objects, and the session may
end under it. `Journal`'s index lock excludes as `ExclusiveSection` says, deaths
included. `WriteFlow` takes one gate from `ObjectGate`, one entry per call from
`Journal` and one enqueue from `StatefulSession`, and adds what none of them
knows: which text is on the server. `DebugLane` takes one debug lease of `Pool`,
kept by `LeaseIsKept` until its session releases it, and one lock file of
`FileLock`, which another process may have.

In all modules one step is what the event loop runs without interruption: a
block between two awaits, a timer, an answer that arrives. Several processes
(`FileLock`, `ObjectGate`) interleave at every file system call. An action bears
the name of the function or of the outcome it stands for, and `map` in
`PROJECT.json` gives the lines of each. An operator introduced as a "plausible
slip" is no part of the specification: it is the form a definition would take
with a likely bug, kept to show that a property notices it.

### SessionLock

A frame is one call of `runExclusive`, `acquireImplicit` or `acquireLease`, and
stands for the Symbol the call mints. `hold` and `waiters` are the fields of the
class, `ttl` the clock of the lease, `ambient` the token set in
AsyncLocalStorage. `enclosing` is not in the code: it records what a frame truly
runs inside, so that `NoSelfDeadlock` can ask whether the token set knows.
`Park`, `TakeFree`, `PassThrough`, `RefuseExclusive` are the branches of
`acquireExclusiveToken`; `Leave` is the `finally`, `Enter` the resumption of a
woken waiter, which comes later than the hand-over. A frame may be called from
work that a finished `runExclusive` left behind, whose tokens are stale. An
evicted frame runs on and releases later.

### ExclusiveSection and FileLock

`ExclusiveSection` is what a caller of `withFileLock` may count on: a process
asks, enters when nobody holds the section, and leaves it. A `Mortal` process
may be over at any moment with the section still its own (`Die`); such a section,
and no other, may be taken from its holder (`Reclaim`).

In `FileLock`, `owner`, `written` and `age` are the file: whose record it has,
whether the record is there yet (the file is created empty), and how old it is.
`pc` is the place in `withFileLock`. Both valves of `breakIfStale` are there (the
hard one on age alone, the soft one with the probe of a pid on the same host),
and so is the gap between every stat or read and the unlink that follows it.
`Faulty` contenders may be killed at any step or fail to write or remove their
file. A contender that is `done` from the start never calls. The mapping of
`Section` calls a contender in the section from the creation of the file to its
removal, and over when it is killed or has left its file behind.

### Pool

A call is one `withRead`, `withWrite` or `reserveDebug`. `slots`, `role`,
`memo`, `primary`, `waiters` and `closed` are the pool's fields; `dead` is the
connections' own liveness, as the pool sees it. `handoff` is a loop in a
synchronous block; the model runs it one round per step, and `draining` and
`retrying` keep every other step out until the block is over. `tryTake`, with
the sweep of dead and idle slots, is `Takes`, `TakesNone` or `MintThrows`;
`runOnAttempt` is `Finish`, `Replay` or `ThrowDead`; `seatPrimary` is the four
disjuncts of `Primary`, one per tier. A run is a `withRead` whose op executes
customer ABAP: `PassesDoor` refuses it, as `withRead` does, because the read
lane replays whatever died. `prepared` and `runs` count, for the property only,
what a call has asked of sessions so far, over both its tries.

### ObjectGate

`gate` is which of the three gates a process was built with. `chains` is the map
from key to the last promise of its chain, `prev` what a write is chained to,
`held` the lock files, `busy` the calls that were told that another process has
the object. `ahead` is history: the writes that were unsettled on the chain when
a call came. A promise that settles and the clean-up of its entry are two steps
(`Release`, `Clear`), in the order in which the reactions were registered.

### CircuitBreaker

`b` is the object's fields as a record, and each method a function from record
to record; `Answer` composes them as `settle` does, `Observe` for what `inspect`
or `noteFailure` make of the answer, then `ResolveProbe`. (The outer catch of
`request` asks for the slot again; by then it is free or the call changes
nothing.) `role` is what the two locals `authProbe` and `isProbe` remember
across the awaits. A request is at one of three places: `idle`, `parked` between
its admission and the session mutex, `sent` until its answer. Both cooldowns are
a flag or a phase and a step that ends them: the code compares clocks lazily,
but in each operation before it reads the phase. The operator's re-arm file is
`signal`; a request that is refused changes nothing but a count and has no
action. The file may be overlooked, because the code looks once a second.

### Connection

A caller makes one call, of one method: `Requests` are get, put, post and del
outside a window, with their budget of one recovery logon and one CSRF refresh;
`Connects` are `connect()`; `Windows` `withStatefulSession`; `Runs`
`withFreshSession`. `phase` is where the call stands, `req` the physical request
it made last: what it is for, the cookie it was composed with, the generation it
was stamped with, its answer. `owner` and `queue` are the session mutex; `conn`
is the class's view of its session (`generation`, `isConnected`, the death on
record, the deferred death); `active` the window that has claimed the
connection. `http` is the library's client, modelled as this code uses it: one
cookie jar, one token, one logon that later callers join. `sap` is the server,
which may end a session at any answer. `told` is history: the sessions the
connection was told are gone. Promise continuations run before the next event of
the network, so an event waits until `Quiet`.

### StatefulSession

One window, from the first LOCK to its end. `stage` is the window, `fn` the call
its body awaits. `held` and `handle` are the ledger; `release` the unlock under
way for an object (being sent, on the wire, asleep between two attempts), which
others join; `sweep` and `joined` the two callers of `unlockAll()`, the end of
the window and `shutdown()`. `suspected`, `conflicts` and `leaked` are the three
sets of doubts that decide whether the window drops its session. `sap` is the
truth: the enqueues of the session and whether it lives. Any answer may be lost
after SAP has acted.

### Journal

A write is one `withJournalledMutation`, numbered in the order of its id.
`stage` says how far it has come, `images` which images its entry will name;
`blobs`, `index` and `markers` are the three parts of the directory, `torn` says
that the index ends in half a line, `unguarded` that a marker could not be
written. `prune` is the prune under way: the index is rewritten, the blobs are
listed, the markers judged (`InFlightOf`), the orphans swept, each a step with
others in between. `faults` bounds how often the disk fails; `Faulty` processes
may be killed anywhere and leave lock, markers and torn lines. `asserting` are
the writes somebody reconciles by hand. `excused` is history: the entries that
retention dropped, or that were glued to a torn line.

### WriteFlow

One object. A call is one write, delete or undo, and `at` its place in the flow
of the tool: resolve, (plan of an undo), read, journal entry, lock, recheck,
change, unlock, comparison, activation, outcome. `content` is the version a
writer sees, `active` the one that runs. `author`, `replaced` and `overrun` are
history: what a change replaced, and whose texts a create's PUT or rollback
removed though its entry, begun before its POST, has no image of them.
`seen` is the text whose etag the caller expects, `base` the baseline. A text is
known by who wrote it, so two texts are equal just if their etags are. Calls of
`Gated` share the gate; the others and the `Editors` do not. The server is
modelled as the code relies on it: a lock needs an object that is there and has
one owner, a change needs the lock, a create and an activation are refused under
somebody else's lock, and a session that ends loses its lock and tells nobody.

### DebugLane

One process with one lane. `progress` is a start's place in `handleStart`, and each
start has one `DebugSession`: `status`, `poll` (what became of its
`listenHandle`), `told` (`debuggeeId` is set), `timer`, `ending`
(`terminatePromise`) are its fields, `todo` the requests of its clean-up that are
still to be carried out, which `settleWithin` abandons but does not cancel. Any of
them may fail, and none is tried again (`terminateStep`). `Disconnect` is
`closeSessionConn`, at the end of a start that failed (`Close`) and before a lane
is freed (`FreeLane`): the session's own connection is shut down, which rejects
what is parked on it. A clean-up that is still going on by then loses what is left
of `todo`, or sends it after a logon of its own, for `shutdown` leaves the client
usable. A debuggee is "left" once a request that was to end it failed or was
dropped; from then on it is SAP's.
`registry`, `lease` and `lane` are `activeSessions`, the pool's debug lease and
`debugLanes[0]`; `holds` and `section` the arm lock's count and its file. SAP is
`registered`, the listeners it has on record, and `debuggee`. `at` and `about`
are the calls of stop and step. A promise reaction that is due (`Due`) runs
before anything else. `StepFails` is a request of the start that fails, and
`Cleared` may force a session out of the registry, as `stop` with `force` does.

## 4. The runs

| Run | Question | Result |
|---|---|---|
| `session_lock` | four calls on one lock, or two on each of two, nested in every way | hold owned, kept, handed over in order; no call blocks on itself; every call settles and a lease nobody renews is reclaimed |
| `file_lock` | one process that may be killed and one survivor, or three healthy ones, one on another host | one in the section; a release frees its own; it implements `ExclusiveSection`; the leftover is removed |
| `file_lock_breakers` | one killed process and two survivors | violated: see the finding |
| `pool_leases` | a read, two writes, a debug lease, two sessions, a death | cap, role limits, leases, order, no lost wake-up |
| `pool_served` | a read, a write, an ABAP run, a debug lease, one session that may die, under fairness | a parked call is served; tries within tries stay bounded |
| `object_gate` | three writes of one object in one process, one write and a batch in another | exclusion, order, cleaning, honest "busy", progress |
| `circuit_breaker` | three callers on two sessions, two re-arm files, latched from the start or not | slot given back, one probe per phase, one per file, latch holds, probes settle |
| `connection` | a request, a connect, a window and a run on one connection whose session may end at any answer | a reported death is never forgotten; dead is never connected; one logon per request; connect() is honest; every call returns |
| `stateful_session` | four calls on two objects, lost answers, retries, a delete, an expiry, a trip, a signal at any moment | every enqueue is known; none is left when the window has ended; the window ends |
| `journal` | three writes of two processes, prunes, a disk fault, a killed process, a reconciliation | no entry loses an image; what was reported is on record; begin() returns |
| `write_flow` | any two calls, or an undo with a write or delete in the gate and another past it, and a person in an editor | what a change replaced is on record, and only a create removes text without an image; an expected etag is honoured; no gated call publishes or takes back another's text |
| `debug_lane` | two starts and a stop or step at any moment, an idle timer, failing requests and polls, clean-ups that fail, are abandoned or lose their connection, another process at the arm lock | each registered session has the lease; what a session holds is let go, or a request that was to do so failed or was dropped; registry, lease and lock are given back |

### Bounds

Each is a constant of its module and is given its value in the .cfg.

* Session lock: four frames are a holder, a waiter, one evicted or timed out and
  one nested in any of them; two locks, since nesting A, B, A needs two, and two
  frames on either, since opposite orders do; a queue of two, so that order and
  fullness both occur; a TTL of one tick. One call may be of any kind, a second
  exclusive or a lease, and the others are exclusive; the theorems cover the rest.
* File lock: a wait of one tick and a hard valve of three keep the proportion
  `HardStale > 2 * WaitTicks` of the soft valve, and `age` stops one past the
  hard valve, where nothing tells ages apart any more. `MaxHold` is the valve:
  a section that outlasts it is described under "Observations". Three healthy
  contenders are an owner, a waiter and one that knows no pid. A mortal process
  is met by one survivor, since two are the finding.
* Pool: `MaxDeaths` is one, and eight slot names are more than can be in use at
  once (asserted in `MCPool`). One session makes everybody wait; two let one be
  leased while the other dies, is evicted or is adopted by `primary()`. One
  preparation attempt makes the limit bite in the safety run; `pool_served`,
  with two, goes round the loop.
* Object gate: three writes on one chain, because a middle link needs one before
  and one after; two spellings of one name; one session per process, so that a
  write waits inside the gate; one write whose session dies.

* Circuit breaker: three callers on two sessions are one on the wire, one behind
  it and one elsewhere that trips, opens or closes the breaker meanwhile; each
  calls again and again, so the outages, trips and re-arms are not bounded but
  by `MaxSignals`, two, of which the second file may supersede a probe of the
  first. A threshold of two has a state between closed and open.
* Connection: one call of each kind; each pair of kinds meets, and three others
  may act between any two steps of a call. Sessions and generations are
  unbounded numbers and stay small because calls do.
* Stateful session: two objects, so that a sweep goes on to a second one; four
  calls are lock, unlock, lock again and one on the other object; an attempt and
  its retry.
* Journal: three writes of which one is of the other process; a retention of one
  entry, so that every prune drops something; one disk fault and one process
  that may die; one write that is reconciled.
* Write flow: a third call would only add a bystander to two that interfere,
  except to an undo, which has the entry of a second and the interference of a
  third; hence the two sets of initial states of `MCWriteFlow`.
* Debug lane: two starts are one and its successor, or one that was stopped in
  the middle and goes on beside it; one stop or step, since a session is also
  ended by its timer and by its own start. The starts are named in the order in
  which they begin. The safety part was also checked with two stops.

The theorems of section 5 hold for any value of the constants; bounds matter
only to what section 6 calls model-checked.

### Fairness

* Session lock: a resumed caller goes on, work ends (each request has an HTTP
  timeout), armed timers fire and the clock advances. Nobody owes it to anybody
  to release a lease.
* File lock: a process that was not killed gets its file system calls answered
  and its section done; a contender that timed out is called again; time passes.
  No fault is fair.
* Pool: the block that runs comes to its end; a call's own next step is strongly
  fair, because others disable it only for the length of their blocks. A parked
  call's timer is not fair: `ParkedIsServed` says that it is served without it.
  The end of a debug lease is not fair either: a user may debug for ever.
* Object gate: promise reactions run, the wait for a lock file ends one way or
  the other, a free session is handed out, a request is answered. A refusal and
  a death are never owed.

* Circuit breaker: the wait for the mutex ends one way or the other, and so does
  a request; both have timeouts. Cooldowns and the operator owe nothing.
* Connection: a call that was started goes on, which includes its answer or its
  timeout. Nobody has to call.
* Stateful session: requests are answered or time out, timers fire, the window
  and the process go on. Nobody owes a signal or a call.
* Journal: the steps of `begin()` and of a prune, and the breaking of a dead
  process's lock (which `LeftoverIsBroken` shows). Nobody owes a mutation, an
  outcome or a reconciliation.
* Write flow: only safety is checked.
* Debug lane: as long as a call, a request, a poll, a timer or a clean-up is under
  way, one of them goes on. That is less than fairness to each, and enough
  because they are finitely many. A clean-up's request is carried out or fails in
  the end, abandoned or not; that it succeeds is not assumed. Nobody owes a call, nobody keeps
  a suspended session alive for ever, and the other process may keep the lock.

Where a cfg says `CHECK_DEADLOCK FALSE`, each call is made at most once, so the
system rightly stops when all are over; the breaker stops when it is latched and
the operator's files are used up.

### Finding

`file_lock_breakers` (`src/src/state-dir.ts:402`). Two processes find the
leftover of a killed one stale. The first removes it, creates its own and
enters; the second then unlinks the path on the strength of its old stat and
enters too.

### Observations

What the code does where a reader may expect otherwise, met while modelling.
The models allow it, and no run claims the contrary.

* File lock. A section that outlasts the hard valve is broken and succeeded; its
  release, which has read its own nonce, then unlinks its successor's file
  (`state-dir.ts:377`, comment at 430). A contender that finds the file gone at
  every stat retries without looking at its deadline (476). A gated write may
  wait for a session longer than the 600 s after which others remove its file
  (`object-gate.ts:237`).
* Pool. A slot that `handoff` has leased to a parked call is marked as being
  prepared only when that call resumes; in between `primary()` may adopt it
  (`pool.ts:1008`, against 276). A write whose session died within 500 ms is
  tried again though SAP may have carried it out: the cutoff is a heuristic
  (`pool.ts:358`), and nothing the program sees tells the two apart. The model
  makes the two tries and claims nothing of their effects.
* Breaker. The latch is read before the wait for the session mutex and not after
  it, so what was parked at the trip is still sent (`http-guard.ts:715`, against
  685).
* Connection. A request is composed, cookie and token, before it waits for the
  mutex, and its answer reaches the jar after the mutex was handed on. A window
  that holds the mutex may so send its lock on one session and its write on
  another (`connection.ts:2302`). A hold that awaits a logon parked behind itself
  stalls until the wait timeout. The anomaly the comment at 606 to 617 calls
  structurally unreachable is reached, and a logon of the library that a counted
  one joined lets a death be logged as stale. `dropSession` swallows failures, so
  the session of `withFreshSession` is not always fresh (2455).
* Stateful session. A signal may end the process with exit code 0 while an
  enqueue is stranded (`connection.ts:2556`, `session.ts:1250`).
* Journal. A torn last line swallows the entry appended after it
  (`journal.ts:1135`, 1175). `reconcile` reads, then appends, and may overwrite
  an outcome observed in between (1528); settle after reconcile leaves
  `reconciled`. A prune drops entries by age and number, those in flight in
  another process included (1680).
* Undo. `performUndo` judges drift on the probe of `planUndo`, while the write
  takes a new baseline and expects no etag (`undo.ts:1057`, 1637, `write.ts`
  1103): what an editor outside the gate puts in between is replaced, and
  recoverable from the undo's own entry. An undo of a create that was told "gone"
  by one read and "there" by the next deletes without an image (`ToldBoth`).
* Write. After activating a document the tool records what it then reads as what
  the write left, whoever wrote it (`tools/write.ts:1166`); a later undo sees no
  drift and takes that away too. Nothing looks at what was put between the POST
  of a create and its LOCK, since a create is exempt from the recheck
  (`write.ts:3240`): its PUT replaces it, and its entry, begun when nothing was
  there, has no image of it. `rollbackCreate`, which comes after an unlock and a
  lock of its own, deletes what is there by then (`write.ts:2349`), without an
  image either. `OnlyCreatesOverrun`, a part of `ChangesAreOnRecord`, says how
  far this goes: nothing else removes a text without an image, and a gated
  create does so only to what came past the gate.
* Debug lane. A stop that comes while a start waits ends the start's session and
  the start goes on: having the arm lock, it launches its listener and makes the
  dead session "listening" (`debug/session.ts:1162` to 1196), may catch and
  attach (1432), and takes the lane. With a start made in between, two debuggees
  are suspended at once in a process that has one lease; the first to attach
  loses the lane, and only its idle timer ends it. The lock's count does not know
  whose hold it gives back: such a session releases twice (`doTerminate`, and
  1321 or a second end), which may free the lock under its successor's listener,
  against the comments at 1199 and `arm-lock.ts:258`. A failed poll never
  makes `armListener` throw: `armed` settles before the result does, also when
  nothing was sent (`transport.ts:1553`), so the race at 1182 is won by it and the
  trigger runs without a listener, against the comment at 1177. What a poll
  catches for a session that is ended before it waits for it stays suspended.
  So does a debuggee whose clean-up did not get its attach or its terminate
  through: `terminateStep` logs a failure or a timeout and does not try again
  (`debug/session.ts:1991`), the session is dead to every later `terminate`, and
  the tool closes its connection, which rejects what is parked there
  (`tools/debug.ts:2093`, 3334; `connection.ts:2638`). A timeout is told to the
  caller of `stop` (`tools/debug.ts:3142`), a failure is only logged. What
  `HeldIsLetGo` shows is that nothing else leaves a debuggee behind.
  `handleStop` and the death of a step clear the lane after an await without
  asking whose run is there (`tools/debug.ts:3335`, 2312). Two concurrent
  `removeBreakpoint` calls remove by an index found before an await, so one
  breakpoint stays armed and is forgotten.
* Lazy logon (`systems/context.ts:366`). A rejected logon clears the memo
  without asking whose it is, so a new primary may be asked to connect twice; a
  rejection kept for a latch outlives the latch if another connection's probe
  clears it.

## 5. What is proved

All proofs are checked by TLAPS for every value of the constants under the named
assumption of the module; none assumes a bound of the runs. Two proof modules
hold the theorems of two components each: the debug lane holds a lock file, and
the calls of the write flow work through sessions' windows. Their definitions
are told apart by name (`LaneSpec`, `WriteSpec`), so that each module can be
extended beside the other.

**Session lock.** `TypeCorrect`, `NoWedge` (`NobodyIsStranded`), `NestingIsSafe`,
`ReleaseIsKeyed` (`HoldIsKept`) and `ServedInOrder` (`NoOvertaking`). One inductive invariant, `IInv`, carries them. None of its
parts is inductive alone: that the queue is served needs the queue to hold
exactly the parked calls, that in turn needs no call to be in it twice, and
`NoSelfDeadlock` needs the token set to be what truly encloses a frame (`ambient
= enclosing`) and every token in it to be of a call that has run.
`HandOffServesHead` turns the loop of `handOff` into "the head of the queue gets
the lock", on which the action properties rest.

**File lock.** `Exclusion` (`OneInside`), `KeyedRelease` (`ReleaseFreesOwn`),
`Refinement` (`IsExclusiveSection`), under `Calm(P)`: no section outlasts the hard
valve, and those who ever call are any number of processes none of which is
killed or fails to remove its file, or any two that may. The finding and the
first observation are what happens without it; the module's `Section` mapping
takes deaths to `Die` and a stale break to `Reclaim`. The invariant says whose
the file is (`Owned`: a process past its creation, alone, or one that is over
with it for good), that a live owner is never older than the valve (`Young`, from
`MaxHold <= HardStale`), and that somebody about to break a file has only a
leftover before it (`Abandoned`). The last is where the number of callers
matters: of two, one is the dead owner, so nobody else can have removed the file
and created its own since the stat.

**Pool.** `TypeCorrect`, `LeasesAreKept`, `ServedInOrder`, `RetriesStayBounded`,
`CapacityIsBounded` and `RolesAreBounded` (together
`LimitsAreKept`), `NoLostWakeUp` and `DebugCorpsesAreFreed` (together
`NothingIsHeldBack`).
The base is `TypeInv`: the types, every call that uses a slot has one (`Tied`),
who may be going round the loop (`Trying`), and the queue holds just the calls
that wait. On it stand, each in turn inductive: `LeaseIsKept`; `Tallied` (what
lies behind a call in its second try is at most one whole try; what lies behind
in the current one is its attempts, or a full loop once it runs); `CapacityBound`,
by comparing the counted slots before and after each kind of step; `RoleBound`,
by mapping the users of a role into its leased slots, which `LeaseIsKept` makes
one-to-one; `HeadIsBlocked`, which needs `ClosedIsEmpty` and that every step
which frees anything starts a drain.

**Object gate.** `TypeCorrect`, `WritesExclude`, `ChainIsFifo`,
`ChainsAreCleared` (together `ChainsAreSound`), `BusyIsHarmless`, `LocksAreSections`. `GateInv` consists of
the types, `Chained` (the map names the last unsettled link, or nobody; links
follow in the order of `ahead`; a call waits for those it is behind), `Locked`
(a lock file is held by the one call that is between taking and releasing it)
and `GaveUp`. Exclusion within a process comes from the chain, across processes
from the lock file, and the proof splits accordingly. `LocksAreSections` is the
assume side of the composition; `Refinement` is the guarantee.

**Circuit breaker.** `TypeCorrect`, `SlotIsHeld`, `LatchHolds`,
`ProbesAreGranted` and `ProbesAreSingle`. The proof is about functions of the fields:
each method keeps them fitting together (`Sound`) and is `Tame`, that is, takes
no slot, arms nothing, gives a slot back only with the phase, and unlatches only
with a probe outstanding. Both compose, so `EveryEnd` covers all ways a request
ends at once. `NoWedge` and the type invariant are inductive; the count of
admissions needs `Budget` (a file not yet used is on disk or in the flag), the
latch needs `Outstanding` (a probe outstanding was admitted since the trip).

**Connection.** `TypeCorrect`, `DeadIsNotConnected` (`RecordIsSound`),
`LogonsAreBudgeted` (`OneLogonPerRequest`), `NoLossIsForgotten`
(`NoLossForgotten`) and `ConnectsAreHonest` (`ConnectIsHonest`). The flags are
kept fitting by each of the functions that change them; that a budget is spent
once needs `Frugal`: a request that may still log on has not done so.

The last two share the invariant `Kept`. Its ground is about who may act:
a holder past its wait and whatever is on the wire own the mutex (`Serving`), the
line holds just those who wait (`Lined`), a recovery under way has a loss on its
budget (`LossIsTaken`). From such a state every step is one of eight `Kinds`: it
sends, is answered or expires; settles a logon, starts one or joins one; revives
the connection; or is `Plain`, at most taking one answer in and making the record
`Darker`. Everything else is carried through the kinds. What it says:

* A session just made is on nobody else's request and in no report (`Fresh`), and
  one answer is acted upon at a time (`OneEvent`).
* What is on the wire with the jar's cookie carries the jar's generation
  (`StampFits`), so its report is not stale. This is the property itself seen from
  the wire, and it fails at once when a logon moves the generation while an old
  request is out. It needs that, while a logon is under way, no request with the
  jar's cookie is ahead of it: none reports (`JarSpared`), is on the wire
  (`JarSparedOnWire`) or stands before it in the queue (`JarSparedInLine`).
* A logon that was joined by a counting caller after it left is stamped with an
  older generation. If its answer brings the death of its own session, either the
  report counts (`LogonFits`) or the death is on record already (`DeathStands`),
  or the report is dropped as the anomaly that the code logs.
* A connect past its logon knows every loss, and no request has a report of its
  own pending (`Honest`). That is what `Revive`, which forgets the old death, and
  the close of the connect rest on.

**Stateful session.** `TypeCorrect`, `LedgerAlwaysSound` (`LedgerIsSound`, from
`EnqueuesAreKnown` and `ReleasesMeetTheirLock`), `WindowsLeaveNothing`
(`NothingStaysLocked`). The invariant `Tracked` ties the request in flight to the
call or release that waits for it (`WireFits`), says that a release can outlive
its ledger entry only over an object or a session that is gone (`Orphans`,
`GoneIsFree`), and that what a sweep has still to do covers the ledger
(`SweepCovers`).

**Journal.** `TypeCorrect`, `IndexStaysSound` (`IndexIsSound`), `RecordIsKept`
(`ReportedIsOnRecord`). `IndexedHasImage` is not inductive: an image may be gone
only if a sweep is on its way to it, and it is on its way only to what it listed
before it judged the markers. So the invariant adds that who prunes has the lock
(`PrunerHasLock`), that what a prune keeps is the index it rewrote (`KeptIsIndexed`),
that a claimed write has a marker or is unguarded (`ClaimIsMarked`), that a
sweep's finds are orphans (`SweepIsOfOrphans`) and that the images of a write
between its claim and its line are guarded (`Guarded`). For the record,
`LandedIsOnRecord` and `SettledIsClosed` relate a write's stage to its entry.

**Write flow.** `ChangesStayOnRecord` (`ChangesAreOnRecord`) and
`GateSpansTheWholeCall` (`GateSpansTheCall`), for any calls, editors and texts,
calls killed anywhere and locks taken away at any moment. `OnRecord` says, place
by place, what the journal has of a call and what the call knows of the object:
past the recheck, the object is what the call last read as long as it has the
lock, which is why the image, read long before, is exact; and an entry says
"succeeded" only when the change has landed. `Guarded` adds the gate: who is in
it is alone (`AuthorKnown`), so what it put can be replaced only from outside
until it has activated it, or, if it is a create, removed it again
(`OverrunKnown`); and what an undo is about to take back is still what
the undone call left when the undo looked (`PlanKnown`), or an outsider wrote it.

**Debug lane.** `RegistryStaysSound` (`RegistryIsSound`), for any number of
starts, stops and steps. The invariant has two parts beyond the types. `Leased`:
a registered session has the lease, and while a start that has taken the lease
waits for its connection nobody is registered, so the late clean-up of an
earlier session cannot give away the lease of its successor. `Counted`: the lock
file is ours exactly while the count is positive, and the count never exceeds
the starts that have been past the lock. That each of those gives its hold back
only once does not hold (section 4), and the property does not need it.

## 6. What is only model-checked

* Liveness: `NobodyWaitsForEver`, `LeftoverIsBroken`, `ParkedIsServed`,
  `EveryWriteSettles`, `ProbeSettles`, `EveryCallReturns`, `WindowEnds`,
  `EveryBeginReturns`, `HeldIsLetGo`, `EverySessionEnds`. Fairness and ENABLED are
  beyond the prover.

Every safety property that a passing run checks is proved.

## 7. What is not modelled

* Times: clocks are ticks, or left out where only "expired or not" matters. In
  the pool, which idle slot is warmest and which deadline has passed may be
  anything, which allows every behaviour a clock would.
* Payloads, error texts, environment parsing, `stats()`.
* The connection below the pool: the pool's model takes from it that a session
  which was logged on may die at any time, and that it says so.
* A batch of writes, in `ObjectGate`'s exclusion: it has no key, so it runs
  beside a single write of one of its members, which a comment in
  `src/src/tools/write.ts` accepts.
* Around the breaker: the latch file on disk and its lifetime, `guardedRequest`,
  the debug transport's own use of the breaker, the second sending of a request
  whose OAuth token had expired.
* Lock files broken by others, in `ObjectGate`: the section is taken as
  `FileLock` provides it among healthy processes. A gated write that waits
  beyond 600 s leaves that case.
* In the connection: the sliding window of the logon ceiling (a logon outside a
  budget may always be refused), discovery and roles as such, data previews.
* In the journal: the fields of an entry, and the reports of the tool.
* In the write flow: the transport request and its refusals, class parts and
  sub-includes, packages, enhancements and other kinds with flows of their own,
  the retry of a lock refused by one's own user, `force`, dry runs, text pools,
  `abap_activate` called by itself.
* In the debug lane: more than one lane, breakpoints, watchpoints and variables,
  state ids, the steps of a start past frames of the framework, the forced probe
  for an orphaned debuggee, the shutdown of the process. SAP is assumed to end
  all listeners of the identity when one is deleted.
* The components of section 1 that have no module yet (section 8), and for good:
  configuration and safety decisions, snapshots, credentials, tools, parsers and
  formatting, which are functions of one call without a protocol.

## 8. Plan

Done: 1. session lock; 2. file lock with its abstract section, deaths included;
3. pool; 4. object gate over both; 5. connection; 6, in part. circuit breaker and
the guard around it; 7. stateful session; 8. journal; 9. write flow; 10, in part. the
debug lane.

What is left, in this order:

10. More of `DebugLane`: several lanes, breakpoints that outlive their removal,
    state ids and repeated steps, the shutdown.
11. `LazyLogon`: `ensureConnected` and its memo over the connection's `connect()`
    and the breaker's latch, once the code asks whose rejection it is.
12. The rest of the breaker: the latch file of several processes over
    `ExclusiveSection`, the debug transport's own gate, the OAuth resend.
13. The session transport and the HTTP front end.
