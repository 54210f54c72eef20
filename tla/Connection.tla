------------------------------- MODULE Connection -------------------------------
(***************************************************************************)
(* One AbapConnection (src/src/adt/connection.ts): a single HTTP client    *)
(* with one cookie jar and one CSRF token, shared by every call that runs  *)
(* on it at the same time, over an ABAP session that may end at any        *)
(* moment.  The calls are                                                  *)
(*   Requests   get / put / post / del outside any window: request(),      *)
(*              with one recovery logon or one CSRF refresh at most;       *)
(*   Connects   connect(): the logon and the probes in one exclusive hold; *)
(*   Windows    withStatefulSession(): lock, then write, in one hold;      *)
(*   Runs       withFreshSession(): drop the session, then run code.       *)
(* A call is made once; a caller that calls again is another caller.       *)
(*                                                                         *)
(* The session mutex is a plain FIFO here: SessionLock.tla models it.      *)
(* AdtHTTP (the library below) is modelled as this code uses it: it reads  *)
(* cookies and token when a request is made, before the mutex is waited    *)
(* for, and it coalesces logons.  The breaker is left closed, see          *)
(* CircuitBreaker.tla.                                                     *)
(*                                                                         *)
(* Promise continuations run before the next network or timer event, so    *)
(* an event waits until Quiet.                                             *)
(***************************************************************************)
EXTENDS Integers, Sequences

CONSTANTS Requests, Connects, Windows, Runs,  \* the calls, by the method called
          NoOne                               \* no caller

Holders == Connects \cup Windows \cup Runs
Callers == Requests \cup Holders

ASSUME CallersAssumption ==
  /\ NoOne \notin Callers
  /\ Requests \cap Holders = {}
  /\ Connects \cap (Windows \cup Runs) = {}
  /\ Windows \cap Runs = {}

NoSession == 0    \* an empty cookie jar
NoGen == -1       \* no session death on record

VARIABLES
  phase,    \* where each call stands
  req,      \* the physical request each call has made last
  budget,   \* RequestBudget of each Requests call
  owner,    \* who holds the session mutex
  queue,    \* who waits for it, in order
  http,     \* AdtHTTP: cookie jar, CSRF token, the logon under way
  conn,     \* AbapConnection's fields about its session
  active,   \* activeSession: the window that has claimed the connection
  sap,      \* the server: sessions handed out, and those alive
  told      \* history: sessions the connection was told are gone

vars == <<phase, req, budget, owner, queue, http, conn, active, sap, told>>

Phases == {"idle", "waiting", "body", "queued", "inFlight", "answered",
           "awaiting", "loggedOn", "loginFailed", "done", "failed"}

(* What a call asks for: a request's own send, its CSRF refresh, the send  *)
(* repeated; a connect's logon and probes; a window's lock and write; a    *)
(* session drop; the run.                                                  *)
Goals == {"none", "op", "refresh", "resend", "logon", "probe",
          "lock", "put", "drop", "run"}

Answers == {"none", "ok", "new", "newDead", "gone200", "gone", "dump",
            "csrf", "error", "ceiling", "refused"}
Successes == {"ok", "new", "newDead", "gone200"}    \* resolved with a 2xx
Resolved == {"newDead", "gone200"}                  \* a death riding on a 2xx
Deaths == Resolved \cup {"gone", "dump"}            \* classifySessionFailure

Blank == [goal |-> "none", login |-> FALSE, cookie |-> NoSession,
          fetch |-> FALSE, fresh |-> FALSE, stamp |-> 0, answer |-> "none"]

Unspent == [loss |-> NoGen, recovered |-> FALSE, logons |-> 0]

Init ==
  /\ phase = [c \in Callers |-> "idle"]
  /\ req = [c \in Callers |-> Blank]
  /\ budget = [r \in Requests |-> Unspent]
  /\ owner = NoOne
  /\ queue = <<>>
  /\ http = [jar |-> NoSession, token |-> FALSE, by |-> NoOne, counted |-> FALSE]
  /\ conn = [generation |-> 0, connected |-> FALSE, death |-> NoGen,
             lastRecorded |-> NoGen, deferred |-> NoGen, anomaly |-> FALSE]
  /\ active = NoOne
  /\ sap = [minted |-> 0, live |-> {}]
  /\ told = {}

-------------------------------------------------------------------------------
(* The connection's record, from one step to the next                      *)

(* A plausible slip: the death is recorded, the connection left connected. *)
MarkDeadConnected(k, g) ==
  IF g < k.generation \/ k.death >= k.generation THEN k
  ELSE [k EXCEPT !.death = k.generation, !.lastRecorded = k.generation]

(* markDead(): a report about an older generation is only counted, the     *)
(* first one about this generation is recorded.                            *)
MarkDead(k, g) ==
  CASE g < k.generation ->
         [k EXCEPT !.anomaly = @ \/ g > k.lastRecorded]
    [] g >= k.generation /\ k.death >= k.generation -> k
    [] OTHER ->
         [k EXCEPT !.death = k.generation,
                   !.lastRecorded = k.generation,
                   !.connected = FALSE]

ApplyDeferred(k) ==
  IF k.deferred = NoGen THEN k
  ELSE MarkDead([k EXCEPT !.deferred = NoGen], k.deferred)

DeadNow(k) == k.death # NoGen /\ k.death >= k.generation

(* The loss of a session outside a window is left to the request's budget, *)
(* once, when it is about the session now in use.                          *)
Recoverable(c) ==
  /\ c \in Requests
  /\ req[c].answer = "gone"
  /\ req[c].stamp >= conn.generation
  /\ active = NoOne
  /\ budget[c].loss = NoGen

(* A plausible slip: a death that came with a 2xx is let pass.             *)
NotedOnThrow(c) ==
  IF req[c].answer \in {"gone", "dump"} /\ ~Recoverable(c)
  THEN MarkDead(conn, req[c].stamp) ELSE conn

(* noteWireResponse() / noteWireThrow() for the answer c has got.          *)
Noted(c) ==
  LET q == req[c] IN
  CASE q.answer \in Resolved /\ q.stamp >= conn.generation ->
         [conn EXCEPT !.deferred = IF @ = NoGen THEN q.stamp ELSE @]
    [] q.answer \in Resolved /\ q.stamp < conn.generation ->
         MarkDead(conn, q.stamp)
    [] q.answer \in {"gone", "dump"} /\ ~Recoverable(c) ->
         MarkDead(conn, q.stamp)
    [] OTHER -> conn

(* request()'s catch-all: a loss the budget took and nothing acted upon.   *)
Promoted(b, k) ==
  IF b.loss # NoGen /\ ~b.recovered /\ k.death = NoGen
  THEN MarkDead(k, b.loss) ELSE k

(* AdtHTTP once c's answer is in: a new session cookie, a fetched token.   *)
Received(c) ==
  LET q == req[c] IN
  [http EXCEPT !.jar = IF q.answer \in {"new", "newDead"} THEN q.cookie ELSE @,
               !.token = @ \/ (q.fetch /\ q.answer \in Successes)]

(* A late report about a generation never recorded dead is only logged.    *)
Anomalous(k, g) == g < k.generation /\ g > k.lastRecorded

Learns(c) ==
  told' = IF req[c].answer \in Deaths /\ ~Anomalous(conn, req[c].stamp)
          THEN told \cup {req[c].cookie} ELSE told

-------------------------------------------------------------------------------
(* The mutex                                                               *)

Enters(c) ==
  /\ owner' = IF owner = NoOne THEN c ELSE owner
  /\ queue' = IF owner \in {NoOne, c} THEN queue ELSE Append(queue, c)

Releases ==
  /\ owner' = IF queue = <<>> THEN NoOne ELSE Head(queue)
  /\ queue' = IF queue = <<>> THEN queue ELSE Tail(queue)

Becomes(c, p) == phase' = [phase EXCEPT ![c] = p]

(* A call that has returned keeps nothing.                                 *)
Finishes(c, outcome) ==
  /\ Becomes(c, outcome)
  /\ req' = [req EXCEPT ![c] = Blank]
  /\ budget' = IF c \in Requests THEN [budget EXCEPT ![c] = Unspent] ELSE budget

(* A hand-off resolves the next holder's promise before the answer's own   *)
(* promise: the next hold begins before the answer is acted upon.          *)
HandedOver == owner # NoOne => phase[owner] # "waiting"

(* Nothing but waiting is left: continuations have all run.                *)
Quiet ==
  \A c \in Callers :
    /\ phase[c] \notin {"answered", "loggedOn", "loginFailed"}
    /\ phase[c] = "waiting" => owner # c

-------------------------------------------------------------------------------
(* Making a request                                                        *)

(* The request c makes: what AdtHTTP puts on it now.                       *)
Asks(c, g, h, fresh) ==
  [req[c] EXCEPT !.goal = g, !.login = FALSE, !.cookie = h.jar,
                 !.fetch = ~h.token, !.fresh = fresh, !.answer = "none"]

(* observedTransport.request(): a death deferred from an earlier answer is *)
(* recorded first, and then refuses this request.                          *)
Sends(c, q, k, h) ==
  /\ http' = h
  /\ conn' = ApplyDeferred(k)
  /\ \/ /\ k.deferred # NoGen /\ conn'.death # NoGen
        /\ req' = [req EXCEPT ![c] = [q EXCEPT !.answer = "refused"]]
        /\ Becomes(c, "answered")
        /\ UNCHANGED <<owner, queue>>
     \/ /\ k.deferred = NoGen \/ conn'.death = NoGen
        /\ req' = [req EXCEPT ![c] = q]
        /\ Becomes(c, "queued")
        /\ Enters(c)

(* logon() when counted, AdtHTTP's own automatic login() when not.  A      *)
(* logon under way is joined; one that starts empties the jar, after those *)
(* the last one logged on have gone on.                                    *)
LogsOn(c, g, counted, k, h) ==
  LET k1 == [k EXCEPT !.generation =
               IF counted /\ ~(h.by # NoOne /\ h.counted) THEN @ + 1 ELSE @]
  IN \/ /\ h.by # NoOne
        /\ http' = [h EXCEPT !.counted = @ \/ counted]
        /\ conn' = k1
        /\ req' = [req EXCEPT ![c].goal = g]
        /\ Becomes(c, "awaiting")
        /\ UNCHANGED <<owner, queue>>
     \/ /\ h.by = NoOne
        /\ \A d \in Callers \ {c} : phase[d] # "loggedOn"
        /\ LET h1 == [jar |-> NoSession, token |-> FALSE,
                      by |-> c, counted |-> counted]
           IN Sends(c, [Asks(c, g, h1, FALSE) EXCEPT !.login = TRUE], k1, h1)

-------------------------------------------------------------------------------
(* The wire                                                                *)

(* noteWireRequest(): the mutex is held, the bytes leave, the generation   *)
(* is stamped and a logon is charged to the request that makes it.         *)
Dispatch(c) ==
  /\ phase[c] = "queued" /\ owner = c
  /\ Becomes(c, "inFlight")
  /\ req' = [req EXCEPT ![c].stamp = conn.generation]
  /\ budget' = IF c \in Requests /\ req[c].login
               THEN [budget EXCEPT ![c].logons = @ + 1] ELSE budget
  /\ UNCHANGED <<owner, queue, http, conn, active, sap, told>>

(* What SAP may answer.  A request without a session cookie is given a     *)
(* session; a logon outside a budget may be refused by the local ceiling.  *)
Replies(c) ==
  LET q == req[c] IN
  CASE q.login -> {"new", "newDead", "error"}
                    \cup (IF c \in Requests THEN {} ELSE {"ceiling"})
    [] ~q.login /\ q.cookie = NoSession -> {"new", "error"}
    [] ~q.login /\ q.goal = "drop" /\ q.cookie \in sap.live ->
         {"new", "error", "dump", "gone"}
    [] ~q.login /\ q.goal # "drop" /\ q.cookie \in sap.live ->
         {"ok", "error", "dump", "gone", "gone200"}
           \cup (IF q.goal = "refresh" THEN {} ELSE {"csrf"})
    [] OTHER -> {"gone", "error"}

(* The session an answer leaves behind, and those alive after it.          *)
Answer(c) ==
  /\ phase[c] = "inFlight" /\ Quiet
  /\ \E a \in Replies(c) :
       /\ LET mints == a \in {"new", "newDead"}
              id == IF mints THEN sap.minted + 1 ELSE req[c].cookie
              ends == IF a \in {"gone", "dump", "gone200"} \/ (a = "new" /\ ~req[c].login)
                      THEN {req[c].cookie} ELSE {}
          IN /\ sap' = [minted |-> IF mints THEN id ELSE sap.minted,
                        live |-> (sap.live \ ends)
                                   \cup (IF a = "new" THEN {id} ELSE {})]
             /\ req' = [req EXCEPT ![c] = [@ EXCEPT !.answer = a, !.cookie = id]]
  /\ Becomes(c, "answered")
  /\ IF c \in Requests THEN Releases ELSE UNCHANGED <<owner, queue>>
  /\ UNCHANGED <<budget, http, conn, active, told>>

(* A waiter gives up: SESSION_BUSY.                                        *)
TimeOut(c) ==
  /\ Quiet
  /\ \E i \in 1..Len(queue) :
       /\ queue[i] = c
       /\ queue' = [j \in 1..(Len(queue) - 1) |->
                      IF j < i THEN queue[j] ELSE queue[j + 1]]
  /\ \/ /\ phase[c] = "queued"
        /\ Becomes(c, "answered")
        /\ req' = [req EXCEPT ![c].answer = "error"]
        /\ UNCHANGED <<budget, active>>
     \/ /\ phase[c] = "waiting"
        /\ Finishes(c, "failed")
        /\ active' = IF active = c THEN NoOne ELSE active
  /\ UNCHANGED <<owner, http, conn, sap, told>>

(* The logon settles, for the call that started it and all who joined.     *)
LogonSettles(c, woken) ==
  /\ phase[c] = "answered" /\ req[c].login /\ HandedOver
  /\ LET outcome == IF req[c].answer \in Successes THEN "loggedOn" ELSE "loginFailed"
     IN phase' = [d \in Callers |-> IF d \in woken THEN outcome ELSE phase[d]]
  /\ http' = [Received(c) EXCEPT !.by = NoOne, !.counted = FALSE]
  /\ conn' = IF req[c].answer = "ceiling" /\ c \in Connects
             THEN MarkDead(conn, conn.generation) ELSE Noted(c)
  /\ Learns(c)
  /\ UNCHANGED <<req, budget, owner, queue, active, sap>>

(* A plausible slip: those who joined are not woken.                       *)
SettleLoginAlone(c) == LogonSettles(c, {c})

SettleLogin(c) == LogonSettles(c, {c} \cup {d \in Callers : phase[d] = "awaiting"})

-------------------------------------------------------------------------------
(* request() and attempt()                                                 *)

RefuseRequest(r) ==
  /\ phase[r] = "idle" /\ Quiet
  /\ conn' = ApplyDeferred(conn)
  /\ conn'.death # NoGen
  /\ Finishes(r, "failed")
  /\ UNCHANGED <<owner, queue, http, active, sap, told>>

CallRequest(r) ==
  /\ phase[r] = "idle" /\ Quiet
  /\ LET k == ApplyDeferred(conn) IN
       /\ k.death = NoGen
       /\ IF http.token THEN Sends(r, Asks(r, "op", http, FALSE), k, http)
                        ELSE LogsOn(r, "op", TRUE, k, http)
  /\ UNCHANGED <<budget, active, sap, told>>

(* Logged on: the first send goes out, or the one recovery resend.         *)
ResumeRequest(r) ==
  /\ phase[r] = "loggedOn"
  /\ Sends(r, Asks(r, req[r].goal, http, TRUE), conn, http)
  /\ budget' = [budget EXCEPT ![r].recovered = @ \/ req[r].goal = "resend"]
  /\ UNCHANGED <<active, sap, told>>

AbandonRequest(r) ==
  /\ phase[r] = "loginFailed"
  /\ conn' = Promoted(budget[r], conn)
  /\ Finishes(r, "failed")
  /\ UNCHANGED <<owner, queue, http, active, sap, told>>

Landed(r, g) ==
  phase[r] = "answered" /\ ~req[r].login /\ req[r].goal = g /\ HandedOver

Succeed(r) ==
  /\ Landed(r, "op") \/ Landed(r, "resend")
  /\ req[r].answer \in Successes
  /\ conn' = Noted(r)
  /\ http' = Received(r)
  /\ Learns(r)
  /\ Finishes(r, "done")
  /\ UNCHANGED <<owner, queue, active, sap>>

(* The session was lost under the first send: one logon, one resend, but   *)
(* not after a logon made just now.  A plausible slip: even then.          *)
RecoversAnyway(r) == Landed(r, "op") /\ Recoverable(r)

Recovers(r) == Landed(r, "op") /\ Recoverable(r) /\ ~req[r].fresh

Recover(r) ==
  /\ Recovers(r)
  /\ budget' = [budget EXCEPT ![r].loss = req[r].stamp]
  /\ LogsOn(r, "resend", TRUE, conn, http)
  /\ Learns(r)
  /\ UNCHANGED <<active, sap>>

(* The token was refused under the first send, outside any window: fetch   *)
(* another one without logging on.                                         *)
Refreshes(r) ==
  /\ Landed(r, "op") /\ req[r].answer = "csrf"
  /\ ~req[r].fresh
  /\ active = NoOne

Refresh(r) ==
  /\ Refreshes(r)
  /\ LET h == [http EXCEPT !.token = FALSE]
     IN Sends(r, Asks(r, "refresh", h, FALSE), conn, h)
  /\ UNCHANGED <<budget, active, sap, told>>

Refreshed(r) == Landed(r, "refresh") /\ req[r].answer \in Successes

Resend(r) ==
  /\ Refreshed(r)
  /\ Sends(r, Asks(r, "resend", Received(r), FALSE), Noted(r), Received(r))
  /\ Learns(r)
  /\ UNCHANGED <<budget, active, sap>>

FailRequest(r) ==
  /\ phase[r] = "answered" /\ ~req[r].login /\ HandedOver
  /\ req[r].answer \notin Successes
  /\ ~Recovers(r) /\ ~Refreshes(r)
  /\ LET b == IF Recoverable(r) THEN [budget[r] EXCEPT !.loss = req[r].stamp]
                                ELSE budget[r]
     IN conn' = Promoted(b, Noted(r))
  /\ Learns(r)
  /\ Finishes(r, "failed")
  /\ UNCHANGED <<owner, queue, http, active, sap>>

-------------------------------------------------------------------------------
(* The exclusive flows                                                     *)

(* Leaving the hold: markEnded, activeSession cleared.                     *)
Leaves(c, outcome) ==
  /\ Finishes(c, outcome)
  /\ Releases
  /\ active' = IF active = c THEN NoOne ELSE active

(* connect() asks for the mutex whatever the state; the windows are        *)
(* refused on a dead connection, while another window is claimed, and a    *)
(* stateful one before the first connect().                                *)
Admitted(c) ==
  \/ c \in Connects
  \/ conn.death = NoGen /\ active = NoOne /\ (c \in Windows => conn.connected)

ClaimsHold(c, claimers) ==
  /\ phase[c] = "idle" /\ Quiet /\ Admitted(c)
  /\ Becomes(c, "waiting")
  /\ Enters(c)
  /\ active' = IF c \in claimers THEN c ELSE active
  /\ UNCHANGED <<req, budget, http, conn, sap, told>>

CallHold(c) == ClaimsHold(c, Windows)

RefuseHold(c) ==
  /\ phase[c] = "idle" /\ Quiet /\ ~Admitted(c)
  /\ Finishes(c, "failed")
  /\ UNCHANGED <<owner, queue, http, conn, active, sap, told>>

(* connectUnderLock(): nothing to do, or a logon.                          *)
AlreadyConnected(c) ==
  /\ phase[c] = "waiting" /\ owner = c /\ conn.connected
  /\ Leaves(c, "done")
  /\ UNCHANGED <<http, conn, sap, told>>

BeginConnect(c) ==
  /\ phase[c] = "waiting" /\ owner = c /\ ~conn.connected
  /\ LogsOn(c, "logon", TRUE, conn, http)
  /\ UNCHANGED <<budget, active, sap, told>>

(* The logon resolved.  A death of this very generation still fails the    *)
(* connect; otherwise the old death is forgotten, here and only here.      *)
Revives(c, k) ==
  /\ phase[c] = "loggedOn" /\ req[c].goal = "logon"
  /\ conn' = [k EXCEPT !.death = NoGen, !.deferred = NoGen, !.connected = TRUE]
  /\ Becomes(c, "body")
  /\ req' = [req EXCEPT ![c].goal = "none"]
  /\ UNCHANGED <<budget, owner, queue, http, active, sap, told>>

Revive(c) == ~DeadNow(ApplyDeferred(conn)) /\ Revives(c, ApplyDeferred(conn))

DieReviving(c) ==
  /\ phase[c] = "loggedOn" /\ req[c].goal = "logon"
  /\ conn' = ApplyDeferred(conn)
  /\ DeadNow(conn')
  /\ Leaves(c, "failed")
  /\ UNCHANGED <<http, sap, told>>

FailConnect(c) ==
  /\ phase[c] = "loginFailed" /\ req[c].goal = "logon"
  /\ Leaves(c, "failed")
  /\ UNCHANGED <<http, conn, sap, told>>

(* A plausible slip: closing on what was recorded before the probes.       *)
CloseConnectEarly(c) ==
  /\ phase[c] = "body" /\ req[c].goal = "probe"
  /\ Leaves(c, "done")
  /\ UNCHANGED <<http, conn, sap, told>>

(* The probes' failures are swallowed, a death among them is not.          *)
CloseConnect(c) ==
  /\ phase[c] = "body" /\ req[c].goal = "probe"
  /\ conn' = ApplyDeferred(conn)
  /\ Leaves(c, IF DeadNow(conn') THEN "failed" ELSE "done")
  /\ UNCHANGED <<http, sap, told>>

BeginHold(c) ==
  /\ phase[c] = "waiting" /\ owner = c
  /\ Becomes(c, "body")
  /\ UNCHANGED <<req, budget, owner, queue, http, conn, active, sap, told>>

(* What a hold may ask for next.  A write follows a lock that was granted. *)
(* The drop after a window (a leaked or suspected enqueue) and the one     *)
(* before a run are refused locally on a dead connection.                  *)
NextGoals(c) ==
  LET q == req[c] IN
  CASE c \in Connects -> IF q.goal = "none" THEN {"probe"} ELSE {}
    [] c \in Windows /\ q.goal = "none" -> {"lock"}
    [] c \in Windows /\ q.goal = "lock" ->
         (IF q.answer \in Successes THEN {"put"} ELSE {})
           \cup (IF conn.death = NoGen THEN {"drop"} ELSE {})
    [] c \in Windows /\ q.goal = "put" -> IF conn.death = NoGen THEN {"drop"} ELSE {}
    [] c \in Runs /\ q.goal = "none" -> IF conn.death = NoGen THEN {"drop"} ELSE {}
    [] c \in Runs /\ q.goal = "drop" -> {"run"}
    [] OTHER -> {}

(* A request of the hold: AdtHTTP.request() logs on first if no token is   *)
(* held, so does conn.get() (counted); dropSession() never does.           *)
HoldRequest(c) ==
  /\ phase[c] = "body"
  /\ \E g \in NextGoals(c) :
       IF http.token \/ g = "drop"
       THEN Sends(c, Asks(c, g, http, FALSE), conn, http)
       ELSE \E counted \in (IF c \in Runs THEN {FALSE} ELSE BOOLEAN) :
              LogsOn(c, g, counted, conn, http)
  /\ UNCHANGED <<budget, active, sap, told>>

ResumeHold(c) ==
  /\ phase[c] = "loggedOn" /\ req[c].goal # "logon"
  /\ Sends(c, Asks(c, req[c].goal, http, TRUE), conn, http)
  /\ UNCHANGED <<budget, active, sap, told>>

HoldLoginFailed(c) ==
  /\ phase[c] = "loginFailed" /\ req[c].goal # "logon"
  /\ Becomes(c, "body")
  /\ req' = [req EXCEPT ![c].answer = "error"]
  /\ UNCHANGED <<budget, owner, queue, http, conn, active, sap, told>>

(* AdtHTTP's own second try: a refused token, stateless, not just logged   *)
(* on.  It logs on, the jar and all.                                       *)
LibraryRetries(c) ==
  /\ phase[c] = "answered" /\ ~req[c].login
  /\ req[c].answer = "csrf" /\ ~req[c].fresh /\ c \notin Windows

LibraryRetry(c) ==
  /\ LibraryRetries(c)
  /\ LogsOn(c, req[c].goal, FALSE, conn, [http EXCEPT !.token = FALSE])
  /\ UNCHANGED <<budget, active, sap, told>>

SettleHold(c) ==
  /\ phase[c] = "answered" /\ ~req[c].login /\ ~LibraryRetries(c)
  /\ Becomes(c, "body")
  /\ conn' = Noted(c)
  /\ http' = Received(c)
  /\ Learns(c)
  /\ UNCHANGED <<req, budget, owner, queue, active, sap>>

EndHold(c) ==
  /\ phase[c] = "body" /\ req[c].goal # "none"
  /\ Leaves(c, IF req[c].answer \in Successes THEN "done" ELSE "failed")
  /\ UNCHANGED <<http, conn, sap, told>>

(* withFreshSession() on a connection that died while it waited.           *)
FailRun(c) ==
  /\ phase[c] = "body" /\ req[c].goal = "none" /\ conn.death # NoGen
  /\ Leaves(c, "failed")
  /\ UNCHANGED <<http, conn, sap, told>>

-------------------------------------------------------------------------------
RequestStep(r) ==
  \/ RefuseRequest(r) \/ CallRequest(r) \/ ResumeRequest(r) \/ AbandonRequest(r)
  \/ Succeed(r) \/ Recover(r) \/ Refresh(r) \/ Resend(r) \/ FailRequest(r)

ConnectStep(c) ==
  \/ AlreadyConnected(c) \/ BeginConnect(c) \/ Revive(c) \/ DieReviving(c)
  \/ FailConnect(c) \/ CloseConnect(c)

HoldStep(c) ==
  \/ CallHold(c) \/ RefuseHold(c) \/ HoldRequest(c) \/ ResumeHold(c)
  \/ HoldLoginFailed(c) \/ LibraryRetry(c) \/ SettleHold(c)

WindowStep(c) == BeginHold(c) \/ EndHold(c)

WireStep(c) == Dispatch(c) \/ Answer(c) \/ TimeOut(c) \/ SettleLogin(c)

CallerStep(c) ==
  \/ WireStep(c)
  \/ c \in Requests /\ RequestStep(c)
  \/ c \in Holders /\ HoldStep(c)
  \/ c \in Connects /\ ConnectStep(c)
  \/ c \in Windows \cup Runs /\ WindowStep(c)
  \/ c \in Runs /\ FailRun(c)

Next == \E c \in Callers : CallerStep(c)

Spec == Init /\ [][Next]_vars

(* A request is answered or times out, an armed wait timer fires, and the  *)
(* continuation of a settled promise runs.  Nobody has to make a call.     *)
Started(c) == phase[c] # "idle"

Fairness == \A c \in Callers : WF_vars(Started(c) /\ CallerStep(c))

FairSpec == Spec /\ Fairness

-------------------------------------------------------------------------------
(* Types.                                                                  *)
TypeOK ==
  /\ phase \in [Callers -> Phases]
  /\ req \in [Callers ->
       [goal: Goals, login: BOOLEAN, cookie: Nat, fetch: BOOLEAN, fresh: BOOLEAN,
        stamp: Nat, answer: Answers]]
  /\ budget \in [Requests ->
       [loss: Nat \cup {NoGen}, recovered: BOOLEAN, logons: Nat]]
  /\ owner \in Callers \cup {NoOne}
  /\ queue \in Seq(Callers)
  /\ http \in [jar: Nat, token: BOOLEAN, by: Callers \cup {NoOne}, counted: BOOLEAN]
  /\ conn \in [generation: Nat, connected: BOOLEAN, death: Nat \cup {NoGen},
                lastRecorded: Nat \cup {NoGen}, deferred: Nat \cup {NoGen},
                anomaly: BOOLEAN]
  /\ active \in Windows \cup {NoOne}
  /\ sap \in [minted: Nat, live: SUBSET Nat]
  /\ told \in SUBSET Nat

(* A session SAP has reported gone is not taken for alive: while its       *)
(* cookie is the one in the jar, the death is on record, or deferred to    *)
(* the next request, which it will refuse; whatever other calls logged on, *)
(* recovered or gave up in between.  (A report dropped as stale is not     *)
(* counted: the code logs it as an anomaly.)                               *)
NoLossForgotten ==
  http.jar \in told /\ conn.death = NoGen => conn.deferred # NoGen

(* "Simultaneously isDead and isConnected - the one state this class must  *)
(* never be in" (connectUnderLock): connect() would return at once and no  *)
(* caller could ever revive the connection.                                *)
NeverDeadAndConnected == conn.connected => conn.death = NoGen

(* Types, and liveness flags that fit together.                            *)
RecordIsSound == TypeOK /\ NeverDeadAndConnected

(* The recovery logon, the automatic one and the resend of one request()   *)
(* share one budget: spendLogon()'s "this is an abapsmith bug" is never    *)
(* thrown, however the session is lost.                                    *)
OneLogonPerRequest == \A r \in Requests : budget[r].logons <= 1

(* connect() never returns a session that was reported gone while it was   *)
(* being probed.                                                           *)
ConnectIsHonest ==
  [][\A c \in Connects :
       phase[c] = "body" /\ phase'[c] = "done" => http.jar \notin told']_vars

(* Every call returns, whoever it waits for: the mutex, another call's     *)
(* logon, SAP.                                                             *)
EveryCallReturns ==
  \A c \in Callers : Started(c) ~> phase[c] \in {"done", "failed"}

================================================================================
