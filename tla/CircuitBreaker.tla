--------------------------- MODULE CircuitBreaker ---------------------------
(***************************************************************************)
(* The breaker every HTTP request of a connection goes through             *)
(* (src/src/adt/circuit-breaker.ts), as GuardedHttpClient                  *)
(* (src/src/adt/http-guard.ts) drives it: request asks it, waits for the   *)
(* session mutex, dispatches, and settle feeds the answer back.            *)
(*                                                                         *)
(* Two machines share one object.  The auth latch trips on a rejected      *)
(* logon and stays, but for one probe per file an operator leaves; the     *)
(* transient one opens after Threshold failures in a row, cools down, and  *)
(* lets one probe decide.  Requests are in flight across the steps of      *)
(* either, which is where it gets hard.                                    *)
(*                                                                         *)
(* The two clocks are "it has elapsed" steps.  The code looks at them      *)
(* lazily, but in every operation before it reads the phase.               *)
(***************************************************************************)
EXTENDS Naturals

CONSTANTS
  Requests,    (* callers with one request at a time each                *)
  Sessions,    (* ADT sessions: connections that share the breaker       *)
  SessionOf,   (* per request: the session it is sent on                 *)
  Threshold,   (* failureThreshold                                       *)
  MaxSignals   (* bound: how often the operator leaves the re-arm file   *)

ASSUME CircuitBreakerAssumption ==
  /\ SessionOf \in [Requests -> Sessions]
  /\ Threshold \in Nat \ {0}
  /\ MaxSignals \in Nat

VARIABLES
  b,          (* the fields of the breaker                               *)
  signal,     (* the operator's re-arm file exists                       *)
  at,         (* per request: where it is                                *)
  role,       (* per request: as what it was admitted                    *)
  signals,    (* history: how often the file was left                    *)
  latchedIn,  (* history: how many requests were admitted while latched  *)
  probed      (* history: one of them since the latch tripped            *)

vars == <<b, signal, at, role, signals, latchedIn, probed>>

(* parked: admitted, waits for the session mutex   sent: holds it          *)
Places == {"idle", "parked", "sent"}
Roles  == {"normal", "probe", "auth"}

(***************************************************************************)
(* ok: 2xx, 3xx   benign: the debugger's 500 that is no failure            *)
(* rejected: 401, 403 with a challenge, a logon page   death: the session  *)
(* is gone   unavailable: 5xx, 408, 429   refused: any other 4xx           *)
(* none: the network failed                                                *)
(***************************************************************************)
Answers == {"ok", "benign", "rejected", "death", "unavailable", "refused",
            "none"}

(* tripped, armed, outstanding and cooling are the latch's; the rest is    *)
(* the transient machine's.                                                *)
Breakers ==
  [tripped : BOOLEAN, armed : BOOLEAN, outstanding : BOOLEAN,
   cooling : BOOLEAN, phase : {"closed", "open", "half-open"},
   probing : BOOLEAN, failures : 0 .. Threshold]

Fresh ==
  [tripped |-> FALSE, armed |-> FALSE, outstanding |-> FALSE,
   cooling |-> FALSE, phase |-> "closed", probing |-> FALSE, failures |-> 0]

(* forConfig replays a latch another process tripped. *)
Init ==
  /\ b \in {Fresh, [Fresh EXCEPT !.tripped = TRUE]}
  /\ signal    = FALSE
  /\ at        = [r \in Requests |-> "idle"]
  /\ role      = [r \in Requests |-> "normal"]
  /\ signals   = 0
  /\ latchedIn = 0
  /\ probed    = FALSE

----------------------------------------------------------------------------
(* The methods of the breaker, from its fields to its fields.              *)

(* Both machines start over.  A slip: only the latch does. *)
ClearAuthLatchOnly(x) ==
  [x EXCEPT !.tripped = FALSE, !.armed = FALSE, !.outstanding = FALSE,
            !.cooling = FALSE]

ClearAuthLatch(x) == Fresh

FailAuthProbe(x) ==
  [x EXCEPT !.outstanding = FALSE, !.armed = FALSE, !.cooling = TRUE]

Open(x) == [x EXCEPT !.phase = "open", !.probing = FALSE]

(* A slip: any success unlatches. *)
RecordSuccessUnchecked(x) ==
  IF x.tripped THEN ClearAuthLatch(x) ELSE [x EXCEPT !.failures = 0]

RecordSuccess(x) ==
  IF x.tripped THEN IF x.outstanding THEN ClearAuthLatch(x) ELSE x
  ELSE IF x.phase = "half-open" /\ x.probing
       THEN [x EXCEPT !.phase = "closed", !.probing = FALSE, !.failures = 0]
       ELSE [x EXCEPT !.failures = 0]

CountFailure(x) ==
  LET counted == [x EXCEPT !.failures = @ + 1]
  IN  IF counted.failures >= Threshold THEN Open(counted) ELSE counted

RecordTransientFailure(x) ==
  CASE x.tripped /\ x.outstanding                          -> FailAuthProbe(x)
    [] ~x.tripped /\ x.phase = "closed"                    -> CountFailure(x)
    [] ~x.tripped /\ x.phase = "half-open" /\ x.probing    -> Open(x)
    [] OTHER                                               -> x

TripForAuth(x) ==
  IF ~x.tripped THEN [x EXCEPT !.tripped = TRUE]
  ELSE IF x.outstanding THEN FailAuthProbe(x) ELSE x

(* What an answer does to a latched breaker, and to one that is not. *)
InspectLatched(x, answer) ==
  IF ~x.outstanding THEN x
  ELSE IF answer = "ok" THEN ClearAuthLatch(x) ELSE FailAuthProbe(x)

InspectTransient(x, answer) ==
  CASE answer = "ok"          -> RecordSuccess(x)
    [] answer = "unavailable" -> RecordTransientFailure(x)
    [] OTHER                  -> x

(* inspect for an HTTP answer, noteFailure for none. *)
Observe(x, answer) ==
  CASE answer = "none"     -> RecordTransientFailure(x)
    [] answer = "benign"   -> RecordSuccess(x)
    [] answer = "rejected" -> TripForAuth(x)
    [] answer \notin {"none", "benign", "rejected"} ->
         IF x.tripped THEN InspectLatched(x, answer)
         ELSE InspectTransient(x, answer)

(***************************************************************************)
(* The probe-wedge guard: inspect leaves the slot taken on an answer that  *)
(* moves neither counter.  A slip: none is needed.                         *)
(***************************************************************************)
LeaveProbe(x, how, answer) == x

ResolveProbe(x, how, answer) ==
  IF ~(how = "probe" /\ x.probing) THEN x
  ELSE IF answer = "none" THEN RecordTransientFailure(x) ELSE RecordSuccess(x)

(* acquire failed: nothing was sent, so the slot goes back as a failure.   *)
HandBack(x, how) ==
  IF how = "auth" \/ (how = "probe" /\ x.probing)
  THEN RecordTransientFailure(x) ELSE x

(* onRequest, the token or onResponse throws: only a probe's slot does. *)
HandBackProbe(x, how) ==
  IF how = "probe" /\ x.probing THEN RecordTransientFailure(x) ELSE x

----------------------------------------------------------------------------
(* GuardedHttpClient.request up to the session mutex.  A request that is   *)
(* not admitted leaves all as it was: no action.                           *)
Admit(r, how) ==
  /\ at[r] = "idle"
  /\ at'   = [at EXCEPT ![r] = "parked"]
  /\ role' = [role EXCEPT ![r] = how]

(* allowAuthProbe: armed already, or by the file, unless it is too early.  *)
(* A slip: the armed flag is not spent.                                    *)
TakeAuthProbeUnspent(x) == [x EXCEPT !.outstanding = TRUE, !.cooling = TRUE]

TakeAuthProbe(x) ==
  [x EXCEPT !.armed = FALSE, !.outstanding = TRUE, !.cooling = TRUE]

AdmitAuthProbe(r) ==
  /\ b.tripped
  /\ Admit(r, "auth")
  /\ IF b.armed THEN UNCHANGED signal
     ELSE signal /\ ~b.cooling /\ signal' = FALSE
  /\ b'         = TakeAuthProbe(b)
  /\ latchedIn' = latchedIn + 1
  /\ probed'    = TRUE
  /\ UNCHANGED signals

(* allowRequest in the closed phase, and once in the half-open one. *)
AdmitRequest(r) ==
  /\ ~b.tripped /\ b.phase = "closed"
  /\ Admit(r, "normal")
  /\ UNCHANGED <<b, signal, signals, latchedIn, probed>>

AdmitProbe(r) ==
  /\ ~b.tripped /\ b.phase = "half-open" /\ ~b.probing
  /\ Admit(r, "probe")
  /\ b' = [b EXCEPT !.probing = TRUE]
  /\ UNCHANGED <<signal, signals, latchedIn, probed>>

(* The mutex is the request's: dispatch. *)
Send(r) ==
  /\ at[r] = "parked"
  /\ \A q \in Requests : at[q] = "sent" => SessionOf[q] # SessionOf[r]
  /\ at' = [at EXCEPT ![r] = "sent"]
  /\ UNCHANGED <<b, signal, role, signals, latchedIn, probed>>

(* The request is over and leaves the breaker as x. *)
End(r, x) ==
  /\ at'     = [at EXCEPT ![r] = "idle"]
  /\ b'      = x
  /\ probed' = (probed /\ ~(~b.tripped /\ x.tripped))
  /\ UNCHANGED <<signal, role, signals, latchedIn>>

(* The wait for the mutex has a ceiling, and the session may be dead. *)
AcquireFails(r) == at[r] = "parked" /\ End(r, HandBack(b, role[r]))

DispatchThrows(r) == at[r] = "sent" /\ End(r, HandBackProbe(b, role[r]))

Answer(r, answer) ==
  /\ at[r] = "sent"
  /\ End(r, ResolveProbe(Observe(b, answer), role[r], answer))

----------------------------------------------------------------------------
(* syncPhase: the only way out of the open phase. *)
CooldownElapses ==
  /\ b.phase = "open"
  /\ b' = [b EXCEPT !.phase = "half-open", !.probing = FALSE]
  /\ UNCHANGED <<signal, at, role, signals, latchedIn, probed>>

RearmCooldownElapses ==
  /\ b.cooling
  /\ b' = [b EXCEPT !.cooling = FALSE]
  /\ UNCHANGED <<signal, at, role, signals, latchedIn, probed>>

(* The operator leaves the file, latched or not. *)
Signal ==
  /\ signals < MaxSignals
  /\ signal'  = TRUE
  /\ signals' = signals + 1
  /\ UNCHANGED <<b, at, role, latchedIn, probed>>

(* Somebody reads authProbeArmed: the file arms the probe, and the one     *)
(* before is superseded.                                                   *)
Poll ==
  /\ b.tripped /\ ~b.armed /\ ~b.cooling /\ signal
  /\ b' = [b EXCEPT !.armed = TRUE, !.outstanding = FALSE]
  /\ signal' = FALSE
  /\ UNCHANGED <<at, role, signals, latchedIn, probed>>

----------------------------------------------------------------------------
Step(r) ==
  \/ AdmitAuthProbe(r) \/ AdmitRequest(r) \/ AdmitProbe(r) \/ Send(r)
  \/ AcquireFails(r) \/ DispatchThrows(r)
  \/ \E answer \in Answers : Answer(r, answer)

Next ==
  \/ \E r \in Requests : Step(r)
  \/ CooldownElapses \/ RearmCooldownElapses \/ Signal \/ Poll

(* The wait for the mutex ends, one way or the other, and so does a        *)
(* request: both have timeouts.                                            *)
Fairness ==
  \A r \in Requests :
    /\ WF_vars(Send(r) \/ AcquireFails(r))
    /\ WF_vars(DispatchThrows(r) \/ \E answer \in Answers : Answer(r, answer))

Spec == Init /\ [][Next]_vars /\ Fairness

----------------------------------------------------------------------------
(* Types; that the slot is taken in the half-open phase only, that a       *)
(* closed breaker has counted less than the threshold, and that without a  *)
(* latch nothing of a re-arm is left.                                      *)
TypeOK ==
  /\ b \in Breakers
  /\ b.probing => b.phase = "half-open"
  /\ b.phase = "closed" => b.failures < Threshold
  /\ ~b.tripped => ~b.armed /\ ~b.outstanding /\ ~b.cooling
  /\ signal \in BOOLEAN
  /\ at \in [Requests -> Places]
  /\ role \in [Requests -> Roles]
  /\ signals \in Nat
  /\ latchedIn \in Nat
  /\ probed \in BOOLEAN

InFlight(r) == at[r] \in {"parked", "sent"}

(* "Otherwise the breaker wedges half-open forever": the slot of the probe *)
(* is never taken without a probe in flight that will give it back, also   *)
(* after a latch came and went in between.                                 *)
NoWedge ==
  ~b.tripped /\ b.probing => \E r \in Requests : InFlight(r) /\ role[r] = "probe"

(* The fields fit together, and a slot that is taken will be given back.   *)
SlotIsSound == TypeOK /\ NoWedge

(* "Exactly one logon attempt" per re-arm: however the file, the getter    *)
(* and a burst of requests interleave, no more requests are admitted by a  *)
(* latched breaker than the operator has left files.                       *)
OneProbePerSignal == latchedIn <= signals

(* Stragglers do not unlatch: the latch is cleared only after a re-armed   *)
(* probe was admitted, whatever the requests from before the trip answer.  *)
LatchNeedsProbe == [][b.tripped /\ ~b'.tripped => probed]_vars

(* Both machines admit one probe at a time. One request per signal goes out *)
(* while the latch holds; and "half-open: one probe, and one only": the slot *)
(* is not given back within a half-open phase, whatever stragglers answer or *)
(* fail; the phase ends with it.                                             *)
OneProbeEach ==
  [][/\ OneProbePerSignal'
     /\ b.probing /\ b'.phase = "half-open" => b'.probing]_vars

(* A probe is always decided, by an answer, a failure, or the latch. *)
ProbeSettles == ~b.tripped /\ b.probing ~> b.tripped \/ ~b.probing

=============================================================================
