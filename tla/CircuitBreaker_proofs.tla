------------------------ MODULE CircuitBreaker_proofs ------------------------
(***************************************************************************)
(* What holds of the breaker for any number of requests, sessions, files   *)
(* and any threshold.  Every method is a function of the fields; Sound is  *)
(* what they all preserve, and Tame what none of them does to a slot, a    *)
(* latch or a re-arm it was not asked about.  Both survive composition,    *)
(* which is how settle uses them.                                          *)
(***************************************************************************)
EXTENDS CircuitBreaker, TLAPS

(* The fields fit together. *)
Sound(x) ==
  /\ x \in Breakers
  /\ x.probing => x.phase = "half-open"
  /\ x.phase = "closed" => x.failures < Threshold
  /\ ~x.tripped => ~x.armed /\ ~x.outstanding /\ ~x.cooling

(* From x to y no slot is taken or given back within the half-open phase,  *)
(* none survives the latch, nothing is re-armed, and only an outstanding   *)
(* probe unlatches.                                                        *)
Tame(x, y) ==
  /\ ~y.tripped /\ y.probing => ~x.tripped /\ x.probing
  /\ y.phase = "half-open" => x.phase = "half-open"
  /\ x.probing /\ y.phase = "half-open" => y.probing
  /\ y.armed => x.armed
  /\ y.outstanding => x.outstanding
  /\ x.tripped /\ ~y.tripped => x.outstanding

Fine(x, y) == Sound(y) /\ Tame(x, y)

(* No probe is being decided any more. *)
Decided(x) == x.tripped \/ ~x.probing

(* An unresolved auth probe is one of this latch. *)
Outstanding == b.outstanding => probed

(* What the operator has granted and nobody has used is in the file or in  *)
(* the flag.                                                               *)
Budget ==
  latchedIn + (IF b.armed THEN 1 ELSE 0) + (IF signal THEN 1 ELSE 0) <= signals

----------------------------------------------------------------------------
LEMMA Self == ASSUME NEW x, Sound(x) PROVE Fine(x, x)
BY DEF Sound, Fine, Tame

LEMMA Composed ==
  ASSUME NEW x, NEW y, NEW z, Fine(x, y), Fine(y, z)
  PROVE  Fine(x, z)
BY DEF Fine, Tame

LEMMA FreshFine ==
  ASSUME NEW x, Sound(x), x.outstanding \/ ~x.tripped
  PROVE  Fine(x, Fresh)
BY CircuitBreakerAssumption DEF Sound, Fine, Tame, Fresh, Breakers

LEMMA FailAuthProbeFine ==
  ASSUME NEW x, Sound(x), x.tripped
  PROVE  Fine(x, FailAuthProbe(x)) /\ Decided(FailAuthProbe(x))
<1>1. /\ FailAuthProbe(x) \in Breakers
      /\ FailAuthProbe(x).phase = x.phase
      /\ FailAuthProbe(x).probing = x.probing
      /\ FailAuthProbe(x).tripped = x.tripped
      /\ FailAuthProbe(x).armed = FALSE /\ FailAuthProbe(x).outstanding = FALSE
      /\ FailAuthProbe(x).failures = x.failures
  BY DEF Sound, FailAuthProbe, Breakers
<1> QED
  BY <1>1 DEF Sound, Fine, Tame, Decided

LEMMA OpenFine ==
  ASSUME NEW x, Sound(x)
  PROVE  Fine(x, Open(x)) /\ Decided(Open(x))
<1>1. /\ Open(x) \in Breakers
      /\ Open(x).phase = "open" /\ Open(x).probing = FALSE
      /\ Open(x).tripped = x.tripped /\ Open(x).armed = x.armed
      /\ Open(x).outstanding = x.outstanding /\ Open(x).cooling = x.cooling
  BY DEF Sound, Open, Breakers
<1> QED
  BY <1>1 DEF Sound, Fine, Tame, Decided

LEMMA CountFailureFine ==
  ASSUME NEW x, Sound(x), ~x.tripped, x.phase = "closed"
  PROVE  Fine(x, CountFailure(x)) /\ Decided(CountFailure(x))
<1> DEFINE counted == [x EXCEPT !.failures = @ + 1]
<1>1. /\ counted \in Breakers
      /\ counted.failures = x.failures + 1
      /\ counted.phase = "closed" /\ counted.probing = FALSE
      /\ counted.tripped = FALSE /\ counted.armed = FALSE
      /\ counted.outstanding = FALSE /\ counted.cooling = FALSE
  BY CircuitBreakerAssumption DEF Sound, Breakers
<1>2. CASE counted.failures >= Threshold
  <2>1. /\ Open(counted) \in Breakers
        /\ Open(counted).phase = "open" /\ Open(counted).probing = FALSE
        /\ Open(counted).tripped = FALSE /\ Open(counted).armed = FALSE
        /\ Open(counted).outstanding = FALSE /\ Open(counted).cooling = FALSE
    BY <1>1 DEF Open, Breakers
  <2> QED
    BY <1>2, <2>1 DEF CountFailure, Sound, Fine, Tame, Decided
<1>3. CASE ~(counted.failures >= Threshold)
  <2>1. counted.failures < Threshold
    BY <1>1, <1>3, CircuitBreakerAssumption DEF Breakers
  <2> QED
    BY <1>1, <1>3, <2>1 DEF CountFailure, Sound, Fine, Tame, Decided
<1> QED
  BY <1>2, <1>3

LEMMA RecordSuccessFine ==
  ASSUME NEW x, Sound(x)
  PROVE  Fine(x, RecordSuccess(x)) /\ Decided(RecordSuccess(x))
<1>1. CASE x.tripped /\ x.outstanding
  <2>1. RecordSuccess(x) = Fresh
    BY <1>1 DEF RecordSuccess, ClearAuthLatch
  <2> QED
    BY <1>1, <2>1, FreshFine DEF Decided, Fresh
<1>2. CASE x.tripped /\ ~x.outstanding
  <2>1. RecordSuccess(x) = x
    BY <1>2 DEF RecordSuccess
  <2> QED
    BY <1>2, <2>1, Self DEF Decided
<1>3. CASE ~x.tripped /\ x.phase = "half-open" /\ x.probing
  <2> DEFINE y == [x EXCEPT !.phase = "closed", !.probing = FALSE, !.failures = 0]
  <2>0. 0 \in 0 .. Threshold
    BY CircuitBreakerAssumption
  <2>1. /\ y \in Breakers /\ y.phase = "closed" /\ ~y.probing /\ y.failures = 0
        /\ ~y.tripped /\ ~y.armed /\ ~y.outstanding /\ ~y.cooling
    <3>1. /\ x \in Breakers
          /\ ~x.tripped /\ ~x.armed /\ ~x.outstanding /\ ~x.cooling
      BY <1>3 DEF Sound
    <3>2. y \in Breakers
      BY <2>0, <3>1 DEF Breakers
    <3> QED
      BY <3>1, <3>2 DEF Breakers
  <2>2. RecordSuccess(x) = y
    BY <1>3 DEF RecordSuccess
  <2> QED
    BY <1>3, <2>1, <2>2, CircuitBreakerAssumption DEF Sound, Fine, Tame, Decided
<1>4. CASE ~x.tripped /\ ~(x.phase = "half-open" /\ x.probing)
  <2> DEFINE y == [x EXCEPT !.failures = 0]
  <2>1. /\ y \in Breakers /\ y.phase = x.phase /\ ~y.probing /\ y.failures = 0
        /\ ~y.tripped /\ ~y.armed /\ ~y.outstanding /\ ~y.cooling
    BY <1>4, CircuitBreakerAssumption DEF Sound, Breakers
  <2>2. RecordSuccess(x) = y
    BY <1>4 DEF RecordSuccess
  <2>3. ~x.probing
    BY <1>4 DEF Sound
  <2> QED
    BY <1>4, <2>1, <2>2, <2>3, CircuitBreakerAssumption
    DEF Sound, Fine, Tame, Decided
<1> QED
  BY <1>1, <1>2, <1>3, <1>4

LEMMA RecordTransientFailureFine ==
  ASSUME NEW x, Sound(x)
  PROVE  /\ Fine(x, RecordTransientFailure(x))
         /\ Decided(RecordTransientFailure(x))
<1>1. CASE x.tripped /\ x.outstanding
  BY <1>1, FailAuthProbeFine DEF RecordTransientFailure
<1>2. CASE ~x.tripped /\ x.phase = "closed"
  BY <1>2, CountFailureFine DEF RecordTransientFailure
<1>3. CASE ~x.tripped /\ x.phase = "half-open" /\ x.probing
  BY <1>3, OpenFine DEF RecordTransientFailure
<1>4. CASE /\ ~(x.tripped /\ x.outstanding)
           /\ ~(~x.tripped /\ x.phase = "closed")
           /\ ~(~x.tripped /\ x.phase = "half-open" /\ x.probing)
  <2>1. RecordTransientFailure(x) = x
    BY <1>4 DEF RecordTransientFailure
  <2> QED
    BY <1>4, <2>1, Self DEF Sound, Decided
<1> QED
  BY <1>1, <1>2, <1>3, <1>4

LEMMA TripForAuthFine ==
  ASSUME NEW x, Sound(x)
  PROVE  Fine(x, TripForAuth(x))
BY DEF Sound, Fine, Tame, TripForAuth, FailAuthProbe, Breakers

LEMMA ObserveFine ==
  ASSUME NEW x, Sound(x), NEW answer \in Answers
  PROVE  Fine(x, Observe(x, answer))
BY Self, FreshFine, FailAuthProbeFine, RecordSuccessFine,
   RecordTransientFailureFine, TripForAuthFine
DEF Observe, InspectLatched, InspectTransient, ClearAuthLatch, Answers

(* Giving a slot back is fine, and a probe's is then decided. *)
LEMMA ResolveFine ==
  ASSUME NEW x, Sound(x), NEW how \in Roles, NEW answer \in Answers
  PROVE  /\ Fine(x, ResolveProbe(x, how, answer))
         /\ how = "probe" => Decided(ResolveProbe(x, how, answer))
BY Self, RecordSuccessFine, RecordTransientFailureFine
DEF ResolveProbe, Decided

LEMMA HandBackFine ==
  ASSUME NEW x, Sound(x), NEW how \in Roles
  PROVE  /\ Fine(x, HandBack(x, how)) /\ Fine(x, HandBackProbe(x, how))
         /\ how = "probe" => /\ Decided(HandBack(x, how))
                             /\ Decided(HandBackProbe(x, how))
BY Self, RecordTransientFailureFine DEF HandBack, HandBackProbe, Decided

(* What the end of a request does, in all three ways. *)
Ends(r) ==
  /\ InFlight(r)
  /\ \E y : /\ Fine(b, y)
            /\ role[r] = "probe" => Decided(y)
            /\ End(r, y)

LEMMA EveryEnd ==
  ASSUME TypeOK, NEW r \in Requests,
         AcquireFails(r) \/ DispatchThrows(r) \/ \E a \in Answers : Answer(r, a)
  PROVE  Ends(r)
<1>1. Sound(b) /\ role[r] \in Roles
  BY DEF TypeOK, Sound
<1>2. CASE AcquireFails(r)
  BY <1>1, <1>2, HandBackFine DEF AcquireFails, Ends, InFlight
<1>3. CASE DispatchThrows(r)
  BY <1>1, <1>3, HandBackFine DEF DispatchThrows, Ends, InFlight
<1>4. CASE \E a \in Answers : Answer(r, a)
  <2>1. PICK a \in Answers : Answer(r, a)
    BY <1>4
  <2> DEFINE seen == Observe(b, a)
  <2>2. Fine(b, seen)
    BY <1>1, ObserveFine
  <2>3. /\ Fine(seen, ResolveProbe(seen, role[r], a))
        /\ role[r] = "probe" => Decided(ResolveProbe(seen, role[r], a))
    BY <1>1, <2>2, ResolveFine DEF Fine
  <2>4. Fine(b, ResolveProbe(seen, role[r], a))
    BY <2>2, <2>3, Composed
  <2> QED
    BY <2>1, <2>3, <2>4 DEF Answer, Ends, InFlight
<1> QED
  BY <1>2, <1>3, <1>4

----------------------------------------------------------------------------
LEMMA InitOK == Init => TypeOK /\ Outstanding /\ Budget /\ NoWedge
<1> SUFFICES ASSUME Init PROVE TypeOK /\ Outstanding /\ Budget /\ NoWedge
  OBVIOUS
<1> DEFINE Clean(x) ==
      /\ x \in Breakers
      /\ ~x.armed /\ ~x.outstanding /\ ~x.cooling
      /\ x.phase = "closed" /\ ~x.probing /\ x.failures = 0
<1>1. Clean(b)
  <2>1. Clean(Fresh)
    BY CircuitBreakerAssumption DEF Fresh, Breakers
  <2>2. Clean([Fresh EXCEPT !.tripped = TRUE])
    BY <2>1 DEF Breakers
  <2> QED
    BY <2>1, <2>2 DEF Init
<1>2. TypeOK
  <2>1. at \in [Requests -> Places] /\ role \in [Requests -> Roles]
    BY DEF Init, Places, Roles
  <2>2. 0 < Threshold
    BY CircuitBreakerAssumption
  <2>3. signal \in BOOLEAN /\ probed \in BOOLEAN
    BY DEF Init
  <2>4. signals \in Nat /\ latchedIn \in Nat
    BY DEF Init
  <2> QED
    BY <1>1, <2>1, <2>2, <2>3, <2>4 DEF TypeOK
<1> QED
  BY <1>1, <1>2 DEF Init, Outstanding, Budget, NoWedge

(* Types, for any number of requests, sessions and files. *)
LEMMA TypeStep == ASSUME TypeOK, [Next]_vars PROVE TypeOK'
<1> USE DEF TypeOK, Places, Roles
<1>1. ASSUME NEW r \in Requests, Step(r) PROVE TypeOK'
  <2>1. CASE AdmitAuthProbe(r)
    <3>1. /\ b' \in Breakers
          /\ b'.tripped /\ b'.probing = b.probing /\ b'.phase = b.phase
          /\ b'.failures = b.failures
      BY <2>1 DEF AdmitAuthProbe, TakeAuthProbe, Breakers
    <3>2. signal' \in BOOLEAN /\ probed' \in BOOLEAN
      BY <2>1, Zenon DEF AdmitAuthProbe
    <3> QED
      BY <2>1, <3>1, <3>2 DEF AdmitAuthProbe, Admit
  <2>2. CASE AdmitRequest(r)
    BY <2>2 DEF AdmitRequest, Admit
  <2>3. CASE AdmitProbe(r)
    BY <2>3 DEF AdmitProbe, Admit, Breakers
  <2>4. CASE Send(r)
    BY <2>4 DEF Send
  <2>5. CASE AcquireFails(r) \/ DispatchThrows(r) \/ \E a \in Answers : Answer(r, a)
    <3>1. Ends(r)
      BY <2>5, EveryEnd
    <3> QED
      BY <3>1 DEF Ends, End, Fine, Sound
  <2> QED
    BY <1>1, <2>1, <2>2, <2>3, <2>4, <2>5 DEF Step
<1>2. CASE CooldownElapses
  BY <1>2 DEF CooldownElapses, Breakers
<1>3. CASE RearmCooldownElapses
  BY <1>3 DEF RearmCooldownElapses, Breakers
<1>4. CASE Signal
  BY <1>4 DEF Signal
<1>5. CASE Poll
  BY <1>5 DEF Poll, Breakers
<1>6. CASE UNCHANGED vars
  BY <1>6 DEF vars
<1> QED
  BY <1>1, <1>2, <1>3, <1>4, <1>5, <1>6 DEF Next

LEMMA OutstandingStep ==
  ASSUME TypeOK, Outstanding, [Next]_vars PROVE Outstanding'
<1> USE DEF Outstanding
<1>1. ASSUME NEW r \in Requests, Step(r) PROVE Outstanding'
  <2>1. CASE AdmitAuthProbe(r)
    BY <2>1 DEF AdmitAuthProbe
  <2>2. CASE AdmitRequest(r) \/ Send(r)
    BY <2>2 DEF AdmitRequest, Send
  <2>3. CASE AdmitProbe(r)
    BY <2>3 DEF AdmitProbe, TypeOK, Breakers
  <2>4. CASE AcquireFails(r) \/ DispatchThrows(r) \/ \E a \in Answers : Answer(r, a)
    <3>1. Ends(r)
      BY <2>4, EveryEnd
    <3> QED
      BY <3>1 DEF Ends, End, Fine, Sound, Tame, TypeOK, Breakers
  <2> QED
    BY <1>1, <2>1, <2>2, <2>3, <2>4 DEF Step
<1>2. CASE CooldownElapses
  BY <1>2 DEF CooldownElapses, TypeOK, Breakers
<1>3. CASE RearmCooldownElapses
  BY <1>3 DEF RearmCooldownElapses, TypeOK, Breakers
<1>4. CASE Signal
  BY <1>4 DEF Signal
<1>5. CASE Poll
  BY <1>5 DEF Poll, TypeOK, Breakers
<1>6. CASE UNCHANGED vars
  BY <1>6 DEF vars
<1> QED
  BY <1>1, <1>2, <1>3, <1>4, <1>5, <1>6 DEF Next

LEMMA BudgetStep == ASSUME TypeOK, Budget, [Next]_vars PROVE Budget'
<1> USE DEF Budget, TypeOK
<1>1. ASSUME NEW r \in Requests, Step(r) PROVE Budget'
  <2>1. CASE AdmitAuthProbe(r)
    <3>1. b'.armed = FALSE
      BY <2>1 DEF AdmitAuthProbe, TakeAuthProbe, Breakers
    <3> QED
      BY <2>1, <3>1 DEF AdmitAuthProbe
  <2>2. CASE AdmitRequest(r) \/ Send(r)
    BY <2>2 DEF AdmitRequest, Send
  <2>3. CASE AdmitProbe(r)
    <3>1. b'.armed = b.armed
      BY <2>3 DEF AdmitProbe, Breakers
    <3> QED
      BY <2>3, <3>1 DEF AdmitProbe
  <2>4. CASE AcquireFails(r) \/ DispatchThrows(r) \/ \E a \in Answers : Answer(r, a)
    <3>1. Ends(r)
      BY <2>4, EveryEnd
    <3>2. (b'.armed => b.armed) /\ UNCHANGED <<signal, signals, latchedIn>>
      BY <3>1 DEF Ends, End, Fine, Tame
    <3> QED
      BY <3>2
  <2> QED
    BY <1>1, <2>1, <2>2, <2>3, <2>4 DEF Step
<1>2. CASE CooldownElapses \/ RearmCooldownElapses
  <2>1. b'.armed = b.armed
    BY <1>2 DEF CooldownElapses, RearmCooldownElapses, Breakers
  <2> QED
    BY <1>2, <2>1 DEF CooldownElapses, RearmCooldownElapses
<1>3. CASE Signal
  BY <1>3 DEF Signal
<1>4. CASE Poll
  <2>1. b'.armed = TRUE /\ b.armed = FALSE
    BY <1>4 DEF Poll, Breakers
  <2> QED
    BY <1>4, <2>1 DEF Poll
<1>5. CASE UNCHANGED vars
  BY <1>5 DEF vars
<1> QED
  BY <1>1, <1>2, <1>3, <1>4, <1>5 DEF Next

(* A probe that is over has given its slot back; every other step leaves   *)
(* the probe in flight.                                                    *)
LEMMA NoWedgeStep == ASSUME TypeOK, NoWedge, [Next]_vars PROVE NoWedge'
<1> SUFFICES ASSUME ~b'.tripped, b'.probing
             PROVE  \E r \in Requests : InFlight(r)' /\ role'[r] = "probe"
  BY DEF NoWedge
<1> USE DEF InFlight
<1>1. ASSUME NEW r \in Requests, Step(r)
      PROVE  \E q \in Requests : InFlight(q)' /\ role'[q] = "probe"
  <2>1. ~AdmitAuthProbe(r)
    BY DEF AdmitAuthProbe, TakeAuthProbe, TypeOK, Breakers
  <2>2. ~AdmitRequest(r)
    BY DEF AdmitRequest, TypeOK
  <2>3. CASE AdmitProbe(r)
    BY <2>3 DEF AdmitProbe, Admit, TypeOK
  <2>4. CASE Send(r)
    <3>1. PICK q \in Requests : InFlight(q) /\ role[q] = "probe"
      BY <2>4 DEF Send, NoWedge
    <3> QED
      BY <2>4, <3>1 DEF Send, TypeOK
  <2>5. CASE AcquireFails(r) \/ DispatchThrows(r) \/ \E a \in Answers : Answer(r, a)
    <3>1. Ends(r)
      BY <2>5, EveryEnd
    <3>2. /\ ~b.tripped /\ b.probing /\ role[r] # "probe"
          /\ role' = role /\ at' = [at EXCEPT ![r] = "idle"]
      BY <3>1 DEF Ends, End, Fine, Tame, Decided
    <3>3. PICK q \in Requests : InFlight(q) /\ role[q] = "probe"
      BY <3>2 DEF NoWedge
    <3> QED
      BY <3>2, <3>3 DEF TypeOK
  <2> QED
    BY <1>1, <2>1, <2>2, <2>3, <2>4, <2>5 DEF Step
<1>2. CASE CooldownElapses
  BY <1>2 DEF CooldownElapses, TypeOK, Breakers
<1>3. CASE RearmCooldownElapses \/ Signal
  BY <1>3 DEF RearmCooldownElapses, Signal, NoWedge, TypeOK, Breakers
<1>4. CASE Poll
  BY <1>4 DEF Poll, TypeOK, Breakers
<1>5. CASE UNCHANGED vars
  BY <1>5 DEF vars, NoWedge
<1> QED
  BY <1>1, <1>2, <1>3, <1>4, <1>5 DEF Next

(* The latch goes only with the answer to an outstanding probe. *)
LEMMA LatchStep ==
  ASSUME TypeOK, Outstanding, [Next]_vars, b.tripped, ~b'.tripped
  PROVE  probed
<1>1. PICK r \in Requests : Step(r)
  BY DEF Next, CooldownElapses, RearmCooldownElapses, Signal, Poll, vars,
         TypeOK, Breakers
<1>2. ~AdmitAuthProbe(r) /\ ~AdmitRequest(r) /\ ~AdmitProbe(r) /\ ~Send(r)
  BY DEF AdmitAuthProbe, TakeAuthProbe, AdmitRequest, AdmitProbe, Send,
         TypeOK, Breakers
<1>3. Ends(r)
  BY <1>1, <1>2, EveryEnd DEF Step
<1> QED
  BY <1>3 DEF Ends, End, Fine, Tame, Outstanding

(* The slot goes only with the half-open phase. *)
LEMMA SlotStep ==
  ASSUME TypeOK, [Next]_vars, b.probing, b'.phase = "half-open"
  PROVE  b'.probing
<1>1. ASSUME NEW r \in Requests, Step(r) PROVE b'.probing
  <2>1. CASE AdmitAuthProbe(r) \/ AdmitRequest(r) \/ AdmitProbe(r) \/ Send(r)
    BY <2>1 DEF AdmitAuthProbe, TakeAuthProbe, AdmitRequest, AdmitProbe, Send,
                TypeOK, Breakers
  <2>2. CASE AcquireFails(r) \/ DispatchThrows(r) \/ \E a \in Answers : Answer(r, a)
    <3>1. Ends(r)
      BY <2>2, EveryEnd
    <3> QED
      BY <3>1 DEF Ends, End, Fine, Tame
  <2> QED
    BY <1>1, <2>1, <2>2 DEF Step
<1>2. CASE \/ CooldownElapses \/ RearmCooldownElapses \/ Signal \/ Poll
           \/ UNCHANGED vars
  BY <1>2 DEF CooldownElapses, RearmCooldownElapses, Signal, Poll, vars,
              TypeOK, Breakers
<1> QED
  BY <1>1, <1>2 DEF Next

----------------------------------------------------------------------------
(* The fields fit together at all times: the slot is taken in the          *)
(* half-open phase only, and an unlatched breaker has nothing of a re-arm. *)
THEOREM TypeCorrect == Spec => []TypeOK
BY InitOK, TypeStep, PTL DEF Spec

(* The half-open phase never wedges: while the slot is taken a probe is in *)
(* flight, whatever stragglers, trips and re-arms came in between.         *)
THEOREM SlotIsHeld == Spec => []SlotIsSound
BY InitOK, TypeCorrect, NoWedgeStep, PTL DEF Spec, SlotIsSound

(* No more logon attempts are admitted while latched than the operator     *)
(* has left files.                                                         *)
THEOREM ProbesAreGranted == Spec => []OneProbePerSignal
<1>1. TypeOK /\ Budget => OneProbePerSignal
  BY DEF TypeOK, Budget, OneProbePerSignal
<1> QED
  BY <1>1, InitOK, TypeCorrect, BudgetStep, PTL DEF Spec

(* The latch is cleared only after a re-armed probe. *)
THEOREM LatchHolds == Spec => LatchNeedsProbe
<1>1. TypeOK /\ Outstanding /\ [Next]_vars
        => [b.tripped /\ ~b'.tripped => probed]_vars
  BY LatchStep
<1>2. Spec => []Outstanding
  BY InitOK, TypeCorrect, OutstandingStep, PTL DEF Spec
<1> QED
  BY <1>1, <1>2, TypeCorrect, PTL DEF Spec, LatchNeedsProbe

(* Neither machine admits a second probe: one per signal, and one in each *)
(* half-open phase.                                                       *)
THEOREM ProbesAreSingle == Spec => OneProbeEach
<1>1. TypeOK /\ [Next]_vars /\ OneProbePerSignal'
        => [/\ OneProbePerSignal'
            /\ b.probing /\ b'.phase = "half-open" => b'.probing]_vars
  BY SlotStep
<1> QED
  BY <1>1, ProbesAreGranted, TypeCorrect, PTL DEF Spec, OneProbeEach

=============================================================================
