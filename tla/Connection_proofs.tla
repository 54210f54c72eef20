--------------------------- MODULE Connection_proofs ---------------------------
(***************************************************************************)
(* What holds of a connection for any number of callers of each kind: the  *)
(* types, that it is never dead and connected at once, that one request()  *)
(* never makes a second logon, that no session's loss is forgotten, and    *)
(* that connect() never returns a session reported gone.                   *)
(*                                                                         *)
(* The last two rest on one invariant, Kept.  Its ground (Serving, Lined,  *)
(* LossIsTaken) says who holds the mutex and who is in line; every step    *)
(* from there is one of eight Kinds, and the rest of Kept is carried       *)
(* through those kinds and never through the actions again.                *)
(***************************************************************************)
EXTENDS Connection, TLAPS

(* The ranges of the record-valued variables, by name. *)
Reqs ==
  [goal: Goals, login: BOOLEAN, cookie: Nat, fetch: BOOLEAN, fresh: BOOLEAN,
   stamp: Nat, answer: Answers]

Budgets == [loss: Nat \cup {NoGen}, recovered: BOOLEAN, logons: Nat]

Https == [jar: Nat, token: BOOLEAN, by: Callers \cup {NoOne}, counted: BOOLEAN]

Conns ==
  [generation: Nat, connected: BOOLEAN, death: Nat \cup {NoGen},
   lastRecorded: Nat \cup {NoGen}, deferred: Nat \cup {NoGen}, anomaly: BOOLEAN]

(* A connection's record that is not dead and connected at once. *)
Sane(k) == k \in Conns /\ (k.connected => k.death = NoGen)

Typed == TypeOK /\ NeverDeadAndConnected

USE DEF NoSession, NoGen

LEMMA TypedIs ==
  Typed <=> /\ phase \in [Callers -> Phases]
            /\ req \in [Callers -> Reqs]
            /\ budget \in [Requests -> Budgets]
            /\ owner \in Callers \cup {NoOne}
            /\ queue \in Seq(Callers)
            /\ http \in Https
            /\ Sane(conn)
            /\ active \in Windows \cup {NoOne}
            /\ sap \in [minted: Nat, live: SUBSET Nat]
            /\ told \in SUBSET Nat
BY DEF Typed, TypeOK, NeverDeadAndConnected, Reqs, Budgets, Https, Conns, Sane

-------------------------------------------------------------------------------
(* The operators on the connection's record keep it sane. *)

LEMMA MarkDeadSane ==
  ASSUME NEW k, Sane(k), NEW g \in Nat \cup {NoGen}
  PROVE  Sane(MarkDead(k, g))
<1> CASE g < k.generation
  BY DEF MarkDead, Sane, Conns
<1> CASE ~(g < k.generation) /\ g >= k.generation /\ k.death >= k.generation
  BY DEF MarkDead, Sane, Conns
<1> CASE ~(g < k.generation) /\ ~(g >= k.generation /\ k.death >= k.generation)
  BY DEF MarkDead, Sane, Conns
<1> QED
  OBVIOUS

LEMMA ApplyDeferredSane ==
  ASSUME NEW k, Sane(k)
  PROVE  Sane(ApplyDeferred(k))
<1> DEFINE k1 == [k EXCEPT !.deferred = NoGen]
<1>1. Sane(k1) /\ k.deferred \in Nat \cup {NoGen}
  BY DEF Sane, Conns
<1> HIDE DEF k1
<1>2. Sane(MarkDead(k1, k.deferred))
  BY <1>1, MarkDeadSane
<1> QED
  BY <1>2 DEF ApplyDeferred, k1

LEMMA NotedSane ==
  ASSUME Typed, NEW c \in Callers
  PROVE  Sane(Noted(c))
<1>1. Sane(conn) /\ req[c] \in Reqs
  BY TypedIs
<1>2. Sane([conn EXCEPT !.deferred = IF @ = NoGen THEN req[c].stamp ELSE @])
  BY <1>1 DEF Sane, Conns, Reqs
<1>3. Sane(MarkDead(conn, req[c].stamp))
  BY <1>1, MarkDeadSane DEF Reqs
<1> QED
  BY <1>1, <1>2, <1>3 DEF Noted

LEMMA PromotedSane ==
  ASSUME NEW b \in Budgets, NEW k, Sane(k)
  PROVE  Sane(Promoted(b, k))
<1>1. Sane(MarkDead(k, b.loss))
  BY MarkDeadSane DEF Budgets
<1> QED
  BY <1>1 DEF Promoted

LEMMA UnspentTyped == Unspent \in Budgets
BY DEF Unspent, Budgets

LEMMA BlankTyped == Blank \in Reqs
BY DEF Blank, Reqs, Goals, Answers

LEMMA RequestChanged ==
  ASSUME NEW q \in Reqs
  PROVE  /\ \A g \in Goals : [q EXCEPT !.goal = g] \in Reqs
         /\ \A n \in Nat : [q EXCEPT !.stamp = n] \in Reqs
         /\ \A a \in Answers : [q EXCEPT !.answer = a] \in Reqs
BY DEF Reqs

LEMMA ReceivedTyped ==
  ASSUME Typed, NEW c \in Callers
  PROVE  Received(c) \in Https
<1>1. http \in Https /\ req[c] \in Reqs
  BY TypedIs
<1> QED
  BY <1>1 DEF Received, Https, Reqs

LEMMA AsksTyped ==
  ASSUME Typed, NEW c \in Callers, NEW g \in Goals, NEW h \in Https, NEW fresh \in BOOLEAN
  PROVE  /\ Asks(c, g, h, fresh) \in Reqs
         /\ Asks(c, g, h, fresh).goal = g
         /\ Asks(c, g, h, fresh).login = FALSE
         /\ Asks(c, g, h, fresh).fresh = fresh
<1>1. req[c] \in Reqs
  BY TypedIs
<1> QED
  BY <1>1 DEF Asks, Reqs, Https, Answers

-------------------------------------------------------------------------------
(* What the shared parts of the actions leave. *)

LEMMA EntersTyped ==
  ASSUME Typed, NEW c \in Callers, Enters(c)
  PROVE  owner' \in Callers \cup {NoOne} /\ queue' \in Seq(Callers)
BY TypedIs DEF Enters

LEMMA ReleasesTyped ==
  ASSUME Typed, Releases
  PROVE  owner' \in Callers \cup {NoOne} /\ queue' \in Seq(Callers)
BY TypedIs DEF Releases

LEMMA LearnsTyped ==
  ASSUME Typed, NEW c \in Callers, Learns(c)
  PROVE  told' \in SUBSET Nat
BY TypedIs DEF Learns, Reqs

LEMMA FinishesTyped ==
  ASSUME Typed, NEW c \in Callers, NEW outcome \in Phases, Finishes(c, outcome)
  PROVE  /\ phase' \in [Callers -> Phases]
         /\ req' \in [Callers -> Reqs]
         /\ budget' \in [Requests -> Budgets]
BY TypedIs, UnspentTyped, BlankTyped DEF Finishes, Becomes

LEMMA LeavesTyped ==
  ASSUME Typed, NEW c \in Callers, NEW outcome \in Phases, Leaves(c, outcome)
  PROVE  /\ phase' \in [Callers -> Phases]
         /\ req' \in [Callers -> Reqs]
         /\ budget' \in [Requests -> Budgets]
         /\ owner' \in Callers \cup {NoOne} /\ queue' \in Seq(Callers)
         /\ active' \in Windows \cup {NoOne}
<1>1. Finishes(c, outcome) /\ Releases
  BY DEF Leaves
<1>2. active' \in Windows \cup {NoOne}
  BY TypedIs DEF Leaves
<1> QED
  BY <1>1, <1>2, FinishesTyped, ReleasesTyped

(* What Sends and LogsOn change, for their caller. *)
Sent(c) ==
  /\ phase' \in [Callers -> Phases]
  /\ req' \in [Callers -> Reqs]
  /\ owner' \in Callers \cup {NoOne} /\ queue' \in Seq(Callers)
  /\ http' \in Https
  /\ Sane(conn')
  /\ \A d \in Callers : d # c => phase'[d] = phase[d] /\ req'[d] = req[d]

LEMMA SendsTyped ==
  ASSUME Typed, NEW c \in Callers, NEW q \in Reqs, NEW k, Sane(k), NEW h \in Https,
         Sends(c, q, k, h)
  PROVE  /\ Sent(c)
         /\ phase'[c] \in {"answered", "queued"}
         /\ req'[c].goal = q.goal /\ req'[c].login = q.login
         /\ req'[c].fresh = q.fresh
<1>1. http' \in Https /\ Sane(conn')
  BY ApplyDeferredSane DEF Sends
<1> DEFINE q1 == [q EXCEPT !.answer = "refused"]
<1>2. q1 \in Reqs /\ q1.goal = q.goal /\ q1.login = q.login /\ q1.fresh = q.fresh
  BY DEF Reqs, Answers
<1> HIDE DEF q1
<1>3. CASE /\ req' = [req EXCEPT ![c] = q1]
           /\ Becomes(c, "answered")
           /\ UNCHANGED <<owner, queue>>
  BY <1>1, <1>2, <1>3, TypedIs DEF Becomes, Phases, Sent
<1>4. CASE /\ req' = [req EXCEPT ![c] = q]
           /\ Becomes(c, "queued")
           /\ Enters(c)
  BY <1>1, <1>4, TypedIs, EntersTyped DEF Becomes, Phases, Sent
<1> QED
  BY <1>3, <1>4 DEF Sends, q1

LEMMA LogsOnTyped ==
  ASSUME Typed, NEW c \in Callers, NEW g \in Goals, NEW counted \in BOOLEAN,
         NEW k, Sane(k), NEW h \in Https, LogsOn(c, g, counted, k, h)
  PROVE  /\ Sent(c)
         /\ \/ phase'[c] = "awaiting"
            \/ phase'[c] \in {"answered", "queued"} /\ req'[c].login
<1> DEFINE k1 == [k EXCEPT !.generation =
                    IF counted /\ ~(h.by # NoOne /\ h.counted) THEN @ + 1 ELSE @]
<1> DEFINE h1 == [jar |-> NoSession, token |-> FALSE, by |-> c, counted |-> counted]
<1> DEFINE q1 == Asks(c, g, h1, FALSE)
<1> DEFINE q2 == [q1 EXCEPT !.login = TRUE]
<1>1. Sane(k1)
  BY DEF Sane, Conns
<1>2. h1 \in Https
  BY DEF Https
<1>3. CASE /\ http' = [h EXCEPT !.counted = @ \/ counted]
           /\ conn' = k1
           /\ req' = [req EXCEPT ![c].goal = g]
           /\ Becomes(c, "awaiting")
           /\ UNCHANGED <<owner, queue>>
  <2>1. http' \in Https
    BY <1>3 DEF Https
  <2>2. req' \in [Callers -> Reqs]
    <3>1. [req[c] EXCEPT !.goal = g] \in Reqs
      BY TypedIs, RequestChanged
    <3> QED
      BY <1>3, <3>1, TypedIs
  <2> QED
    BY <1>1, <1>3, <2>1, <2>2, TypedIs DEF Becomes, Phases, Sent
<1>4. CASE Sends(c, q2, k1, h1)
  <2> HIDE DEF h1, k1
  <2>1. q1 \in Reqs
    BY <1>2, AsksTyped
  <2> HIDE DEF q1
  <2>2. q2 \in Reqs /\ q2.login
    BY <2>1 DEF Reqs
  <2> HIDE DEF q2
  <2> QED
    BY <1>1, <1>2, <1>4, <2>2, SendsTyped
<1> QED
  BY <1>3, <1>4 DEF LogsOn

-------------------------------------------------------------------------------
(* Every action keeps the types, and never leaves dead and connected.      *)

LEMMA TypedInit == Init => Typed
<1> SUFFICES ASSUME Init PROVE Typed
  OBVIOUS
<1>1. Sane(conn)
  BY DEF Init, Sane, Conns
<1>2. http \in Https
  BY DEF Init, Https
<1>3. /\ phase \in [Callers -> Phases] /\ queue \in Seq(Callers)
      /\ sap \in [minted: Nat, live: SUBSET Nat]
  BY DEF Init, Phases
<1> QED
  BY <1>1, <1>2, <1>3, TypedIs, UnspentTyped, BlankTyped DEF Init

LEMMA TypedNext ==
  ASSUME phase' \in [Callers -> Phases], req' \in [Callers -> Reqs],
         budget' \in [Requests -> Budgets], owner' \in Callers \cup {NoOne},
         queue' \in Seq(Callers), http' \in Https, Sane(conn'),
         active' \in Windows \cup {NoOne}, sap' \in [minted: Nat, live: SUBSET Nat],
         told' \in SUBSET Nat
  PROVE  Typed'
BY DEF Typed, TypeOK, NeverDeadAndConnected, Reqs, Budgets, Https, Conns, Sane

LEMMA WireTyped ==
  ASSUME Typed, NEW c \in Callers, WireStep(c)
  PROVE  Typed'
<1>1. CASE Dispatch(c)
  <2> USE <1>1
  <2>0. req[c] \in Reqs /\ conn.generation \in Nat
    BY TypedIs DEF Sane, Conns
  <2>1. [req[c] EXCEPT !.stamp = conn.generation] \in Reqs
    BY <2>0, RequestChanged
  <2>2. req' \in [Callers -> Reqs]
    BY <2>1, TypedIs DEF Dispatch
  <2>3. budget' \in [Requests -> Budgets]
    <3>1. CASE c \in Requests
      <4> DEFINE b == budget[c]
      <4>1. b \in Budgets
        BY <3>1, TypedIs
      <4> HIDE DEF b
      <4>2. [b EXCEPT !.logons = @ + 1] \in Budgets
        BY <4>1 DEF Budgets
      <4> QED
        BY <3>1, <4>2, TypedIs DEF Dispatch, b
    <3> QED
      BY <3>1, TypedIs DEF Dispatch
  <2> QED
    BY <2>2, <2>3, TypedIs, TypedNext DEF Dispatch, Becomes, Phases
<1>2. CASE Answer(c)
  <2> USE <1>2
  <2>1. PICK a \in Replies(c) :
          LET mints == a \in {"new", "newDead"}
              id == IF mints THEN sap.minted + 1 ELSE req[c].cookie
              ends == IF a \in {"gone", "dump", "gone200"} \/ (a = "new" /\ ~req[c].login)
                      THEN {req[c].cookie} ELSE {}
          IN /\ sap' = [minted |-> IF mints THEN id ELSE sap.minted,
                        live |-> (sap.live \ ends)
                                   \cup (IF a = "new" THEN {id} ELSE {})]
             /\ req' = [req EXCEPT ![c] = [@ EXCEPT !.answer = a, !.cookie = id]]
    BY DEF Answer
  <2>2. a \in Answers
    BY DEF Replies, Answers
  <2>3. req[c] \in Reqs /\ sap.minted \in Nat /\ sap.live \in SUBSET Nat
    BY TypedIs
  <2>4. sap' \in [minted: Nat, live: SUBSET Nat]
    BY <2>1, <2>3 DEF Reqs
  <2>5. req' \in [Callers -> Reqs]
    <3> DEFINE id == IF a \in {"new", "newDead"} THEN sap.minted + 1 ELSE req[c].cookie
    <3> DEFINE q == [req[c] EXCEPT !.answer = a, !.cookie = id]
    <3>1. id \in Nat
      BY <2>3 DEF Reqs
    <3>2. req' = [req EXCEPT ![c] = q]
      BY <2>1
    <3> HIDE DEF id
    <3>3. q \in Reqs
      BY <2>2, <2>3, <3>1 DEF Reqs
    <3> QED
      BY <3>2, <3>3, TypedIs
  <2>6. owner' \in Callers \cup {NoOne} /\ queue' \in Seq(Callers)
    BY TypedIs, ReleasesTyped DEF Answer
  <2> QED
    BY <2>4, <2>5, <2>6, TypedIs, TypedNext DEF Answer, Becomes, Phases
<1>3. CASE TimeOut(c)
  <2> USE <1>3
  <2>1. PICK i \in 1..Len(queue) :
          queue' = [j \in 1..(Len(queue) - 1) |->
                      IF j < i THEN queue[j] ELSE queue[j + 1]]
    BY DEF TimeOut
  <2>2. queue' \in Seq(Callers)
    BY <2>1, TypedIs
  <2>3. /\ phase' \in [Callers -> Phases] /\ req' \in [Callers -> Reqs]
        /\ budget' \in [Requests -> Budgets] /\ active' \in Windows \cup {NoOne}
    <3>1. CASE phase[c] = "queued"
      <4>1. /\ phase' = [phase EXCEPT ![c] = "answered"]
            /\ req' = [req EXCEPT ![c].answer = "error"]
            /\ UNCHANGED <<budget, active>>
        BY <3>1 DEF TimeOut, Becomes
      <4>2. [req[c] EXCEPT !.answer = "error"] \in Reqs
        BY TypedIs DEF Reqs, Answers
      <4> QED
        BY <4>1, <4>2, TypedIs DEF Phases
    <3>2. CASE phase[c] = "waiting"
      BY <3>2, TypedIs, FinishesTyped DEF TimeOut, Phases
    <3> QED
      BY <3>1, <3>2 DEF TimeOut
  <2> QED
    BY <2>2, <2>3, TypedIs, TypedNext DEF TimeOut
<1>4. CASE SettleLogin(c)
  <2> USE <1>4
  <2> DEFINE woken == {c} \cup {d \in Callers : phase[d] = "awaiting"}
  <2>1. LogonSettles(c, woken)
    BY DEF SettleLogin
  <2>2. phase' \in [Callers -> Phases]
    BY <2>1, TypedIs DEF LogonSettles, Phases
  <2>3. http' \in Https
    BY <2>1, ReceivedTyped DEF LogonSettles, Https
  <2>4. Sane(conn')
    <3>1. Sane(MarkDead(conn, conn.generation))
      BY TypedIs, MarkDeadSane DEF Sane, Conns
    <3> QED
      BY <2>1, <3>1, NotedSane DEF LogonSettles
  <2>5. told' \in SUBSET Nat
    BY <2>1, LearnsTyped DEF LogonSettles
  <2> QED
    BY <2>1, <2>2, <2>3, <2>4, <2>5, TypedIs, TypedNext DEF LogonSettles
<1> QED
  BY <1>1, <1>2, <1>3, <1>4 DEF WireStep

LEMMA RequestTyped ==
  ASSUME Typed, NEW c \in Requests, RequestStep(c)
  PROVE  Typed'
<1>0. c \in Callers
  BY DEF Callers, Holders
<1>1. CASE RefuseRequest(c)
  BY <1>0, <1>1, TypedIs, TypedNext, FinishesTyped, ApplyDeferredSane
     DEF RefuseRequest, Phases
<1>2. CASE CallRequest(c)
  <2> USE <1>2, <1>0
  <2> DEFINE k == ApplyDeferred(conn)
  <2>1. Sane(k) /\ http \in Https /\ "op" \in Goals
    BY TypedIs, ApplyDeferredSane DEF Goals
  <2>2. Sent(c)
    <3>1. CASE http.token
      BY <2>1, <3>1, AsksTyped, SendsTyped DEF CallRequest
    <3>2. CASE ~http.token
      BY <2>1, <3>2, LogsOnTyped DEF CallRequest
    <3> QED
      BY <3>1, <3>2
  <2> QED
    BY <2>2, TypedIs, TypedNext DEF CallRequest, Sent
<1>3. CASE ResumeRequest(c)
  <2> USE <1>3, <1>0
  <2>1. Sane(conn) /\ http \in Https /\ req[c].goal \in Goals
    BY TypedIs DEF Reqs
  <2>2. Sent(c)
    BY <2>1, AsksTyped, SendsTyped DEF ResumeRequest
  <2>3. budget' \in [Requests -> Budgets]
    BY TypedIs DEF ResumeRequest, Budgets
  <2> QED
    BY <2>2, <2>3, TypedIs, TypedNext DEF ResumeRequest, Sent
<1>4. CASE AbandonRequest(c)
  BY <1>0, <1>4, TypedIs, TypedNext, FinishesTyped, PromotedSane
     DEF AbandonRequest, Phases
<1>5. CASE Succeed(c)
  BY <1>0, <1>5, TypedIs, TypedNext, FinishesTyped, NotedSane, ReceivedTyped, LearnsTyped
     DEF Succeed, Phases
<1>6. CASE Recover(c)
  <2> USE <1>6, <1>0
  <2>1. Sane(conn) /\ http \in Https /\ "resend" \in Goals
    BY TypedIs DEF Goals
  <2>2. Sent(c)
    BY <2>1, LogsOnTyped DEF Recover
  <2>3. budget' \in [Requests -> Budgets]
    BY TypedIs DEF Recover, Budgets, Reqs
  <2> QED
    BY <2>2, <2>3, TypedIs, TypedNext, LearnsTyped DEF Recover, Sent
<1>7. CASE Refresh(c)
  <2> USE <1>7, <1>0
  <2> DEFINE h == [http EXCEPT !.token = FALSE]
  <2>1. Sane(conn) /\ h \in Https /\ "refresh" \in Goals
    BY TypedIs DEF Goals, Https
  <2>2. Sends(c, Asks(c, "refresh", h, FALSE), conn, h)
    BY DEF Refresh
  <2> HIDE DEF h
  <2>3. Sent(c)
    BY <2>1, <2>2, AsksTyped, SendsTyped
  <2> QED
    BY <2>3, TypedIs, TypedNext DEF Refresh, Sent
<1>8. CASE Resend(c)
  <2> USE <1>8, <1>0
  <2>1. Sane(Noted(c)) /\ Received(c) \in Https /\ "resend" \in Goals
    BY NotedSane, ReceivedTyped DEF Goals
  <2>2. Sent(c)
    BY <2>1, AsksTyped, SendsTyped DEF Resend
  <2> QED
    BY <2>2, TypedIs, TypedNext, LearnsTyped DEF Resend, Sent
<1>9. CASE FailRequest(c)
  <2> USE <1>9, <1>0
  <2> DEFINE b == IF Recoverable(c) THEN [budget[c] EXCEPT !.loss = req[c].stamp]
                                   ELSE budget[c]
  <2>1. b \in Budgets
    BY TypedIs DEF Budgets, Reqs
  <2>2. conn' = Promoted(b, Noted(c))
    BY DEF FailRequest
  <2> HIDE DEF b
  <2>3. Sane(conn')
    BY <2>1, <2>2, NotedSane, PromotedSane
  <2> QED
    BY <2>3, TypedIs, TypedNext, FinishesTyped, LearnsTyped DEF FailRequest, Phases
<1> QED
  BY <1>1, <1>2, <1>3, <1>4, <1>5, <1>6, <1>7, <1>8, <1>9 DEF RequestStep

LEMMA HoldTyped ==
  ASSUME Typed, NEW c \in Holders, HoldStep(c)
  PROVE  Typed'
<1>0. c \in Callers
  BY DEF Callers, Holders
<1>1. CASE CallHold(c)
  BY <1>0, <1>1, TypedIs, TypedNext, EntersTyped
     DEF CallHold, ClaimsHold, Becomes, Phases
<1>2. CASE RefuseHold(c)
  BY <1>0, <1>2, TypedIs, TypedNext, FinishesTyped
     DEF RefuseHold, Phases
<1>3. CASE HoldRequest(c)
  <2> USE <1>3, <1>0
  <2>1. PICK g \in NextGoals(c) :
          IF http.token \/ g = "drop"
          THEN Sends(c, Asks(c, g, http, FALSE), conn, http)
          ELSE \E counted \in (IF c \in Runs THEN {FALSE} ELSE BOOLEAN) :
                 LogsOn(c, g, counted, conn, http)
    BY DEF HoldRequest
  <2>2. g \in Goals
    BY DEF NextGoals, Goals
  <2>3. Sane(conn) /\ http \in Https
    BY TypedIs
  <2>4. Sent(c)
    <3>1. CASE http.token \/ g = "drop"
      BY <2>1, <2>2, <2>3, <3>1, AsksTyped, SendsTyped
    <3>2. CASE ~(http.token \/ g = "drop")
      <4>1. PICK counted \in BOOLEAN : LogsOn(c, g, counted, conn, http)
        BY <2>1, <3>2
      <4> QED
        BY <2>2, <2>3, <4>1, LogsOnTyped
    <3> QED
      BY <3>1, <3>2
  <2> QED
    BY <2>4, TypedIs, TypedNext DEF HoldRequest, Sent
<1>4. CASE ResumeHold(c)
  <2> USE <1>4, <1>0
  <2>1. Sane(conn) /\ http \in Https /\ req[c].goal \in Goals
    BY TypedIs DEF Reqs
  <2>2. Sent(c)
    BY <2>1, AsksTyped, SendsTyped DEF ResumeHold
  <2> QED
    BY <2>2, TypedIs, TypedNext DEF ResumeHold, Sent
<1>5. CASE HoldLoginFailed(c)
  <2> USE <1>5, <1>0
  <2>1. [req[c] EXCEPT !.answer = "error"] \in Reqs
    BY TypedIs, RequestChanged DEF Answers
  <2> QED
    BY <2>1, TypedIs, TypedNext DEF HoldLoginFailed, Becomes, Phases
<1>6. CASE LibraryRetry(c)
  <2> USE <1>6, <1>0
  <2> DEFINE h == [http EXCEPT !.token = FALSE]
  <2>1. Sane(conn) /\ h \in Https /\ req[c].goal \in Goals
    BY TypedIs DEF Reqs, Https
  <2>2. LogsOn(c, req[c].goal, FALSE, conn, h)
    BY DEF LibraryRetry
  <2> HIDE DEF h
  <2>3. Sent(c)
    BY <2>1, <2>2, LogsOnTyped
  <2> QED
    BY <2>3, TypedIs, TypedNext DEF LibraryRetry, Sent
<1>7. CASE SettleHold(c)
  BY <1>0, <1>7, TypedIs, TypedNext, NotedSane, ReceivedTyped, LearnsTyped
     DEF SettleHold, Becomes, Phases
<1> QED
  BY <1>1, <1>2, <1>3, <1>4, <1>5, <1>6, <1>7 DEF HoldStep

LEMMA ConnectTyped ==
  ASSUME Typed, NEW c \in Connects, ConnectStep(c)
  PROVE  Typed'
<1>0. c \in Callers
  BY DEF Callers, Holders
<1>1. CASE AlreadyConnected(c)
  BY <1>0, <1>1, TypedIs, TypedNext, LeavesTyped
     DEF AlreadyConnected, Phases
<1>2. CASE BeginConnect(c)
  <2> USE <1>2, <1>0
  <2>1. Sane(conn) /\ http \in Https /\ "logon" \in Goals
    BY TypedIs DEF Goals
  <2>2. Sent(c)
    BY <2>1, LogsOnTyped DEF BeginConnect
  <2> QED
    BY <2>2, TypedIs, TypedNext DEF BeginConnect, Sent
<1>3. CASE Revive(c)
  <2> USE <1>3, <1>0
  <2>1. Sane(ApplyDeferred(conn))
    BY TypedIs, ApplyDeferredSane
  <2>2. Sane(conn')
    BY <2>1 DEF Revive, Revives, Sane, Conns
  <2>3. req' \in [Callers -> Reqs]
    <3>1. [req[c] EXCEPT !.goal = "none"] \in Reqs
      BY TypedIs, RequestChanged DEF Goals
    <3> QED
      BY <3>1, TypedIs DEF Revive, Revives
  <2> QED
    BY <2>2, <2>3, TypedIs, TypedNext DEF Revive, Revives, Becomes, Phases
<1>4. CASE DieReviving(c)
  BY <1>0, <1>4, TypedIs, TypedNext, LeavesTyped, ApplyDeferredSane
     DEF DieReviving, Phases
<1>5. CASE FailConnect(c)
  BY <1>0, <1>5, TypedIs, TypedNext, LeavesTyped
     DEF FailConnect, Phases
<1>6. CASE CloseConnect(c)
  BY <1>0, <1>6, TypedIs, TypedNext, LeavesTyped, ApplyDeferredSane
     DEF CloseConnect, Phases
<1> QED
  BY <1>1, <1>2, <1>3, <1>4, <1>5, <1>6 DEF ConnectStep

LEMMA WindowTyped ==
  ASSUME Typed, NEW c \in Windows \cup Runs, WindowStep(c)
  PROVE  Typed'
<1>0. c \in Callers
  BY DEF Callers, Holders
<1>1. CASE BeginHold(c)
  BY <1>0, <1>1, TypedIs, TypedNext DEF BeginHold, Becomes, Phases
<1>2. CASE EndHold(c)
  BY <1>0, <1>2, TypedIs, TypedNext, LeavesTyped
     DEF EndHold, Phases
<1> QED
  BY <1>1, <1>2 DEF WindowStep

LEMMA RunTyped ==
  ASSUME Typed, NEW c \in Runs, FailRun(c)
  PROVE  Typed'
<1>0. c \in Callers
  BY DEF Callers, Holders
<1>1. CASE FailRun(c)
  BY <1>0, <1>1, TypedIs, TypedNext, LeavesTyped
     DEF FailRun, Phases
<1> QED
  BY <1>1

LEMMA TypedStep == Typed /\ [Next]_vars => Typed'
<1>1. CASE UNCHANGED vars
  BY <1>1, TypedIs, TypedNext DEF vars
<1>2. ASSUME Typed, NEW c \in Callers, CallerStep(c)
      PROVE  Typed'
  BY <1>2, WireTyped, RequestTyped, HoldTyped, ConnectTyped, WindowTyped, RunTyped
     DEF CallerStep
<1> QED
  BY <1>1, <1>2 DEF Next

-------------------------------------------------------------------------------
(* One logon per request.                                                  *)

(* A logon about to leave is the first one, and a first send that may yet  *)
(* lead to a recovery was not preceded by one.                             *)
Frugal(r) ==
  /\ budget[r].logons <= 1
  /\ phase[r] = "idle" => budget[r].logons = 0
  /\ phase[r] = "queued" /\ req[r].login => budget[r].logons = 0
  /\ /\ phase[r] \in {"queued", "inFlight", "answered"}
     /\ req[r].goal = "op" /\ ~req[r].login /\ ~req[r].fresh
     => budget[r].logons = 0

AllFrugal == \A r \in Requests : Frugal(r)

(* A step that leaves r alone, or only lets it go on from a logon. *)
Spares(r) ==
  /\ req'[r] = req[r] /\ budget'[r] = budget[r]
  /\ \/ phase'[r] = phase[r]
     \/ phase'[r] \in {"loggedOn", "loginFailed"}

LEMMA SparedFrugal ==
  ASSUME NEW r \in Requests, Frugal(r), Spares(r)
  PROVE  Frugal(r)'
BY DEF Frugal, Spares

LEMMA FinishedFrugal ==
  ASSUME Typed, NEW r \in Requests, NEW outcome \in Phases, Finishes(r, outcome),
         outcome # "queued"
  PROVE  Frugal(r)'
<1>1. r \in Callers
  BY DEF Callers
<1>2. phase'[r] = outcome /\ req'[r] = Blank /\ budget'[r] = Unspent
  BY <1>1, TypedIs DEF Finishes, Becomes
<1> QED
  BY <1>2 DEF Frugal, Blank, Unspent

LEMMA FinishesSpares ==
  ASSUME Typed, NEW c \in Callers, NEW outcome, Finishes(c, outcome),
         NEW r \in Requests, r # c
  PROVE  Spares(r)
<1>1. r \in Callers
  BY DEF Callers
<1> QED
  BY <1>1, TypedIs DEF Finishes, Becomes, Spares

(* What Sends leaves is frugal if no logon was made, or none is asked for  *)
(* that could still lead to one.                                           *)
LEMMA SentFrugal ==
  ASSUME NEW r \in Requests,
         budget'[r].logons = budget[r].logons, budget[r].logons <= 1,
         phase'[r] \in {"answered", "queued"},
         \/ budget[r].logons = 0
         \/ ~req'[r].login /\ (req'[r].goal = "op" => req'[r].fresh)
  PROVE  Frugal(r)'
BY DEF Frugal

LEMMA LoggingOnFrugal ==
  ASSUME NEW r \in Requests,
         budget'[r].logons = budget[r].logons, budget[r].logons = 0,
         phase'[r] \in {"awaiting", "answered", "queued"}
  PROVE  Frugal(r)'
BY DEF Frugal

LEMMA WireFrugal ==
  ASSUME Typed, AllFrugal, NEW c \in Callers, WireStep(c), NEW r \in Requests
  PROVE  Frugal(r)'
<1>1. r \in Callers /\ Frugal(r)
  BY DEF Callers, AllFrugal
<1>2. CASE Dispatch(c)
  <2>1. CASE r = c
    <3>1. phase[r] = "queued" /\ phase'[r] = "inFlight"
      BY <1>1, <1>2, <2>1, TypedIs DEF Dispatch, Becomes
    <3>2. /\ req'[r].goal = req[r].goal /\ req'[r].login = req[r].login
          /\ req'[r].fresh = req[r].fresh
      BY <1>1, <1>2, <2>1, TypedIs DEF Dispatch, Reqs
    <3>3. CASE req[r].login
      <4>1. budget[r].logons = 0
        BY <1>1, <3>1, <3>3 DEF Frugal
      <4>2. budget'[r].logons = budget[r].logons + 1
        BY <1>2, <2>1, <3>3, TypedIs DEF Dispatch, Budgets
      <4> QED
        BY <3>1, <3>2, <3>3, <4>1, <4>2 DEF Frugal
    <3>4. CASE ~req[r].login
      <4>1. budget'[r] = budget[r]
        BY <1>2, <2>1, <3>4 DEF Dispatch
      <4> QED
        BY <1>1, <3>1, <3>2, <3>4, <4>1 DEF Frugal
    <3> QED
      BY <3>3, <3>4
  <2>2. CASE r # c
    BY <1>1, <1>2, <2>2, TypedIs, SparedFrugal DEF Dispatch, Becomes, Spares
  <2> QED
    BY <2>1, <2>2
<1>3. CASE Answer(c)
  <2>1. CASE r = c
    <3>1. phase[r] = "inFlight" /\ phase'[r] = "answered" /\ budget'[r] = budget[r]
      BY <1>1, <1>3, <2>1, TypedIs DEF Answer, Becomes
    <3>2. /\ req'[r].goal = req[r].goal /\ req'[r].login = req[r].login
          /\ req'[r].fresh = req[r].fresh
      BY <1>1, <1>3, <2>1, TypedIs DEF Answer, Reqs
    <3> QED
      BY <1>1, <3>1, <3>2 DEF Frugal
  <2>2. CASE r # c
    BY <1>1, <1>3, <2>2, TypedIs, SparedFrugal DEF Answer, Becomes, Spares
  <2> QED
    BY <2>1, <2>2
<1>4. CASE TimeOut(c)
  <2>1. CASE r = c
    <3>1. CASE phase[c] = "queued"
      <4>1. phase'[r] = "answered" /\ budget'[r] = budget[r]
        BY <1>1, <1>4, <2>1, <3>1, TypedIs DEF TimeOut, Becomes
      <4>2. req' = [req EXCEPT ![c].answer = "error"]
        BY <1>4, <3>1 DEF TimeOut
      <4>3. /\ req'[r].goal = req[r].goal /\ req'[r].login = req[r].login
            /\ req'[r].fresh = req[r].fresh
        BY <1>1, <2>1, <4>2, TypedIs DEF Reqs
      <4> QED
        BY <1>1, <2>1, <3>1, <4>1, <4>3 DEF Frugal
    <3>2. CASE phase[c] = "waiting"
      BY <1>4, <2>1, <3>2, FinishedFrugal DEF TimeOut, Phases
    <3> QED
      BY <1>4, <3>1, <3>2 DEF TimeOut
  <2>2. CASE r # c
    <3>1. CASE phase[c] = "queued"
      BY <1>1, <1>4, <2>2, <3>1, TypedIs, SparedFrugal DEF TimeOut, Becomes, Spares
    <3>2. CASE phase[c] = "waiting"
      BY <1>1, <1>4, <2>2, <3>2, FinishesSpares, SparedFrugal DEF TimeOut
    <3> QED
      BY <1>4, <3>1, <3>2 DEF TimeOut
  <2> QED
    BY <2>1, <2>2
<1>5. CASE SettleLogin(c)
  <2>1. Spares(r)
    BY <1>1, <1>5, TypedIs DEF SettleLogin, LogonSettles, Spares
  <2> QED
    BY <1>1, <2>1, SparedFrugal
<1> QED
  BY <1>2, <1>3, <1>4, <1>5 DEF WireStep

LEMMA RequestFrugal ==
  ASSUME Typed, AllFrugal, NEW c \in Requests, RequestStep(c), NEW r \in Requests
  PROVE  Frugal(r)'
<1>0. c \in Callers /\ r \in Callers /\ Frugal(r) /\ Frugal(c)
  BY DEF Callers, AllFrugal
<1>1. Sane(conn) /\ http \in Https /\ req[c] \in Reqs /\ budget[c] \in Budgets
  BY <1>0, TypedIs
<1>2. CASE RefuseRequest(c) \/ AbandonRequest(c) \/ Succeed(c) \/ FailRequest(c)
  <2>1. Finishes(c, "failed") \/ Finishes(c, "done")
    BY <1>2 DEF RefuseRequest, AbandonRequest, Succeed, FailRequest
  <2> QED
    BY <1>0, <2>1, FinishedFrugal, FinishesSpares, SparedFrugal DEF Phases
<1>3. CASE CallRequest(c)
  <2> DEFINE k == ApplyDeferred(conn)
  <2>1. Sane(k) /\ "op" \in Goals
    BY <1>1, ApplyDeferredSane DEF Goals
  <2>2. phase[c] = "idle" /\ budget' = budget /\ budget[c].logons = 0
    BY <1>0, <1>3 DEF CallRequest, Frugal
  <2>3. Sent(c) /\ phase'[c] \in {"awaiting", "answered", "queued"}
    <3>1. CASE http.token
      BY <1>0, <1>1, <1>3, <2>1, <3>1, AsksTyped, SendsTyped DEF CallRequest
    <3>2. CASE ~http.token
      BY <1>0, <1>1, <1>3, <2>1, <3>2, LogsOnTyped DEF CallRequest
    <3> QED
      BY <3>1, <3>2
  <2> QED
    BY <1>0, <2>2, <2>3, LoggingOnFrugal, SparedFrugal DEF Sent, Spares
<1>4. CASE ResumeRequest(c)
  <2>1. req[c].goal \in Goals
    BY <1>1 DEF Reqs
  <2>2. /\ Sent(c) /\ phase'[c] \in {"answered", "queued"}
        /\ ~req'[c].login /\ req'[c].fresh
    BY <1>0, <1>1, <1>4, <2>1, AsksTyped, SendsTyped DEF ResumeRequest
  <2>3. budget'[c].logons = budget[c].logons
    BY <1>1, <1>4, TypedIs DEF ResumeRequest, Budgets
  <2>4. CASE r = c
    BY <1>0, <2>2, <2>3, <2>4, SentFrugal DEF Frugal
  <2>5. CASE r # c
    BY <1>0, <1>4, <2>2, <2>5, SparedFrugal, TypedIs DEF ResumeRequest, Sent, Spares
  <2> QED
    BY <2>4, <2>5
<1>5. CASE Recover(c)
  <2>1. "resend" \in Goals
    BY DEF Goals
  <2>2. Sent(c) /\ phase'[c] \in {"awaiting", "answered", "queued"}
    BY <1>0, <1>1, <1>5, <2>1, LogsOnTyped DEF Recover
  <2>3. budget[c].logons = 0
    BY <1>0, <1>5 DEF Recover, Recovers, Landed, Frugal
  <2>4. budget'[c].logons = budget[c].logons
    BY <1>1, <1>5, TypedIs DEF Recover, Budgets
  <2>5. CASE r = c
    BY <2>2, <2>3, <2>4, <2>5, LoggingOnFrugal
  <2>6. CASE r # c
    BY <1>0, <1>5, <2>2, <2>6, SparedFrugal, TypedIs DEF Recover, Sent, Spares
  <2> QED
    BY <2>5, <2>6
<1>6. CASE Refresh(c)
  <2> DEFINE h == [http EXCEPT !.token = FALSE]
  <2>1. h \in Https /\ "refresh" \in Goals
    BY <1>1 DEF Https, Goals
  <2>2. Sends(c, Asks(c, "refresh", h, FALSE), conn, h) /\ budget' = budget
    BY <1>6 DEF Refresh
  <2> HIDE DEF h
  <2>3. /\ Sent(c) /\ phase'[c] \in {"answered", "queued"}
        /\ ~req'[c].login /\ req'[c].goal = "refresh"
    <3> DEFINE q == Asks(c, "refresh", h, FALSE)
    <3>1. q \in Reqs /\ q.goal = "refresh" /\ q.login = FALSE
      BY <1>0, <2>1, AsksTyped
    <3>2. Sends(c, q, conn, h)
      BY <2>2
    <3> HIDE DEF q
    <3> QED
      BY <1>0, <1>1, <2>1, <3>1, <3>2, SendsTyped
  <2> QED
    BY <1>0, <2>2, <2>3, SentFrugal, SparedFrugal DEF Frugal, Sent, Spares
<1>7. CASE Resend(c)
  <2>1. Sane(Noted(c)) /\ Received(c) \in Https /\ "resend" \in Goals
    BY <1>0, NotedSane, ReceivedTyped DEF Goals
  <2>2. Sends(c, Asks(c, "resend", Received(c), FALSE), Noted(c), Received(c))
    BY <1>7 DEF Resend
  <2>3. /\ Sent(c) /\ phase'[c] \in {"answered", "queued"}
        /\ ~req'[c].login /\ req'[c].goal = "resend"
    <3> DEFINE q == Asks(c, "resend", Received(c), FALSE)
    <3>1. q \in Reqs /\ q.goal = "resend" /\ q.login = FALSE
      BY <1>0, <2>1, AsksTyped
    <3>2. Sends(c, q, Noted(c), Received(c))
      BY <2>2
    <3> HIDE DEF q
    <3> QED
      BY <1>0, <1>1, <2>1, <3>1, <3>2, SendsTyped
  <2>4. budget' = budget
    BY <1>7 DEF Resend
  <2> QED
    BY <1>0, <2>3, <2>4, SentFrugal, SparedFrugal DEF Frugal, Sent, Spares
<1> QED
  BY <1>2, <1>3, <1>4, <1>5, <1>6, <1>7 DEF RequestStep

(* A hold's own steps spare the requests. *)
LEMMA LeavesSpares ==
  ASSUME Typed, NEW c \in Holders, NEW outcome, Leaves(c, outcome), NEW r \in Requests
  PROVE  Spares(r)
<1>1. r # c /\ c \in Callers
  BY CallersAssumption DEF Callers
<1> QED
  BY <1>1, FinishesSpares DEF Leaves

LEMMA HoldSpares ==
  ASSUME Typed, NEW c \in Holders, HoldStep(c), NEW r \in Requests
  PROVE  Spares(r)
<1>0. c \in Callers /\ r \in Callers /\ r # c
  BY CallersAssumption DEF Callers
<1>1. Sane(conn) /\ http \in Https /\ req[c] \in Reqs /\ req[c].goal \in Goals
  BY <1>0, TypedIs DEF Reqs
<1>2. CASE CallHold(c)
  BY <1>0, <1>2, TypedIs DEF CallHold, ClaimsHold, Becomes, Spares
<1>3. CASE RefuseHold(c)
  BY <1>0, <1>3, FinishesSpares DEF RefuseHold
<1>4. CASE HoldRequest(c)
  <2>1. PICK g \in NextGoals(c) :
          IF http.token \/ g = "drop"
          THEN Sends(c, Asks(c, g, http, FALSE), conn, http)
          ELSE \E counted \in (IF c \in Runs THEN {FALSE} ELSE BOOLEAN) :
                 LogsOn(c, g, counted, conn, http)
    BY <1>4 DEF HoldRequest
  <2>2. g \in Goals
    BY DEF NextGoals, Goals
  <2>3. CASE http.token \/ g = "drop"
    <3>1. Asks(c, g, http, FALSE) \in Reqs
      BY <1>0, <1>1, <2>2, AsksTyped
    <3>2. Sends(c, Asks(c, g, http, FALSE), conn, http)
      BY <2>1, <2>3
    <3>3. Sent(c)
      BY <1>0, <1>1, <3>1, <3>2, SendsTyped
    <3> QED
      BY <1>0, <1>4, <3>3 DEF HoldRequest, Sent, Spares
  <2>4. CASE ~(http.token \/ g = "drop")
    <3>1. PICK counted \in BOOLEAN : LogsOn(c, g, counted, conn, http)
      BY <2>1, <2>4
    <3> QED
      <4>1. Sent(c)
        BY <1>0, <1>1, <2>2, <3>1, LogsOnTyped
      <4> QED
        BY <1>0, <1>4, <4>1 DEF HoldRequest, Sent, Spares
  <2> QED
    BY <2>3, <2>4
<1>5. CASE ResumeHold(c)
  <2>1. Sent(c) /\ budget' = budget
    BY <1>0, <1>1, <1>5, AsksTyped, SendsTyped DEF ResumeHold
  <2> QED
    BY <1>0, <2>1 DEF Sent, Spares
<1>6. CASE HoldLoginFailed(c)
  BY <1>0, <1>6, TypedIs DEF HoldLoginFailed, Becomes, Spares
<1>7. CASE LibraryRetry(c)
  <2> DEFINE h == [http EXCEPT !.token = FALSE]
  <2>1. h \in Https
    BY <1>1 DEF Https
  <2>2. LogsOn(c, req[c].goal, FALSE, conn, h) /\ budget' = budget
    BY <1>7 DEF LibraryRetry
  <2> HIDE DEF h
  <2> QED
    BY <1>0, <1>1, <2>1, <2>2, LogsOnTyped DEF Sent, Spares
<1>8. CASE SettleHold(c)
  BY <1>0, <1>8, TypedIs DEF SettleHold, Becomes, Spares
<1> QED
  BY <1>2, <1>3, <1>4, <1>5, <1>6, <1>7, <1>8 DEF HoldStep

LEMMA OtherHoldsSpare ==
  ASSUME Typed, NEW c \in Holders, NEW r \in Requests,
         \/ c \in Connects /\ ConnectStep(c)
         \/ c \in Windows \cup Runs /\ WindowStep(c)
         \/ c \in Runs /\ FailRun(c)
  PROVE  Spares(r)
<1>0. c \in Callers /\ r \in Callers /\ r # c
  BY CallersAssumption DEF Callers
<1>1. CASE \/ AlreadyConnected(c) \/ DieReviving(c) \/ FailConnect(c) \/ CloseConnect(c)
           \/ EndHold(c) \/ FailRun(c)
  <2>1. \E outcome : Leaves(c, outcome)
    BY <1>1 DEF AlreadyConnected, DieReviving, FailConnect, CloseConnect, EndHold, FailRun
  <2> QED
    BY <2>1, LeavesSpares
<1>2. CASE BeginConnect(c)
  <2>1. Sane(conn) /\ http \in Https /\ "logon" \in Goals
    BY TypedIs DEF Goals
  <2>2. Sent(c) /\ budget' = budget
    BY <1>0, <1>2, <2>1, LogsOnTyped DEF BeginConnect
  <2> QED
    BY <1>0, <2>2 DEF Sent, Spares
<1>3. CASE Revive(c)
  BY <1>0, <1>3, TypedIs DEF Revive, Revives, Becomes, Spares
<1>4. CASE BeginHold(c)
  BY <1>0, <1>4, TypedIs DEF BeginHold, Becomes, Spares
<1> QED
  BY <1>1, <1>2, <1>3, <1>4 DEF ConnectStep, WindowStep

LEMMA FrugalStep == Typed /\ AllFrugal /\ [Next]_vars => AllFrugal'
<1>1. CASE UNCHANGED vars
  BY <1>1 DEF vars, AllFrugal, Frugal
<1>2. ASSUME Typed, AllFrugal, NEW c \in Callers, CallerStep(c), NEW r \in Requests
      PROVE  Frugal(r)'
  <2>1. Frugal(r)
    BY <1>2 DEF AllFrugal
  <2>2. CASE WireStep(c)
    BY <1>2, <2>2, WireFrugal
  <2>3. CASE c \in Requests /\ RequestStep(c)
    BY <1>2, <2>3, RequestFrugal
  <2>4. CASE c \in Holders /\ HoldStep(c)
    BY <1>2, <2>1, <2>4, HoldSpares, SparedFrugal
  <2>5. CASE \/ c \in Connects /\ ConnectStep(c)
             \/ c \in Windows \cup Runs /\ WindowStep(c)
             \/ c \in Runs /\ FailRun(c)
    <3>1. c \in Holders
      BY <2>5 DEF Holders
    <3> QED
      BY <1>2, <2>1, <2>5, <3>1, OtherHoldsSpare, SparedFrugal
  <2> QED
    BY <1>2, <2>2, <2>3, <2>4, <2>5 DEF CallerStep
<1> QED
  BY <1>1, <1>2 DEF Next, AllFrugal

LEMMA FrugalInit == Init => AllFrugal
<1> SUFFICES ASSUME Init, NEW r \in Requests PROVE Frugal(r)
  BY DEF AllFrugal
<1>1. r \in Callers
  BY DEF Callers
<1>2. phase[r] = "idle" /\ budget[r].logons = 0
  BY <1>1 DEF Init, Unspent
<1> QED
  BY <1>2 DEF Frugal

-------------------------------------------------------------------------------
(* The mutex: who sits in the exclusive hold or has a request on the wire  *)
(* is its owner, and a request that is queued is served or waits.          *)

Active(c) == phase[c] \notin {"idle", "waiting", "done", "failed"}

Waits(c) == \E i \in 1..Len(queue) : queue[i] = c

Ahead(d, b) == \E i, j \in 1..Len(queue) : i < j /\ queue[i] = d /\ queue[j] = b

Serving ==
  /\ owner = NoOne => queue = <<>>
  /\ \A c \in Holders : Active(c) => owner = c
  /\ \A c \in Callers : phase[c] = "inFlight" => owner = c
  /\ \A c \in Requests : phase[c] = "queued" => owner = c \/ Waits(c)

(* How a step of c moves the mutex: nobody overtakes, nobody is lost, and  *)
(* it passes from nobody to c, or from c to whom all others are behind.    *)
MutexMoves(c) ==
  /\ \A d, b \in Callers : Ahead(d, b)' => Ahead(d, b) \/ b = c
  /\ \A d \in Callers \ {c} : Waits(d) => Waits(d)' \/ owner' = d
  /\ \/ owner' = owner
     \/ owner = NoOne /\ owner' = c
     \/ /\ owner = c
        /\ owner' # NoOne => \A b \in Callers : Waits(b) => b = owner' \/ Ahead(owner', b)
  /\ owner' = NoOne => queue' = <<>>

LEMMA MutexSame ==
  ASSUME Serving, NEW c \in Callers, UNCHANGED <<owner, queue>>
  PROVE  MutexMoves(c)
BY DEF Serving, MutexMoves, Ahead, Waits

LEMMA MutexEntered ==
  ASSUME Typed, Serving, NEW c \in Callers, Enters(c)
  PROVE  MutexMoves(c) /\ (owner' = c \/ Waits(c)')
<1>1. queue \in Seq(Callers) /\ NoOne \notin Callers
  BY TypedIs, CallersAssumption
<1>2. CASE owner \in {NoOne, c}
  <2>1. queue' = queue /\ owner' = c
    BY <1>2 DEF Enters
  <2> QED
    BY <1>1, <1>2, <2>1 DEF MutexMoves, Ahead, Waits
<1>3. CASE owner \notin {NoOne, c}
  <2>1. queue' = Append(queue, c) /\ owner' = owner
    BY <1>3 DEF Enters
  <2>2. /\ Len(queue') = Len(queue) + 1 /\ Len(queue) \in Nat
        /\ queue'[Len(queue) + 1] = c
        /\ \A i \in 1..Len(queue) : queue'[i] = queue[i]
    BY <1>1, <2>1
  <2>3. Waits(c)'
    BY <2>2 DEF Waits
  <2>4. \A d \in Callers : Waits(d) => Waits(d)'
    BY <2>2 DEF Waits
  <2>5. ASSUME NEW d \in Callers, NEW b \in Callers, Ahead(d, b)', b # c PROVE Ahead(d, b)
    <3>1. PICK i \in 1..Len(queue'), j \in 1..Len(queue') :
            i < j /\ queue'[i] = d /\ queue'[j] = b
      BY <2>5 DEF Ahead
    <3>2. j # Len(queue) + 1
      BY <2>2, <2>5, <3>1
    <3>3. i \in 1..Len(queue) /\ j \in 1..Len(queue)
      BY <2>2, <3>1, <3>2
    <3> QED
      BY <2>2, <3>1, <3>3 DEF Ahead
  <2> QED
    BY <1>3, <2>1, <2>3, <2>4, <2>5 DEF MutexMoves
<1> QED
  BY <1>2, <1>3

LEMMA MutexReleased ==
  ASSUME Typed, Serving, NEW c \in Callers, owner = c, Releases
  PROVE  MutexMoves(c)
<1>1. queue \in Seq(Callers) /\ NoOne \notin Callers
  BY TypedIs, CallersAssumption
<1>2. CASE queue = <<>>
  BY <1>1, <1>2 DEF Releases, MutexMoves, Ahead, Waits
<1>3. CASE queue # <<>>
  <2>1. owner' = queue[1] /\ queue' = Tail(queue)
    BY <1>1, <1>3 DEF Releases
  <2>2. /\ Len(queue) \in Nat \ {0} /\ Len(queue') = Len(queue) - 1
        /\ \A i \in 1..Len(queue') : queue'[i] = queue[i + 1] /\ i + 1 \in 1..Len(queue)
    BY <1>1, <1>3, <2>1
  <2>3. ASSUME NEW d \in Callers, NEW b \in Callers, Ahead(d, b)' PROVE Ahead(d, b)
    <3>1. PICK i \in 1..Len(queue'), j \in 1..Len(queue') :
            i < j /\ queue'[i] = d /\ queue'[j] = b
      BY <2>3 DEF Ahead
    <3>2. /\ i + 1 < j + 1 /\ i + 1 \in 1..Len(queue) /\ j + 1 \in 1..Len(queue)
          /\ queue[i + 1] = d /\ queue[j + 1] = b
      BY <2>2, <3>1
    <3> QED
      BY <3>2 DEF Ahead
  <2>4. ASSUME NEW b \in Callers, Waits(b), b # owner' PROVE Waits(b)' /\ Ahead(owner', b)
    <3>1. PICK i \in 1..Len(queue) : queue[i] = b
      BY <2>4 DEF Waits
    <3>2. i # 1
      BY <2>1, <2>4, <3>1
    <3>3. i - 1 \in 1..Len(queue') /\ (i - 1) + 1 = i
      BY <2>2, <3>1, <3>2
    <3>4. queue'[i - 1] = b
      BY <2>2, <3>1, <3>3
    <3>5. 1 \in 1..Len(queue) /\ 1 < i
      BY <2>2, <3>1, <3>2
    <3> QED
      BY <2>1, <3>1, <3>3, <3>4, <3>5 DEF Waits, Ahead
  <2>5. owner' \in Callers
    BY <1>1, <2>1, <2>2
  <2> QED
    BY <1>1, <2>3, <2>4, <2>5 DEF MutexMoves
<1> QED
  BY <1>2, <1>3

LEMMA MutexGivenUp ==
  ASSUME Typed, Serving, NEW c \in Callers, TimeOut(c)
  PROVE  MutexMoves(c)
<1>1. queue \in Seq(Callers) /\ owner' = owner
  BY TypedIs DEF TimeOut
<1>2. PICK n \in 1..Len(queue) :
        /\ queue[n] = c
        /\ queue' = [j \in 1..(Len(queue) - 1) |-> IF j < n THEN queue[j] ELSE queue[j + 1]]
  BY DEF TimeOut
<1>3. Len(queue) \in Nat \ {0} /\ n \in Nat
  BY <1>1, <1>2
<1>4. queue' \in Seq(Callers) /\ Len(queue') = Len(queue) - 1
  BY <1>1, <1>2, <1>3
<1>5. owner # NoOne
  BY <1>3 DEF Serving
<1> DEFINE old(i) == IF i < n THEN i ELSE i + 1
<1>6. ASSUME NEW i \in 1..Len(queue')
      PROVE  old(i) \in 1..Len(queue) /\ queue'[i] = queue[old(i)]
  BY <1>2, <1>3, <1>4
<1>7. ASSUME NEW d \in Callers, NEW b \in Callers, Ahead(d, b)' PROVE Ahead(d, b)
  <2>1. PICK i \in 1..Len(queue'), j \in 1..Len(queue') :
          i < j /\ queue'[i] = d /\ queue'[j] = b
    BY <1>7 DEF Ahead
  <2>2. old(i) < old(j)
    BY <1>3, <2>1
  <2>3. /\ old(i) \in 1..Len(queue) /\ old(j) \in 1..Len(queue)
        /\ queue[old(i)] = d /\ queue[old(j)] = b
    BY <1>6, <2>1
  <2> HIDE DEF old
  <2> QED
    BY <2>2, <2>3 DEF Ahead
<1>8. ASSUME NEW d \in Callers \ {c}, Waits(d) PROVE Waits(d)'
  <2>1. PICK i \in 1..Len(queue) : queue[i] = d
    BY <1>8 DEF Waits
  <2>2. i # n
    BY <1>2, <1>8, <2>1
  <2> DEFINE m == IF i < n THEN i ELSE i - 1
  <2>3. m \in 1..Len(queue') /\ old(m) = i
    BY <1>3, <1>4, <2>1, <2>2
  <2>4. queue'[m] = d
    BY <1>6, <2>1, <2>3
  <2> QED
    BY <2>3, <2>4 DEF Waits
<1> QED
  BY <1>1, <1>5, <1>7, <1>8 DEF MutexMoves

(* What a step of c leaves of c's own place at the mutex, and of the       *)
(* places of others.                                                       *)
Sits(c) ==
  /\ c \in Holders /\ Active(c)' => owner' = c
  /\ phase'[c] = "inFlight" => owner' = c
  /\ c \in Requests /\ phase'[c] = "queued" => owner' = c \/ Waits(c)'

Others(c) ==
  \A d \in Callers \ {c} :
    \/ phase'[d] = phase[d]
    \/ phase[d] = "awaiting" /\ phase'[d] \in {"loggedOn", "loginFailed"}

Served(c) == MutexMoves(c) /\ Sits(c) /\ Others(c)

LEMMA SendsServes ==
  ASSUME Typed, Serving, NEW c \in Callers, NEW q, NEW k, NEW h, Sends(c, q, k, h),
         c \in Holders => owner = c
  PROVE  Served(c)
<1>1. CASE phase' = [phase EXCEPT ![c] = "answered"] /\ UNCHANGED <<owner, queue>>
  BY <1>1, MutexSame, TypedIs DEF Served, Sits, Others
<1>2. CASE phase' = [phase EXCEPT ![c] = "queued"] /\ Enters(c)
  <2>1. c \in Holders => owner' = c
    BY <1>2 DEF Enters
  <2> QED
    BY <1>2, <2>1, MutexEntered, TypedIs DEF Served, Sits, Others
<1> QED
  BY <1>1, <1>2 DEF Sends, Becomes

LEMMA LogsOnServes ==
  ASSUME Typed, Serving, NEW c \in Callers, NEW g, NEW counted, NEW k, NEW h,
         LogsOn(c, g, counted, k, h), c \in Holders => owner = c
  PROVE  Served(c)
<1>1. CASE phase' = [phase EXCEPT ![c] = "awaiting"] /\ UNCHANGED <<owner, queue>>
  BY <1>1, MutexSame, TypedIs DEF Served, Sits, Others
<1>2. CASE \E q, k1, h1 : Sends(c, q, k1, h1)
  BY <1>2, SendsServes
<1> QED
  BY <1>1, <1>2 DEF LogsOn, Becomes

LEMMA StaysServes ==
  ASSUME Typed, Serving, NEW c \in Callers, NEW p, Becomes(c, p),
         p \notin {"inFlight", "queued"},
         c \in Holders => owner = c \/ p \in {"idle", "waiting", "done", "failed"},
         UNCHANGED <<owner, queue>>
  PROVE  Served(c)
BY MutexSame, TypedIs DEF Served, Sits, Others, Becomes, Active

LEMMA LeavesServes ==
  ASSUME Typed, Serving, NEW c \in Holders, NEW p \in {"done", "failed"}, Leaves(c, p), owner = c
  PROVE  Served(c)
<1>1. c \in Callers /\ Releases /\ phase' = [phase EXCEPT ![c] = p] /\ c \notin Requests
  BY CallersAssumption DEF Leaves, Finishes, Becomes, Callers
<1> QED
  BY <1>1, MutexReleased, TypedIs DEF Served, Sits, Others, Active

LEMMA WireServes ==
  ASSUME Typed, Serving, NEW c \in Callers, WireStep(c)
  PROVE  Served(c)
<1>1. CASE Dispatch(c)
  <2>1. phase' = [phase EXCEPT ![c] = "inFlight"] /\ owner = c /\ UNCHANGED <<owner, queue>>
    BY <1>1 DEF Dispatch, Becomes
  <2> QED
    BY <2>1, MutexSame, TypedIs DEF Served, Sits, Others
<1>2. CASE Answer(c)
  <2>1. /\ phase' = [phase EXCEPT ![c] = "answered"] /\ owner = c
        /\ IF c \in Requests THEN Releases ELSE UNCHANGED <<owner, queue>>
    BY <1>2 DEF Answer, Becomes, Serving
  <2>2. c \notin Requests <=> c \in Holders
    BY CallersAssumption DEF Callers
  <2>3. MutexMoves(c)
    BY <2>1, MutexReleased, MutexSame
  <2> QED
    BY <2>1, <2>2, <2>3, TypedIs DEF Served, Sits, Others
<1>3. CASE TimeOut(c)
  <2>1. PICK p \in {"answered", "failed"} : phase' = [phase EXCEPT ![c] = p]
             /\ (p = "answered" => phase[c] = "queued")
    BY <1>3 DEF TimeOut, Finishes, Becomes
  <2>2. owner' = owner
    BY <1>3 DEF TimeOut
  <2>3. p = "answered" /\ c \in Holders => owner = c
    BY <2>1 DEF Serving, Active
  <2> QED
    BY <1>3, <2>1, <2>2, <2>3, MutexGivenUp, TypedIs DEF Served, Sits, Others, Active
<1>4. CASE SettleLogin(c)
  <2>1. /\ phase[c] = "answered" /\ UNCHANGED <<owner, queue>>
        /\ \A d \in Callers :
             \/ d # c /\ phase'[d] = phase[d]
             \/ (d = c \/ phase[d] = "awaiting") /\ phase'[d] \in {"loggedOn", "loginFailed"}
    BY <1>4 DEF SettleLogin, LogonSettles
  <2>2. c \in Holders => owner = c
    BY <2>1 DEF Serving, Active
  <2> QED
    BY <2>1, <2>2, MutexSame DEF Served, Sits, Others
<1> QED
  BY <1>1, <1>2, <1>3, <1>4 DEF WireStep

LEMMA RequestServes ==
  ASSUME Typed, Serving, NEW c \in Requests, RequestStep(c)
  PROVE  Served(c)
<1>1. c \in Callers /\ c \notin Holders
  BY CallersAssumption DEF Callers
<1>2. CASE CallRequest(c) \/ ResumeRequest(c) \/ Recover(c) \/ Refresh(c) \/ Resend(c)
  <2>1. \/ \E q, k, h : Sends(c, q, k, h)
        \/ \E g, n, k, h : LogsOn(c, g, n, k, h)
    BY <1>2 DEF CallRequest, ResumeRequest, Recover, Refresh, Resend
  <2> QED
    BY <1>1, <2>1, SendsServes, LogsOnServes
<1>3. CASE RefuseRequest(c) \/ AbandonRequest(c) \/ Succeed(c) \/ FailRequest(c)
  <2>1. \E p \in {"done", "failed"} : Becomes(c, p)
    BY <1>3 DEF RefuseRequest, AbandonRequest, Succeed, FailRequest, Finishes
  <2>2. UNCHANGED <<owner, queue>>
    BY <1>3 DEF RefuseRequest, AbandonRequest, Succeed, FailRequest
  <2> QED
    BY <1>1, <2>1, <2>2, StaysServes
<1> QED
  BY <1>2, <1>3 DEF RequestStep

LEMMA HoldServes ==
  ASSUME Typed, Serving, NEW c \in Holders, HoldStep(c)
  PROVE  Served(c)
<1>1. c \in Callers /\ c \notin Requests
  BY CallersAssumption DEF Callers
<1>2. CASE CallHold(c)
  <2>1. phase' = [phase EXCEPT ![c] = "waiting"] /\ Enters(c)
    BY <1>2 DEF CallHold, ClaimsHold, Becomes
  <2> QED
    BY <1>1, <2>1, MutexEntered, TypedIs DEF Served, Sits, Others, Active
<1>3. CASE RefuseHold(c)
  BY <1>1, <1>3, StaysServes DEF RefuseHold, Finishes
<1>4. CASE HoldRequest(c) \/ ResumeHold(c) \/ LibraryRetry(c)
  <2>1. owner = c
    BY <1>4 DEF HoldRequest, ResumeHold, LibraryRetry, LibraryRetries, Serving, Active
  <2>2. \/ \E q, k, h : Sends(c, q, k, h)
        \/ \E g, n, k, h : LogsOn(c, g, n, k, h)
    BY <1>4 DEF HoldRequest, ResumeHold, LibraryRetry
  <2> QED
    BY <1>1, <2>1, <2>2, SendsServes, LogsOnServes
<1>5. CASE HoldLoginFailed(c) \/ SettleHold(c)
  <2>1. owner = c /\ Becomes(c, "body") /\ UNCHANGED <<owner, queue>>
    BY <1>5 DEF HoldLoginFailed, SettleHold, Serving, Active
  <2> QED
    BY <1>1, <2>1, StaysServes
<1> QED
  BY <1>2, <1>3, <1>4, <1>5 DEF HoldStep

LEMMA ConnectServes ==
  ASSUME Typed, Serving, NEW c \in Connects, ConnectStep(c)
  PROVE  Served(c)
<1>1. c \in Callers /\ c \in Holders
  BY DEF Callers, Holders
<1>2. CASE BeginConnect(c)
  <2>1. owner = c /\ LogsOn(c, "logon", TRUE, conn, http)
    BY <1>2 DEF BeginConnect
  <2> QED
    BY <1>1, <2>1, LogsOnServes
<1>3. CASE Revive(c)
  <2>1. owner = c /\ Becomes(c, "body") /\ UNCHANGED <<owner, queue>>
    BY <1>1, <1>3 DEF Revive, Revives, Serving, Active
  <2> QED
    BY <1>1, <2>1, StaysServes
<1>4. CASE AlreadyConnected(c) \/ DieReviving(c) \/ FailConnect(c) \/ CloseConnect(c)
  <2>1. owner = c
    BY <1>1, <1>4 DEF AlreadyConnected, DieReviving, FailConnect, CloseConnect, Serving, Active
  <2>2. \E p \in {"done", "failed"} : Leaves(c, p)
    BY <1>4 DEF AlreadyConnected, DieReviving, FailConnect, CloseConnect
  <2> QED
    BY <1>1, <2>1, <2>2, LeavesServes
<1> QED
  BY <1>2, <1>3, <1>4 DEF ConnectStep

LEMMA WindowServes ==
  ASSUME Typed, Serving, NEW c \in Windows \cup Runs, WindowStep(c) \/ (c \in Runs /\ FailRun(c))
  PROVE  Served(c)
<1>1. c \in Callers /\ c \in Holders
  BY DEF Callers, Holders
<1>2. CASE BeginHold(c)
  <2>1. owner = c /\ Becomes(c, "body") /\ UNCHANGED <<owner, queue>>
    BY <1>2 DEF BeginHold
  <2> QED
    BY <1>1, <2>1, StaysServes
<1>3. CASE EndHold(c) \/ FailRun(c)
  <2>1. owner = c
    BY <1>1, <1>3 DEF EndHold, FailRun, Serving, Active
  <2>2. \E p \in {"done", "failed"} : Leaves(c, p)
    BY <1>3 DEF EndHold, FailRun
  <2> QED
    BY <1>1, <2>1, <2>2, LeavesServes
<1> QED
  BY <1>2, <1>3 DEF WindowStep

LEMMA StepServes ==
  ASSUME Typed, Serving, NEW c \in Callers, CallerStep(c)
  PROVE  Served(c)
<1>1. c \in Runs => c \in Windows \cup Runs
  OBVIOUS
<1> QED
  BY <1>1, WireServes, RequestServes, HoldServes, ConnectServes, WindowServes DEF CallerStep

LEMMA ServingInit == Init => Serving
<1> SUFFICES ASSUME Init PROVE Serving
  OBVIOUS
<1>1. \A c \in Callers : phase[c] = "idle"
  BY DEF Init
<1> QED
  BY <1>1 DEF Init, Serving, Active, Callers, Holders

LEMMA ServingStep == Typed /\ Serving /\ [Next]_vars => Serving'
<1>1. CASE UNCHANGED vars
  BY <1>1 DEF vars, Serving, Active, Waits
<1>2. ASSUME Typed, Serving, NEW c \in Callers, CallerStep(c) PROVE Serving'
  <2>1. MutexMoves(c) /\ Sits(c) /\ Others(c)
    BY <1>2, StepServes DEF Served
  <2>2. NoOne \notin Callers /\ Requests \subseteq Callers /\ Holders \subseteq Callers
    BY CallersAssumption DEF Callers
  <2>3. ASSUME NEW d \in Callers \ {c}, owner = d PROVE owner' = d
    BY <2>1, <2>2, <2>3 DEF MutexMoves
  <2>4. ASSUME NEW d \in Holders, Active(d)' PROVE owner' = d
    <3>1. CASE d = c
      BY <2>1, <2>4, <3>1 DEF Sits
    <3>2. CASE d # c
      <4>1. Active(d)
        BY <2>1, <2>2, <2>4, <3>2 DEF Others, Active
      <4> QED
        BY <1>2, <2>2, <2>3, <3>2, <4>1 DEF Serving
    <3> QED
      BY <3>1, <3>2
  <2>5. ASSUME NEW d \in Callers, phase'[d] = "inFlight" PROVE owner' = d
    <3>1. CASE d # c
      BY <1>2, <2>1, <2>3, <2>5, <3>1 DEF Others, Serving
    <3> QED
      BY <2>1, <2>5, <3>1 DEF Sits
  <2>6. ASSUME NEW d \in Requests, phase'[d] = "queued" PROVE owner' = d \/ Waits(d)'
    <3>1. CASE d # c
      <4>1. phase[d] = "queued"
        BY <2>1, <2>2, <2>6, <3>1 DEF Others
      <4> QED
        BY <1>2, <2>1, <2>2, <2>3, <3>1, <4>1 DEF Serving, MutexMoves
    <3> QED
      BY <2>1, <2>6, <3>1 DEF Sits
  <2> QED
    BY <2>1, <2>4, <2>5, <2>6 DEF Serving, MutexMoves
<1> QED
  BY <1>1, <1>2 DEF Next

-------------------------------------------------------------------------------
(* The record of deaths.  It fits its generation, and but for a logon and  *)
(* a revival it only ever gets darker.                                     *)

Fit(k) ==
  /\ k \in Conns
  /\ k.lastRecorded <= k.generation
  /\ k.death \in {NoGen, k.lastRecorded}
  /\ k.death = NoGen => k.lastRecorded < k.generation
  /\ k.deferred \in {NoGen, k.generation}

Known(k) == k.death # NoGen \/ k.deferred # NoGen

KnownNow(k) == k.death = k.generation \/ k.deferred # NoGen

Darker(k, k2) ==
  /\ Fit(k2) /\ k2.generation = k.generation
  /\ k.death # NoGen => k2.death # NoGen
  /\ k.death = k.generation => k2.death = k.generation
  /\ Known(k) => Known(k2)
  /\ KnownNow(k) => KnownNow(k2)
  /\ \/ k2.lastRecorded = k.lastRecorded
     \/ k2.lastRecorded = k.generation /\ k2.death = k.generation

Later(k) == [k EXCEPT !.generation = @ + 1]

LEMMA DarkerTwice ==
  ASSUME NEW k, NEW k1, NEW k2, Darker(k, k1), Darker(k1, k2)
  PROVE  Darker(k, k2)
BY DEF Darker

LEMMA DarkerSame == ASSUME NEW k, Fit(k) PROVE Darker(k, k)
BY DEF Darker

LEMMA MarkDeadDarkens ==
  ASSUME NEW k, Fit(k), NEW g \in Nat \cup {NoGen}
  PROVE  /\ Darker(k, MarkDead(k, g))
         /\ MarkDead(k, g).deferred = k.deferred
         /\ g = k.generation => MarkDead(k, g).death = k.generation
<1>0. k \in Conns
  BY DEF Fit
<1>1. CASE g < k.generation
  <2> DEFINE k1 == MarkDead(k, g)
  <2>1. k1 = [k EXCEPT !.anomaly = @ \/ g > k.lastRecorded]
    BY <1>0, <1>1 DEF MarkDead, Conns
  <2>2. /\ k1 \in Conns /\ k1.generation = k.generation /\ k1.death = k.death
        /\ k1.lastRecorded = k.lastRecorded /\ k1.deferred = k.deferred
    BY <1>0, <2>1 DEF Conns
  <2> HIDE DEF k1
  <2> QED
    BY <1>0, <1>1, <2>2 DEF Darker, Fit, Conns, Known, KnownNow, k1
<1>2. CASE ~(g < k.generation) /\ k.death >= k.generation
  <2>1. MarkDead(k, g) = k /\ k.death = k.generation
    BY <1>0, <1>2 DEF MarkDead, Conns, Fit
  <2> QED
    BY <2>1, DarkerSame
<1>3. CASE ~(g < k.generation) /\ ~(k.death >= k.generation)
  <2>1. MarkDead(k, g) = [k EXCEPT !.death = k.generation, !.lastRecorded = k.generation,
                                   !.connected = FALSE]
    BY <1>0, <1>3 DEF MarkDead, Conns
  <2> DEFINE k1 == MarkDead(k, g)
  <2>2. /\ k1 \in Conns /\ k1.generation = k.generation /\ k1.death = k.generation
        /\ k1.lastRecorded = k.generation /\ k1.deferred = k.deferred
    BY <1>0, <2>1 DEF Conns
  <2> HIDE DEF k1
  <2>3. k.generation \in Nat /\ k.generation # NoGen
    BY <1>0 DEF Conns
  <2> QED
    BY <2>2, <2>3 DEF Darker, Fit, Known, KnownNow, k1
<1> QED
  BY <1>1, <1>2, <1>3

LEMMA ApplyDeferredDarkens ==
  ASSUME NEW k, Fit(k)
  PROVE  /\ Darker(k, ApplyDeferred(k))
         /\ ApplyDeferred(k).deferred = NoGen
         /\ k.deferred = NoGen => ApplyDeferred(k) = k
         /\ ApplyDeferred(k).death = k.generation <=> KnownNow(k)
         /\ k.deferred # NoGen => ApplyDeferred(k).death = k.generation
<1>0. k \in Conns /\ k.generation # NoGen
  BY DEF Fit, Conns
<1>1. CASE k.deferred = NoGen
  <2>1. ApplyDeferred(k) = k
    BY <1>1 DEF ApplyDeferred
  <2> QED
    BY <1>1, <2>1, DarkerSame DEF KnownNow
<1>2. CASE k.deferred # NoGen
  <2> DEFINE k1 == [k EXCEPT !.deferred = NoGen]
  <2>1. Fit(k1) /\ k1.generation = k.generation /\ k.deferred = k.generation
        /\ k1.deferred = NoGen /\ k1.death = k.death /\ k1.lastRecorded = k.lastRecorded
    BY <1>0, <1>2 DEF Fit, Conns
  <2>2. ApplyDeferred(k) = MarkDead(k1, k.generation)
    BY <1>2, <2>1 DEF ApplyDeferred
  <2>3. k.generation \in Nat \cup {NoGen}
    BY <1>0 DEF Conns
  <2> HIDE DEF k1
  <2>4. /\ Darker(k1, MarkDead(k1, k.generation))
        /\ MarkDead(k1, k.generation).deferred = NoGen
        /\ MarkDead(k1, k.generation).death = k.generation
    BY <2>1, <2>3, MarkDeadDarkens
  <2> QED
    BY <1>0, <1>2, <2>1, <2>2, <2>4 DEF Darker, Known, KnownNow
<1> QED
  BY <1>1, <1>2

LEMMA NotedDarkens ==
  ASSUME Typed, Fit(conn), NEW c \in Callers, req[c].stamp <= conn.generation
  PROVE  /\ Darker(conn, Noted(c))
         /\ Noted(c).deferred # NoGen => conn.deferred # NoGen \/ req[c].answer \in Deaths
         /\ req[c].answer \in Deaths /\ req[c].stamp = conn.generation /\ ~Recoverable(c)
              => KnownNow(Noted(c)) /\ Known(Noted(c))
         /\ req[c].answer \in Resolved /\ req[c].stamp = conn.generation
              => Noted(c).deferred # NoGen
         /\ Recoverable(c) => Noted(c) = conn
<1>0. conn \in Conns /\ req[c].stamp \in Nat /\ req[c].stamp \in Nat \cup {NoGen}
  BY TypedIs DEF Fit, Reqs
<1>1. CASE req[c].answer \in Resolved /\ req[c].stamp >= conn.generation
  <2>1. Noted(c) = [conn EXCEPT !.deferred = IF @ = NoGen THEN req[c].stamp ELSE @]
    BY <1>0, <1>1 DEF Noted, Resolved, Conns
  <2>2. ~Recoverable(c)
    BY <1>1 DEF Recoverable, Resolved
  <2> DEFINE k1 == Noted(c)
  <2>3. req[c].stamp = conn.generation
    BY <1>0, <1>1 DEF Conns
  <2>4. /\ k1 \in Conns /\ k1.generation = conn.generation /\ k1.death = conn.death
        /\ k1.lastRecorded = conn.lastRecorded /\ k1.deferred = conn.generation
    BY <1>0, <2>1, <2>3 DEF Conns, Fit
  <2>5. conn.generation # NoGen
    BY <1>0 DEF Conns
  <2> HIDE DEF k1
  <2> QED
    BY <1>1, <2>2, <2>4, <2>5 DEF Darker, Fit, Known, KnownNow, Deaths, k1
<1>2. CASE req[c].answer \in Resolved /\ ~(req[c].stamp >= conn.generation)
  <2>1. Noted(c) = MarkDead(conn, req[c].stamp)
    BY <1>0, <1>2 DEF Noted, Resolved, Conns
  <2>2. ~Recoverable(c) /\ req[c].stamp # conn.generation
    BY <1>0, <1>2 DEF Recoverable, Resolved, Conns
  <2> QED
    BY <1>0, <2>1, <2>2, MarkDeadDarkens
<1>3. CASE req[c].answer \in {"gone", "dump"} /\ ~Recoverable(c)
  <2>1. Noted(c) = MarkDead(conn, req[c].stamp)
    BY <1>0, <1>3 DEF Noted, Resolved
  <2>2. conn.generation # NoGen
    BY <1>0 DEF Conns
  <2> QED
    BY <1>0, <1>3, <2>1, <2>2, MarkDeadDarkens DEF Resolved, Known, KnownNow, Darker
<1>4. CASE req[c].answer \notin Resolved /\ ~(req[c].answer \in {"gone", "dump"} /\ ~Recoverable(c))
  <2>1. Noted(c) = conn
    BY <1>4 DEF Noted
  <2> QED
    BY <1>4, <2>1, DarkerSame DEF Deaths
<1> QED
  BY <1>1, <1>2, <1>3, <1>4

LEMMA PromotedDarkens ==
  ASSUME NEW b \in Budgets, NEW k, Fit(k)
  PROVE  /\ Darker(k, Promoted(b, k))
         /\ Promoted(b, k).deferred = k.deferred
         /\ b.loss = k.generation /\ ~b.recovered => Promoted(b, k).death # NoGen
<1>1. CASE b.loss # NoGen /\ ~b.recovered /\ k.death = NoGen
  <2>1. Promoted(b, k) = MarkDead(k, b.loss) /\ b.loss \in Nat \cup {NoGen}
    BY <1>1 DEF Promoted, Budgets
  <2>2. b.loss = k.generation => k.generation # NoGen
    BY <1>1
  <2> QED
    BY <2>1, <2>2, MarkDeadDarkens
<1>2. CASE ~(b.loss # NoGen /\ ~b.recovered /\ k.death = NoGen)
  <2>1. Promoted(b, k) = k
    BY <1>2 DEF Promoted
  <2>2. k.generation # NoGen
    BY DEF Fit, Conns
  <2> QED
    BY <1>2, <2>1, <2>2, DarkerSame
<1> QED
  BY <1>1, <1>2

LEMMA LaterFits ==
  ASSUME NEW k, Fit(k)
  PROVE  /\ k.deferred = NoGen => Fit(Later(k))
         /\ Fit(ApplyDeferred(Later(k))) /\ ApplyDeferred(Later(k)).deferred = NoGen
         /\ ApplyDeferred(Later(k)).generation = k.generation + 1
         /\ Later(k).generation = k.generation + 1 /\ Later(k).death = k.death
         /\ Later(k).deferred = k.deferred /\ Later(k).lastRecorded = k.lastRecorded
<1>0. k \in Conns
  BY DEF Fit
<1>1. Later(k) \in Conns /\ Later(k).generation = k.generation + 1 /\ Later(k).death = k.death
      /\ Later(k).deferred = k.deferred /\ Later(k).lastRecorded = k.lastRecorded
  BY <1>0 DEF Later, Conns
<1>2. CASE k.deferred = NoGen
  BY <1>0, <1>1, <1>2 DEF ApplyDeferred, Fit, Conns
<1>3. CASE k.deferred # NoGen
  <2> DEFINE k1 == [Later(k) EXCEPT !.deferred = NoGen]
  <2>1. /\ k1 \in Conns /\ k1.generation = k.generation + 1 /\ k1.death = k.death
        /\ k1.deferred = NoGen /\ k1.lastRecorded = k.lastRecorded
    BY <1>1 DEF Conns
  <2>2. ApplyDeferred(Later(k)) = MarkDead(k1, k.generation)
    BY <1>1, <1>3 DEF ApplyDeferred, Fit
  <2>3. Fit(k1)
    BY <1>0, <2>1 DEF Fit, Conns
  <2> HIDE DEF k1
  <2>4. k.generation \in Nat \cup {NoGen}
    BY <1>0 DEF Conns
  <2>5. Darker(k1, MarkDead(k1, k.generation)) /\ MarkDead(k1, k.generation).deferred = NoGen
    BY <2>1, <2>3, <2>4, MarkDeadDarkens
  <2> QED
    BY <1>1, <1>3, <2>1, <2>2, <2>5 DEF Darker
<1> QED
  BY <1>2, <1>3

-------------------------------------------------------------------------------
(* A loss the budget has taken: a request that resends after a recovery    *)
(* has one.                                                                *)

LoggingOn(c) == phase[c] \in {"queued", "inFlight", "answered"} /\ req[c].login

Resending(r) ==
  /\ phase[r] \in {"awaiting", "loggedOn", "loginFailed"} \/ LoggingOn(r)
  /\ req[r].goal = "resend"

LossTaken(r) == budget[r].recovered \/ Resending(r) => budget[r].loss # NoGen

LossIsTaken == \A r \in Requests : LossTaken(r)

(* What a call has asked for and may spend is its own. *)
Aside(c) ==
  /\ \A d \in Callers \ {c} : req'[d] = req[d]
  /\ \A r \in Requests \ {c} : budget'[r] = budget[r]

LEMMA SendsAside ==
  ASSUME Typed, NEW c \in Callers, NEW q, NEW k, NEW h, Sends(c, q, k, h)
  PROVE  \A d \in Callers \ {c} : req'[d] = req[d]
BY TypedIs DEF Sends

LEMMA LogsOnAside ==
  ASSUME Typed, NEW c \in Callers, NEW g, NEW counted, NEW k, NEW h,
         LogsOn(c, g, counted, k, h)
  PROVE  \A d \in Callers \ {c} : req'[d] = req[d]
<1>1. CASE req' = [req EXCEPT ![c].goal = g]
  BY <1>1, TypedIs
<1>2. CASE \E q, k1, h1 : Sends(c, q, k1, h1)
  BY <1>2, SendsAside
<1> QED
  BY <1>1, <1>2 DEF LogsOn

LEMMA FinishesAside ==
  ASSUME Typed, NEW c \in Callers, NEW p, Finishes(c, p)
  PROVE  Aside(c)
BY TypedIs DEF Finishes, Aside

LEMMA StepAside ==
  ASSUME Typed, NEW c \in Callers, CallerStep(c)
  PROVE  Aside(c)
<1>1. Requests \subseteq Callers
  BY DEF Callers
<1>2. CASE \E p : Finishes(c, p)
  BY <1>2, FinishesAside
<1>3. CASE \E q, k, h : Sends(c, q, k, h) /\ UNCHANGED budget
  BY <1>3, SendsAside DEF Aside
<1>4. CASE \E g, n, k, h : LogsOn(c, g, n, k, h) /\ UNCHANGED budget
  BY <1>4, LogsOnAside DEF Aside
<1>5. CASE UNCHANGED <<req, budget>>
  BY <1>5 DEF Aside
<1>6. CASE WireStep(c)
  <2>1. CASE Dispatch(c)
    BY <1>1, <2>1, TypedIs DEF Dispatch, Aside
  <2>2. CASE Answer(c)
    BY <1>1, <2>2, TypedIs DEF Answer, Aside
  <2>3. CASE TimeOut(c)
    <3>1. CASE req' = [req EXCEPT ![c].answer = "error"] /\ UNCHANGED budget
      BY <1>1, <3>1, TypedIs DEF Aside
    <3> QED
      BY <1>2, <2>3, <3>1 DEF TimeOut
  <2>4. CASE SettleLogin(c)
    BY <1>5, <2>4 DEF SettleLogin, LogonSettles
  <2> QED
    BY <1>6, <2>1, <2>2, <2>3, <2>4 DEF WireStep
<1>7. CASE c \in Requests /\ RequestStep(c)
  <2>1. CASE CallRequest(c) \/ Refresh(c) \/ Resend(c)
    BY <1>3, <1>4, <2>1 DEF CallRequest, Refresh, Resend
  <2>2. CASE ResumeRequest(c)
    BY <1>1, <2>2, SendsAside, TypedIs DEF ResumeRequest, Aside
  <2>3. CASE Recover(c)
    BY <1>1, <2>3, LogsOnAside, TypedIs DEF Recover, Aside
  <2>4. CASE RefuseRequest(c) \/ AbandonRequest(c) \/ Succeed(c) \/ FailRequest(c)
    BY <1>2, <2>4 DEF RefuseRequest, AbandonRequest, Succeed, FailRequest
  <2> QED
    BY <1>7, <2>1, <2>2, <2>3, <2>4 DEF RequestStep
<1>8. CASE c \in Holders /\ HoldStep(c)
  <2>1. CASE HoldRequest(c) \/ ResumeHold(c) \/ LibraryRetry(c)
    BY <1>3, <1>4, <2>1 DEF HoldRequest, ResumeHold, LibraryRetry
  <2>2. CASE CallHold(c) \/ SettleHold(c)
    BY <1>5, <2>2 DEF CallHold, ClaimsHold, SettleHold
  <2>3. CASE RefuseHold(c)
    BY <1>2, <2>3 DEF RefuseHold
  <2>4. CASE HoldLoginFailed(c)
    BY <1>1, <2>4, TypedIs DEF HoldLoginFailed, Aside
  <2> QED
    BY <1>8, <2>1, <2>2, <2>3, <2>4 DEF HoldStep
<1>9. CASE c \in Connects /\ ConnectStep(c)
  <2>1. CASE BeginConnect(c)
    BY <1>4, <2>1 DEF BeginConnect
  <2>2. CASE Revive(c)
    BY <1>1, <2>2, TypedIs DEF Revive, Revives, Aside
  <2>3. CASE AlreadyConnected(c) \/ DieReviving(c) \/ FailConnect(c) \/ CloseConnect(c)
    BY <1>2, <2>3 DEF AlreadyConnected, DieReviving, FailConnect, CloseConnect, Leaves
  <2> QED
    BY <1>9, <2>1, <2>2, <2>3 DEF ConnectStep
<1>10. CASE c \in Windows \cup Runs /\ WindowStep(c)
  BY <1>2, <1>5, <1>10 DEF WindowStep, BeginHold, EndHold, Leaves
<1>11. CASE c \in Runs /\ FailRun(c)
  BY <1>2, <1>11 DEF FailRun, Leaves
<1> QED
  BY <1>6, <1>7, <1>8, <1>9, <1>10, <1>11 DEF CallerStep

(* A step of c leaves everybody else's request and place alone. *)
Still(c) == \A d \in Callers \ {c} : phase'[d] = phase[d] /\ req'[d] = req[d]

(* What the caller of Sends is left with: its request on its way to the    *)
(* wire, or refused.                                                       *)
Issued(c, g, login, cookie) ==
  /\ req'[c].goal = g /\ req'[c].login = login
  /\ req'[c].cookie = cookie /\ req'[c].stamp = req[c].stamp
  /\ \/ phase'[c] = "queued" /\ Enters(c)
     \/ phase'[c] = "answered" /\ req'[c].answer = "refused" /\ UNCHANGED <<owner, queue>>

LEMMA SendsIs ==
  ASSUME Typed, NEW c \in Callers, NEW q \in Reqs, q.stamp = req[c].stamp,
         NEW k, NEW h, Sends(c, q, k, h)
  PROVE  /\ Still(c) /\ Issued(c, q.goal, q.login, q.cookie)
         /\ http' = h /\ conn' = ApplyDeferred(k)
<1> DEFINE q1 == [q EXCEPT !.answer = "refused"]
<1>1. /\ q1.goal = q.goal /\ q1.login = q.login /\ q1.cookie = q.cookie
      /\ q1.stamp = q.stamp /\ q1.answer = "refused"
  BY DEF Reqs
<1> HIDE DEF q1
<1>2. CASE /\ req' = [req EXCEPT ![c] = q1] /\ Becomes(c, "answered")
           /\ UNCHANGED <<owner, queue>>
  BY <1>1, <1>2, TypedIs DEF Sends, Becomes, Still, Issued
<1>3. CASE req' = [req EXCEPT ![c] = q] /\ Becomes(c, "queued") /\ Enters(c)
  BY <1>3, TypedIs DEF Sends, Becomes, Still, Issued
<1> QED
  BY <1>2, <1>3 DEF Sends, q1

LEMMA AsksIs ==
  ASSUME Typed, NEW c \in Callers, NEW g \in Goals, NEW h \in Https, NEW fresh \in BOOLEAN
  PROVE  /\ Asks(c, g, h, fresh) \in Reqs
         /\ Asks(c, g, h, fresh).goal = g /\ Asks(c, g, h, fresh).login = FALSE
         /\ Asks(c, g, h, fresh).cookie = h.jar
         /\ Asks(c, g, h, fresh).stamp = req[c].stamp
<1>1. req[c] \in Reqs
  BY TypedIs
<1> QED
  BY <1>1 DEF Asks, Reqs, Https, Answers

(* A call's own send: no logon, the jar's cookie. *)
LEMMA AskedIs ==
  ASSUME Typed, NEW c \in Callers, NEW g \in Goals, NEW h \in Https, NEW fresh \in BOOLEAN,
         NEW k, Sends(c, Asks(c, g, h, fresh), k, h)
  PROVE  Still(c) /\ Issued(c, g, FALSE, h.jar) /\ http' = h /\ conn' = ApplyDeferred(k)
<1> DEFINE q == Asks(c, g, h, fresh)
<1>1. /\ q \in Reqs /\ q.stamp = req[c].stamp
      /\ q.goal = g /\ q.login = FALSE /\ q.cookie = h.jar
  BY AsksIs, ZenonT(30)
<1>2. Sends(c, q, k, h)
  OBVIOUS
<1> HIDE DEF q
<1> QED
  BY <1>1, <1>2, SendsIs

(* The record after a logon that moves the generation, or does not. *)
Moves(counted, h) == counted /\ ~(h.by # NoOne /\ h.counted)

Moved(counted, k, h) == IF Moves(counted, h) THEN Later(k) ELSE k

Joined(c, g, counted, k, h) ==
  /\ h.by # NoOne /\ Still(c)
  /\ http'.jar = h.jar /\ http'.by = h.by /\ http'.counted = (h.counted \/ counted)
  /\ conn' = Moved(counted, k, h)
  /\ phase'[c] = "awaiting" /\ UNCHANGED <<owner, queue>>
  /\ req'[c].goal = g /\ req'[c].login = req[c].login
  /\ req'[c].cookie = req[c].cookie /\ req'[c].stamp = req[c].stamp

Begun(c, g, counted, k, h) ==
  /\ h.by = NoOne /\ Still(c)
  /\ \A d \in Callers \ {c} : phase[d] # "loggedOn"
  /\ http'.jar = NoSession /\ http'.by = c /\ http'.counted = counted
  /\ conn' = ApplyDeferred(Moved(counted, k, h))
  /\ Issued(c, g, TRUE, NoSession)

LEMMA LogsOnIs ==
  ASSUME Typed, NEW c \in Callers, NEW g \in Goals, NEW counted \in BOOLEAN,
         NEW k \in Conns, NEW h \in Https, LogsOn(c, g, counted, k, h)
  PROVE  Joined(c, g, counted, k, h) \/ Begun(c, g, counted, k, h)
<1> DEFINE k1 == [k EXCEPT !.generation =
                    IF counted /\ ~(h.by # NoOne /\ h.counted) THEN @ + 1 ELSE @]
<1> DEFINE h1 == [jar |-> NoSession, token |-> FALSE, by |-> c, counted |-> counted]
<1> DEFINE q1 == Asks(c, g, h1, FALSE)
<1> DEFINE q2 == [q1 EXCEPT !.login = TRUE]
<1>1. k1 = Moved(counted, k, h)
  BY DEF Moved, Moves, Later, Conns
<1>2. h1 \in Https /\ h1.jar = NoSession /\ h1.by = c /\ h1.counted = counted
  BY DEF Https
<1>3. CASE /\ h.by # NoOne
           /\ http' = [h EXCEPT !.counted = @ \/ counted]
           /\ conn' = k1
           /\ req' = [req EXCEPT ![c].goal = g]
           /\ Becomes(c, "awaiting")
           /\ UNCHANGED <<owner, queue>>
  <2>1. req[c] \in Reqs
    BY TypedIs
  <2>2. http'.jar = h.jar /\ http'.by = h.by /\ http'.counted = (h.counted \/ counted)
    BY <1>3 DEF Https
  <2>3. req' = [req EXCEPT ![c] = [req[c] EXCEPT !.goal = g]]
    BY <1>3, TypedIs
  <2>4. /\ req'[c].goal = g /\ req'[c].login = req[c].login
        /\ req'[c].cookie = req[c].cookie /\ req'[c].stamp = req[c].stamp
    BY <2>1, <2>3, TypedIs DEF Reqs
  <2>5. Still(c) /\ phase'[c] = "awaiting"
    BY <1>3, <2>3, TypedIs DEF Still, Becomes
  <2> HIDE DEF k1
  <2> QED
    BY <1>1, <1>3, <2>2, <2>4, <2>5 DEF Joined
<1>4. CASE /\ h.by = NoOne
           /\ \A d \in Callers \ {c} : phase[d] # "loggedOn"
           /\ Sends(c, q2, k1, h1)
  <2> HIDE DEF h1, k1
  <2>1. q1 \in Reqs /\ q1.goal = g /\ q1.cookie = NoSession /\ q1.stamp = req[c].stamp
    BY <1>2, AsksIs
  <2> HIDE DEF q1
  <2>2. /\ q2 \in Reqs /\ q2.login = TRUE /\ q2.goal = g
        /\ q2.cookie = NoSession /\ q2.stamp = req[c].stamp
    BY <2>1 DEF Reqs
  <2> HIDE DEF q2
  <2>3. Still(c) /\ Issued(c, g, TRUE, NoSession) /\ http' = h1 /\ conn' = ApplyDeferred(k1)
    BY <1>4, <2>2, SendsIs
  <2> QED
    BY <1>1, <1>2, <1>4, <2>3 DEF Begun
<1> QED
  BY <1>3, <1>4 DEF LogsOn

LEMMA SendsWithout ==
  ASSUME Typed, NEW c \in Callers, NEW g, NEW h, NEW fresh, NEW k, NEW h2,
         Sends(c, Asks(c, g, h, fresh), k, h2)
  PROVE  ~LoggingOn(c)' /\ phase'[c] \in {"queued", "answered"}
<1>1. req[c] \in Reqs
  BY TypedIs
<1> DEFINE q == Asks(c, g, h, fresh)
<1>2. q.login = FALSE
  BY <1>1 DEF Asks, Reqs
<1>3. [q EXCEPT !.answer = "refused"].login = FALSE
  BY <1>1 DEF Asks, Reqs
<1>4. Sends(c, q, k, h2)
  OBVIOUS
<1> HIDE DEF q
<1>5. phase'[c] \in {"queued", "answered"} /\ ~req'[c].login
  BY <1>2, <1>3, <1>4, TypedIs DEF Sends, Becomes
<1> QED
  BY <1>5 DEF LoggingOn

LEMMA LossTakenStep == Typed /\ Serving /\ LossIsTaken /\ [Next]_vars => LossIsTaken'
<1>1. CASE UNCHANGED vars
  BY <1>1 DEF vars, LossIsTaken, LossTaken, Resending, LoggingOn
<1>2. ASSUME Typed, Serving, LossIsTaken, NEW c \in Callers, CallerStep(c), NEW r \in Requests
      PROVE  LossTaken(r)'
  <2>0. r \in Callers /\ LossTaken(r) /\ c \notin Holders \cap Requests /\ req[r] \in Reqs
        /\ budget[r] \in Budgets
    BY <1>2, TypedIs, CallersAssumption DEF LossIsTaken, Callers
  <2>1. CASE r # c
    <3>1. req'[r] = req[r] /\ budget'[r] = budget[r]
      BY <1>2, <2>0, <2>1, StepAside DEF Aside
    <3>2. \/ phase'[r] = phase[r]
          \/ phase[r] = "awaiting" /\ phase'[r] \in {"loggedOn", "loginFailed"}
      BY <1>2, <2>0, <2>1, StepServes DEF Served, Others
    <3> QED
      BY <2>0, <3>1, <3>2 DEF LossTaken, Resending, LoggingOn
  <2>2. CASE r = c /\ WireStep(c)
    <3>1. CASE Dispatch(c)
      <4>1. /\ phase[c] = "queued" /\ phase'[c] = "inFlight"
            /\ req'[c].login = req[c].login /\ req'[c].goal = req[c].goal
            /\ budget'[c].loss = budget[c].loss /\ budget'[c].recovered = budget[c].recovered
        BY <1>2, <2>0, <2>2, <3>1, TypedIs DEF Dispatch, Becomes, Reqs, Budgets
      <4> QED
        BY <1>2, <2>0, <2>2, <4>1 DEF LossTaken, Resending, LoggingOn
    <3>2. CASE Answer(c)
      <4>1. /\ phase[c] = "inFlight" /\ phase'[c] = "answered" /\ budget' = budget
        BY <1>2, <2>0, <2>2, <3>2, TypedIs DEF Answer, Becomes
      <4>2. req'[c].login = req[c].login /\ req'[c].goal = req[c].goal
        BY <1>2, <2>0, <2>2, <3>2, TypedIs DEF Answer, Reqs
      <4> QED
        BY <1>2, <2>0, <2>2, <4>1, <4>2 DEF LossTaken, Resending, LoggingOn
    <3>3. CASE TimeOut(c)
      <4>1. CASE phase[c] = "queued"
        <5>1. phase'[c] = "answered" /\ budget' = budget
              /\ req'[c].login = req[c].login /\ req'[c].goal = req[c].goal
          BY <1>2, <2>0, <2>2, <3>3, <4>1, TypedIs DEF TimeOut, Becomes, Reqs
        <5> QED
          BY <1>2, <2>0, <2>2, <4>1, <5>1 DEF LossTaken, Resending, LoggingOn
      <4>2. CASE phase[c] # "queued"
        <5>1. phase'[c] = "failed" /\ budget'[c] = Unspent
          BY <1>2, <2>0, <2>2, <3>3, <4>2, TypedIs DEF TimeOut, Finishes, Becomes
        <5> QED
          BY <2>2, <5>1 DEF LossTaken, Resending, LoggingOn, Unspent
      <4> QED
        BY <4>1, <4>2
    <3>4. CASE SettleLogin(c)
      <4>1. LoggingOn(c) /\ req' = req /\ budget' = budget
        BY <3>4 DEF SettleLogin, LogonSettles, LoggingOn
      <4> QED
        BY <1>2, <2>0, <2>2, <4>1 DEF LossTaken, Resending
    <3> QED
      BY <2>2, <3>1, <3>2, <3>3, <3>4 DEF WireStep
  <2>3. CASE r = c /\ RequestStep(c)
    <3>1. CASE \E p \in {"done", "failed"} : Finishes(c, p)
      <4>1. phase'[c] \in {"done", "failed"} /\ budget'[c] = Unspent
        BY <1>2, <2>0, <2>3, <3>1, TypedIs DEF Finishes, Becomes
      <4> QED
        BY <2>3, <4>1 DEF LossTaken, Resending, LoggingOn, Unspent
    <3>2. CASE CallRequest(c)
      <4>1. budget' = budget
        BY <3>2 DEF CallRequest
      <4>2. CASE http.token
        BY <1>2, <2>0, <2>3, <3>2, <4>1, <4>2, SendsWithout DEF CallRequest, LossTaken, Resending
      <4>3. CASE ~http.token
        <5>1. PICK k \in Conns : LogsOn(c, "op", TRUE, k, http)
          BY <1>2, <3>2, <4>3, TypedIs, ApplyDeferredSane DEF CallRequest, Sane
        <5>3. "op" \in Goals /\ http \in Https
          BY <1>2, TypedIs DEF Goals
        <5>2. req'[c].goal = "op"
          BY <1>2, <2>0, <2>3, <5>1, <5>3, TypedIs, LogsOnIs DEF Joined, Begun, Issued
        <5> QED
          BY <1>2, <2>0, <2>3, <4>1, <5>2 DEF LossTaken, Resending
      <4> QED
        BY <4>2, <4>3
    <3>3. CASE ResumeRequest(c)
      <4>1. ~LoggingOn(c)' /\ phase'[c] \in {"queued", "answered"}
        BY <1>2, <2>0, <2>3, <3>3, SendsWithout DEF ResumeRequest
      <4>2. /\ budget'[c].loss = budget[c].loss
            /\ budget'[c].recovered => budget[c].recovered \/ req[c].goal = "resend"
            /\ phase[c] = "loggedOn"
        BY <1>2, <2>0, <2>3, <3>3, TypedIs DEF ResumeRequest, Budgets
      <4> QED
        BY <1>2, <2>0, <2>3, <4>1, <4>2 DEF LossTaken, Resending
    <3>4. CASE Recover(c)
      <4>1. budget'[c].loss = req[c].stamp
        BY <1>2, <2>0, <2>3, <3>4, TypedIs DEF Recover, Budgets
      <4> QED
        BY <1>2, <2>0, <2>3, <4>1 DEF LossTaken, Reqs
    <3>5. CASE Refresh(c) \/ Resend(c)
      <4>1. ~LoggingOn(c)' /\ phase'[c] \in {"queued", "answered"} /\ budget' = budget
        BY <1>2, <2>0, <2>3, <3>5, SendsWithout DEF Refresh, Resend
      <4> QED
        BY <1>2, <2>0, <2>3, <4>1 DEF LossTaken, Resending
    <3> QED
      BY <2>3, <3>1, <3>2, <3>3, <3>4, <3>5
         DEF RequestStep, RefuseRequest, AbandonRequest, Succeed, FailRequest
  <2> QED
    BY <1>2, <2>0, <2>1, <2>2, <2>3, CallersAssumption DEF CallerStep, Holders
<1> QED
  BY <1>1, <1>2 DEF Next, LossIsTaken

LEMMA LossTakenInit == Init => LossIsTaken
<1> SUFFICES ASSUME Init, NEW r \in Requests PROVE LossTaken(r)
  BY DEF LossIsTaken
<1>1. r \in Callers
  BY DEF Callers
<1>2. phase[r] = "idle" /\ ~budget[r].recovered
  BY <1>1 DEF Init, Unspent
<1> QED
  BY <1>2 DEF LossTaken, Resending, LoggingOn

-------------------------------------------------------------------------------
(* The line at the mutex: nobody stands in it twice, or while he owns the  *)
(* mutex, or while he asks for something else.                             *)

Lined ==
  /\ \A i, j \in 1..Len(queue) : queue[i] = queue[j] => i = j
  /\ \A i \in 1..Len(queue) : queue[i] # owner
  /\ \A c \in Callers : Waits(c) => phase[c] \in {"queued", "waiting"}
  /\ owner \in Requests => phase[owner] \in {"queued", "waiting", "inFlight"}

Distinct ==
  /\ \A i, j \in 1..Len(queue) : queue[i] = queue[j] => i = j
  /\ \A i \in 1..Len(queue) : queue[i] # owner

Keeps(c) ==
  \/ /\ UNCHANGED <<owner, queue>> /\ ~Waits(c)
     /\ c \in Requests /\ owner = c => phase'[c] = "inFlight"
  \/ Enters(c) /\ ~Waits(c) /\ phase'[c] \in {"queued", "waiting"}
  \/ Releases /\ owner = c
  \/ TimeOut(c)

LEMMA NotInLine ==
  ASSUME Lined, NEW c \in Callers, owner = c \/ phase[c] \notin {"queued", "waiting"}
  PROVE  /\ ~Waits(c)
         /\ c \in Requests /\ phase[c] \notin {"queued", "waiting", "inFlight"} => owner # c
BY DEF Lined, Waits

LEMMA EnteredDistinct ==
  ASSUME Typed, Serving, Distinct, NEW c \in Callers, Enters(c), ~Waits(c)
  PROVE  Distinct' /\ \A d \in Callers \ {c} : Waits(d)' => Waits(d)
<1>1. queue \in Seq(Callers) /\ NoOne \notin Callers
  BY TypedIs, CallersAssumption
<1>2. CASE owner \in {NoOne, c}
  <2>1. queue' = queue /\ owner' = c
    BY <1>2 DEF Enters
  <2> QED
    BY <1>1, <1>2, <2>1 DEF Distinct, Waits
<1>3. CASE owner \notin {NoOne, c}
  <2>1. queue' = Append(queue, c) /\ owner' = owner
    BY <1>3 DEF Enters
  <2>2. /\ Len(queue') = Len(queue) + 1 /\ Len(queue) \in Nat
        /\ queue'[Len(queue) + 1] = c
        /\ \A i \in 1..Len(queue) : queue'[i] = queue[i] /\ queue[i] # c
    BY <1>1, <2>1 DEF Waits
  <2>3. \A i \in 1..Len(queue') : i \in 1..Len(queue) \/ i = Len(queue) + 1
    BY <2>2
  <2>4. ASSUME NEW i \in 1..Len(queue'), NEW j \in 1..Len(queue'), queue'[i] = queue'[j]
        PROVE  i = j
    BY <2>2, <2>3, <2>4 DEF Distinct
  <2>5. ASSUME NEW i \in 1..Len(queue') PROVE queue'[i] # owner'
    BY <1>3, <2>1, <2>2, <2>3 DEF Distinct
  <2>6. \A d \in Callers \ {c} : Waits(d)' => Waits(d)
    BY <2>2, <2>3 DEF Waits
  <2> QED
    BY <2>4, <2>5, <2>6 DEF Distinct
<1> QED
  BY <1>2, <1>3

LEMMA ReleasedDistinct ==
  ASSUME Typed, Distinct, NEW c \in Callers, owner = c, Releases
  PROVE  Distinct' /\ \A d \in Callers : Waits(d)' => Waits(d)
<1>1. queue \in Seq(Callers) /\ NoOne \notin Callers
  BY TypedIs, CallersAssumption
<1>2. CASE queue = <<>>
  BY <1>1, <1>2 DEF Releases, Distinct, Waits
<1>3. CASE queue # <<>>
  <2>1. owner' = queue[1] /\ queue' = Tail(queue)
    BY <1>1, <1>3 DEF Releases
  <2>2. /\ Len(queue) \in Nat \ {0} /\ Len(queue') = Len(queue) - 1
        /\ \A i \in 1..Len(queue') : queue'[i] = queue[i + 1] /\ i + 1 \in 1..Len(queue)
    BY <1>1, <1>3, <2>1
  <2>3. \A i \in 1..Len(queue') : i \in Nat /\ i + 1 # 1
    BY <2>2
  <2>4. ASSUME NEW i \in 1..Len(queue'), NEW j \in 1..Len(queue'), queue'[i] = queue'[j]
        PROVE  i = j
    <3>1. i + 1 = j + 1
      BY <2>2, <2>4 DEF Distinct
    <3> QED
      BY <2>3, <3>1
  <2>5. ASSUME NEW i \in 1..Len(queue') PROVE queue'[i] # owner'
    <3>1. 1 \in 1..Len(queue)
      BY <2>2
    <3> QED
      BY <2>1, <2>2, <2>3, <3>1 DEF Distinct
  <2>6. \A d \in Callers : Waits(d)' => Waits(d)
    BY <2>2 DEF Waits
  <2> QED
    BY <2>4, <2>5, <2>6 DEF Distinct
<1> QED
  BY <1>2, <1>3

LEMMA GivenUpDistinct ==
  ASSUME Typed, Distinct, NEW c \in Callers, TimeOut(c)
  PROVE  Distinct' /\ ~Waits(c)' /\ \A d \in Callers : Waits(d)' => Waits(d)
<1>1. queue \in Seq(Callers) /\ owner' = owner
  BY TypedIs DEF TimeOut
<1>2. PICK n \in 1..Len(queue) :
        /\ queue[n] = c
        /\ queue' = [j \in 1..(Len(queue) - 1) |-> IF j < n THEN queue[j] ELSE queue[j + 1]]
  BY DEF TimeOut
<1>3. Len(queue) \in Nat \ {0} /\ n \in Nat
  BY <1>1, <1>2
<1>4. queue' \in Seq(Callers) /\ Len(queue') = Len(queue) - 1
  BY <1>1, <1>2, <1>3
<1> DEFINE old(i) == IF i < n THEN i ELSE i + 1
<1>5. ASSUME NEW i \in 1..Len(queue')
      PROVE  old(i) \in 1..Len(queue) /\ queue'[i] = queue[old(i)] /\ old(i) # n
  BY <1>2, <1>3, <1>4
<1>6. ASSUME NEW i \in 1..Len(queue'), NEW j \in 1..Len(queue'), old(i) = old(j) PROVE i = j
  BY <1>3, <1>4, <1>6
<1> HIDE DEF old
<1>7. ASSUME NEW i \in 1..Len(queue'), NEW j \in 1..Len(queue'), queue'[i] = queue'[j]
      PROVE  i = j
  BY <1>5, <1>6, <1>7 DEF Distinct
<1>8. ASSUME NEW i \in 1..Len(queue') PROVE queue'[i] # owner' /\ queue'[i] # c
  BY <1>1, <1>2, <1>5 DEF Distinct
<1>9. \A d \in Callers : Waits(d)' => Waits(d)
  BY <1>5 DEF Waits
<1> QED
  BY <1>7, <1>8, <1>9 DEF Distinct, Waits

LEMMA SendsKeeps ==
  ASSUME Typed, NEW c \in Callers, NEW q, NEW k, NEW h, Sends(c, q, k, h), ~Waits(c),
         c \in Requests => owner # c
  PROVE  Keeps(c)
BY TypedIs DEF Sends, Becomes, Keeps

LEMMA LogsOnKeeps ==
  ASSUME Typed, NEW c \in Callers, NEW g, NEW counted, NEW k, NEW h,
         LogsOn(c, g, counted, k, h), ~Waits(c), c \in Requests => owner # c
  PROVE  Keeps(c)
<1>1. CASE UNCHANGED <<owner, queue>>
  BY <1>1 DEF Keeps
<1>2. CASE \E q, k1, h1 : Sends(c, q, k1, h1)
  BY <1>2, SendsKeeps
<1> QED
  BY <1>1, <1>2 DEF LogsOn

LEMMA StepKeeps ==
  ASSUME Typed, Serving, Lined, NEW c \in Callers, CallerStep(c)
  PROVE  Keeps(c)
<1>1. CASE WireStep(c)
  <2>1. CASE Dispatch(c)
    <3>1. owner = c /\ UNCHANGED <<owner, queue>> /\ phase'[c] = "inFlight"
      BY <2>1, TypedIs DEF Dispatch, Becomes
    <3> QED
      BY <3>1, NotInLine DEF Keeps
  <2>2. CASE Answer(c)
    <3>1. phase[c] = "inFlight" /\ (Releases \/ (UNCHANGED <<owner, queue>> /\ c \notin Requests))
      BY <2>2 DEF Answer
    <3>2. owner = c
      BY <3>1 DEF Serving
    <3> QED
      BY <3>1, <3>2, NotInLine DEF Keeps
  <2>3. CASE SettleLogin(c)
    <3>1. phase[c] = "answered" /\ UNCHANGED <<owner, queue>>
      BY <2>3 DEF SettleLogin, LogonSettles
    <3> QED
      BY <3>1, NotInLine DEF Keeps
  <2> QED
    BY <1>1, <2>1, <2>2, <2>3 DEF WireStep, Keeps
<1>2. CASE c \in Requests /\ RequestStep(c)
  <2>1. phase[c] \notin {"queued", "waiting", "inFlight"}
    BY <1>2 DEF RequestStep, RefuseRequest, CallRequest, ResumeRequest, AbandonRequest,
                Succeed, Recover, Recovers, Refresh, Refreshes, Resend, Refreshed, FailRequest,
                Landed
  <2>2. ~Waits(c) /\ (c \in Requests => owner # c)
    BY <2>1, NotInLine
  <2>3. CASE UNCHANGED <<owner, queue>>
    BY <2>2, <2>3 DEF Keeps
  <2>4. CASE \/ \E q, k, h : Sends(c, q, k, h)
             \/ \E g, n, k, h : LogsOn(c, g, n, k, h)
    BY <2>2, <2>4, SendsKeeps, LogsOnKeeps
  <2> QED
    BY <1>2, <2>3, <2>4 DEF RequestStep, RefuseRequest, CallRequest, ResumeRequest,
       AbandonRequest, Succeed, Recover, Refresh, Resend, FailRequest
<1>3. CASE c \in Holders /\ HoldStep(c)
  <2>1. phase[c] \notin {"queued", "waiting", "inFlight"}
    BY <1>3 DEF HoldStep, CallHold, ClaimsHold, RefuseHold, HoldRequest, ResumeHold,
                HoldLoginFailed, LibraryRetry, LibraryRetries, SettleHold
  <2>2. ~Waits(c) /\ (c \in Requests => owner # c)
    BY <2>1, NotInLine
  <2>3. CASE UNCHANGED <<owner, queue>>
    BY <2>2, <2>3 DEF Keeps
  <2>4. CASE \/ \E q, k, h : Sends(c, q, k, h)
             \/ \E g, n, k, h : LogsOn(c, g, n, k, h)
    BY <2>2, <2>4, SendsKeeps, LogsOnKeeps
  <2>5. CASE CallHold(c)
    BY <2>2, <2>5, TypedIs DEF CallHold, ClaimsHold, Becomes, Keeps
  <2> QED
    BY <1>3, <2>3, <2>4, <2>5 DEF HoldStep, RefuseHold, HoldRequest, ResumeHold,
       HoldLoginFailed, LibraryRetry, SettleHold
<1>4. CASE \/ c \in Connects /\ ConnectStep(c)
           \/ c \in Windows \cup Runs /\ WindowStep(c)
           \/ c \in Runs /\ FailRun(c)
  <2>1. c \in Holders
    BY <1>4 DEF Holders
  <2>2. owner = c
    BY <1>4, <2>1 DEF Serving, Active, ConnectStep, WindowStep, AlreadyConnected, BeginConnect,
       Revive, Revives, DieReviving, FailConnect, CloseConnect, BeginHold, EndHold, FailRun
  <2>3. ~Waits(c) /\ c \notin Requests
    BY <2>1, <2>2, NotInLine, CallersAssumption
  <2>4. CASE UNCHANGED <<owner, queue>>
    BY <2>3, <2>4 DEF Keeps
  <2>5. CASE Releases
    BY <2>2, <2>5 DEF Keeps
  <2>6. CASE \E g, n, k, h : LogsOn(c, g, n, k, h)
    <3>1. c \in Requests => owner # c
      BY <2>3
    <3> QED
      BY <2>3, <2>6, <3>1, LogsOnKeeps
  <2> QED
    BY <1>4, <2>4, <2>5, <2>6 DEF ConnectStep, WindowStep, AlreadyConnected, BeginConnect,
       Revive, Revives, DieReviving, FailConnect, CloseConnect, BeginHold, EndHold, FailRun,
       Leaves
<1> QED
  BY <1>1, <1>2, <1>3, <1>4 DEF CallerStep

LEMMA LinedInit == Init => Lined
<1>1. NoOne \notin Requests
  BY CallersAssumption DEF Callers
<1> QED
  BY <1>1 DEF Init, Lined, Waits

LEMMA LinedStep == Typed /\ Serving /\ Lined /\ [Next]_vars => Lined'
<1>1. CASE UNCHANGED vars
  BY <1>1 DEF vars, Lined, Waits
<1>2. ASSUME Typed, Serving, Lined, NEW c \in Callers, CallerStep(c) PROVE Lined'
  <2>1. Keeps(c) /\ Others(c) /\ Distinct
    BY <1>2, StepKeeps, StepServes DEF Served, Lined, Distinct
  <2>2. /\ Distinct' /\ \A d \in Callers \ {c} : Waits(d)' => Waits(d)
        /\ Waits(c)' => phase'[c] \in {"queued", "waiting"}
    <3>1. CASE UNCHANGED <<owner, queue>> /\ ~Waits(c)
      BY <2>1, <3>1 DEF Distinct, Waits
    <3>2. CASE Enters(c) /\ ~Waits(c) /\ phase'[c] \in {"queued", "waiting"}
      BY <1>2, <2>1, <3>2, EnteredDistinct
    <3>3. CASE Releases /\ owner = c
      <4>1. ~Waits(c)
        BY <1>2, <3>3, NotInLine
      <4> QED
        BY <1>2, <2>1, <3>3, <4>1, ReleasedDistinct
    <3>4. CASE TimeOut(c)
      BY <1>2, <2>1, <3>4, GivenUpDistinct
    <3> QED
      BY <2>1, <3>1, <3>2, <3>3, <3>4 DEF Keeps
  <2>3. ASSUME NEW d \in Callers, Waits(d)' PROVE phase'[d] \in {"queued", "waiting"}
    <3>1. CASE d # c
      <4>1. phase[d] \in {"queued", "waiting"}
        BY <1>2, <2>2, <2>3, <3>1 DEF Lined
      <4> QED
        BY <2>1, <3>1, <4>1 DEF Others
    <3> QED
      BY <2>2, <2>3, <3>1
  <2>4. ASSUME owner' \in Requests
        PROVE  phase'[owner'] \in {"queued", "waiting", "inFlight"}
    <3>0. NoOne \notin Callers /\ Requests \subseteq Callers
      BY CallersAssumption DEF Callers
    <3>1. ASSUME NEW d \in Callers \ {c}, phase[d] \in {"queued", "waiting", "inFlight"}
          PROVE  phase'[d] \in {"queued", "waiting", "inFlight"}
      BY <2>1, <3>1 DEF Others
    <3>2. CASE /\ UNCHANGED <<owner, queue>> /\ ~Waits(c)
               /\ c \in Requests /\ owner = c => phase'[c] = "inFlight"
      BY <1>2, <2>4, <3>0, <3>1, <3>2 DEF Lined
    <3>3. CASE Enters(c) /\ ~Waits(c) /\ phase'[c] \in {"queued", "waiting"}
      BY <1>2, <2>4, <3>0, <3>1, <3>3 DEF Lined, Enters
    <3>4. CASE Releases /\ owner = c
      <4>1. queue \in Seq(Callers)
        BY <1>2, TypedIs
      <4>2. queue # <<>> /\ owner' = queue[1] /\ 1 \in 1..Len(queue)
        BY <2>4, <3>0, <3>4, <4>1 DEF Releases
      <4>3. owner' # c /\ Waits(owner')
        BY <2>1, <3>4, <4>2 DEF Distinct, Waits
      <4> QED
        BY <1>2, <2>4, <3>0, <3>1, <4>3 DEF Lined
    <3>5. CASE TimeOut(c)
      <4>1. owner' = owner /\ Waits(c)
        BY <3>5 DEF TimeOut, Waits
      <4>2. owner # c
        BY <2>1, <4>1 DEF Distinct, Waits
      <4> QED
        BY <1>2, <2>4, <3>0, <3>1, <4>1, <4>2 DEF Lined
    <3> QED
      BY <2>1, <3>2, <3>3, <3>4, <3>5 DEF Keeps
  <2> QED
    BY <2>2, <2>3, <2>4 DEF Lined, Distinct
<1> QED
  BY <1>1, <1>2 DEF Next

-------------------------------------------------------------------------------
(* What a step does to the jar, to the record and to what has been told.   *)

Out(c) == phase[c] = "inFlight"

Heard(c) == phase[c] = "answered" /\ req[c].answer # "refused"

Reports(c) == phase[c] = "answered" /\ req[c].answer \in Deaths

Minted(c) == phase[c] = "answered" /\ req[c].answer \in {"new", "newDead"}

InJar(c) == req[c].cookie = http.jar /\ http.jar # NoSession

(* A connect past its logon; a call with a request of its own under way.   *)
Past(c) ==
  /\ c \in Connects /\ Active(c)
  /\ req[c].goal = "logon" => phase[c] = "loggedOn"

Bodily(c) ==
  \/ phase[c] = "body"
  \/ phase[c] \in {"queued", "inFlight", "answered"} /\ ~req[c].login

Uncounted == http.by # NoOne /\ ~http.counted

OneLogon == \A c \in Callers : LoggingOn(c) <=> http.by = c

UncountedHolds ==
  Uncounted => http.by \in Holders /\ (http.by \in Connects => req[http.by].goal # "logon")

GoalFits == \A c \in Connects : Bodily(c) => req[c].goal # "logon"

Dated == \A c \in Callers : req[c].stamp <= conn.generation

Ground ==
  /\ Typed /\ Serving /\ Lined /\ LossIsTaken
  /\ OneLogon /\ UncountedHolds /\ GoalFits /\ Dated /\ Fit(conn)

(* The answer c has got is taken in, or there is none to take in. *)
TakesIn(c) ==
  \/ http'.jar = http.jar /\ told' = told
  \/ /\ Heard(c) /\ Learns(c)
     /\ http'.jar = IF Minted(c) THEN req[c].cookie ELSE http.jar
     /\ Reports(c) /\ req[c].stamp = conn.generation
          => Known(conn') /\ (c \in Holders => KnownNow(conn'))

(* A step that makes no logon, and settles none.                           *)
Plain(c) ==
  /\ Still(c) /\ sap' = sap
  /\ http'.by = http.by /\ http'.counted = http.counted
  /\ ~LoggingOn(c) /\ ~LoggingOn(c)'
  /\ \/ phase'[c] \in {"waiting", "body", "done", "failed"}
     \/ phase'[c] = "queued" /\ ~Waits(c) /\ (c \in Requests => owner # c)
     \/ phase'[c] = "answered" /\ req'[c].answer = "refused"
  /\ req'[c].cookie \in {req[c].cookie, NoSession, http'.jar}
  /\ req'[c].stamp \in {req[c].stamp, 0}
  /\ Darker(conn, conn')
  /\ conn'.deferred # NoGen => conn.deferred # NoGen \/ Reports(c)
  /\ Past(c)' => Past(c)
  /\ c \in Connects /\ Bodily(c)' => req'[c].goal # "logon"
  /\ TakesIn(c)

(* A logon that starts empties the jar.                                    *)
Starts(c) ==
  /\ Still(c) /\ sap' = sap
  /\ http.by = NoOne /\ ~LoggingOn(c)
  /\ \A d \in Callers \ {c} : phase[d] # "loggedOn"
  /\ http'.jar = NoSession /\ http'.by = c
  /\ ~http'.counted => c \in Holders /\ (c \in Connects => req'[c].goal # "logon")
  /\ c \in Connects /\ req'[c].goal # "logon" => Past(c)
  /\ req'[c].login /\ req'[c].cookie = NoSession /\ req'[c].stamp = req[c].stamp
  /\ \/ phase'[c] = "queued"
     \/ phase'[c] = "answered" /\ req'[c].answer = "refused"
  /\ Fit(conn') /\ conn'.deferred = NoGen
  /\ conn'.generation \in {conn.generation, conn.generation + 1}
  /\ told' = told \/ (Reports(c) /\ told' = told \cup {req[c].cookie})

(* A logon under way is joined; it may be counted only now.                *)
Joins(c) ==
  /\ Still(c) /\ sap' = sap
  /\ http.by # NoOne /\ ~LoggingOn(c)
  /\ http'.jar = http.jar /\ http'.by = http.by
  /\ http.counted => http'.counted
  /\ phase'[c] = "awaiting"
  /\ req'[c].cookie = req[c].cookie /\ req'[c].stamp = req[c].stamp
  /\ \/ conn' = conn
     \/ /\ conn' = Later(conn) /\ c \in Requests /\ Uncounted /\ http'.counted
        /\ Reports(c) \/ (conn.death = NoGen /\ conn.deferred = NoGen)
  /\ \/ told' = told
     \/ c \in Requests /\ Reports(c) /\ told' = told \cup {req[c].cookie}
  /\ Past(c)' => Past(c)

LEMMA ReceivedIs ==
  ASSUME Typed, NEW c \in Callers
  PROVE  /\ Received(c).jar = IF req[c].answer \in {"new", "newDead"}
                              THEN req[c].cookie ELSE http.jar
         /\ Received(c).by = http.by /\ Received(c).counted = http.counted
<1>1. http \in Https
  BY TypedIs
<1> QED
  BY <1>1 DEF Received, Https

(* An answer of c's own, noted. *)
LEMMA NotedTakesIn ==
  ASSUME Ground, NEW c \in Callers, phase[c] = "answered", Learns(c),
         http'.jar = Received(c).jar, Darker(Noted(c), conn'),
         c \in Holders \/ req[c].answer \in Successes
  PROVE  TakesIn(c)
<1>1. CASE req[c].answer = "refused"
  <2>1. http'.jar = http.jar
    BY <1>1, ReceivedIs DEF Ground
  <2>2. told' = told
    BY <1>1 DEF Learns, Deaths, Resolved
  <2> QED
    BY <2>1, <2>2 DEF TakesIn
<1>2. CASE req[c].answer # "refused"
  <2>1. Heard(c) /\ http'.jar = IF Minted(c) THEN req[c].cookie ELSE http.jar
    BY <1>2, ReceivedIs DEF Heard, Minted, Ground
  <2>2. ~Recoverable(c)
    BY CallersAssumption DEF Recoverable, Successes
  <2>3. Reports(c) /\ req[c].stamp = conn.generation => KnownNow(Noted(c)) /\ Known(Noted(c))
    BY <2>2, NotedDarkens DEF Reports, Ground, Dated
  <2>4. Reports(c) /\ req[c].stamp = conn.generation => KnownNow(conn') /\ Known(conn')
    BY <2>3 DEF Darker
  <2> QED
    BY <2>1, <2>4 DEF TakesIn
<1> QED
  BY <1>1, <1>2

LEMMA NothingTakenIn ==
  ASSUME NEW c, http'.jar = http.jar, told' = told
  PROVE  TakesIn(c)
BY DEF TakesIn

LEMMA AskedPlain ==
  ASSUME Ground, NEW c \in Callers, NEW g \in Goals, NEW h \in Https, NEW fresh \in BOOLEAN,
         NEW k, Fit(k), Darker(conn, k),
         k.deferred # NoGen => conn.deferred # NoGen \/ Reports(c),
         Sends(c, Asks(c, g, h, fresh), k, h),
         h.by = http.by, h.counted = http.counted, sap' = sap,
         ~LoggingOn(c), ~Waits(c), c \in Requests => owner # c,
         c \in Connects => g # "logon" /\ Past(c),
         TakesIn(c)
  PROVE  Plain(c)
<1>1. /\ Still(c) /\ Issued(c, g, FALSE, h.jar) /\ http' = h /\ conn' = ApplyDeferred(k)
  BY AskedIs DEF Ground
<1>2. /\ Darker(conn, conn') /\ conn'.deferred = NoGen
  BY <1>1, ApplyDeferredDarkens, DarkerTwice
<1>3. /\ ~req'[c].login /\ req'[c].goal = g /\ req'[c].cookie = http'.jar
      /\ req'[c].stamp = req[c].stamp
      /\ phase'[c] = "queued" \/ (phase'[c] = "answered" /\ req'[c].answer = "refused")
  BY <1>1 DEF Issued
<1>4. ~LoggingOn(c)'
  BY <1>3 DEF LoggingOn
<1>5. c \in Connects => req'[c].goal # "logon"
  BY <1>3
<1>6. Past(c)' => Past(c)
  BY DEF Past
<1> QED
  BY <1>1, <1>2, <1>3, <1>4, <1>5, <1>6 DEF Plain

LEMMA FinishesPlain ==
  ASSUME Ground, NEW c \in Callers, NEW p \in {"done", "failed"}, Finishes(c, p),
         http'.by = http.by, http'.counted = http.counted, sap' = sap,
         ~LoggingOn(c), Darker(conn, conn'),
         conn'.deferred # NoGen => conn.deferred # NoGen \/ Reports(c),
         TakesIn(c)
  PROVE  Plain(c)
<1>1. phase' = [phase EXCEPT ![c] = p] /\ req' = [req EXCEPT ![c] = Blank]
  BY DEF Finishes, Becomes
<1>2. Still(c) /\ phase'[c] = p /\ req'[c].cookie = NoSession /\ req'[c].stamp = 0
  BY <1>1, TypedIs DEF Ground, Still, Blank
<1>3. ~LoggingOn(c)' /\ ~Past(c)' /\ ~Bodily(c)'
  BY <1>2 DEF LoggingOn, Past, Active, Bodily
<1> QED
  BY <1>2, <1>3 DEF Plain

LEMMA LogonMade ==
  ASSUME Ground, NEW c \in Callers, NEW g \in Goals, NEW counted \in BOOLEAN,
         NEW h \in Https, h.by = http.by, h.counted = http.counted, h.jar = http.jar,
         LogsOn(c, g, counted, conn, h), sap' = sap, ~LoggingOn(c),
         c \in Holders => owner = c,
         c \in Connects /\ g # "logon" => Past(c),
         ~counted => c \in Holders /\ (c \in Connects => g # "logon"),
         c \in Requests => Reports(c) \/ (conn.death = NoGen /\ conn.deferred = NoGen),
         told' = told \/ (c \in Requests /\ Reports(c) /\ told' = told \cup {req[c].cookie})
  PROVE  Starts(c) \/ Joins(c)
<1>0. conn \in Conns /\ NoOne \notin Callers /\ (c \in Requests <=> c \notin Holders)
  BY CallersAssumption DEF Ground, Fit, Callers
<1>1. Joined(c, g, counted, conn, h) \/ Begun(c, g, counted, conn, h)
  BY <1>0, LogsOnIs DEF Ground
<1>2. CASE Joined(c, g, counted, conn, h)
  <2>1. Moves(counted, h) => c \in Requests /\ Uncounted /\ http'.counted
    <3>1. SUFFICES ASSUME Moves(counted, h) PROVE c \in Requests /\ Uncounted /\ http'.counted
      OBVIOUS
    <3>2. Uncounted /\ http'.counted
      BY <1>2, <3>1 DEF Joined, Moves, Uncounted
    <3>3. http.by \in Holders /\ LoggingOn(http.by)
      BY <3>2 DEF Ground, UncountedHolds, OneLogon, Callers
    <3>4. owner = http.by
      BY <3>3 DEF Ground, Serving, Active, LoggingOn
    <3>5. c \notin Holders
      BY <3>3, <3>4
    <3> QED
      BY <1>0, <3>2, <3>5
  <2>2. conn' = conn \/ (Moves(counted, h) /\ conn' = Later(conn))
    BY <1>2 DEF Joined, Moved
  <2>3. Past(c)' => Past(c)
    BY <1>2 DEF Joined, Past
  <2>4. http.counted => http'.counted
    BY <1>2 DEF Joined
  <2>5. \/ conn' = conn
        \/ /\ conn' = Later(conn) /\ c \in Requests /\ Uncounted /\ http'.counted
           /\ Reports(c) \/ (conn.death = NoGen /\ conn.deferred = NoGen)
    BY <2>1, <2>2
  <2>6. /\ Still(c) /\ http.by # NoOne /\ http'.jar = http.jar /\ http'.by = http.by
        /\ phase'[c] = "awaiting"
        /\ req'[c].cookie = req[c].cookie /\ req'[c].stamp = req[c].stamp
    BY <1>2 DEF Joined
  <2> QED
    BY <2>3, <2>4, <2>5, <2>6 DEF Joins
<1>3. CASE Begun(c, g, counted, conn, h)
  <2>1. /\ Fit(conn') /\ conn'.deferred = NoGen
        /\ conn'.generation \in {conn.generation, conn.generation + 1}
    BY <1>3, LaterFits, ApplyDeferredDarkens DEF Begun, Moved, Darker, Ground
  <2> QED
    BY <1>3, <2>1 DEF Begun, Issued, Starts
<1> QED
  BY <1>1, <1>2, <1>3

-------------------------------------------------------------------------------
(* Every step is plain, makes a logon, or is one of five others.           *)

SameRequest(c) ==
  /\ req'[c].goal = req[c].goal /\ req'[c].login = req[c].login
  /\ req'[c].cookie = req[c].cookie

Dispatched(c) ==
  /\ Still(c) /\ SameRequest(c) /\ UNCHANGED <<owner, queue, http, conn, sap, told>>
  /\ phase[c] = "queued" /\ owner = c /\ phase'[c] = "inFlight"
  /\ req'[c].stamp = conn.generation

Answered(c) ==
  /\ Still(c) /\ UNCHANGED <<http, conn, told>> /\ Quiet
  /\ phase[c] = "inFlight" /\ phase'[c] = "answered"
  /\ req'[c].goal = req[c].goal /\ req'[c].login = req[c].login
  /\ req'[c].stamp = req[c].stamp
  /\ LET a == req'[c].answer IN
       /\ IF a \in {"new", "newDead"}
          THEN req'[c].cookie = sap.minted + 1 /\ sap'.minted = sap.minted + 1
          ELSE req'[c].cookie = req[c].cookie /\ sap'.minted = sap.minted
       /\ req[c].login => a \in {"new", "newDead", "error", "ceiling"}
       /\ ~req[c].login => a # "newDead"
       /\ 0 \notin sap.live /\ ~req[c].login /\ a \in Deaths => req[c].cookie # 0
  /\ 0 \notin sap.live => 0 \notin sap'.live

Expired(c) ==
  /\ Still(c) /\ SameRequest(c) /\ UNCHANGED <<http, conn, sap, told>> /\ Quiet
  /\ phase[c] = "queued" /\ phase'[c] = "answered"
  /\ req'[c].stamp = req[c].stamp /\ req'[c].answer = "error"

Settled(c) ==
  /\ UNCHANGED <<req, sap>> /\ LoggingOn(c) /\ phase[c] = "answered"
  /\ \A d \in Callers :
       \/ d # c /\ phase[d] # "awaiting" /\ phase'[d] = phase[d]
       \/ /\ d = c \/ phase[d] = "awaiting"
          /\ phase'[d] = IF req[c].answer \in Successes THEN "loggedOn" ELSE "loginFailed"
  /\ http'.by = NoOne
  /\ http'.jar = IF Minted(c) THEN req[c].cookie ELSE http.jar
  /\ Learns(c)
  /\ Darker(conn, conn')
  /\ req[c].answer = "newDead" /\ req[c].stamp = conn.generation => conn'.deferred # NoGen

Revived(c) ==
  /\ Still(c) /\ UNCHANGED <<http, sap, told>>
  /\ c \in Connects /\ phase[c] = "loggedOn" /\ req[c].goal = "logon" /\ phase'[c] = "body"
  /\ req'[c].goal = "none" /\ req'[c].cookie = req[c].cookie /\ req'[c].stamp = req[c].stamp
  /\ ~KnownNow(conn) /\ Fit(conn') /\ conn'.generation = conn.generation
  /\ conn'.death = NoGen /\ conn'.deferred = NoGen

Kinds(c) ==
  \/ Dispatched(c) \/ Answered(c) \/ Expired(c) \/ Settled(c) \/ Revived(c)
  \/ Plain(c) \/ Starts(c) \/ Joins(c)

LEMMA DispatchKind ==
  ASSUME Ground, NEW c \in Callers, Dispatch(c)
  PROVE  Dispatched(c)
<1>1. req[c] \in Reqs /\ phase' = [phase EXCEPT ![c] = "inFlight"]
      /\ req' = [req EXCEPT ![c].stamp = conn.generation]
  BY TypedIs DEF Ground, Dispatch, Becomes
<1>2. Still(c) /\ phase'[c] = "inFlight"
  BY <1>1, TypedIs DEF Ground, Still
<1>3. SameRequest(c) /\ req'[c].stamp = conn.generation
  BY <1>1, TypedIs DEF Ground, SameRequest, Reqs
<1> QED
  BY <1>2, <1>3 DEF Dispatch, Dispatched

LEMMA TimeOutKind ==
  ASSUME Ground, NEW c \in Callers, TimeOut(c)
  PROVE  Expired(c) \/ Plain(c)
<1>1. CASE phase[c] = "queued"
  <2>1. req[c] \in Reqs /\ phase' = [phase EXCEPT ![c] = "answered"]
        /\ req' = [req EXCEPT ![c].answer = "error"]
    BY <1>1, TypedIs DEF Ground, TimeOut, Becomes
  <2>2. Still(c) /\ phase'[c] = "answered"
    BY <2>1, TypedIs DEF Ground, Still
  <2>3. SameRequest(c) /\ req'[c].stamp = req[c].stamp /\ req'[c].answer = "error"
    BY <2>1, TypedIs DEF Ground, SameRequest, Reqs
  <2> QED
    BY <1>1, <2>2, <2>3 DEF TimeOut, Expired
<1>2. CASE phase[c] = "waiting"
  <2>1. Finishes(c, "failed") /\ UNCHANGED <<http, conn, sap, told>>
    BY <1>2 DEF TimeOut
  <2>2. ~LoggingOn(c) /\ Darker(conn, conn')
    BY <1>2, <2>1, DarkerSame DEF LoggingOn, Ground
  <2> QED
    BY <2>1, <2>2, NothingTakenIn, FinishesPlain
<1> QED
  BY <1>1, <1>2 DEF TimeOut

LEMMA AnswerKind ==
  ASSUME Ground, NEW c \in Callers, Answer(c)
  PROVE  Answered(c)
<1>1. PICK a \in Replies(c) :
        LET mints == a \in {"new", "newDead"}
            id == IF mints THEN sap.minted + 1 ELSE req[c].cookie
            ends == IF a \in {"gone", "dump", "gone200"} \/ (a = "new" /\ ~req[c].login)
                    THEN {req[c].cookie} ELSE {}
        IN /\ sap' = [minted |-> IF mints THEN id ELSE sap.minted,
                      live |-> (sap.live \ ends)
                                 \cup (IF a = "new" THEN {id} ELSE {})]
           /\ req' = [req EXCEPT ![c] = [@ EXCEPT !.answer = a, !.cookie = id]]
  BY DEF Answer
<1>2. req[c] \in Reqs /\ sap.minted \in Nat /\ phase' = [phase EXCEPT ![c] = "answered"]
  BY TypedIs DEF Ground, Answer, Becomes
<1> DEFINE id == IF a \in {"new", "newDead"} THEN sap.minted + 1 ELSE req[c].cookie
<1> DEFINE q == [req[c] EXCEPT !.answer = a, !.cookie = id]
<1>3. /\ q.answer = a /\ q.cookie = id /\ q.goal = req[c].goal /\ q.login = req[c].login
      /\ q.stamp = req[c].stamp
  BY <1>2 DEF Reqs
<1>4. req' = [req EXCEPT ![c] = q]
  BY <1>1
<1>5. /\ sap'.minted = IF a \in {"new", "newDead"} THEN id ELSE sap.minted
      /\ sap'.live \subseteq sap.live \cup (IF a = "new" THEN {sap.minted + 1} ELSE {})
  BY <1>1
<1>6. 0 \notin sap.live => 0 \notin sap'.live
  BY <1>2, <1>5
<1> HIDE DEF q
<1>7. Still(c) /\ phase'[c] = "answered" /\ req'[c] = q
  BY <1>2, <1>4, TypedIs DEF Ground, Still
<1>8. /\ req[c].login => a \in {"new", "newDead", "error", "ceiling"}
      /\ ~req[c].login => a # "newDead"
  BY <1>1 DEF Replies
<1>9. 0 \notin sap.live /\ ~req[c].login /\ req[c].cookie = 0 => a \in {"new", "error"}
  BY <1>1 DEF Replies
<1>10. ~req[c].login /\ 0 \notin sap.live /\ a \in Deaths => req[c].cookie # 0
  BY <1>9 DEF Deaths, Resolved
<1> QED
  BY <1>3, <1>5, <1>6, <1>7, <1>8, <1>10 DEF Answer, Answered

LEMMA SettleLoginKind ==
  ASSUME Ground, NEW c \in Callers, SettleLogin(c)
  PROVE  Settled(c)
<1> DEFINE woken == {c} \cup {d \in Callers : phase[d] = "awaiting"}
<1>1. LogonSettles(c, woken)
  BY DEF SettleLogin
<1>2. /\ phase[c] = "answered" /\ req[c].login /\ LoggingOn(c)
      /\ UNCHANGED <<req, sap>> /\ Learns(c)
  BY <1>1 DEF LogonSettles, LoggingOn
<1>3. \A d \in Callers :
       \/ d # c /\ phase[d] # "awaiting" /\ phase'[d] = phase[d]
       \/ /\ d = c \/ phase[d] = "awaiting"
          /\ phase'[d] = IF req[c].answer \in Successes THEN "loggedOn" ELSE "loginFailed"
  BY <1>1 DEF LogonSettles
<1>4. http'.by = NoOne /\ http'.jar = IF Minted(c) THEN req[c].cookie ELSE http.jar
  <2>1. Received(c) \in Https /\ http' = [Received(c) EXCEPT !.by = NoOne, !.counted = FALSE]
    BY <1>1, ReceivedTyped DEF Ground, LogonSettles
  <2> QED
    BY <1>2, <2>1, ReceivedIs DEF Ground, Https, Minted
<1>5. /\ Darker(conn, conn')
      /\ req[c].answer = "newDead" /\ req[c].stamp = conn.generation => conn'.deferred # NoGen
  <2>1. CASE req[c].answer = "ceiling" /\ c \in Connects
    <3>1. conn' = MarkDead(conn, conn.generation) /\ conn.generation \in Nat \cup {NoGen}
      BY <1>1, <2>1 DEF LogonSettles, Ground, Fit, Conns
    <3> QED
      BY <2>1, <3>1, MarkDeadDarkens DEF Ground
  <2>2. CASE ~(req[c].answer = "ceiling" /\ c \in Connects)
    <3>1. conn' = Noted(c)
      BY <1>1, <2>2 DEF LogonSettles
    <3> QED
      BY <3>1, NotedDarkens DEF Ground, Dated, Resolved
  <2> QED
    BY <2>1, <2>2
<1> QED
  BY <1>2, <1>3, <1>4, <1>5 DEF Settled

LEMMA RequestKind ==
  ASSUME Ground, NEW c \in Requests, RequestStep(c)
  PROVE  Plain(c) \/ Starts(c) \/ Joins(c)
<1>0. /\ c \in Callers /\ c \notin Holders /\ c \notin Connects
      /\ http \in Https /\ Typed /\ Fit(conn) /\ conn \in Conns
      /\ req[c].goal \in Goals /\ req[c].stamp <= conn.generation
  BY CallersAssumption, TypedIs DEF Ground, Callers, Holders, Fit, Reqs, Dated
<1>1. phase[c] \notin {"queued", "waiting", "inFlight"} => ~Waits(c) /\ owner # c
  BY <1>0, NotInLine DEF Ground
<1>2. CASE RefuseRequest(c)
  <2>1. /\ ~LoggingOn(c) /\ Finishes(c, "failed") /\ UNCHANGED <<http, sap, told>>
        /\ conn' = ApplyDeferred(conn)
    BY <1>2 DEF RefuseRequest, LoggingOn
  <2>2. Darker(conn, conn') /\ conn'.deferred = NoGen
    BY <1>0, <2>1, ApplyDeferredDarkens
  <2> QED
    BY <1>0, <2>1, <2>2, NothingTakenIn, FinishesPlain
<1>3. CASE CallRequest(c)
  <2> DEFINE k == ApplyDeferred(conn)
  <2>1. /\ phase[c] = "idle" /\ ~LoggingOn(c) /\ UNCHANGED <<sap, told>> /\ k.death = NoGen
        /\ "op" \in Goals
    BY <1>3 DEF CallRequest, LoggingOn, Goals
  <2>2. k = conn /\ conn.deferred = NoGen /\ conn.death = NoGen
    <3>1. conn.generation # NoGen
      BY <1>0 DEF Conns
    <3>2. conn.deferred = NoGen
      BY <1>0, <2>1, <3>1, ApplyDeferredDarkens
    <3> QED
      BY <1>0, <2>1, <3>2, ApplyDeferredDarkens
  <2>3. CASE http.token
    <3>1. Sends(c, Asks(c, "op", http, FALSE), conn, http)
      BY <1>3, <2>2, <2>3 DEF CallRequest
    <3>2. http' = http /\ TakesIn(c)
      BY <2>1, <3>1, NothingTakenIn DEF Sends
    <3> QED
      BY <1>0, <1>1, <2>1, <2>2, <3>1, <3>2, DarkerSame, AskedPlain
  <2>4. CASE ~http.token
    <3>1. LogsOn(c, "op", TRUE, conn, http)
      BY <1>3, <2>2, <2>4 DEF CallRequest
    <3> QED
      BY <1>0, <2>1, <2>2, <3>1, LogonMade
  <2> QED
    BY <2>3, <2>4
<1>4. CASE ResumeRequest(c)
  <2>1. /\ phase[c] = "loggedOn" /\ ~LoggingOn(c) /\ UNCHANGED <<sap, told>>
        /\ Sends(c, Asks(c, req[c].goal, http, TRUE), conn, http)
    BY <1>4 DEF ResumeRequest, LoggingOn
  <2>2. http' = http /\ TakesIn(c)
    BY <2>1, NothingTakenIn DEF Sends
  <2> QED
    BY <1>0, <1>1, <2>1, <2>2, DarkerSame, AskedPlain
<1>5. CASE AbandonRequest(c)
  <2>1. /\ ~LoggingOn(c) /\ Finishes(c, "failed") /\ UNCHANGED <<http, sap, told>>
        /\ conn' = Promoted(budget[c], conn) /\ budget[c] \in Budgets
    BY <1>0, <1>5, TypedIs DEF AbandonRequest, LoggingOn
  <2>2. Darker(conn, conn') /\ conn'.deferred = conn.deferred
    BY <1>0, <2>1, PromotedDarkens
  <2> QED
    BY <1>0, <2>1, <2>2, NothingTakenIn, FinishesPlain
<1>6. CASE Succeed(c)
  <2>1. /\ ~LoggingOn(c) /\ Finishes(c, "done") /\ sap' = sap /\ Learns(c)
        /\ phase[c] = "answered" /\ req[c].answer \in Successes
        /\ conn' = Noted(c) /\ http' = Received(c)
    BY <1>6 DEF Succeed, Landed, LoggingOn
  <2>2. Darker(conn, Noted(c)) /\ (conn'.deferred # NoGen => conn.deferred # NoGen \/ Reports(c))
    BY <1>0, <2>1, NotedDarkens DEF Reports
  <2>3. Darker(Noted(c), conn')
    BY <2>1, <2>2, DarkerSame DEF Darker
  <2>4. TakesIn(c) /\ http'.by = http.by /\ http'.counted = http.counted
    BY <1>0, <2>1, <2>3, NotedTakesIn, ReceivedIs
  <2> QED
    BY <1>0, <2>1, <2>2, <2>4, FinishesPlain
<1>7. CASE Recover(c)
  <2>1. /\ ~LoggingOn(c) /\ sap' = sap /\ Learns(c) /\ phase[c] = "answered"
        /\ Recoverable(c) /\ LogsOn(c, "resend", TRUE, conn, http) /\ "resend" \in Goals
    BY <1>7 DEF Recover, Recovers, Landed, LoggingOn, Goals
  <2>2. Reports(c) /\ ~Anomalous(conn, req[c].stamp)
    BY <1>0, <2>1, TypedIs DEF Reports, Recoverable, Deaths, Anomalous, Conns, Reqs
  <2>3. told' = told \cup {req[c].cookie}
    BY <2>1, <2>2 DEF Learns, Reports
  <2> QED
    BY <1>0, <2>1, <2>2, <2>3, LogonMade
<1>8. CASE Refresh(c)
  <2> DEFINE h == [http EXCEPT !.token = FALSE]
  <2>1. /\ ~LoggingOn(c) /\ UNCHANGED <<sap, told>> /\ phase[c] = "answered"
        /\ Sends(c, Asks(c, "refresh", h, FALSE), conn, h) /\ "refresh" \in Goals
    BY <1>8 DEF Refresh, Refreshes, Landed, LoggingOn, Goals
  <2>2. h \in Https /\ h.jar = http.jar /\ h.by = http.by /\ h.counted = http.counted
    BY <1>0 DEF Https
  <2> HIDE DEF h
  <2>3. http' = h /\ TakesIn(c)
    BY <2>1, <2>2, NothingTakenIn DEF Sends
  <2> QED
    BY <1>0, <1>1, <2>1, <2>2, <2>3, DarkerSame, AskedPlain
<1>9. CASE Resend(c)
  <2>1. /\ ~LoggingOn(c) /\ sap' = sap /\ Learns(c)
        /\ phase[c] = "answered" /\ req[c].answer \in Successes
        /\ Sends(c, Asks(c, "resend", Received(c), FALSE), Noted(c), Received(c))
        /\ "resend" \in Goals
    BY <1>9 DEF Resend, Refreshed, Landed, LoggingOn, Goals
  <2>2. /\ Darker(conn, Noted(c)) /\ Fit(Noted(c))
        /\ Noted(c).deferred # NoGen => conn.deferred # NoGen \/ Reports(c)
    BY <1>0, <2>1, NotedDarkens DEF Reports, Darker
  <2>3. http' = Received(c) /\ conn' = ApplyDeferred(Noted(c))
    BY <2>1 DEF Sends
  <2>4. Darker(Noted(c), conn')
    BY <2>2, <2>3, ApplyDeferredDarkens
  <2>5. TakesIn(c)
    BY <1>0, <2>1, <2>3, <2>4, NotedTakesIn
  <2>6. Received(c) \in Https /\ Received(c).by = http.by /\ Received(c).counted = http.counted
    BY <1>0, ReceivedTyped, ReceivedIs
  <2> QED
    BY <1>0, <1>1, <2>1, <2>2, <2>5, <2>6, AskedPlain
<1>10. CASE FailRequest(c)
  <2> DEFINE b == IF Recoverable(c) THEN [budget[c] EXCEPT !.loss = req[c].stamp]
                                   ELSE budget[c]
  <2>1. /\ ~LoggingOn(c) /\ Finishes(c, "failed") /\ UNCHANGED <<http, sap>> /\ Learns(c)
        /\ phase[c] = "answered" /\ req[c].answer \notin Successes
        /\ conn' = Promoted(b, Noted(c))
    BY <1>10 DEF FailRequest, LoggingOn
  <2>2. /\ b \in Budgets
        /\ Recoverable(c) => b.loss = req[c].stamp /\ ~b.recovered
    <3>1. budget[c] \in Budgets /\ req[c].stamp \in Nat /\ LossTaken(c)
      BY <1>0, TypedIs DEF Reqs, Ground, LossIsTaken
    <3>2. Recoverable(c) => ~budget[c].recovered
      BY <3>1 DEF Recoverable, LossTaken
    <3> QED
      BY <3>1, <3>2 DEF Budgets
  <2> HIDE DEF b
  <2>3. /\ Darker(conn, Noted(c)) /\ Fit(Noted(c))
        /\ Noted(c).deferred # NoGen => conn.deferred # NoGen \/ Reports(c)
    BY <1>0, <2>1, NotedDarkens DEF Reports, Darker
  <2>4. Darker(Noted(c), conn') /\ conn'.deferred = Noted(c).deferred
    BY <2>1, <2>2, <2>3, PromotedDarkens
  <2>5. Darker(conn, conn')
    BY <2>3, <2>4, DarkerTwice
  <2>6. Reports(c) /\ req[c].stamp = conn.generation => Known(conn')
    <3>1. CASE Recoverable(c)
      BY <1>0, <2>1, <2>2, <2>3, <3>1, NotedDarkens, PromotedDarkens DEF Known, Darker
    <3>2. CASE ~Recoverable(c)
      BY <1>0, <2>4, <3>2, NotedDarkens DEF Reports, Darker
    <3> QED
      BY <3>1, <3>2
  <2>7. TakesIn(c)
    <3>1. CASE req[c].answer = "refused"
      BY <2>1, <3>1, NothingTakenIn DEF Learns, Deaths, Resolved
    <3>2. CASE req[c].answer # "refused"
      BY <1>0, <2>1, <2>6, <3>2 DEF TakesIn, Heard, Minted, Successes
    <3> QED
      BY <3>1, <3>2
  <2> QED
    BY <1>0, <2>1, <2>3, <2>4, <2>5, <2>7, FinishesPlain
<1> QED
  BY <1>2, <1>3, <1>4, <1>5, <1>6, <1>7, <1>8, <1>9, <1>10 DEF RequestStep

LEMMA LeavesPlain ==
  ASSUME Ground, NEW c \in Holders, NEW p \in {"done", "failed"}, Leaves(c, p),
         UNCHANGED <<http, sap, told>>, ~LoggingOn(c), conn' = conn \/ conn' = ApplyDeferred(conn)
  PROVE  Plain(c)
<1>1. c \in Callers /\ Finishes(c, p)
  BY DEF Callers, Leaves
<1>2. /\ Darker(conn, conn')
      /\ conn'.deferred # NoGen => conn.deferred # NoGen
  BY ApplyDeferredDarkens, DarkerSame DEF Ground
<1> QED
  BY <1>1, <1>2, NothingTakenIn, FinishesPlain

(* A step of a hold that only stays in its body. *)
LEMMA StaysPlain ==
  ASSUME Ground, NEW c \in Holders, phase' = [phase EXCEPT ![c] = "body"],
         req' = req \/ req' = [req EXCEPT ![c].answer = "error"],
         sap' = sap, http'.by = http.by, http'.counted = http.counted,
         ~LoggingOn(c), Darker(conn, conn'),
         conn'.deferred # NoGen => conn.deferred # NoGen \/ Reports(c),
         c \in Connects => req[c].goal # "logon" /\ Past(c),
         TakesIn(c)
  PROVE  Plain(c)
<1>1. c \in Callers /\ req[c] \in Reqs
  BY TypedIs DEF Ground, Callers
<1>2. Still(c) /\ phase'[c] = "body"
  BY <1>1, TypedIs DEF Ground, Still
<1>3. /\ req'[c].goal = req[c].goal /\ req'[c].cookie = req[c].cookie
      /\ req'[c].stamp = req[c].stamp
  BY <1>1, TypedIs DEF Ground, Reqs
<1>4. ~LoggingOn(c)' /\ (Past(c)' => Past(c))
  BY <1>2 DEF LoggingOn, Past
<1> QED
  BY <1>2, <1>3, <1>4 DEF Plain

LEMMA HoldKind ==
  ASSUME Ground, NEW c \in Holders, HoldStep(c)
  PROVE  Plain(c) \/ Starts(c) \/ Joins(c)
<1>0. /\ c \in Callers /\ c \notin Requests
      /\ http \in Https /\ Typed /\ Fit(conn) /\ conn \in Conns
      /\ req[c] \in Reqs /\ req[c].goal \in Goals /\ req[c].stamp <= conn.generation
  BY CallersAssumption, TypedIs DEF Ground, Callers, Fit, Reqs, Dated
<1>1. phase[c] \notin {"queued", "waiting"} => ~Waits(c)
  BY <1>0, NotInLine DEF Ground
<1>2. Active(c) => owner = c
  BY DEF Ground, Serving
<1>3. c \in Connects /\ Bodily(c) => req[c].goal # "logon" /\ Past(c)
  BY DEF Ground, GoalFits, Bodily, Past, Active
<1>4. CASE CallHold(c)
  <2>1. /\ phase[c] = "idle" /\ phase' = [phase EXCEPT ![c] = "waiting"]
        /\ UNCHANGED <<req, http, conn, sap, told>>
    BY <1>4 DEF CallHold, ClaimsHold, Becomes
  <2>2. Still(c) /\ phase'[c] = "waiting"
    BY <1>0, <2>1, TypedIs DEF Still
  <2>3. ~LoggingOn(c) /\ ~LoggingOn(c)' /\ ~Past(c)' /\ ~Bodily(c)'
    BY <2>1, <2>2 DEF LoggingOn, Past, Active, Bodily
  <2>4. Darker(conn, conn') /\ TakesIn(c)
    BY <1>0, <2>1, DarkerSame, NothingTakenIn
  <2> QED
    BY <2>1, <2>2, <2>3, <2>4 DEF Plain
<1>5. CASE RefuseHold(c)
  <2>1. /\ ~LoggingOn(c) /\ Finishes(c, "failed") /\ UNCHANGED <<http, conn, sap, told>>
    BY <1>5 DEF RefuseHold, LoggingOn
  <2> QED
    BY <1>0, <2>1, DarkerSame, NothingTakenIn, FinishesPlain
<1>6. CASE HoldRequest(c)
  <2>1. /\ phase[c] = "body" /\ ~LoggingOn(c) /\ Bodily(c) /\ Active(c)
        /\ UNCHANGED <<sap, told>>
    BY <1>6 DEF HoldRequest, LoggingOn, Bodily, Active
  <2>2. PICK g \in NextGoals(c) :
          IF http.token \/ g = "drop"
          THEN Sends(c, Asks(c, g, http, FALSE), conn, http)
          ELSE \E counted \in (IF c \in Runs THEN {FALSE} ELSE BOOLEAN) :
                 LogsOn(c, g, counted, conn, http)
    BY <1>6 DEF HoldRequest
  <2>3. g \in Goals /\ g # "logon"
    BY DEF NextGoals, Goals
  <2>4. CASE http.token \/ g = "drop"
    <3>1. Sends(c, Asks(c, g, http, FALSE), conn, http)
      BY <2>2, <2>4
    <3>2. http' = http /\ TakesIn(c)
      BY <2>1, <3>1, NothingTakenIn DEF Sends
    <3> QED
      BY <1>0, <1>1, <1>3, <2>1, <2>3, <3>1, <3>2, DarkerSame, AskedPlain
  <2>5. CASE ~(http.token \/ g = "drop")
    <3>1. PICK counted \in BOOLEAN : LogsOn(c, g, counted, conn, http)
      BY <2>2, <2>5
    <3> QED
      BY <1>0, <1>2, <1>3, <2>1, <2>3, <3>1, LogonMade
  <2> QED
    BY <2>4, <2>5
<1>7. CASE ResumeHold(c)
  <2>1. /\ phase[c] = "loggedOn" /\ ~LoggingOn(c) /\ UNCHANGED <<sap, told>>
        /\ Sends(c, Asks(c, req[c].goal, http, TRUE), conn, http)
        /\ req[c].goal # "logon" /\ (c \in Connects => Past(c))
    BY <1>7 DEF ResumeHold, LoggingOn, Past, Active
  <2>2. http' = http /\ TakesIn(c)
    BY <2>1, NothingTakenIn DEF Sends
  <2> QED
    BY <1>0, <1>1, <2>1, <2>2, DarkerSame, AskedPlain
<1>8. CASE HoldLoginFailed(c)
  <2>1. /\ phase[c] = "loginFailed" /\ ~LoggingOn(c) /\ req[c].goal # "logon"
        /\ phase' = [phase EXCEPT ![c] = "body"]
        /\ req' = [req EXCEPT ![c].answer = "error"]
        /\ UNCHANGED <<http, conn, sap, told>>
        /\ c \in Connects => Past(c)
    BY <1>8 DEF HoldLoginFailed, LoggingOn, Becomes, Past, Active
  <2> QED
    BY <1>0, <2>1, DarkerSame, NothingTakenIn, StaysPlain
<1>9. CASE LibraryRetry(c)
  <2> DEFINE h == [http EXCEPT !.token = FALSE]
  <2>1. /\ ~LoggingOn(c) /\ Bodily(c) /\ Active(c) /\ UNCHANGED <<sap, told>>
        /\ LogsOn(c, req[c].goal, FALSE, conn, h)
    BY <1>9 DEF LibraryRetry, LibraryRetries, LoggingOn, Bodily, Active
  <2>2. h \in Https /\ h.jar = http.jar /\ h.by = http.by /\ h.counted = http.counted
    BY <1>0 DEF Https
  <2> HIDE DEF h
  <2> QED
    BY <1>0, <1>2, <1>3, <2>1, <2>2, LogonMade
<1>10. CASE SettleHold(c)
  <2>1. /\ ~LoggingOn(c) /\ Bodily(c) /\ UNCHANGED <<req, sap>> /\ Learns(c)
        /\ phase[c] = "answered" /\ phase' = [phase EXCEPT ![c] = "body"]
        /\ conn' = Noted(c) /\ http' = Received(c)
    BY <1>10 DEF SettleHold, LoggingOn, Bodily, Becomes
  <2>2. Darker(conn, Noted(c)) /\ (conn'.deferred # NoGen => conn.deferred # NoGen \/ Reports(c))
    BY <1>0, <2>1, NotedDarkens DEF Reports
  <2>3. Darker(Noted(c), conn')
    BY <2>1, <2>2, DarkerSame DEF Darker
  <2>4. TakesIn(c) /\ http'.by = http.by /\ http'.counted = http.counted
    BY <1>0, <2>1, <2>3, NotedTakesIn, ReceivedIs
  <2> QED
    BY <1>0, <1>3, <2>1, <2>2, <2>4, StaysPlain
<1> QED
  BY <1>4, <1>5, <1>6, <1>7, <1>8, <1>9, <1>10 DEF HoldStep

LEMMA ConnectKind ==
  ASSUME Ground, NEW c \in Connects, ConnectStep(c)
  PROVE  Plain(c) \/ Starts(c) \/ Joins(c) \/ Revived(c)
<1>0. /\ c \in Callers /\ c \in Holders /\ c \notin Requests
      /\ http \in Https /\ Typed /\ Fit(conn) /\ conn \in Conns
      /\ req[c] \in Reqs
  BY CallersAssumption, TypedIs DEF Ground, Callers, Holders, Fit
<1>1. CASE AlreadyConnected(c) \/ DieReviving(c) \/ FailConnect(c) \/ CloseConnect(c)
  <2>1. ~LoggingOn(c) /\ UNCHANGED <<http, sap, told>>
        /\ (conn' = conn \/ conn' = ApplyDeferred(conn))
    BY <1>1 DEF AlreadyConnected, DieReviving, FailConnect, CloseConnect, LoggingOn
  <2>2. \E p \in {"done", "failed"} : Leaves(c, p)
    BY <1>1 DEF AlreadyConnected, DieReviving, FailConnect, CloseConnect
  <2> QED
    BY <1>0, <2>1, <2>2, LeavesPlain
<1>2. CASE BeginConnect(c)
  <2>1. /\ ~LoggingOn(c) /\ owner = c /\ UNCHANGED <<sap, told>>
        /\ LogsOn(c, "logon", TRUE, conn, http) /\ "logon" \in Goals
    BY <1>2 DEF BeginConnect, LoggingOn, Goals
  <2> QED
    BY <1>0, <2>1, LogonMade
<1>3. CASE Revive(c)
  <2> DEFINE k == ApplyDeferred(conn)
  <2>1. /\ phase[c] = "loggedOn" /\ req[c].goal = "logon" /\ UNCHANGED <<http, sap, told>>
        /\ phase' = [phase EXCEPT ![c] = "body"]
        /\ req' = [req EXCEPT ![c].goal = "none"]
        /\ conn' = [k EXCEPT !.death = NoGen, !.deferred = NoGen, !.connected = TRUE]
        /\ ~DeadNow(k)
    BY <1>3 DEF Revive, Revives, Becomes
  <2>2. Still(c) /\ phase'[c] = "body"
    BY <1>0, <2>1, TypedIs DEF Still
  <2>3. /\ req'[c].goal = "none" /\ req'[c].cookie = req[c].cookie
        /\ req'[c].stamp = req[c].stamp
    BY <1>0, <2>1, TypedIs DEF Reqs
  <2>4. /\ Fit(k) /\ k.generation = conn.generation /\ k.deferred = NoGen
        /\ k.death = conn.generation <=> KnownNow(conn)
    BY <1>0, ApplyDeferredDarkens DEF Darker
  <2> HIDE DEF k
  <2>5. k.death # k.generation /\ k.lastRecorded < k.generation
    BY <2>1, <2>4 DEF DeadNow, Fit, Conns
  <2>6. /\ conn' \in Conns /\ conn'.generation = k.generation /\ conn'.death = NoGen
        /\ conn'.deferred = NoGen /\ conn'.lastRecorded = k.lastRecorded
    BY <2>1, <2>4 DEF Fit, Conns
  <2>7. Fit(conn') /\ ~KnownNow(conn)
    BY <2>4, <2>5, <2>6 DEF Fit
  <2> QED
    BY <2>1, <2>2, <2>3, <2>4, <2>6, <2>7 DEF Revived
<1> QED
  BY <1>1, <1>2, <1>3 DEF ConnectStep

LEMMA WindowKind ==
  ASSUME Ground, NEW c \in Windows \cup Runs, WindowStep(c) \/ (c \in Runs /\ FailRun(c))
  PROVE  Plain(c)
<1>0. /\ c \in Callers /\ c \in Holders /\ c \notin Connects /\ Fit(conn)
  BY CallersAssumption DEF Ground, Callers, Holders
<1>1. CASE BeginHold(c)
  <2>1. /\ ~LoggingOn(c) /\ phase' = [phase EXCEPT ![c] = "body"]
        /\ UNCHANGED <<req, http, conn, sap, told>>
    BY <1>1 DEF BeginHold, LoggingOn, Becomes
  <2> QED
    BY <1>0, <2>1, DarkerSame, NothingTakenIn, StaysPlain
<1>2. CASE EndHold(c) \/ FailRun(c)
  <2>1. ~LoggingOn(c) /\ UNCHANGED <<http, conn, sap, told>>
    BY <1>2 DEF EndHold, FailRun, LoggingOn
  <2>2. \E p \in {"done", "failed"} : Leaves(c, p)
    BY <1>2 DEF EndHold, FailRun
  <2> QED
    BY <1>0, <2>1, <2>2, LeavesPlain
<1> QED
  BY <1>1, <1>2 DEF WindowStep

LEMMA StepKind ==
  ASSUME Ground, NEW c \in Callers, CallerStep(c)
  PROVE  Kinds(c)
<1>1. c \in Runs => c \in Windows \cup Runs
  OBVIOUS
<1>2. WireStep(c) => Kinds(c)
  BY DispatchKind, AnswerKind, TimeOutKind, SettleLoginKind DEF WireStep, Kinds
<1>3. c \in Requests /\ RequestStep(c) => Kinds(c)
  BY RequestKind DEF Kinds
<1>4. c \in Holders /\ HoldStep(c) => Kinds(c)
  BY HoldKind DEF Kinds
<1>5. c \in Connects /\ ConnectStep(c) => Kinds(c)
  BY ConnectKind DEF Kinds
<1> QED
  BY <1>1, <1>2, <1>3, <1>4, <1>5, WindowKind DEF CallerStep, Kinds

-------------------------------------------------------------------------------
(* No loss is forgotten, and connect() is honest: the invariant.           *)

(* One answer is acted upon at a time, and whom a logon has logged on goes *)
(* on before the next event.                                               *)
OneEvent ==
  /\ \A c, d \in Callers : Heard(c) /\ Heard(d) => c = d
  /\ \A c, d \in Callers : phase[c] = "loggedOn" => ~Heard(d)
  /\ \A c \in Callers : phase[c] = "loggedOn" => http.by = NoOne

(* The sessions in the jar, on the requests and in the reports were made.  *)
Made ==
  /\ http.jar <= sap.minted
  /\ \A k \in told : k # 0 /\ k <= sap.minted
  /\ \A c \in Callers : req[c].cookie <= sap.minted
  /\ 0 \notin sap.live

Replied ==
  \A c \in Callers : phase[c] = "answered" =>
    /\ req[c].login => req[c].answer \in {"new", "newDead", "error", "ceiling", "refused"}
    /\ ~req[c].login => req[c].answer # "newDead"
    /\ req[c].answer \in Deaths => req[c].cookie # 0

(* A session just made is on nobody else's request.                        *)
Fresh ==
  \A c \in Callers : Minted(c) =>
    /\ req[c].cookie \notin told /\ req[c].cookie \notin {0, http.jar}
    /\ \A d \in Callers \ {c} : req[d].cookie # req[c].cookie

(* While a logon is under way that moved no generation, no death is        *)
(* deferred that a request waiting to report could add to.                 *)
NoneDeferred ==
  Uncounted /\ conn.deferred # NoGen => \A c \in Requests : ~Reports(c)

(* What is on the wire with the jar's cookie is stamped with the jar's     *)
(* generation.                                                             *)
StampFits ==
  \A c \in Callers : (Out(c) \/ Reports(c)) /\ ~req[c].login /\ InJar(c)
                       => req[c].stamp = conn.generation

(* A counted logon is stamped with the generation it began.                *)
LogonFits ==
  \A c \in Callers :
    /\ LoggingOn(c) /\ (Out(c) \/ Reports(c))
    /\ c \in Requests \/ (c \in Connects /\ req[c].goal = "logon")
    => req[c].stamp = conn.generation

(* A logon stamped no later than a recorded death: the death stands.       *)
DeathStands ==
  \A c \in Callers :
    LoggingOn(c) /\ (Out(c) \/ Reports(c)) /\ req[c].stamp <= conn.lastRecorded
      => conn.death # NoGen /\ (c \in Connects => conn.death = conn.generation)

(* While a logon is under way, no request reports on the jar's session, or *)
(* is sent with it ahead of the logon.                                     *)
JarSpared == http.by # NoOne => \A c \in Requests : Reports(c) => ~InJar(c)

JarSparedOnWire ==
  http.by # NoOne /\ phase[http.by] = "queued" => \A c \in Requests : Out(c) => ~InJar(c)

Old(c) == c \in Requests /\ phase[c] = "queued" => ~InJar(c)

JarSparedInLine ==
  http.by \in Requests /\ phase[http.by] = "queued" =>
    /\ owner # http.by => Old(owner)
    /\ \A d \in Callers : Ahead(d, http.by) => Old(d)

(* Past its logon a connect knows of every loss, and no request reports.   *)
Strong == http.jar \in told => KnownNow(conn)

Honest == \A c \in Connects : Past(c) => Strong /\ \A d \in Requests : ~Reports(d)

Kept ==
  /\ Ground
  /\ OneEvent /\ Made /\ Replied /\ Fresh /\ NoneDeferred
  /\ StampFits /\ LogonFits /\ DeathStands
  /\ JarSpared /\ JarSparedOnWire /\ JarSparedInLine
  /\ Honest /\ NoLossForgotten

-------------------------------------------------------------------------------
(* What the kinds of step have in common.                                  *)

Silent(c) == ~Heard(c)' /\ ~Reports(c)' /\ ~Minted(c)' /\ ~Out(c)'

Same(d) ==
  /\ Heard(d)' <=> Heard(d)
  /\ Reports(d)' <=> Reports(d)
  /\ Minted(d)' <=> Minted(d)
  /\ Out(d)' <=> Out(d)
  /\ LoggingOn(d)' <=> LoggingOn(d)
  /\ Past(d)' <=> Past(d)
  /\ Bodily(d)' <=> Bodily(d)

LEMMA StillSame ==
  ASSUME NEW c, Still(c), NEW d \in Callers \ {c}
  PROVE  Same(d) /\ req'[d] = req[d] /\ phase'[d] = phase[d]
<1>1. req'[d] = req[d] /\ phase'[d] = phase[d]
  BY DEF Still
<1> QED
  BY <1>1 DEF Same, Heard, Reports, Minted, Out, LoggingOn, Past, Active, Bodily

LEMMA KindsSilent ==
  ASSUME NEW c \in Callers, Plain(c) \/ Starts(c) \/ Joins(c) \/ Revived(c) \/ Settled(c)
  PROVE  Silent(c)
<1>1. \/ phase'[c] \in {"waiting", "body", "done", "failed", "queued", "awaiting",
                        "loggedOn", "loginFailed"}
      \/ phase'[c] = "answered" /\ req'[c].answer = "refused"
  BY DEF Plain, Starts, Joins, Revived, Settled
<1> QED
  BY <1>1 DEF Silent, Heard, Reports, Minted, Out, Deaths, Resolved

(* Those who have been heard, or are out, without c. *)
Fewer(c) ==
  \A d \in Callers :
    /\ Heard(d)' => d # c /\ Heard(d)
    /\ Reports(d)' => d # c /\ Reports(d)
    /\ Minted(d)' => d # c /\ Minted(d)
    /\ Out(d)' => d # c /\ Out(d)

OthersAsk(c) == \A d \in Callers \ {c} : req'[d] = req[d]

LEMMA SettledFewer ==
  ASSUME NEW c \in Callers, Settled(c)
  PROVE  /\ Fewer(c) /\ req' = req
         /\ \A d \in Callers : LoggingOn(d)' => d # c /\ LoggingOn(d)
<1>1. req' = req
  BY DEF Settled
<1>2. \A d \in Callers : \/ d # c /\ phase'[d] = phase[d]
                         \/ phase'[d] \in {"loggedOn", "loginFailed"}
  BY DEF Settled
<1> QED
  BY <1>1, <1>2 DEF Fewer, Heard, Reports, Minted, Out, LoggingOn

LEMMA KindsFewer ==
  ASSUME NEW c \in Callers, Plain(c) \/ Starts(c) \/ Joins(c) \/ Revived(c) \/ Settled(c)
  PROVE  Fewer(c) /\ OthersAsk(c)
<1>1. CASE Still(c)
  <2>1. Silent(c)
    BY KindsSilent
  <2>2. ASSUME NEW d \in Callers \ {c} PROVE Same(d) /\ req'[d] = req[d]
    BY <1>1, StillSame
  <2> QED
    BY <2>1, <2>2 DEF Fewer, OthersAsk, Silent, Same
<1>2. CASE Settled(c)
  BY <1>2, SettledFewer DEF OthersAsk
<1> QED
  BY <1>1, <1>2 DEF Plain, Starts, Joins, Revived

JarStep(c) ==
  \/ http'.jar \in {http.jar, 0}
  \/ Minted(c) /\ http'.jar = req[c].cookie

ToldStep(c) ==
  told' = told \/ (Reports(c) /\ told' = told \cup {req[c].cookie})

LEMMA LearnsTold ==
  ASSUME NEW c, Learns(c), phase[c] = "answered"
  PROVE  ToldStep(c)
BY DEF Learns, ToldStep, Reports

LEMMA KindsMove ==
  ASSUME Ground, NEW c \in Callers, Kinds(c)
  PROVE  /\ JarStep(c) /\ ToldStep(c)
         /\ conn'.generation \in {conn.generation, conn.generation + 1}
<1>1. CASE Plain(c)
  <2>1. JarStep(c)
    BY <1>1 DEF Plain, TakesIn, JarStep
  <2>2. ToldStep(c)
    BY <1>1, LearnsTold DEF Plain, TakesIn, ToldStep, Heard
  <2> QED
    BY <1>1, <2>1, <2>2 DEF Plain, Darker
<1>2. CASE Settled(c)
  <2>1. JarStep(c) /\ ToldStep(c)
    BY <1>2, LearnsTold DEF Settled, JarStep
  <2> QED
    BY <1>2, <2>1 DEF Settled, Darker
<1>3. CASE Starts(c)
  BY <1>3 DEF Starts, JarStep, ToldStep
<1>4. CASE Joins(c)
  <2>1. conn'.generation \in {conn.generation, conn.generation + 1}
    BY <1>4, LaterFits DEF Joins, Ground
  <2> QED
    BY <1>4, <2>1 DEF Joins, JarStep, ToldStep
<1>5. CASE Dispatched(c) \/ Answered(c) \/ Expired(c) \/ Revived(c)
  BY <1>5 DEF Dispatched, Answered, Expired, Revived, JarStep, ToldStep
<1> QED
  BY <1>1, <1>2, <1>3, <1>4, <1>5 DEF Kinds

-------------------------------------------------------------------------------
(* The parts of the invariant, one by one.                                 *)

LEMMA OneEventKept ==
  ASSUME Kept, NEW c \in Callers, Kinds(c)
  PROVE  OneEvent'
<1>0. NoOne \notin Callers
  BY CallersAssumption
<1>1. CASE Dispatched(c)
  <2>1. Still(c) /\ phase'[c] = "inFlight" /\ http' = http
    BY <1>1 DEF Dispatched
  <2>2. ~Heard(c)'
    BY <2>1 DEF Heard
  <2> QED
    BY <2>1, <2>2, StillSame DEF Kept, OneEvent, Same
<1>2. CASE Answered(c) \/ Expired(c)
  <2>1. Still(c) /\ Quiet /\ phase'[c] = "answered"
    BY <1>2 DEF Answered, Expired
  <2>2. \A d \in Callers \ {c} : ~Heard(d)' /\ phase'[d] # "loggedOn"
    BY <2>1, StillSame DEF Quiet, Heard, Same
  <2> QED
    BY <2>1, <2>2 DEF OneEvent
<1>3. CASE Settled(c)
  <2>1. Fewer(c) /\ http'.by = NoOne
    BY <1>3, KindsFewer DEF Settled
  <2>2. ASSUME NEW d \in Callers, NEW b \in Callers, phase'[d] = "loggedOn" PROVE ~Heard(b)'
    <3>1. CASE phase[d] = "loggedOn"
      BY <2>1, <3>1 DEF Kept, OneEvent, Fewer
    <3>2. CASE phase[d] # "loggedOn"
      <4>1. req[c].answer \in Successes /\ Heard(c)
        BY <1>3, <2>2, <3>2 DEF Settled, Heard, Successes
      <4> QED
        BY <2>1, <4>1 DEF Kept, OneEvent, Fewer
    <3> QED
      BY <3>1, <3>2
  <2> QED
    BY <2>1, <2>2 DEF OneEvent, Kept, Fewer
<1>4. CASE Starts(c)
  <2>1. Fewer(c) /\ Still(c) /\ phase'[c] # "loggedOn"
        /\ \A d \in Callers \ {c} : phase[d] # "loggedOn"
    BY <1>4, KindsFewer DEF Starts
  <2>2. \A d \in Callers : phase'[d] # "loggedOn"
    BY <2>1 DEF Still
  <2> QED
    BY <2>1, <2>2 DEF OneEvent, Kept, Fewer
<1>5. CASE Plain(c) \/ Joins(c) \/ Revived(c)
  <2>1. Fewer(c) /\ Still(c) /\ phase'[c] # "loggedOn" /\ http'.by = http.by
    BY <1>5, KindsFewer DEF Plain, Joins, Revived
  <2>2. \A d \in Callers : phase'[d] = "loggedOn" => phase[d] = "loggedOn"
    BY <2>1 DEF Still
  <2> QED
    BY <2>1, <2>2 DEF OneEvent, Kept, Fewer
<1> QED
  BY <1>1, <1>2, <1>3, <1>4, <1>5 DEF Kinds

LEMMA OneLogonKept ==
  ASSUME Kept, NEW c \in Callers, Kinds(c)
  PROVE  OneLogon'
<1>0. NoOne \notin Callers /\ OneLogon
  BY CallersAssumption DEF Kept, Ground
<1>1. CASE Settled(c)
  <2>1. \A d \in Callers : ~LoggingOn(d)'
    BY <1>0, <1>1, SettledFewer DEF OneLogon, Settled
  <2> QED
    BY <1>0, <1>1, <2>1 DEF Settled, OneLogon
<1>2. CASE Starts(c)
  <2>1. LoggingOn(c)' /\ Still(c) /\ http.by = NoOne /\ http'.by = c
    BY <1>2 DEF Starts, LoggingOn
  <2>2. \A d \in Callers \ {c} : ~LoggingOn(d)'
    BY <1>0, <2>1, StillSame DEF Same, OneLogon
  <2> QED
    BY <2>1, <2>2 DEF OneLogon
<1>3. CASE Dispatched(c) \/ Answered(c) \/ Expired(c) \/ Revived(c) \/ Plain(c) \/ Joins(c)
  <2>1. Still(c) /\ http'.by = http.by /\ (LoggingOn(c)' <=> LoggingOn(c))
    BY <1>3 DEF Dispatched, Answered, Expired, Revived, Plain, Joins, LoggingOn, SameRequest
  <2>2. \A d \in Callers : LoggingOn(d)' <=> LoggingOn(d)
    BY <2>1, StillSame DEF Same
  <2> QED
    BY <1>0, <2>1, <2>2 DEF OneLogon
<1> QED
  BY <1>1, <1>2, <1>3 DEF Kinds

LEMMA UncountedHoldsKept ==
  ASSUME Kept, NEW c \in Callers, Kinds(c)
  PROVE  UncountedHolds'
<1>0. NoOne \notin Callers /\ OneLogon /\ UncountedHolds /\ Connects \subseteq Callers
  BY CallersAssumption DEF Kept, Ground, Callers, Holders
<1>1. CASE Settled(c)
  BY <1>1 DEF Settled, UncountedHolds, Uncounted
<1>2. CASE Starts(c)
  BY <1>2 DEF Starts, UncountedHolds, Uncounted
<1>3. CASE Dispatched(c) \/ Answered(c) \/ Expired(c) \/ Revived(c) \/ Plain(c) \/ Joins(c)
  <2>1. Still(c) /\ http'.by = http.by /\ (http.counted => http'.counted)
    BY <1>3 DEF Dispatched, Answered, Expired, Revived, Plain, Joins
  <2>2. Uncounted' => Uncounted
    BY <2>1 DEF Uncounted
  <2>3. http.by = c => req'[c].goal = req[c].goal
    BY <1>0, <1>3 DEF OneLogon, Dispatched, Answered, Expired, Revived, Plain, Joins,
                      LoggingOn, SameRequest
  <2>4. http.by \in Connects => req'[http.by].goal = req[http.by].goal
    BY <1>0, <2>1, <2>3 DEF Still
  <2> QED
    BY <1>0, <2>1, <2>2, <2>4 DEF UncountedHolds
<1> QED
  BY <1>1, <1>2, <1>3 DEF Kinds

LEMMA GoalFitsKept ==
  ASSUME Kept, NEW c \in Callers, Kinds(c)
  PROVE  GoalFits'
<1>0. GoalFits /\ Connects \subseteq Callers
  BY DEF Kept, Ground, Callers, Holders
<1>1. CASE Settled(c)
  <2>1. \A d \in Callers : Bodily(d)' => Bodily(d)
    BY <1>1 DEF Settled, Bodily
  <2> QED
    BY <1>0, <1>1, <2>1 DEF Settled, GoalFits
<1>2. CASE ~Settled(c)
  <2>1. Still(c)
    BY <1>2 DEF Kinds, Dispatched, Answered, Expired, Revived, Plain, Joins, Starts
  <2>2. ASSUME NEW d \in Connects, d # c, Bodily(d)' PROVE req'[d].goal # "logon"
    BY <1>0, <2>1, <2>2, StillSame DEF Same, GoalFits
  <2>3. ASSUME c \in Connects, Bodily(c)' PROVE req'[c].goal # "logon"
    <3>1. CASE Dispatched(c) \/ Answered(c) \/ Expired(c)
      <4>1. Bodily(c) /\ req'[c].goal = req[c].goal
        BY <2>3, <3>1 DEF Dispatched, Answered, Expired, SameRequest, Bodily
      <4> QED
        BY <1>0, <2>3, <4>1 DEF GoalFits
    <3>2. CASE Starts(c) \/ Joins(c)
      BY <2>3, <3>2 DEF Starts, Joins, Bodily
    <3>3. CASE Revived(c) \/ Plain(c)
      BY <2>3, <3>3 DEF Revived, Plain
    <3> QED
      BY <1>2, <3>1, <3>2, <3>3 DEF Kinds
  <2> QED
    BY <2>2, <2>3 DEF GoalFits
<1> QED
  BY <1>1, <1>2

LEMMA DatedKept ==
  ASSUME Kept, NEW c \in Callers, Kinds(c)
  PROVE  Dated'
<1>0. /\ Dated /\ conn.generation \in Nat /\ \A d \in Callers : req[d].stamp \in Nat
      /\ Typed
  BY TypedIs DEF Kept, Ground, Fit, Conns, Reqs
<1>1. conn'.generation \in {conn.generation, conn.generation + 1}
  BY KindsMove DEF Kept
<1>2. req'[c].stamp \in {req[c].stamp, 0, conn.generation}
  BY DEF Kinds, Dispatched, Answered, Expired, Revived, Plain, Joins, Starts, Settled
<1>3. ASSUME NEW d \in Callers, d # c PROVE req'[d].stamp = req[d].stamp
  BY <1>3 DEF Kinds, Dispatched, Answered, Expired, Revived, Plain, Joins, Starts, Settled,
              Still
<1> QED
  BY <1>0, <1>1, <1>2, <1>3 DEF Dated

LEMMA FitKept ==
  ASSUME Kept, NEW c \in Callers, Kinds(c)
  PROVE  Fit(conn')
<1>0. Fit(conn)
  BY DEF Kept, Ground
<1>1. CASE Joins(c)
  <2>1. CASE conn' = conn
    BY <1>0, <2>1
  <2>2. CASE conn' = Later(conn) /\ c \in Requests /\ Uncounted
             /\ (Reports(c) \/ (conn.death = NoGen /\ conn.deferred = NoGen))
    <3>1. conn.deferred = NoGen
      BY <2>2 DEF Kept, NoneDeferred
    <3> QED
      BY <1>0, <2>2, <3>1, LaterFits
  <2> QED
    BY <1>1, <2>1, <2>2 DEF Joins
<1>2. CASE ~Joins(c)
  BY <1>0, <1>2 DEF Kinds, Dispatched, Answered, Expired, Revived, Plain, Starts, Settled,
                    Darker
<1> QED
  BY <1>1, <1>2

(* Everybody but c keeps the request it has made. *)
LEMMA KindsAside ==
  ASSUME NEW c \in Callers, Kinds(c)
  PROVE  OthersAsk(c)
BY DEF Kinds, Dispatched, Answered, Expired, Revived, Plain, Joins, Starts, Settled,
       Still, OthersAsk

LEMMA MadeKept ==
  ASSUME Kept, NEW c \in Callers, Kinds(c)
  PROVE  Made'
<1>0. /\ Made /\ Replied /\ http.jar \in Nat /\ sap.minted \in Nat /\ told \in SUBSET Nat
      /\ \A d \in Callers : req[d].cookie \in Nat
  BY TypedIs DEF Kept, Ground, Https, Reqs
<1>1. JarStep(c) /\ ToldStep(c) /\ OthersAsk(c)
  BY KindsMove, KindsAside DEF Kept
<1>2. CASE Answered(c)
  <2>1. /\ http' = http /\ told' = told /\ 0 \notin sap'.live
        /\ \/ req'[c].cookie = sap.minted + 1 /\ sap'.minted = sap.minted + 1
           \/ req'[c].cookie = req[c].cookie /\ sap'.minted = sap.minted
    BY <1>0, <1>2 DEF Answered, Made
  <2>2. sap.minted <= sap'.minted /\ req'[c].cookie <= sap'.minted /\ sap'.minted \in Nat
    BY <1>0, <2>1 DEF Made
  <2>3. \A k \in told : k # 0 /\ k \in Nat /\ k <= sap'.minted
    BY <1>0, <2>2 DEF Made
  <2>4. \A d \in Callers : req'[d].cookie <= sap'.minted
    BY <1>0, <1>1, <2>2 DEF Made, OthersAsk
  <2> QED
    BY <1>0, <2>1, <2>2, <2>3, <2>4 DEF Made
<1>3. CASE ~Answered(c)
  <2>1. sap' = sap
    BY <1>3 DEF Kinds, Dispatched, Expired, Revived, Plain, Joins, Starts, Settled
  <2>2. http'.jar <= sap.minted
    BY <1>0, <1>1 DEF Made, JarStep
  <2>3. req'[c].cookie \in {req[c].cookie, 0, http'.jar}
    BY <1>3 DEF Kinds, Dispatched, Expired, Revived, Plain, Joins, Starts, Settled, SameRequest
  <2>4. \A d \in Callers : req'[d].cookie <= sap.minted
    BY <1>0, <1>1, <2>2, <2>3 DEF Made, OthersAsk
  <2>5. \A k \in told' : k # 0 /\ k <= sap.minted
    <3>1. Reports(c) => req[c].cookie # 0 /\ req[c].cookie <= sap.minted
      BY <1>0 DEF Made, Reports, Replied
    <3>2. \A k \in told' : k \in told \/ (Reports(c) /\ k = req[c].cookie)
      BY <1>1 DEF ToldStep
    <3> QED
      BY <1>0, <3>1, <3>2 DEF Made
  <2> QED
    BY <1>0, <2>1, <2>2, <2>4, <2>5 DEF Made
<1> QED
  BY <1>2, <1>3

LEMMA RepliedKept ==
  ASSUME Kept, NEW c \in Callers, Kinds(c)
  PROVE  Replied'
<1>0. Replied /\ 0 \notin sap.live
  BY DEF Kept, Made
<1>1. OthersAsk(c)
  BY KindsAside
<1>2. ASSUME NEW d \in Callers \ {c}, phase'[d] = "answered" PROVE phase[d] = "answered"
  BY <1>2 DEF Kinds, Dispatched, Answered, Expired, Revived, Plain, Joins, Starts, Settled, Still
<1>3. ASSUME phase'[c] = "answered"
      PROVE  /\ req'[c].login => req'[c].answer \in {"new", "newDead", "error", "ceiling", "refused"}
             /\ ~req'[c].login => req'[c].answer # "newDead"
             /\ req'[c].answer \in Deaths => req'[c].cookie # 0
  <2>1. CASE Answered(c)
    <3> DEFINE a == req'[c].answer
    <3>1. sap.minted \in Nat
      BY TypedIs DEF Kept, Ground
    <3>2. /\ req'[c].login = req[c].login
          /\ req[c].login => a \in {"new", "newDead", "error", "ceiling"}
          /\ ~req[c].login => a # "newDead"
      BY <2>1 DEF Answered
    <3>3. a \in Deaths /\ ~req[c].login => req'[c].cookie = req[c].cookie /\ req[c].cookie # 0
      BY <1>0, <2>1 DEF Answered, Deaths, Resolved
    <3>4. a = "newDead" => req'[c].cookie # 0
      BY <2>1, <3>1 DEF Answered
    <3>5. a \in Deaths /\ req[c].login => a = "newDead"
      BY <3>2 DEF Deaths, Resolved
    <3> QED
      BY <3>2, <3>3, <3>4, <3>5
  <2>2. CASE ~Answered(c)
    <3>1. req'[c].answer \in {"refused", "error"}
      BY <1>3, <2>2 DEF Kinds, Dispatched, Expired, Revived, Plain, Joins, Starts, Settled
    <3> QED
      BY <3>1 DEF Deaths, Resolved
  <2> QED
    BY <2>1, <2>2
<1> QED
  BY <1>0, <1>1, <1>2, <1>3 DEF Replied, OthersAsk

LEMMA FreshKept ==
  ASSUME Kept, NEW c \in Callers, Kinds(c)
  PROVE  Fresh'
<1>0. /\ Made /\ Fresh /\ http.jar \in Nat /\ sap.minted \in Nat /\ told \in SUBSET Nat
      /\ \A d \in Callers : req[d].cookie \in Nat
  BY TypedIs DEF Kept, Ground, Https, Reqs
<1>1. JarStep(c) /\ ToldStep(c) /\ OthersAsk(c)
  BY KindsMove, KindsAside DEF Kept
<1>2. CASE Answered(c)
  <2>1. /\ http' = http /\ told' = told /\ Still(c) /\ Quiet
    BY <1>2 DEF Answered
  <2>2. ASSUME Minted(c)'
        PROVE  /\ req'[c].cookie \notin told /\ req'[c].cookie \notin {0, http.jar}
               /\ \A d \in Callers \ {c} : req'[d].cookie # req'[c].cookie
    <3>1. req'[c].cookie = sap.minted + 1
      BY <1>2, <2>2 DEF Answered, Minted
    <3> QED
      BY <1>0, <1>1, <3>1 DEF Made, OthersAsk
  <2>3. \A d \in Callers \ {c} : ~Minted(d)'
    BY <2>1, StillSame DEF Same, Quiet, Minted
  <2> QED
    BY <2>1, <2>2, <2>3 DEF Fresh
<1>3. CASE Dispatched(c) \/ Expired(c)
  <2>1. ~Minted(c)' /\ Still(c) /\ http' = http /\ told' = told
        /\ req'[c].cookie = req[c].cookie
    BY <1>3 DEF Dispatched, Expired, Minted, SameRequest
  <2>2. \A d \in Callers : Minted(d)' => Minted(d)
    BY <2>1, StillSame DEF Same
  <2>3. \A d \in Callers : req'[d].cookie = req[d].cookie
    BY <1>1, <2>1 DEF OthersAsk
  <2> QED
    BY <1>0, <2>1, <2>2, <2>3 DEF Fresh
<1>4. CASE Plain(c) \/ Starts(c) \/ Joins(c) \/ Revived(c) \/ Settled(c)
  <2>1. Fewer(c) /\ req'[c].cookie \in {req[c].cookie, 0, http'.jar}
    BY <1>4, KindsFewer DEF Revived, Plain, Joins, Starts, Settled
  <2>2. SUFFICES ASSUME NEW d \in Callers, Minted(d)'
                 PROVE  /\ req'[d].cookie \notin told' /\ req'[d].cookie \notin {0, http'.jar}
                        /\ \A b \in Callers \ {d} : req'[b].cookie # req'[d].cookie
    BY DEF Fresh
  <2>3. /\ d # c /\ Minted(d) /\ Heard(d) /\ req'[d] = req[d]
    BY <1>1, <2>1, <2>2 DEF Fewer, OthersAsk, Minted, Heard
  <2>4. ~Heard(c)
    BY <2>3 DEF Kept, OneEvent
  <2>5. ~Minted(c) /\ ~Reports(c)
    BY <2>4 DEF Minted, Reports, Heard, Deaths, Resolved
  <2>6. told' = told /\ http'.jar \in {http.jar, 0}
    BY <1>1, <2>5 DEF JarStep, ToldStep
  <2> QED
    BY <1>0, <1>1, <2>1, <2>3, <2>6 DEF Fresh, OthersAsk
<1> QED
  BY <1>2, <1>3, <1>4 DEF Kinds

LEMMA NoneDeferredKept ==
  ASSUME Kept, NEW c \in Callers, Kinds(c)
  PROVE  NoneDeferred'
<1>0. NoneDeferred /\ Requests \subseteq Callers /\ Requests \cap Holders = {}
  BY CallersAssumption DEF Kept, Callers
<1>1. SUFFICES ASSUME Uncounted', conn'.deferred # NoGen, NEW r \in Requests, Reports(r)'
               PROVE  FALSE
  BY DEF NoneDeferred
<1>2. CASE Dispatched(c) \/ Expired(c)
  <2>1. Still(c) /\ http' = http /\ conn' = conn /\ ~Reports(c)'
    BY <1>2 DEF Dispatched, Expired, Reports, Deaths, Resolved
  <2>2. Reports(r)
    BY <1>0, <1>1, <2>1, StillSame DEF Same
  <2> QED
    BY <1>0, <1>1, <2>1, <2>2 DEF NoneDeferred, Uncounted
<1>3. CASE Answered(c)
  <2>1. Still(c) /\ http' = http /\ conn' = conn /\ phase[c] = "inFlight"
    BY <1>3 DEF Answered
  <2>2. http.by \in Holders /\ Uncounted
    BY <1>1, <2>1 DEF Kept, Ground, UncountedHolds, Uncounted
  <2>3. owner = http.by
    BY <2>2 DEF Kept, Ground, OneLogon, Callers, LoggingOn, Serving, Active
  <2>4. r # c
    BY <1>0, <2>1, <2>2, <2>3 DEF Kept, Ground, Serving
  <2>5. Reports(r)
    BY <1>0, <1>1, <2>1, <2>4, StillSame DEF Same
  <2> QED
    BY <1>0, <1>1, <2>1, <2>2, <2>5 DEF NoneDeferred
<1>4. CASE Settled(c)
  BY <1>1, <1>4 DEF Settled, Uncounted
<1>5. CASE Revived(c) \/ Starts(c)
  BY <1>1, <1>5 DEF Revived, Starts
<1>6. CASE Joins(c) \/ Plain(c)
  <2>1. Fewer(c) /\ http'.by = http.by /\ (http.counted => http'.counted)
    BY <1>6, KindsFewer DEF Joins, Plain
  <2>2. Reports(r) /\ r # c /\ Uncounted
    BY <1>0, <1>1, <2>1 DEF Fewer, Uncounted
  <2>3. ~Heard(c)
    BY <1>0, <2>2 DEF Kept, OneEvent, Heard, Reports, Deaths, Resolved
  <2>4. ~Reports(c)
    BY <2>3 DEF Reports, Heard, Deaths, Resolved
  <2>5. conn.deferred # NoGen
    BY <1>1, <1>6, <2>4, LaterFits DEF Joins, Plain, Kept, Ground
  <2> QED
    BY <1>0, <2>2, <2>5 DEF NoneDeferred
<1> QED
  BY <1>2, <1>3, <1>4, <1>5, <1>6 DEF Kinds

(* Nobody minted but c: whoever reports or is out does not carry the       *)
(* session that comes into the jar.                                        *)
LEMMA InJarBefore ==
  ASSUME Kept, NEW c \in Callers, Kinds(c), NEW d \in Callers \ {c}, InJar(d)'
  PROVE  InJar(d) /\ http'.jar = http.jar
<1>1. JarStep(c) /\ req'[d] = req[d] /\ http'.jar # 0 /\ req'[d].cookie = http'.jar
  BY KindsMove, KindsAside DEF Kept, OthersAsk, InJar
<1>2. ~(Minted(c) /\ http'.jar = req[c].cookie)
  BY <1>1 DEF Kept, Fresh
<1>3. http'.jar = http.jar
  BY <1>1, <1>2 DEF JarStep
<1> QED
  BY <1>1, <1>3 DEF InJar

(* A later generation: a request joins the uncounted logon of a hold,      *)
(* which sits in the mutex and is past its own logon if it connects.       *)
LEMMA JoinsLater ==
  ASSUME Kept, NEW c \in Callers, Joins(c), conn' # conn
  PROVE  /\ conn' = Later(conn) /\ conn'.generation = conn.generation + 1
         /\ conn'.death = conn.death /\ conn'.lastRecorded = conn.lastRecorded
         /\ conn'.deferred = NoGen /\ conn.deferred = NoGen
         /\ c \in Requests /\ owner = http.by /\ http.by \in Holders /\ LoggingOn(http.by)
         /\ http.by \in Connects => req[http.by].goal # "logon"
         /\ Reports(c) \/ conn.death = NoGen
<1>1. /\ conn' = Later(conn) /\ c \in Requests /\ Uncounted
      /\ Reports(c) \/ (conn.death = NoGen /\ conn.deferred = NoGen)
  BY DEF Joins
<1>2. /\ conn'.generation = conn.generation + 1
      /\ conn'.death = conn.death /\ conn'.lastRecorded = conn.lastRecorded
      /\ conn'.deferred = conn.deferred
  BY <1>1, LaterFits DEF Kept, Ground
<1>3. conn.deferred = NoGen
  BY <1>1 DEF Kept, NoneDeferred
<1>4. /\ http.by \in Holders /\ LoggingOn(http.by)
      /\ http.by \in Connects => req[http.by].goal # "logon"
  BY <1>1 DEF Kept, Ground, UncountedHolds, OneLogon, Callers
<1>5. owner = http.by
  BY <1>4 DEF LoggingOn, Kept, Ground, Serving, Active
<1> QED
  BY <1>1, <1>2, <1>3, <1>4, <1>5

LEMMA SameGeneration ==
  ASSUME Kept, NEW c \in Callers, Kinds(c), ~Starts(c), Joins(c) => conn' = conn
  PROVE  conn'.generation = conn.generation
BY DEF Kinds, Dispatched, Answered, Expired, Revived, Plain, Joins, Settled, Darker

LEMMA StampFitsKept ==
  ASSUME Kept, NEW c \in Callers, Kinds(c)
  PROVE  StampFits'
<1>0. StampFits
  BY DEF Kept
<1>1. SUFFICES ASSUME NEW d \in Callers, (Out(d) \/ Reports(d))', ~req'[d].login, InJar(d)'
               PROVE  req'[d].stamp = conn'.generation
  BY DEF StampFits
<1>2. CASE Starts(c)
  BY <1>1, <1>2 DEF Starts, InJar
<1>3. CASE Joins(c) /\ conn' # conn
  <2>1. Fewer(c) /\ http'.jar = http.jar /\ http.by # NoOne
    BY <1>3, KindsFewer DEF Joins
  <2>2. d # c /\ (Out(d) \/ Reports(d)) /\ req'[d] = req[d]
    BY <1>1, <2>1, KindsAside DEF Fewer, OthersAsk
  <2>3. owner = http.by /\ http.by \in Holders /\ LoggingOn(http.by)
    BY <1>3, JoinsLater
  <2>4. InJar(d) /\ d # http.by
    BY <1>1, <2>1, <2>2, <2>3 DEF InJar, LoggingOn
  <2>5. CASE d \in Requests
    BY <2>1, <2>2, <2>3, <2>4, <2>5 DEF Kept, JarSpared, Ground, Serving, Out
  <2>6. CASE d \in Holders
    BY <2>2, <2>3, <2>4, <2>6 DEF Kept, Ground, Serving, Active, Out, Reports
  <2> QED
    BY <2>5, <2>6 DEF Callers
<1>4. CASE ~Starts(c) /\ (Joins(c) => conn' = conn)
  <2>1. conn'.generation = conn.generation
    BY <1>4, SameGeneration
  <2>2. CASE d # c
    <3>1. InJar(d) /\ req'[d] = req[d]
      BY <1>1, <2>2, InJarBefore, KindsAside DEF OthersAsk
    <3>2. Out(d) \/ Reports(d)
      BY <1>1, <1>4, <2>2, StillSame, KindsFewer
         DEF Kinds, Same, Fewer, Dispatched, Answered, Expired
    <3> QED
      BY <1>0, <1>1, <2>1, <3>1, <3>2 DEF StampFits
  <2>3. CASE d = c
    <3>1. Dispatched(c) \/ Answered(c)
      BY <1>1, <1>4, <2>3, KindsSilent
         DEF Kinds, Silent, Expired, Out, Reports, Deaths, Resolved
    <3>2. CASE Dispatched(c)
      BY <2>1, <2>3, <3>2 DEF Dispatched
    <3>3. CASE Answered(c)
      <4>1. /\ Out(c) /\ ~req[c].login /\ req'[c].stamp = req[c].stamp /\ http' = http
            /\ Reports(c)'
        BY <1>1, <2>3, <3>3 DEF Answered, Out
      <4>2. req'[c].answer \notin {"new", "newDead"}
        BY <3>3, <4>1 DEF Answered, Reports, Deaths, Resolved
      <4>3. InJar(c)
        BY <1>1, <2>3, <3>3, <4>1, <4>2 DEF Answered, InJar
      <4> QED
        BY <1>0, <2>1, <2>3, <4>1, <4>3 DEF StampFits
    <3> QED
      BY <3>1, <3>2, <3>3
  <2> QED
    BY <2>2, <2>3
<1> QED
  BY <1>2, <1>3, <1>4

(* A logon on the wire or reporting was so before, or leaves just now. *)
LEMMA LoggingOnBefore ==
  ASSUME Kept, NEW c \in Callers, Kinds(c), NEW d \in Callers, Dispatched(c) => d # c,
         LoggingOn(d)', (Out(d) \/ Reports(d))'
  PROVE  /\ LoggingOn(d) /\ (Out(d) \/ Reports(d))
         /\ req'[d].stamp = req[d].stamp /\ req'[d].goal = req[d].goal
         /\ ~Settled(c) /\ ~Starts(c) /\ ~Revived(c) /\ http.by = d
<1>0. NoOne \notin Callers
  BY CallersAssumption
<1>1. http'.by = d
  BY OneLogonKept DEF OneLogon
<1>2. ~Settled(c)
  BY <1>0, <1>1 DEF Settled
<1>3. ~Starts(c)
  <2>1. SUFFICES ASSUME Starts(c) PROVE FALSE
    OBVIOUS
  <2>2. d = c
    BY <1>1, <2>1 DEF Starts
  <2> QED
    BY <2>1, <2>2, KindsSilent DEF Silent
<1>4. ~Revived(c)
  BY <1>0, <1>1 DEF Revived, Kept, OneEvent
<1>5. http.by = d
  BY <1>1, <1>2, <1>3 DEF Kinds, Dispatched, Answered, Expired, Revived, Plain, Joins
<1>6. LoggingOn(d)
  BY <1>5 DEF Kept, Ground, OneLogon
<1>7. CASE d # c
  <2>1. Still(c)
    BY <1>2 DEF Kinds, Dispatched, Answered, Expired, Revived, Plain, Joins, Starts
  <2>2. Same(d) /\ req'[d] = req[d]
    BY <1>7, <2>1, StillSame
  <2> QED
    BY <1>2, <1>3, <1>4, <1>5, <1>6, <2>2 DEF Same
<1>8. CASE d = c
  <2>1. Answered(c)
    BY <1>2, <1>3, <1>4, <1>8, KindsSilent
       DEF Kinds, Silent, Expired, Out, Reports, Deaths, Resolved
  <2> QED
    BY <1>2, <1>3, <1>4, <1>5, <1>6, <1>8, <2>1 DEF Answered, Out
<1> QED
  BY <1>7, <1>8

LEMMA LogonFitsKept ==
  ASSUME Kept, NEW c \in Callers, Kinds(c)
  PROVE  LogonFits'
<1>1. SUFFICES ASSUME NEW d \in Callers, LoggingOn(d)', (Out(d) \/ Reports(d))',
                      d \in Requests \/ (d \in Connects /\ req'[d].goal = "logon")
               PROVE  req'[d].stamp = conn'.generation
  BY DEF LogonFits
<1>2. CASE Dispatched(c) /\ d = c
  BY <1>2 DEF Dispatched
<1>3. CASE ~(Dispatched(c) /\ d = c)
  <2>1. /\ LoggingOn(d) /\ (Out(d) \/ Reports(d))
        /\ req'[d].stamp = req[d].stamp /\ req'[d].goal = req[d].goal
        /\ ~Starts(c) /\ http.by = d
    BY <1>1, <1>3, LoggingOnBefore
  <2>2. req[d].stamp = conn.generation
    BY <1>1, <2>1 DEF Kept, LogonFits
  <2>3. Joins(c) => conn' = conn
    BY <1>1, <2>1, JoinsLater, CallersAssumption
  <2> QED
    BY <2>1, <2>2, <2>3, SameGeneration
<1> QED
  BY <1>2, <1>3

LEMMA DeathStandsKept ==
  ASSUME Kept, NEW c \in Callers, Kinds(c)
  PROVE  DeathStands'
<1>0. /\ Fit(conn) /\ conn.generation \in Nat /\ conn.lastRecorded \in Nat \cup {NoGen}
      /\ \A d \in Callers : req[d].stamp \in Nat /\ req[d].stamp <= conn.generation
  BY TypedIs DEF Kept, Ground, Fit, Conns, Reqs, Dated
<1>1. SUFFICES ASSUME NEW d \in Callers, LoggingOn(d)', (Out(d) \/ Reports(d))',
                      req'[d].stamp <= conn'.lastRecorded
               PROVE  conn'.death # NoGen /\ (d \in Connects => conn'.death = conn'.generation)
  BY DEF DeathStands
<1>2. CASE Dispatched(c) /\ d = c
  <2>1. req'[c].stamp = conn.generation /\ conn' = conn
    BY <1>2 DEF Dispatched
  <2>2. conn.lastRecorded = conn.generation
    BY <1>0, <1>1, <1>2, <2>1 DEF Fit
  <2>3. conn.death = conn.generation /\ conn.generation # NoGen
    BY <1>0, <2>2 DEF Fit
  <2> QED
    BY <2>1, <2>3
<1>3. CASE ~(Dispatched(c) /\ d = c)
  <2>1. /\ LoggingOn(d) /\ (Out(d) \/ Reports(d))
        /\ req'[d].stamp = req[d].stamp /\ req'[d].goal = req[d].goal
        /\ ~Settled(c) /\ ~Starts(c) /\ ~Revived(c) /\ http.by = d
    BY <1>1, <1>3, LoggingOnBefore
  <2>2. CASE Joins(c) /\ conn' # conn
    <3>1. /\ conn'.death = conn.death /\ conn'.lastRecorded = conn.lastRecorded
          /\ d \in Connects => req[d].goal # "logon"
          /\ c \in Requests /\ (Reports(c) \/ conn.death = NoGen)
      BY <2>1, <2>2, JoinsLater
    <3>2. conn.death # NoGen
      BY <1>1, <2>1, <3>1 DEF Kept, DeathStands
    <3>3. d \notin Connects
      <4>1. SUFFICES ASSUME d \in Connects PROVE FALSE
        OBVIOUS
      <4>2. Past(d)
        BY <2>1, <3>1, <4>1 DEF Past, Active, LoggingOn
      <4> QED
        BY <3>1, <3>2, <4>1, <4>2 DEF Kept, Honest
    <3> QED
      BY <3>1, <3>2, <3>3
  <2>3. CASE conn' = conn
    BY <1>1, <2>1, <2>3 DEF Kept, DeathStands
  <2>4. CASE Plain(c)
    <3>1. Darker(conn, conn') /\ conn.generation # NoGen
      BY <1>0, <2>4 DEF Plain
    <3>2. CASE conn'.lastRecorded = conn.lastRecorded
      <4>1. conn.death # NoGen /\ (d \in Connects => conn.death = conn.generation)
        BY <1>1, <2>1, <3>2 DEF Kept, DeathStands
      <4> QED
        BY <3>1, <4>1 DEF Darker
    <3>3. CASE conn'.death = conn.generation
      BY <3>1, <3>3 DEF Darker
    <3> QED
      BY <3>1, <3>2, <3>3 DEF Darker
  <2> QED
    BY <2>1, <2>2, <2>3, <2>4 DEF Kinds, Dispatched, Answered, Expired, Joins
<1> QED
  BY <1>2, <1>3

(* Who reports after a step did so before, but for one just answered. *)
LEMMA ReportsBefore ==
  ASSUME Kept, NEW c \in Callers, Kinds(c), NEW d \in Callers, Reports(d)',
         Answered(c) => d # c
  PROVE  Reports(d) /\ d # c
<1>1. CASE Dispatched(c) \/ Answered(c) \/ Expired(c)
  <2>1. Still(c)
    BY <1>1 DEF Dispatched, Answered, Expired
  <2>2. d # c
    BY <1>1 DEF Dispatched, Expired, Reports, Deaths, Resolved
  <2> QED
    BY <2>1, <2>2, StillSame DEF Same
<1>2. CASE ~(Dispatched(c) \/ Answered(c) \/ Expired(c))
  BY <1>2, KindsFewer DEF Kinds, Fewer
<1> QED
  BY <1>1, <1>2

(* An answer comes in while a logon is under way: not ahead of it.         *)
LEMMA AnsweredAside ==
  ASSUME Kept, NEW c \in Requests, Answered(c), http.by # NoOne, Reports(c)', InJar(c)'
  PROVE  FALSE
<1>0. /\ c \in Callers /\ http' = http /\ http.jar \in Nat /\ sap.minted \in Nat
      /\ http.jar <= sap.minted /\ http.by \in Callers /\ LoggingOn(http.by)
  BY TypedIs DEF Callers, Answered, Kept, Ground, Https, Made, OneLogon
<1>1. req'[c].answer \notin {"new", "newDead"}
  <2>1. req'[c].cookie # sap.minted + 1
    BY <1>0 DEF InJar
  <2> QED
    BY <2>1 DEF Answered
<1>2. ~req[c].login
  BY <1>1 DEF Answered, Reports, Deaths, Resolved
<1>3. http.by # c
  BY <1>0, <1>2 DEF LoggingOn
<1>4. Out(c) /\ InJar(c)
  BY <1>0, <1>1 DEF Answered, InJar, Out
<1>5. phase[http.by] = "queued"
  <2>1. phase[http.by] # "answered"
    BY <1>0 DEF Answered, Quiet
  <2>2. phase[http.by] # "inFlight"
    BY <1>0, <1>3, <1>4 DEF Kept, Ground, Serving, Out
  <2> QED
    BY <1>0, <2>1, <2>2 DEF LoggingOn
<1> QED
  BY <1>4, <1>5 DEF Kept, JarSparedOnWire

LEMMA JarSparedKept ==
  ASSUME Kept, NEW c \in Callers, Kinds(c)
  PROVE  JarSpared'
<1>1. SUFFICES ASSUME http'.by # NoOne, NEW d \in Requests, Reports(d)', InJar(d)'
               PROVE  FALSE
  BY DEF JarSpared
<1>2. d \in Callers
  BY DEF Callers
<1>3. CASE Starts(c) \/ Settled(c)
  BY <1>1, <1>3 DEF Starts, Settled, InJar
<1>4. CASE Answered(c) /\ d = c
  <2>1. http.by # NoOne
    BY <1>1, <1>4 DEF Answered
  <2> QED
    BY <1>1, <1>4, <2>1, AnsweredAside
<1>5. CASE ~(Starts(c) \/ Settled(c)) /\ ~(Answered(c) /\ d = c)
  <2>1. http.by # NoOne
    BY <1>1, <1>5 DEF Kinds, Dispatched, Answered, Expired, Revived, Plain, Joins
  <2>2. Reports(d) /\ d # c
    BY <1>1, <1>2, <1>5, ReportsBefore
  <2>3. InJar(d)
    BY <1>1, <1>2, <2>2, InJarBefore
  <2> QED
    BY <2>1, <2>2, <2>3 DEF Kept, JarSpared
<1> QED
  BY <1>3, <1>4, <1>5

(* A logon that is queued after a step was so before, or starts with it.   *)
LEMMA QueuedBefore ==
  ASSUME Kept, NEW c \in Callers, Kinds(c), http'.by # NoOne, phase'[http'.by] = "queued",
         ~Starts(c)
  PROVE  /\ http'.by = http.by /\ http.by \in Callers /\ http.by # c
         /\ phase[http.by] = "queued" /\ LoggingOn(http.by) /\ Still(c)
<1>1. ~Settled(c)
  BY DEF Settled
<1>2. Still(c) /\ http'.by = http.by
  BY <1>1 DEF Kinds, Dispatched, Answered, Expired, Revived, Plain, Joins
<1>3. http.by \in Callers /\ LoggingOn(http.by)
  BY <1>2, TypedIs DEF Kept, Ground, Https, OneLogon
<1>4. http.by # c
  BY <1>1, <1>2, <1>3 DEF Kinds, Dispatched, Answered, Expired, Revived, Plain, Joins, LoggingOn
<1> QED
  BY <1>2, <1>3, <1>4 DEF Still

LEMMA JarSparedOnWireKept ==
  ASSUME Kept, NEW c \in Callers, Kinds(c)
  PROVE  JarSparedOnWire'
<1>1. SUFFICES ASSUME http'.by # NoOne, phase'[http'.by] = "queued",
                      NEW d \in Requests, Out(d)', InJar(d)'
               PROVE  FALSE
  BY DEF JarSparedOnWire
<1>2. d \in Callers
  BY DEF Callers
<1>3. CASE Starts(c)
  BY <1>1, <1>3 DEF Starts, InJar
<1>4. CASE ~Starts(c)
  <2>1. /\ http'.by = http.by /\ http.by \in Callers /\ http.by # c
        /\ phase[http.by] = "queued" /\ LoggingOn(http.by) /\ Still(c)
    BY <1>1, <1>4, QueuedBefore
  <2>2. CASE d # c
    <3>1. Out(d) /\ InJar(d)
      BY <1>1, <1>2, <2>1, <2>2, StillSame, InJarBefore DEF Same
    <3> QED
      BY <2>1, <3>1, CallersAssumption DEF Kept, JarSparedOnWire
  <2>3. CASE d = c
    <3>1. Dispatched(c)
      BY <1>1, <1>4, <2>1, <2>3, KindsSilent
         DEF Kinds, Silent, Answered, Expired, Out
    <3>2. owner = c /\ phase[c] = "queued" /\ InJar(c)
      BY <1>1, <2>3, <3>1 DEF Dispatched, SameRequest, InJar
    <3>3. http.by \notin Holders
      BY <2>1, <3>2 DEF Kept, Ground, Serving, Active
    <3>4. http.by \in Requests
      BY <2>1, <3>3 DEF Callers
    <3> QED
      BY <1>1, <2>1, <2>3, <3>2, <3>4 DEF Kept, JarSparedInLine, Old
  <2> QED
    BY <2>2, <2>3
<1> QED
  BY <1>3, <1>4

LEMMA JarSparedInLineKept ==
  ASSUME Kept, NEW c \in Callers, Kinds(c), MutexMoves(c)
  PROVE  JarSparedInLine'
<1>0. NoOne \notin Callers /\ Requests \subseteq Callers
  BY CallersAssumption DEF Callers
<1>1. SUFFICES ASSUME http'.by \in Requests, phase'[http'.by] = "queued"
               PROVE  /\ owner' # http'.by => Old(owner)'
                      /\ \A d \in Callers : Ahead(d, http.by)' => Old(d)'
  BY DEF JarSparedInLine
<1>2. CASE Starts(c)
  BY <1>2 DEF Starts, Old, InJar
<1>3. CASE ~Starts(c)
  <2>0. /\ http'.by = http.by /\ http.by \in Callers /\ http.by # c
        /\ phase[http.by] = "queued" /\ LoggingOn(http.by) /\ Still(c)
    BY <1>0, <1>1, <1>3, QueuedBefore
  <2>b. PICK b \in Callers : b = http.by
    BY <2>0
  <2>1. /\ http'.by = b /\ http.by = b /\ b # c
        /\ phase[b] = "queued" /\ LoggingOn(b) /\ Still(c)
    BY <2>0, <2>b
  <2>2. /\ b \in Requests /\ (owner # b => Old(owner))
        /\ \A d \in Callers : Ahead(d, b) => Old(d)
    BY <1>1, <2>1 DEF Kept, JarSparedInLine
  <2>3. b = owner \/ Waits(b)
    BY <2>1, <2>2 DEF Kept, Ground, Serving
  <2>4. ASSUME NEW d \in Callers, d # c, Old(d) PROVE Old(d)'
    <3>1. InJar(d)' => InJar(d)
      BY <2>4, InJarBefore
    <3> QED
      BY <2>1, <2>4, <3>1 DEF Old, Still
  <2>5. Old(c)' \/ (~Waits(c) /\ (c \in Requests => owner # c))
    BY <1>3 DEF Kinds, Dispatched, Answered, Expired, Settled, Revived, Plain, Joins, Old
  <2>6. ASSUME NEW d \in Callers, Ahead(d, b) PROVE Old(d)'
    <3>1. CASE d = c
      BY <2>5, <2>6, <3>1 DEF Ahead, Waits
    <3>2. CASE d # c
      BY <2>2, <2>4, <2>6, <3>2
    <3> QED
      BY <3>1, <3>2
  <2>7. ASSUME NEW d \in Callers, Ahead(d, b)' PROVE Old(d)'
    BY <2>1, <2>6, <2>7 DEF MutexMoves
  <2>8. ASSUME owner' # b PROVE Old(owner)'
    <3>1. CASE owner' = owner
      <4>1. CASE owner \in Callers \ {c}
        BY <2>2, <2>4, <2>8, <3>1, <4>1
      <4>2. CASE owner = c
        BY <2>5, <3>1, <4>2 DEF Old
      <4>3. CASE owner \notin Callers
        BY <1>0, <3>1, <4>3 DEF Old
      <4> QED
        BY <4>1, <4>2, <4>3
    <3>2. CASE owner = NoOne
      BY <1>0, <2>1, <2>3, <3>2 DEF Kept, Ground, Serving, Waits
    <3>3. CASE /\ owner = c
               /\ owner' # NoOne => \A x \in Callers : Waits(x) => x = owner' \/ Ahead(owner', x)
      <4>1. CASE owner' \in Callers
        <5>1. Ahead(owner', b)
          BY <1>0, <2>1, <2>3, <2>8, <3>3, <4>1
        <5> QED
          BY <2>6, <4>1, <5>1
      <4>2. CASE owner' \notin Callers
        BY <1>0, <4>2 DEF Old
      <4> QED
        BY <4>1, <4>2
    <3> QED
      BY <3>1, <3>2, <3>3 DEF MutexMoves
  <2> QED
    BY <2>1, <2>7, <2>8
<1> QED
  BY <1>2, <1>3

-------------------------------------------------------------------------------
(* What a step tells of the session in the jar.                            *)

(* An answer taken in: if the jar's session is now known to be gone, it    *)
(* was before, or it is on record.                                         *)
LEMMA PlainTells ==
  ASSUME Kept, NEW c \in Callers, Plain(c), http'.jar \in told'
  PROVE  \/ http'.jar = http.jar /\ http.jar \in told
         \/ Reports(c) /\ Known(conn') /\ (c \in Holders => KnownNow(conn'))
<1>0. StampFits /\ Replied /\ Fresh
  BY DEF Kept
<1>1. CASE http'.jar = http.jar /\ told' = told
  BY <1>1
<1>2. CASE ~(http'.jar = http.jar /\ told' = told)
  <2>1. /\ Heard(c) /\ Learns(c) /\ phase[c] = "answered" /\ ~req[c].login
        /\ http'.jar = IF Minted(c) THEN req[c].cookie ELSE http.jar
        /\ Reports(c) /\ req[c].stamp = conn.generation
             => Known(conn') /\ (c \in Holders => KnownNow(conn'))
    BY <1>2 DEF Plain, TakesIn, Heard, LoggingOn
  <2>2. ToldStep(c)
    BY <2>1, LearnsTold
  <2>3. CASE Minted(c)
    <3>1. req[c].answer = "new" /\ req[c].cookie \notin told
      BY <1>0, <2>1, <2>3 DEF Replied, Minted, Fresh
    <3>2. ~Reports(c)
      BY <3>1 DEF Reports, Deaths, Resolved
    <3> QED
      BY <2>1, <2>2, <2>3, <3>1, <3>2 DEF ToldStep
  <2>4. CASE ~Minted(c)
    <3>1. http'.jar = http.jar
      BY <2>1, <2>4
    <3>2. CASE Reports(c) /\ http.jar = req[c].cookie
      <4>1. InJar(c)
        BY <1>0, <2>1, <3>2 DEF Replied, Reports, InJar
      <4> QED
        BY <1>0, <2>1, <3>2, <4>1 DEF StampFits
    <3>3. CASE ~(Reports(c) /\ http.jar = req[c].cookie)
      BY <2>2, <3>1, <3>3 DEF ToldStep
    <3> QED
      BY <3>2, <3>3
  <2> QED
    BY <2>3, <2>4
<1> QED
  BY <1>1, <1>2

(* A logon settled.  One that came with its own session's death is stamped *)
(* with this generation, or with one whose death is on record.             *)
LEMMA SettledTells ==
  ASSUME Kept, NEW c \in Callers, Settled(c), http'.jar \in told'
  PROVE  \/ http'.jar = http.jar /\ http.jar \in told /\ req[c].answer \notin Successes
         \/ Known(conn') /\ (c \in Requests \cup Connects => KnownNow(conn'))
<1>0. /\ Replied /\ Fresh /\ LogonFits /\ DeathStands
      /\ LoggingOn(c) /\ phase[c] = "answered" /\ req[c].login /\ Learns(c)
      /\ http'.jar = IF Minted(c) THEN req[c].cookie ELSE http.jar
      /\ Darker(conn, conn')
  BY DEF Kept, Settled, LoggingOn
<1>1. /\ req[c].answer \in {"new", "newDead", "error", "ceiling", "refused"}
      /\ conn.generation \in Nat /\ conn.lastRecorded \in Nat \cup {NoGen}
      /\ req[c].stamp \in Nat /\ req[c].stamp <= conn.generation
  BY <1>0, TypedIs DEF Replied, Kept, Ground, Fit, Conns, Reqs, Dated
<1>2. CASE req[c].answer = "new"
  <2>1. http'.jar \notin told /\ told' = told
    BY <1>0, <1>2 DEF Minted, Fresh, Learns, Deaths, Resolved
  <2> QED
    BY <2>1
<1>3. CASE req[c].answer = "newDead"
  <2>1. Minted(c) /\ Reports(c)
    BY <1>0, <1>3 DEF Minted, Reports, Deaths, Resolved
  <2>2. http'.jar \notin told
    BY <1>0, <2>1 DEF Fresh
  <2>3. ~Anomalous(conn, req[c].stamp)
    BY <1>0, <2>2 DEF Learns
  <2>4. CASE req[c].stamp = conn.generation
    BY <1>3, <2>4 DEF Settled, Known, KnownNow
  <2>5. CASE req[c].stamp # conn.generation
    <3>1. req[c].stamp <= conn.lastRecorded
      BY <1>1, <2>3, <2>5 DEF Anomalous
    <3>2. conn.death # NoGen /\ (c \in Connects => conn.death = conn.generation)
      BY <1>0, <2>1, <3>1 DEF DeathStands
    <3>3. c \notin Requests
      BY <1>0, <2>1, <2>5 DEF LogonFits
    <3> QED
      BY <1>0, <3>2, <3>3 DEF Darker, Known, KnownNow
  <2> QED
    BY <2>4, <2>5
<1>4. CASE req[c].answer \in {"error", "ceiling", "refused"}
  BY <1>0, <1>4 DEF Minted, Learns, Deaths, Resolved, Successes
<1> QED
  BY <1>1, <1>2, <1>3, <1>4

(* A logon that starts, or is revived by, tells nothing of the jar. *)
LEMMA StartsTells ==
  ASSUME Kept, NEW c \in Callers, Starts(c)
  PROVE  http'.jar \notin told'
<1>1. Made'
  BY MadeKept DEF Kinds
<1> QED
  BY <1>1 DEF Made, Starts

LEMMA RevivedTells ==
  ASSUME Kept, NEW c \in Callers, Revived(c)
  PROVE  http'.jar \notin told' /\ \A r \in Requests : ~Reports(r)'
<1>1. Past(c) /\ c \in Connects
  BY DEF Revived, Past, Active
<1>2. Strong /\ \A r \in Requests : ~Reports(r)
  BY <1>1 DEF Kept, Honest
<1>3. http.jar \notin told
  BY <1>2 DEF Revived, Strong
<1>4. \A r \in Requests : ~Reports(r)'
  BY <1>2, KindsFewer DEF Fewer, Callers
<1> QED
  BY <1>3, <1>4 DEF Revived

LEMMA JoinsTells ==
  ASSUME Kept, NEW c \in Callers, Joins(c), http'.jar \in told'
  PROVE  http'.jar = http.jar /\ http.jar \in told
<1>1. CASE told' = told
  BY <1>1 DEF Joins
<1>2. CASE c \in Requests /\ Reports(c) /\ told' = told \cup {req[c].cookie}
  <2>1. ~InJar(c) /\ http'.jar = http.jar
    BY <1>2 DEF Joins, Kept, JarSpared
  <2>2. req[c].cookie # 0
    BY <1>2 DEF Kept, Replied, Reports
  <2>3. req[c].cookie # http.jar
    BY <2>1, <2>2 DEF InJar
  <2> QED
    BY <1>2, <2>1, <2>3
<1> QED
  BY <1>1, <1>2 DEF Joins

LEMMA HonestKept ==
  ASSUME Kept, NEW c \in Callers, Kinds(c)
  PROVE  Honest'
<1>0. Serving /\ Honest /\ Requests \subseteq Callers /\ Connects \subseteq Holders
      /\ Holders \subseteq Callers /\ Requests \cap Holders = {} /\ conn.generation # NoGen
  BY CallersAssumption DEF Kept, Ground, Callers, Holders, Fit, Conns
<1>1. SUFFICES ASSUME NEW d \in Connects, Past(d)'
               PROVE  Strong' /\ \A r \in Requests : ~Reports(r)'
  BY DEF Honest
<1>2. CASE Dispatched(c) \/ Answered(c) \/ Expired(c)
  <2>1. Still(c) /\ UNCHANGED <<http, conn, told>>
    BY <1>2 DEF Dispatched, Answered, Expired
  <2>2. Past(d)
    <3>1. CASE d = c
      BY <1>1, <1>2, <3>1 DEF Dispatched, Answered, Expired, SameRequest, Past, Active
    <3>2. CASE d # c
      BY <1>0, <1>1, <2>1, <3>2, StillSame DEF Same
    <3> QED
      BY <3>1, <3>2
  <2>3. Strong /\ \A r \in Requests : ~Reports(r)
    BY <1>0, <2>2 DEF Honest
  <2>4. ASSUME NEW r \in Requests, Reports(r)' PROVE FALSE
    <3>1. CASE Answered(c) /\ r = c
      <4>1. owner = c /\ owner = d
        BY <1>0, <2>2, <3>1 DEF Answered, Serving, Past
      <4> QED
        BY <1>0, <3>1, <4>1
    <3>2. CASE ~(Answered(c) /\ r = c)
      <4>1. Reports(r)
        BY <1>0, <2>4, <3>2, ReportsBefore
      <4> QED
        BY <2>3, <4>1
    <3> QED
      BY <3>1, <3>2
  <2>5. Strong'
    BY <2>1, <2>3 DEF Strong, KnownNow
  <2> QED
    BY <2>4, <2>5
<1>3. CASE Plain(c)
  <2>1. Past(d)
    <3>1. CASE d = c
      BY <1>1, <1>3, <3>1 DEF Plain
    <3>2. CASE d # c
      BY <1>0, <1>1, <1>3, <3>2, StillSame DEF Same, Plain
    <3> QED
      BY <3>1, <3>2
  <2>2. Strong /\ \A r \in Requests : ~Reports(r)
    BY <1>0, <2>1 DEF Honest
  <2>3. \A r \in Requests : ~Reports(r)'
    BY <1>0, <1>3, <2>2, KindsFewer DEF Fewer
  <2>4. ASSUME http'.jar \in told' PROVE KnownNow(conn')
    <3>1. CASE http'.jar = http.jar /\ http.jar \in told
      BY <1>3, <2>2, <3>1 DEF Strong, Plain, Darker
    <3>2. CASE Reports(c) /\ Known(conn') /\ (c \in Holders => KnownNow(conn'))
      BY <2>2, <3>2 DEF Callers
    <3> QED
      BY <1>3, <2>4, <3>1, <3>2, PlainTells
  <2> QED
    BY <2>3, <2>4 DEF Strong, KnownNow
<1>4. CASE Settled(c)
  <2>1. LoggingOn(c) /\ Darker(conn, conn') /\ Fewer(c) /\ req' = req
    BY <1>4, SettledFewer DEF Settled
  <2>2. Active(d)
    <3>1. d = c \/ phase[d] = "awaiting" \/ phase'[d] = phase[d]
      BY <1>0, <1>4 DEF Settled
    <3> QED
      BY <1>1, <2>1, <3>1 DEF Past, Active, LoggingOn
  <2>3. owner = d /\ (c \in Holders => c = d)
    BY <1>0, <2>1, <2>2 DEF Serving, LoggingOn, Active
  <2>4. c \in Requests \cup Connects
    BY <2>3 DEF Callers
  <2>5. Past(d) \/ req[c].answer \in Successes
    <3>1. CASE req[d].goal # "logon"
      BY <2>2, <3>1 DEF Past
    <3>2. CASE req[d].goal = "logon"
      <4>1. phase'[d] = "loggedOn"
        BY <1>1, <2>1, <3>2 DEF Past
      <4>2. phase[d] = "loggedOn" \/ req[c].answer \in Successes
        BY <1>0, <1>4, <4>1 DEF Settled
      <4> QED
        BY <2>2, <4>2 DEF Past
    <3> QED
      BY <3>1, <3>2
  <2>6. ASSUME NEW r \in Requests, Reports(r)' PROVE FALSE
    <3>1. Reports(r) /\ r # c /\ r \in Callers
      BY <1>0, <2>1, <2>6 DEF Fewer
    <3>2. ~Past(d)
      BY <1>0, <3>1 DEF Honest
    <3>3. Heard(c) /\ Heard(r)
      BY <1>4, <2>5, <3>1, <3>2 DEF Settled, Heard, Reports, Successes, Deaths, Resolved
    <3> QED
      BY <3>1, <3>3 DEF Kept, OneEvent
  <2>7. ASSUME http'.jar \in told' PROVE KnownNow(conn')
    <3>1. CASE http.jar \in told /\ req[c].answer \notin Successes
      <4>1. Strong
        BY <1>0, <2>5, <3>1 DEF Honest
      <4> QED
        BY <2>1, <3>1, <4>1 DEF Strong, Darker
    <3>2. CASE c \in Requests \cup Connects => KnownNow(conn')
      BY <2>4, <3>2
    <3> QED
      BY <1>4, <2>7, <3>1, <3>2, SettledTells
  <2> QED
    BY <2>6, <2>7 DEF Strong, KnownNow
<1>5. CASE Starts(c)
  <2>1. Past(d)
    <3>1. CASE d = c
      <4>1. phase'[c] # "loggedOn"
        BY <1>5 DEF Starts
      <4>2. req'[c].goal # "logon"
        BY <1>1, <3>1, <4>1 DEF Past
      <4> QED
        BY <1>5, <3>1, <4>2 DEF Starts
    <3>2. CASE d # c
      BY <1>0, <1>1, <1>5, <3>2, StillSame DEF Same, Starts
    <3> QED
      BY <3>1, <3>2
  <2>2. \A r \in Requests : ~Reports(r)'
    BY <1>0, <1>5, <2>1, KindsFewer DEF Honest, Fewer
  <2> QED
    BY <1>5, <2>2, StartsTells DEF Strong
<1>6. CASE Joins(c)
  <2>1. Past(d)
    <3>1. CASE d = c
      BY <1>1, <1>6, <3>1 DEF Joins
    <3>2. CASE d # c
      BY <1>0, <1>1, <1>6, <3>2, StillSame DEF Same, Joins
    <3> QED
      BY <3>1, <3>2
  <2>2. Strong /\ \A r \in Requests : ~Reports(r)
    BY <1>0, <2>1 DEF Honest
  <2>3. \A r \in Requests : ~Reports(r)'
    BY <1>0, <1>6, <2>2, KindsFewer DEF Fewer
  <2>4. ASSUME http'.jar \in told' PROVE KnownNow(conn')
    <3>1. KnownNow(conn)
      BY <1>6, <2>2, <2>4, JoinsTells DEF Strong
    <3>2. conn' = conn
      <4>1. SUFFICES ASSUME conn' # conn PROVE FALSE
        OBVIOUS
      <4>2. /\ conn.deferred = NoGen /\ c \in Requests
            /\ Reports(c) \/ conn.death = NoGen
        BY <1>6, <4>1, JoinsLater
      <4>3. conn.death = NoGen
        BY <2>2, <4>2
      <4> QED
        BY <1>0, <3>1, <4>2, <4>3 DEF KnownNow
    <3> QED
      BY <3>1, <3>2 DEF KnownNow
  <2> QED
    BY <2>3, <2>4 DEF Strong, KnownNow
<1>7. CASE Revived(c)
  BY <1>7, RevivedTells DEF Strong
<1> QED
  BY <1>2, <1>3, <1>4, <1>5, <1>6, <1>7 DEF Kinds

LEMMA NoLossKept ==
  ASSUME Kept, NEW c \in Callers, Kinds(c)
  PROVE  NoLossForgotten'
<1>0. NoLossForgotten
  BY DEF Kept
<1>1. SUFFICES ASSUME http'.jar \in told' PROVE Known(conn')
  BY DEF NoLossForgotten, Known
<1>2. http.jar \in told => Known(conn)
  BY <1>0 DEF NoLossForgotten, Known
<1>3. CASE Dispatched(c) \/ Answered(c) \/ Expired(c)
  <2>1. UNCHANGED <<http, conn, told>>
    BY <1>3 DEF Dispatched, Answered, Expired
  <2> QED
    BY <1>1, <1>2, <2>1 DEF Known
<1>4. CASE Plain(c)
  BY <1>1, <1>2, <1>4, PlainTells DEF Plain, Darker
<1>5. CASE Settled(c)
  BY <1>1, <1>2, <1>5, SettledTells DEF Settled, Darker
<1>6. CASE Starts(c) \/ Revived(c)
  BY <1>1, <1>6, StartsTells, RevivedTells
<1>7. CASE Joins(c)
  <2>1. Known(conn)
    BY <1>1, <1>2, <1>7, JoinsTells
  <2>2. conn' = conn \/ (conn'.death = conn.death /\ conn.deferred = NoGen)
    BY <1>7, JoinsLater
  <2> QED
    BY <2>1, <2>2 DEF Known
<1> QED
  BY <1>3, <1>4, <1>5, <1>6, <1>7 DEF Kinds

-------------------------------------------------------------------------------
(* The invariant holds from the start and through every step.              *)

LEMMA KeptInit == Init => Kept
<1> SUFFICES ASSUME Init PROVE Kept
  OBVIOUS
<1>0. NoOne \notin Callers /\ Requests \subseteq Callers /\ Connects \subseteq Callers
  BY CallersAssumption DEF Callers, Holders
<1>1. Typed /\ Serving /\ Lined /\ LossIsTaken
  BY TypedInit, ServingInit, LinedInit, LossTakenInit
<1>2. /\ \A c \in Callers : phase[c] = "idle" /\ req[c].stamp = 0 /\ req[c].cookie = 0
      /\ http.jar = 0 /\ http.by = NoOne
      /\ conn.generation = 0 /\ conn.death = NoGen /\ conn.lastRecorded = NoGen
      /\ conn.deferred = NoGen /\ sap.live = {} /\ sap.minted = 0 /\ told = {}
  BY DEF Init, Blank
<1>3. \A c \in Callers : /\ ~LoggingOn(c) /\ ~Heard(c) /\ ~Reports(c) /\ ~Minted(c)
                         /\ ~Out(c) /\ ~Past(c) /\ ~Bodily(c)
  BY <1>2 DEF LoggingOn, Heard, Reports, Minted, Out, Past, Active, Bodily
<1>4. Fit(conn)
  BY <1>1, <1>2, TypedIs DEF Fit, Sane
<1>5. Ground
  BY <1>0, <1>1, <1>2, <1>3, <1>4
     DEF Ground, OneLogon, UncountedHolds, Uncounted, GoalFits, Dated
<1>6. OneEvent /\ Made /\ Replied /\ Fresh
  BY <1>2, <1>3 DEF OneEvent, Made, Replied, Fresh
<1>7. /\ NoneDeferred /\ StampFits /\ LogonFits /\ DeathStands
      /\ JarSpared /\ JarSparedOnWire /\ JarSparedInLine
  BY <1>0, <1>2, <1>3 DEF NoneDeferred, StampFits, LogonFits, DeathStands, JarSpared,
     JarSparedOnWire, JarSparedInLine
<1>8. Honest /\ NoLossForgotten
  BY <1>0, <1>2, <1>3 DEF Honest, NoLossForgotten
<1> QED
  BY <1>5, <1>6, <1>7, <1>8 DEF Kept

LEMMA KeptSame ==
  ASSUME Kept, UNCHANGED vars
  PROVE  Kept'
<1>1. /\ phase' = phase /\ req' = req /\ http' = http /\ conn' = conn /\ told' = told
      /\ owner' = owner /\ queue' = queue /\ sap' = sap /\ budget' = budget
  BY DEF vars
<1>2. Typed' /\ Serving' /\ Lined' /\ LossIsTaken'
  BY TypedStep, ServingStep, LinedStep, LossTakenStep DEF Kept, Ground
<1>3. \A c \in Callers : /\ LoggingOn(c)' <=> LoggingOn(c)
                         /\ Heard(c)' <=> Heard(c)
                         /\ Reports(c)' <=> Reports(c)
                         /\ Minted(c)' <=> Minted(c)
                         /\ Out(c)' <=> Out(c)
                         /\ Past(c)' <=> Past(c)
                         /\ Bodily(c)' <=> Bodily(c)
                         /\ InJar(c)' <=> InJar(c)
                         /\ Old(c)' <=> Old(c)
  BY <1>1 DEF LoggingOn, Heard, Reports, Minted, Out, Past, Active, Bodily, InJar, Old
<1>4. Ground'
  BY <1>1, <1>2, <1>3
     DEF Kept, Ground, OneLogon, UncountedHolds, Uncounted, GoalFits, Dated, Fit,
         Callers, Holders
<1>5. (OneEvent /\ Made /\ Replied /\ Fresh)'
  BY <1>1, <1>3 DEF Kept, OneEvent, Made, Replied, Fresh
<1>6. (NoneDeferred /\ StampFits /\ LogonFits /\ DeathStands)'
  BY <1>1, <1>3 DEF Kept, NoneDeferred, StampFits, LogonFits, DeathStands, Uncounted, Callers
<1>7. (JarSpared /\ JarSparedOnWire)'
  BY <1>1, <1>3, CallersAssumption DEF Kept, JarSpared, JarSparedOnWire, Callers
<1>8. JarSparedInLine'
  BY <1>1 DEF Kept, JarSparedInLine, Old, InJar, Ahead
<1>9. (Honest /\ NoLossForgotten)'
  BY <1>1, <1>3 DEF Kept, Honest, NoLossForgotten, Strong, KnownNow, Callers, Holders
<1> QED
  BY <1>4, <1>5, <1>6, <1>7, <1>8, <1>9 DEF Kept

LEMMA KeptStep == Kept /\ [Next]_vars => Kept'
<1>1. CASE UNCHANGED vars
  BY <1>1, KeptSame
<1>2. ASSUME Kept, NEW c \in Callers, CallerStep(c) PROVE Kept'
  <2>1. Typed /\ Serving /\ Lined /\ LossIsTaken /\ Next
    BY <1>2 DEF Kept, Ground, Next
  <2>2. Typed' /\ Serving' /\ Lined' /\ LossIsTaken'
    BY <2>1, TypedStep, ServingStep, LinedStep, LossTakenStep
  <2>3. Kinds(c) /\ MutexMoves(c)
    BY <1>2, <2>1, StepKind, StepServes DEF Kept, Served
  <2>4. OneLogon' /\ UncountedHolds' /\ GoalFits' /\ Dated' /\ Fit(conn')
    BY <1>2, <2>3, OneLogonKept, UncountedHoldsKept, GoalFitsKept, DatedKept, FitKept
  <2>5. Ground'
    BY <2>2, <2>4 DEF Ground, Fit
  <2>6. OneEvent' /\ Made' /\ Replied' /\ Fresh' /\ NoneDeferred'
    BY <1>2, <2>3, OneEventKept, MadeKept, RepliedKept, FreshKept, NoneDeferredKept
  <2>7. StampFits' /\ LogonFits' /\ DeathStands'
    BY <1>2, <2>3, StampFitsKept, LogonFitsKept, DeathStandsKept
  <2>8. JarSpared' /\ JarSparedOnWire' /\ JarSparedInLine'
    BY <1>2, <2>3, JarSparedKept, JarSparedOnWireKept, JarSparedInLineKept
  <2>9. Honest' /\ NoLossForgotten'
    BY <1>2, <2>3, HonestKept, NoLossKept
  <2> QED
    BY <2>5, <2>6, <2>7, <2>8, <2>9 DEF Kept
<1> QED
  BY <1>1, <1>2 DEF Next

LEMMA KeptAlways == Spec => []Kept
BY KeptInit, KeptStep, PTL DEF Spec

(* A connect whose hold is left by "done" knew of no loss: those it has    *)
(* been told of are on record when it closes, and nobody else reports.     *)
LEMMA ClosesHonestly ==
  ASSUME Kept, [Next]_vars, NEW d \in Connects, phase[d] = "body", phase'[d] = "done"
  PROVE  http.jar \notin told'
<1>0. d \in Callers /\ d \in Holders /\ d \notin Requests
  BY CallersAssumption DEF Callers, Holders
<1>1. PICK c \in Callers : CallerStep(c)
  BY DEF Next, vars
<1>2. Kinds(c)
  BY <1>1, StepKind DEF Kept
<1>3. d = c
  <2>1. SUFFICES ASSUME d # c PROVE FALSE
    OBVIOUS
  <2>2. phase'[d] = phase[d] \/ phase'[d] \in {"loggedOn", "loginFailed"}
    BY <1>0, <1>2, <2>1 DEF Kinds, Dispatched, Answered, Expired, Revived, Plain, Joins,
                            Starts, Settled, Still
  <2> QED
    BY <2>2
<1>4. ~WireStep(d)
  BY <1>3 DEF WireStep, Dispatch, Answer, TimeOut, SettleLogin, LogonSettles
<1>5. ~HoldStep(d)
  <2>1. SUFFICES ASSUME HoldStep(d) PROVE FALSE
    OBVIOUS
  <2>2. HoldRequest(d)
    BY <2>1 DEF HoldStep, CallHold, ClaimsHold, RefuseHold, HoldRequest, ResumeHold,
                HoldLoginFailed, LibraryRetry, LibraryRetries, SettleHold
  <2>3. phase'[d] \in {"answered", "queued", "awaiting"}
    BY <1>0, <2>2, TypedIs DEF HoldRequest, LogsOn, Sends, Becomes, Kept, Ground
  <2> QED
    BY <2>3
<1>6. ConnectStep(d)
  BY <1>0, <1>1, <1>3, <1>4, <1>5, CallersAssumption DEF CallerStep
<1>7. CloseConnect(d)
  BY <1>6 DEF ConnectStep, AlreadyConnected, BeginConnect, Revive, Revives, DieReviving,
              FailConnect, CloseConnect
<1>8. /\ conn' = ApplyDeferred(conn) /\ told' = told
      /\ phase' = [phase EXCEPT ![d] = IF DeadNow(conn') THEN "failed" ELSE "done"]
  BY <1>7 DEF CloseConnect, Leaves, Finishes, Becomes
<1>9. ~DeadNow(conn')
  BY <1>0, <1>8, TypedIs DEF Kept, Ground
<1>10. ~KnownNow(conn)
  <2>1. SUFFICES ASSUME KnownNow(conn) PROVE FALSE
    OBVIOUS
  <2>2. Fit(conn) /\ conn.generation \in Nat
    BY DEF Kept, Ground, Fit, Conns
  <2>3. conn'.death = conn.generation /\ conn'.generation = conn.generation
    BY <1>8, <2>1, <2>2, ApplyDeferredDarkens DEF Darker
  <2> QED
    BY <1>9, <2>2, <2>3 DEF DeadNow
<1>11. Past(d)
  BY <1>7 DEF CloseConnect, Past, Active
<1> QED
  BY <1>8, <1>10, <1>11 DEF Kept, Honest, Strong

-------------------------------------------------------------------------------
(* The results.                                                            *)

LEMMA TypedAlways == Spec => []Typed
BY TypedInit, TypedStep, PTL DEF Spec

(* The calls, the jar, the mutex and the connection's record keep their    *)
(* types, for any number of callers.                                       *)
THEOREM TypeCorrect == Spec => []TypeOK
BY TypedAlways, PTL DEF Typed

(* However logons, deaths and late reports about older sessions interleave,*)
(* the connection is never dead and connected at once.                     *)
THEOREM DeadIsNotConnected == Spec => []RecordIsSound
BY TypedAlways, PTL DEF Typed, RecordIsSound

(* The recoveries of one request share one logon.                          *)
THEOREM LogonsAreBudgeted == Spec => []OneLogonPerRequest
<1>1. AllFrugal => OneLogonPerRequest
  BY DEF AllFrugal, Frugal, OneLogonPerRequest
<1> QED
  BY <1>1, TypedAlways, FrugalInit, FrugalStep, PTL DEF Spec

(* No loss of the session in use is ever forgotten: while the jar holds a  *)
(* session SAP has reported gone, the death is on record or deferred to    *)
(* the next request, whatever other calls have logged on, recovered, timed *)
(* out or joined in between.                                               *)
THEOREM NoLossIsForgotten == Spec => []NoLossForgotten
BY KeptAlways, PTL DEF Kept

(* connect() never returns a session that was reported gone while it was   *)
(* being probed, by its own probes or by anybody else's request.           *)
THEOREM ConnectsAreHonest == Spec => ConnectIsHonest
<1>1. Kept /\ [Next]_vars =>
        [\A c \in Connects :
           phase[c] = "body" /\ phase'[c] = "done" => http.jar \notin told']_vars
  BY ClosesHonestly
<1> QED
  BY <1>1, KeptAlways, PTL DEF Spec, ConnectIsHonest

===============================================================================
