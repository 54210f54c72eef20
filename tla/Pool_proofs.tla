----------------------------- MODULE Pool_proofs -----------------------------
(***************************************************************************)
(* The safety of the session pool for any number of calls, any limits and  *)
(* any queue length.  The steps of the pool are taken one by one; what is  *)
(* said of each of them is decided by few of its conjuncts.                *)
(***************************************************************************)
EXTENDS Pool, SequenceTheorems, FiniteSetTheorems, TLAPS

----------------------------------------------------------------------------
(* The queue. *)

LEMMA RemoveAtProperties ==
  ASSUME NEW S, NEW s \in Seq(S), NEW i \in 1 .. Len(s)
  PROVE  /\ RemoveAt(s, i) \in Seq(S)
         /\ Len(RemoveAt(s, i)) = Len(s) - 1
         /\ \A j \in 1 .. Len(s) - 1 :
              RemoveAt(s, i)[j] = IF j < i THEN s[j] ELSE s[j + 1]
<1> DEFINE a == SubSeq(s, 1, i - 1)
           b == SubSeq(s, i + 1, Len(s))
<1>0. Len(s) \in Nat /\ \A j \in 1 .. Len(s) : s[j] \in S
  BY LenProperties, ElementOfSeq
<1>1. /\ a \in Seq(S)
      /\ Len(a) = i - 1
      /\ \A j \in 1 .. i - 1 : a[j] = s[j]
  <2>1. \A j \in 1 .. i - 1 : s[j] \in S
    BY <1>0
  <2>2. /\ SubSeq(s, 1, i - 1) \in Seq(S)
        /\ Len(SubSeq(s, 1, i - 1)) = IF 1 <= i - 1 THEN i - 1 - 1 + 1 ELSE 0
        /\ \A j \in 1 .. i - 1 - 1 + 1 : SubSeq(s, 1, i - 1)[j] = s[1 + j - 1]
    BY <2>1, <1>0, SubSeqProperties
  <2> QED BY <2>2, <1>0
<1>2. /\ b \in Seq(S)
      /\ Len(b) = Len(s) - i
      /\ \A j \in 1 .. Len(s) - i : b[j] = s[i + j]
  <2>1. \A j \in i + 1 .. Len(s) : s[j] \in S
    BY <1>0
  <2>2. /\ SubSeq(s, i + 1, Len(s)) \in Seq(S)
        /\ Len(SubSeq(s, i + 1, Len(s)))
             = IF i + 1 <= Len(s) THEN Len(s) - (i + 1) + 1 ELSE 0
        /\ \A j \in 1 .. Len(s) - (i + 1) + 1 :
             SubSeq(s, i + 1, Len(s))[j] = s[i + 1 + j - 1]
    BY <2>1, <1>0, SubSeqProperties
  <2> QED BY <2>2, <1>0
<1> HIDE DEF a, b
<1>3. /\ a \o b \in Seq(S)
      /\ Len(a \o b) = Len(a) + Len(b)
      /\ \A j \in 1 .. Len(a) + Len(b) :
           (a \o b)[j] = IF j <= Len(a) THEN a[j] ELSE b[j - Len(a)]
  BY <1>1, <1>2, ConcatProperties
<1>4. RemoveAt(s, i) = a \o b
  BY DEF RemoveAt, a, b
<1>5. Len(a) + Len(b) = Len(s) - 1
  BY <1>0, <1>1, <1>2
<1>6. ASSUME NEW j \in 1 .. Len(s) - 1
      PROVE  (a \o b)[j] = IF j < i THEN s[j] ELSE s[j + 1]
  <2>1. CASE j < i
    BY <2>1, <1>0, <1>1, <1>3, <1>5
  <2>2. CASE ~(j < i)
    <3>1. (a \o b)[j] = b[j - (i - 1)]
      BY <2>2, <1>0, <1>1, <1>3, <1>5
    <3>2. j - (i - 1) \in 1 .. Len(s) - i /\ i + (j - (i - 1)) = j + 1
      BY <2>2, <1>0
    <3>3. b[j - (i - 1)] = s[i + (j - (i - 1))]
      BY <3>2, <1>2
    <3> QED BY <3>1, <3>2, <3>3, <2>2
  <2> QED BY <2>1, <2>2
<1> QED BY <1>3, <1>4, <1>5, <1>6

(***************************************************************************)
(* A queue q of calls that all wait, each of them once, when p says where  *)
(* the calls stand.                                                        *)
(***************************************************************************)
Waiting(q, p) ==
  /\ \A i \in 1 .. Len(q) : p[q[i]] = "waiting"
  /\ \A i, j \in 1 .. Len(q) : q[i] = q[j] => i = j

LEMMA AppendWaits ==
  ASSUME NEW q \in Seq(Calls), NEW p \in [Calls -> Stages], Waiting(q, p),
         NEW c \in Calls, p[c] # "waiting"
  PROVE  Waiting(Append(q, c), [p EXCEPT ![c] = "waiting"])
<1> DEFINE r == Append(q, c)
<1>1. Len(q) \in Nat /\ \A i \in 1 .. Len(q) : q[i] \in Calls
  BY LenProperties, ElementOfSeq
<1>2. Len(r) = Len(q) + 1 /\ r[Len(q) + 1] = c
  BY AppendProperties
<1>3. \A i \in 1 .. Len(q) : r[i] = q[i]
  BY AppendProperties
<1> HIDE DEF r
<1>4. \A i \in 1 .. Len(q) : q[i] # c
  BY <1>1 DEF Waiting
<1>5. \A i \in 1 .. Len(r) : i \in 1 .. Len(q) \/ i = Len(q) + 1
  BY <1>1, <1>2
<1>6. Waiting(r, [p EXCEPT ![c] = "waiting"])
  BY <1>1, <1>2, <1>3, <1>4, <1>5 DEF Waiting
<1> QED BY <1>6 DEF r

LEMMA TailWaits ==
  ASSUME NEW q \in Seq(Calls), NEW p \in [Calls -> Stages], Waiting(q, p),
         q # <<>>, NEW st \in Stages
  PROVE  Waiting(Tail(q), [p EXCEPT ![Head(q)] = st])
<1> DEFINE r == Tail(q)
           c == Head(q)
<1>1. Len(q) \in Nat /\ \A i \in 1 .. Len(q) : q[i] \in Calls
  BY LenProperties, ElementOfSeq
<1>2. Len(r) = Len(q) - 1 /\ c \in Calls
  BY HeadTailProperties
<1>3. \A i \in 1 .. Len(r) : r[i] = q[i + 1]
  BY HeadTailProperties
<1>4. Len(q) # 0 /\ c = q[1]
  BY EmptySeq, HeadTailProperties
<1> HIDE DEF r, c
<1>5. \A i \in 1 .. Len(r) : i + 1 \in 1 .. Len(q) /\ i + 1 # 1
  BY <1>1, <1>2
<1>6. 1 \in 1 .. Len(q)
  BY <1>1, <1>4
<1>7. \A i \in 1 .. Len(r) : r[i] # c /\ r[i] \in Calls
  BY <1>1, <1>3, <1>4, <1>5, <1>6 DEF Waiting
<1>8. \A i \in 1 .. Len(r) : [p EXCEPT ![c] = st][r[i]] = "waiting"
  BY <1>3, <1>5, <1>7 DEF Waiting
<1>9. \A i, j \in 1 .. Len(r) : r[i] = r[j] => i = j
  BY <1>1, <1>2, <1>3, <1>5 DEF Waiting
<1>10. Waiting(r, [p EXCEPT ![c] = st])
  BY <1>8, <1>9 DEF Waiting
<1> QED BY <1>10 DEF r, c

LEMMA RemoveWaits ==
  ASSUME NEW q \in Seq(Calls), NEW p \in [Calls -> Stages], Waiting(q, p),
         NEW k \in 1 .. Len(q), NEW st \in Stages
  PROVE  Waiting(RemoveAt(q, k), [p EXCEPT ![q[k]] = st])
<1> DEFINE r == RemoveAt(q, k)
           c == q[k]
           from(i) == IF i < k THEN i ELSE i + 1
<1>1. Len(q) \in Nat /\ \A i \in 1 .. Len(q) : q[i] \in Calls
  BY LenProperties, ElementOfSeq
<1>2. /\ Len(r) = Len(q) - 1
      /\ \A i \in 1 .. Len(q) - 1 : r[i] = IF i < k THEN q[i] ELSE q[i + 1]
  BY RemoveAtProperties
<1> HIDE DEF r
<1>3. \A i \in 1 .. Len(r) : from(i) \in 1 .. Len(q) /\ from(i) # k
  BY <1>1, <1>2
<1>4. \A i \in 1 .. Len(r) : r[i] = q[from(i)]
  BY <1>1, <1>2
<1>5. \A i, j \in 1 .. Len(r) : from(i) = from(j) => i = j
  BY <1>1, <1>2
<1> HIDE DEF from
<1>6. \A i \in 1 .. Len(r) : r[i] # c /\ r[i] \in Calls
  BY <1>1, <1>3, <1>4 DEF Waiting
<1>7. \A i \in 1 .. Len(r) : [p EXCEPT ![c] = st][r[i]] = "waiting"
  BY <1>3, <1>4, <1>6 DEF Waiting
<1>8. \A i, j \in 1 .. Len(r) : r[i] = r[j] => i = j
  BY <1>3, <1>4, <1>5 DEF Waiting
<1>9. Waiting(r, [p EXCEPT ![c] = st])
  BY <1>7, <1>8 DEF Waiting
<1> QED BY <1>9 DEF r

----------------------------------------------------------------------------
(***************************************************************************)
(* Types.  Whoever uses a slot has one, and whoever goes round acquire has *)
(* an attempt left.                                                        *)
(***************************************************************************)
Tied == \A c \in Calls : Using(c) => at[c] \in Slots

Trying ==
  \A c \in Calls :
    /\ pc[c] \in {"new", "retry", "waiting", "granted"} =>
         attempts[c] < MaxAttempts
    /\ pc[c] = "running" => attempts[c] = 0

Flags  == closed \in BOOLEAN /\ draining \in BOOLEAN
Counts ==
  /\ attempts \in [Calls -> 0..MaxAttempts] /\ deaths \in 0..MaxDeaths
  /\ prepared \in [Calls -> Nat] /\ runs \in [Calls -> Nat]

Places ==
  /\ slots \subseteq Slots /\ dead \subseteq Slots
  /\ role \in [Slots -> Roles \cup {None}]
  /\ memo \in [Slots -> Memos]
  /\ primary \in Slots
  /\ retrying \in Calls \cup {None}
  /\ pc \in [Calls -> Stages]
  /\ at \in [Calls -> Slots \cup {None}]
  /\ replayed \subseteq Calls /\ released \subseteq Calls

Queue == waiters \in Seq(Calls) /\ Len(waiters) <= MaxQueue

TypeInv == TypeOK /\ Tied /\ Trying /\ Waiting(waiters, pc)

LEMMA TypeParts == TypeOK <=> Flags /\ Counts /\ Places /\ Queue
<1>1. TypeOK => Flags /\ Counts /\ Places /\ Queue
  BY DEF TypeOK, Flags, Counts, Places, Queue
<1>2. Flags /\ Counts /\ Places /\ Queue => TypeOK
  BY DEF TypeOK, Flags, Counts, Places, Queue
<1> QED BY <1>1, <1>2

LEMMA HeadIsCall ==
  ASSUME Queue, waiters # <<>>
  PROVE  /\ Head(waiters) \in Calls
         /\ Tail(waiters) \in Seq(Calls)
         /\ Len(Tail(waiters)) <= MaxQueue
<1>1. /\ Head(waiters) \in Calls
      /\ Tail(waiters) \in Seq(Calls)
      /\ Len(Tail(waiters)) = Len(waiters) - 1
  BY HeadTailProperties DEF Queue
<1>2. Len(waiters) \in Nat /\ MaxQueue \in Nat
  BY LenProperties, PoolAssumption DEF Queue, PoolAssumption
<1> QED BY <1>1, <1>2 DEF Queue

LEMMA HeadWaits ==
  ASSUME Queue, waiters # <<>>, Waiting(waiters, pc)
  PROVE  pc[Head(waiters)] = "waiting"
<1>1. Len(waiters) \in Nat /\ Len(waiters) # 0
  BY LenProperties, EmptySeq DEF Queue
<1>2. Head(waiters) = waiters[1]
  BY HeadTailProperties DEF Queue
<1> QED BY <1>1, <1>2 DEF Waiting

LEMMA FlagStep ==
  ASSUME TypeOK, Next
  PROVE  Flags'
<1> USE DEF TypeOK, Flags, loopVars, FreesSlot

<1>1. CASE StopDraining
  BY <1>1 DEF StopDraining, TakesNone
<1>2. CASE ServeHead
  BY <1>2 DEF ServeHead, Takes
<1>3. CASE RejectHead
  BY <1>3 DEF RejectHead, MintThrows
<1>4. ASSUME NEW c \in Calls, RefuseAtDoor(c) PROVE Flags'
  BY <1>4 DEF RefuseAtDoor, Fails
<1>5. ASSUME NEW c \in Calls, FindClosed(c) PROVE Flags'
  BY <1>5 DEF FindClosed, Fails
<1>6. ASSUME NEW c \in Calls, TakeNow(c) PROVE Flags'
  BY <1>6 DEF TakeNow, Takes, Started
<1>7. ASSUME NEW c \in Calls, TakeThrows(c) PROVE Flags'
  BY <1>7 DEF TakeThrows, MintThrows, Fails
<1>8. ASSUME NEW c \in Calls, Park(c) PROVE Flags'
  BY <1>8 DEF Park, CannotTake, TakesNone
<1>9. ASSUME NEW c \in Calls, ParkRefused(c) PROVE Flags'
  BY <1>9 DEF ParkRefused, CannotTake, TakesNone, Fails
<1>10. ASSUME NEW c \in Calls, Timeout(c) PROVE Flags'
  BY <1>10 DEF Timeout
<1>11. ASSUME NEW c \in Calls, Resume(c) PROVE Flags'
  BY <1>11 DEF Resume, Started
<1>12. ASSUME NEW c \in Calls, PrepareOk(c) PROVE Flags'
  BY <1>12 DEF PrepareOk
<1>13. ASSUME NEW c \in Calls, PrepareAuthFails(c) PROVE Flags'
  BY <1>13 DEF PrepareAuthFails, PreparationFails
<1>14. ASSUME NEW c \in Calls, RetireAndRetry(c) PROVE Flags'
  BY <1>14 DEF RetireAndRetry, Retires, PreparationFails
<1>15. ASSUME NEW c \in Calls, RetireAndFail(c) PROVE Flags'
  BY <1>15 DEF RetireAndFail, Retires, PreparationFails
<1>16. ASSUME NEW c \in Calls, Finish(c) PROVE Flags'
  BY <1>16 DEF Finish
<1>17. ASSUME NEW c \in Calls, Replay(c) PROVE Flags'
  BY <1>17 DEF Replay, SessionDead
<1>18. ASSUME NEW c \in Calls, ThrowDead(c) PROVE Flags'
  BY <1>18 DEF ThrowDead, SessionDead
<1>19. ASSUME NEW c \in Calls, EndDebug(c) PROVE Flags'
  BY <1>19 DEF EndDebug
<1>20. ASSUME NEW s \in Slots, DiesIdle(s) PROVE Flags'
  BY <1>20 DEF DiesIdle, Dies
<1>21. ASSUME NEW s \in Slots, DiesInUse(s) PROVE Flags'
  BY <1>21 DEF DiesInUse, Dies
<1>22. ASSUME NEW s \in Slots, DiesUnderDebug(s) PROVE Flags'
  BY <1>22 DEF DiesUnderDebug, Dies
<1>23. CASE SeatIdle
  BY <1>23 DEF SeatIdle, Reseats
<1>24. CASE SeatMinted
  BY <1>24 DEF SeatMinted, Reseats, SeatMints
<1>25. CASE SeatNobody
  BY <1>25 DEF SeatNobody, Reseats
<1>26. CASE SeatShared
  BY <1>26 DEF SeatShared, Reseats
<1>27. CASE Shutdown
  BY <1>27 DEF Shutdown, Closes
<1>28. CASE Dispose
  BY <1>28 DEF Dispose, Closes
<1> QED BY <1>1, <1>2, <1>3, <1>4, <1>5, <1>6, <1>7, <1>8, <1>9, <1>10, <1>11,
    <1>12, <1>13, <1>14, <1>15, <1>16, <1>17, <1>18, <1>19, <1>20, <1>21,
    <1>22, <1>23, <1>24, <1>25, <1>26, <1>27, <1>28 DEF Next, Handoff, Acquire,
    CallStep, Primary

LEMMA PlaceStep ==
  ASSUME Places, Queue, Tied, Next
  PROVE  Places' /\ Tied'
<1> USE PoolAssumption DEF PoolAssumption, Kinds, Roles, Memos, Stages, RoleOf
<1> USE DEF Places, Tied, Using, Memo, Swept, Sweeps, FitIn, IdleIn, Evictable,
            Fresh, Mints, Ends, FreesSlot, loopVars, slotVars, callVars

<1>1. CASE StopDraining
  BY <1>1 DEF StopDraining, TakesNone
<1>2. CASE ServeHead
  <2>1. Head(waiters) \in Calls
    BY <1>2, HeadIsCall DEF ServeHead
  <2> QED BY <1>2, <2>1 DEF ServeHead, Takes
<1>3. CASE RejectHead
  <2>1. Head(waiters) \in Calls
    BY <1>3, HeadIsCall DEF RejectHead
  <2> QED BY <1>3, <2>1 DEF RejectHead, MintThrows
<1>4. ASSUME NEW c \in Calls, RefuseAtDoor(c) PROVE Places' /\ Tied'
  BY <1>4 DEF RefuseAtDoor, Fails
<1>5. ASSUME NEW c \in Calls, FindClosed(c) PROVE Places' /\ Tied'
  BY <1>5 DEF FindClosed, Fails
<1>6. ASSUME NEW c \in Calls, TakeNow(c) PROVE Places' /\ Tied'
  BY <1>6 DEF TakeNow, Takes, Started
<1>7. ASSUME NEW c \in Calls, TakeThrows(c) PROVE Places' /\ Tied'
  BY <1>7 DEF TakeThrows, MintThrows, Fails
<1>8. ASSUME NEW c \in Calls, Park(c) PROVE Places' /\ Tied'
  BY <1>8 DEF Park, CannotTake, TakesNone
<1>9. ASSUME NEW c \in Calls, ParkRefused(c) PROVE Places' /\ Tied'
  BY <1>9 DEF ParkRefused, CannotTake, TakesNone, Fails
<1>10. ASSUME NEW c \in Calls, Timeout(c) PROVE Places' /\ Tied'
  BY <1>10 DEF Timeout
<1>11. ASSUME NEW c \in Calls, Resume(c) PROVE Places' /\ Tied'
  BY <1>11 DEF Resume, Started
<1>12. ASSUME NEW c \in Calls, PrepareOk(c) PROVE Places' /\ Tied'
  BY <1>12 DEF PrepareOk
<1>13. ASSUME NEW c \in Calls, PrepareAuthFails(c) PROVE Places' /\ Tied'
  BY <1>13 DEF PrepareAuthFails, PreparationFails
<1>14. ASSUME NEW c \in Calls, RetireAndRetry(c) PROVE Places' /\ Tied'
  BY <1>14 DEF RetireAndRetry, Retires, PreparationFails
<1>15. ASSUME NEW c \in Calls, RetireAndFail(c) PROVE Places' /\ Tied'
  BY <1>15 DEF RetireAndFail, Retires, PreparationFails
<1>16. ASSUME NEW c \in Calls, Finish(c) PROVE Places' /\ Tied'
  BY <1>16 DEF Finish
<1>17. ASSUME NEW c \in Calls, Replay(c) PROVE Places' /\ Tied'
  BY <1>17 DEF Replay, SessionDead
<1>18. ASSUME NEW c \in Calls, ThrowDead(c) PROVE Places' /\ Tied'
  BY <1>18 DEF ThrowDead, SessionDead
<1>19. ASSUME NEW c \in Calls, EndDebug(c) PROVE Places' /\ Tied'
  BY <1>19 DEF EndDebug
<1>20. ASSUME NEW s \in Slots, DiesIdle(s) PROVE Places' /\ Tied'
  BY <1>20 DEF DiesIdle, Dies
<1>21. ASSUME NEW s \in Slots, DiesInUse(s) PROVE Places' /\ Tied'
  BY <1>21 DEF DiesInUse, Dies
<1>22. ASSUME NEW s \in Slots, DiesUnderDebug(s) PROVE Places' /\ Tied'
  BY <1>22 DEF DiesUnderDebug, Dies
<1>23. CASE SeatIdle
  BY <1>23 DEF SeatIdle, Reseats
<1>24. CASE SeatMinted
  BY <1>24 DEF SeatMinted, Reseats, SeatMints
<1>25. CASE SeatNobody
  BY <1>25 DEF SeatNobody, Reseats
<1>26. CASE SeatShared
  BY <1>26 DEF SeatShared, Reseats
<1>27. CASE Shutdown
  BY <1>27 DEF Shutdown, Closes
<1>28. CASE Dispose
  BY <1>28 DEF Dispose, Closes
<1> QED BY <1>1, <1>2, <1>3, <1>4, <1>5, <1>6, <1>7, <1>8, <1>9, <1>10, <1>11,
    <1>12, <1>13, <1>14, <1>15, <1>16, <1>17, <1>18, <1>19, <1>20, <1>21,
    <1>22, <1>23, <1>24, <1>25, <1>26, <1>27, <1>28 DEF Next, Handoff, Acquire,
    CallStep, Primary

LEMMA CountStep ==
  ASSUME Places, Queue, Counts, Trying, Waiting(waiters, pc), Next
  PROVE  Counts' /\ Trying'
<1> USE PoolAssumption DEF PoolAssumption, Stages, Places, Counts, Trying, Ends,
                           AtLoopTop, callVars

<1>1. CASE StopDraining
  BY <1>1 DEF StopDraining, TakesNone
<1>2. CASE ServeHead
  <2>1. Head(waiters) \in Calls /\ pc[Head(waiters)] = "waiting"
    BY <1>2, HeadIsCall, HeadWaits DEF ServeHead
  <2> QED BY <1>2, <2>1 DEF ServeHead
<1>3. CASE RejectHead
  <2>1. Head(waiters) \in Calls /\ pc[Head(waiters)] = "waiting"
    BY <1>3, HeadIsCall, HeadWaits DEF RejectHead
  <2> QED BY <1>3, <2>1 DEF RejectHead
<1>4. ASSUME NEW c \in Calls, RefuseAtDoor(c) PROVE Counts' /\ Trying'
  BY <1>4 DEF RefuseAtDoor, Fails
<1>5. ASSUME NEW c \in Calls, FindClosed(c) PROVE Counts' /\ Trying'
  BY <1>5 DEF FindClosed, Fails
<1>6. ASSUME NEW c \in Calls, TakeNow(c) PROVE Counts' /\ Trying'
  BY <1>6 DEF TakeNow, Takes, Started
<1>7. ASSUME NEW c \in Calls, TakeThrows(c) PROVE Counts' /\ Trying'
  BY <1>7 DEF TakeThrows, MintThrows, Fails
<1>8. ASSUME NEW c \in Calls, Park(c) PROVE Counts' /\ Trying'
  BY <1>8 DEF Park, CannotTake, TakesNone
<1>9. ASSUME NEW c \in Calls, ParkRefused(c) PROVE Counts' /\ Trying'
  BY <1>9 DEF ParkRefused, CannotTake, TakesNone, Fails
<1>10. ASSUME NEW c \in Calls, Timeout(c) PROVE Counts' /\ Trying'
  BY <1>10 DEF Timeout
<1>11. ASSUME NEW c \in Calls, Resume(c) PROVE Counts' /\ Trying'
  BY <1>11 DEF Resume, Started
<1>12. ASSUME NEW c \in Calls, PrepareOk(c) PROVE Counts' /\ Trying'
  BY <1>12 DEF PrepareOk
<1>13. ASSUME NEW c \in Calls, PrepareAuthFails(c) PROVE Counts' /\ Trying'
  BY <1>13 DEF PrepareAuthFails, PreparationFails
<1>14. ASSUME NEW c \in Calls, RetireAndRetry(c) PROVE Counts' /\ Trying'
  BY <1>14 DEF RetireAndRetry, Retires, PreparationFails, AttemptsLeft
<1>15. ASSUME NEW c \in Calls, RetireAndFail(c) PROVE Counts' /\ Trying'
  BY <1>15 DEF RetireAndFail, Retires, PreparationFails
<1>16. ASSUME NEW c \in Calls, Finish(c) PROVE Counts' /\ Trying'
  BY <1>16 DEF Finish
<1>17. ASSUME NEW c \in Calls, Replay(c) PROVE Counts' /\ Trying'
  BY <1>17 DEF Replay, SessionDead
<1>18. ASSUME NEW c \in Calls, ThrowDead(c) PROVE Counts' /\ Trying'
  BY <1>18 DEF ThrowDead, SessionDead
<1>19. ASSUME NEW c \in Calls, EndDebug(c) PROVE Counts' /\ Trying'
  BY <1>19 DEF EndDebug
<1>20. ASSUME NEW s \in Slots, DiesIdle(s) PROVE Counts' /\ Trying'
  BY <1>20 DEF DiesIdle, Dies
<1>21. ASSUME NEW s \in Slots, DiesInUse(s) PROVE Counts' /\ Trying'
  BY <1>21 DEF DiesInUse, Dies
<1>22. ASSUME NEW s \in Slots, DiesUnderDebug(s) PROVE Counts' /\ Trying'
  BY <1>22 DEF DiesUnderDebug, Dies
<1>23. CASE SeatIdle
  BY <1>23 DEF SeatIdle, Reseats
<1>24. CASE SeatMinted
  BY <1>24 DEF SeatMinted, Reseats, SeatMints
<1>25. CASE SeatNobody
  BY <1>25 DEF SeatNobody, Reseats
<1>26. CASE SeatShared
  BY <1>26 DEF SeatShared, Reseats
<1>27. CASE Shutdown
  BY <1>27 DEF Shutdown, Closes
<1>28. CASE Dispose
  BY <1>28 DEF Dispose, Closes
<1> QED BY <1>1, <1>2, <1>3, <1>4, <1>5, <1>6, <1>7, <1>8, <1>9, <1>10, <1>11,
    <1>12, <1>13, <1>14, <1>15, <1>16, <1>17, <1>18, <1>19, <1>20, <1>21,
    <1>22, <1>23, <1>24, <1>25, <1>26, <1>27, <1>28 DEF Next, Handoff, Acquire,
    CallStep, Primary

LEMMA QueueStep ==
  ASSUME Places, Queue, Waiting(waiters, pc), Next
  PROVE  Queue' /\ Waiting(waiters, pc)'
<1>0. \A i \in 1 .. Len(waiters) : waiters[i] \in Calls
  BY ElementOfSeq DEF Queue
<1> USE <1>0 DEF Places, Queue, Waiting, Stages, Ends, AtLoopTop, callVars

<1>1. CASE StopDraining
  BY <1>1 DEF StopDraining, TakesNone
<1>2. CASE ServeHead
  <2>1. waiters # <<>> /\ waiters' = Tail(waiters)
    BY <1>2 DEF ServeHead
  <2>2. pc' = [pc EXCEPT ![Head(waiters)] = "granted"]
    BY <1>2 DEF ServeHead, Ends
  <2>3. Queue'
    BY <2>1, HeadIsCall DEF Queue
  <2>4. Waiting(Tail(waiters), [pc EXCEPT ![Head(waiters)] = "granted"])
    BY <2>1, TailWaits DEF Queue, Places, Stages
  <2> QED BY <2>1, <2>2, <2>3, <2>4 DEF Waiting
<1>3. CASE RejectHead
  <2>1. waiters # <<>> /\ waiters' = Tail(waiters)
    BY <1>3 DEF RejectHead
  <2>2. pc' = [pc EXCEPT ![Head(waiters)] = "over"]
    BY <1>3 DEF RejectHead, Ends
  <2>3. Queue'
    BY <2>1, HeadIsCall DEF Queue
  <2>4. Waiting(Tail(waiters), [pc EXCEPT ![Head(waiters)] = "over"])
    BY <2>1, TailWaits DEF Queue, Places, Stages
  <2> QED BY <2>1, <2>2, <2>3, <2>4 DEF Waiting
<1>4. ASSUME NEW c \in Calls, RefuseAtDoor(c) PROVE Queue' /\ Waiting(waiters, pc)'
  BY <1>4 DEF RefuseAtDoor, Fails
<1>5. ASSUME NEW c \in Calls, FindClosed(c) PROVE Queue' /\ Waiting(waiters, pc)'
  BY <1>5 DEF FindClosed, Fails
<1>6. ASSUME NEW c \in Calls, TakeNow(c) PROVE Queue' /\ Waiting(waiters, pc)'
  BY <1>6 DEF TakeNow, Takes, Started
<1>7. ASSUME NEW c \in Calls, TakeThrows(c) PROVE Queue' /\ Waiting(waiters, pc)'
  BY <1>7 DEF TakeThrows, MintThrows, Fails
<1>8. ASSUME NEW c \in Calls, Park(c) PROVE Queue' /\ Waiting(waiters, pc)'
  <2>1. /\ waiters' = Append(waiters, c) /\ Len(waiters) < MaxQueue
        /\ pc[c] # "waiting" /\ pc' = [pc EXCEPT ![c] = "waiting"]
    BY <1>8 DEF Park, MayPark, CannotTake, AtLoopTop
  <2>2. Append(waiters, c) \in Seq(Calls) /\ Len(waiters) \in Nat
    BY AppendProperties, LenProperties DEF Queue
  <2>3. Len(Append(waiters, c)) = Len(waiters) + 1
    BY AppendProperties DEF Queue
  <2>4. Queue'
    BY <2>1, <2>2, <2>3, PoolAssumption DEF Queue, PoolAssumption
  <2>5. Waiting(Append(waiters, c), [pc EXCEPT ![c] = "waiting"])
    BY <2>1, AppendWaits DEF Queue, Places
  <2> QED BY <2>1, <2>4, <2>5 DEF Waiting
<1>9. ASSUME NEW c \in Calls, ParkRefused(c) PROVE Queue' /\ Waiting(waiters, pc)'
  BY <1>9 DEF ParkRefused, CannotTake, TakesNone, Fails
<1>10. ASSUME NEW c \in Calls, Timeout(c) PROVE Queue' /\ Waiting(waiters, pc)'
  <2>1. PICK i \in 1 .. Len(waiters) :
               waiters[i] = c /\ waiters' = RemoveAt(waiters, i)
    BY <1>10, LenProperties DEF Timeout, Queue
  <2>2. pc' = [pc EXCEPT ![c] = "over"]
    BY <1>10 DEF Timeout, Ends
  <2>3. /\ RemoveAt(waiters, i) \in Seq(Calls)
        /\ Len(RemoveAt(waiters, i)) = Len(waiters) - 1
    BY RemoveAtProperties DEF Queue
  <2>4. Len(waiters) \in Nat /\ MaxQueue \in Nat
    BY LenProperties, PoolAssumption DEF Queue, PoolAssumption
  <2>5. Queue'
    BY <2>1, <2>3, <2>4 DEF Queue
  <2>6. Waiting(RemoveAt(waiters, i), [pc EXCEPT ![waiters[i]] = "over"])
    BY RemoveWaits DEF Queue, Places, Stages
  <2> QED BY <2>1, <2>2, <2>5, <2>6 DEF Waiting
<1>11. ASSUME NEW c \in Calls, Resume(c) PROVE Queue' /\ Waiting(waiters, pc)'
  BY <1>11 DEF Resume, Started
<1>12. ASSUME NEW c \in Calls, PrepareOk(c) PROVE Queue' /\ Waiting(waiters, pc)'
  BY <1>12 DEF PrepareOk
<1>13. ASSUME NEW c \in Calls, PrepareAuthFails(c) PROVE Queue' /\ Waiting(waiters, pc)'
  BY <1>13 DEF PrepareAuthFails, PreparationFails
<1>14. ASSUME NEW c \in Calls, RetireAndRetry(c) PROVE Queue' /\ Waiting(waiters, pc)'
  BY <1>14 DEF RetireAndRetry, Retires, PreparationFails
<1>15. ASSUME NEW c \in Calls, RetireAndFail(c) PROVE Queue' /\ Waiting(waiters, pc)'
  BY <1>15 DEF RetireAndFail, Retires, PreparationFails
<1>16. ASSUME NEW c \in Calls, Finish(c) PROVE Queue' /\ Waiting(waiters, pc)'
  BY <1>16 DEF Finish
<1>17. ASSUME NEW c \in Calls, Replay(c) PROVE Queue' /\ Waiting(waiters, pc)'
  BY <1>17 DEF Replay, SessionDead
<1>18. ASSUME NEW c \in Calls, ThrowDead(c) PROVE Queue' /\ Waiting(waiters, pc)'
  BY <1>18 DEF ThrowDead, SessionDead
<1>19. ASSUME NEW c \in Calls, EndDebug(c) PROVE Queue' /\ Waiting(waiters, pc)'
  BY <1>19 DEF EndDebug
<1>20. ASSUME NEW s \in Slots, DiesIdle(s) PROVE Queue' /\ Waiting(waiters, pc)'
  BY <1>20 DEF DiesIdle, Dies
<1>21. ASSUME NEW s \in Slots, DiesInUse(s) PROVE Queue' /\ Waiting(waiters, pc)'
  BY <1>21 DEF DiesInUse, Dies
<1>22. ASSUME NEW s \in Slots, DiesUnderDebug(s) PROVE Queue' /\ Waiting(waiters, pc)'
  BY <1>22 DEF DiesUnderDebug, Dies
<1>23. CASE SeatIdle
  BY <1>23 DEF SeatIdle, Reseats
<1>24. CASE SeatMinted
  BY <1>24 DEF SeatMinted, Reseats, SeatMints
<1>25. CASE SeatNobody
  BY <1>25 DEF SeatNobody, Reseats
<1>26. CASE SeatShared
  BY <1>26 DEF SeatShared, Reseats
<1>27. CASE Shutdown
  <2>1. waiters' = <<>>
    BY <1>27 DEF Shutdown, Closes
  <2>2. Queue'
    BY <2>1, EmptySeq, PoolAssumption DEF Queue, PoolAssumption
  <2> QED BY <2>1, <2>2, EmptySeq DEF Waiting
<1>28. CASE Dispose
  <2>1. waiters' = <<>>
    BY <1>28 DEF Dispose, Closes
  <2>2. Queue'
    BY <2>1, EmptySeq, PoolAssumption DEF Queue, PoolAssumption
  <2> QED BY <2>1, <2>2, EmptySeq DEF Waiting
<1> QED BY <1>1, <1>2, <1>3, <1>4, <1>5, <1>6, <1>7, <1>8, <1>9, <1>10, <1>11,
    <1>12, <1>13, <1>14, <1>15, <1>16, <1>17, <1>18, <1>19, <1>20, <1>21,
    <1>22, <1>23, <1>24, <1>25, <1>26, <1>27, <1>28 DEF Next, Handoff, Acquire,
    CallStep, Primary

LEMMA TypeInit == Init => TypeInv
<1> SUFFICES ASSUME Init PROVE TypeInv
  OBVIOUS
<1>1. Flags
  BY DEF Init, Flags
<1>2. Counts /\ Trying
  BY PoolAssumption DEF Init, Counts, Trying, PoolAssumption
<1>3. Places /\ Tied
  BY PoolAssumption
  DEF Init, Places, Tied, Using, Roles, Memos, Stages, PoolAssumption
<1>4. Queue /\ Waiting(waiters, pc)
  BY EmptySeq, PoolAssumption DEF Init, Queue, Waiting, PoolAssumption
<1> QED BY <1>1, <1>2, <1>3, <1>4, TypeParts DEF TypeInv

LEMMA TypeStep ==
  ASSUME TypeInv, [Next]_vars
  PROVE  TypeInv'
<1> USE TypeParts DEF TypeInv
<1>1. CASE Next
  <2>1. Flags' /\ Places' /\ Tied'
    BY <1>1, FlagStep, PlaceStep
  <2>2. Counts' /\ Trying' /\ Queue' /\ Waiting(waiters, pc)'
    BY <1>1, CountStep, QueueStep
  <2> QED BY <2>1, <2>2 DEF Flags, Counts, Places, Queue, TypeOK
<1>2. CASE UNCHANGED vars
  BY <1>2 DEF vars, slotVars, loopVars, callVars, TypeOK, Tied, Using, Trying,
              Waiting
<1> QED BY <1>1, <1>2

(***************************************************************************)
(* Every variable keeps its type.  In particular no acquire prepares more  *)
(* than MAX_PREPARE_ATTEMPTS sessions, replayed or not, and the queue      *)
(* stays within its limit.                                                 *)
(***************************************************************************)
THEOREM TypeCorrect == Spec => []TypeOK
<1>1. Spec => []TypeInv
  BY TypeInit, TypeStep, PTL DEF Spec
<1> QED BY <1>1, PTL DEF TypeInv

----------------------------------------------------------------------------
(***************************************************************************)
(* Leases.                                                                 *)
(***************************************************************************)
(* A try that takes nothing may have swept the idle slots. *)
Looks ==
  /\ role' = role
  /\ \/ slots' = slots /\ dead' = dead
     \/ \E E \in SUBSET Evictable : Sweeps(E)

LEMMA NoneTaken ==
  ASSUME NEW r, NEW E \in SUBSET Evictable, TakesNone(r, E)
  PROVE  Looks
BY DEF TakesNone, Looks

LEMMA CannotTakeLooks ==
  ASSUME NEW c \in Calls, CannotTake(c)
  PROVE  Looks
BY NoneTaken DEF CannotTake, Looks

LEMMA StopLooks ==
  ASSUME StopDraining
  PROVE  Looks /\ UNCHANGED <<closed, waiters, pc, at>>
BY NoneTaken DEF StopDraining, Looks, callVars

LEMMA LeaseStep ==
  ASSUME Places, Queue, Tied, LeaseIsKept, Next
  PROVE  LeaseIsKept'
<1> USE PoolAssumption DEF PoolAssumption, Kinds, Roles, Stages, RoleOf
<1> USE DEF Places, Tied, Using, LeaseIsKept, Busy, Held, Swept, Sweeps, FitIn,
            IdleIn, Evictable, Fresh, Mints, Ends, FreesSlot, loopVars, slotVars,
            callVars

<1>1. CASE StopDraining
  BY <1>1, StopLooks DEF Looks
<1>2. CASE ServeHead
  <2>1. Head(waiters) \in Calls
    BY <1>2, HeadIsCall DEF ServeHead
  <2> QED BY <1>2, <2>1 DEF ServeHead, Takes
<1>3. CASE RejectHead
  <2>1. Head(waiters) \in Calls
    BY <1>3, HeadIsCall DEF RejectHead
  <2> QED BY <1>3, <2>1 DEF RejectHead, MintThrows
<1>4. ASSUME NEW c \in Calls, RefuseAtDoor(c) PROVE LeaseIsKept'
  BY <1>4 DEF RefuseAtDoor, Fails
<1>5. ASSUME NEW c \in Calls, FindClosed(c) PROVE LeaseIsKept'
  BY <1>5 DEF FindClosed, Fails
<1>6. ASSUME NEW c \in Calls, TakeNow(c) PROVE LeaseIsKept'
  BY <1>6 DEF TakeNow, Takes, Started
<1>7. ASSUME NEW c \in Calls, TakeThrows(c) PROVE LeaseIsKept'
  BY <1>7 DEF TakeThrows, MintThrows, Fails
<1>8. ASSUME NEW c \in Calls, Park(c) PROVE LeaseIsKept'
  <2>1. Looks
    BY <1>8, CannotTakeLooks DEF Park
  <2> QED BY <1>8, <2>1 DEF Park, Looks, Fails
<1>9. ASSUME NEW c \in Calls, ParkRefused(c) PROVE LeaseIsKept'
  <2>1. Looks
    BY <1>9, CannotTakeLooks DEF ParkRefused
  <2> QED BY <1>9, <2>1 DEF ParkRefused, Looks, Fails
<1>10. ASSUME NEW c \in Calls, Timeout(c) PROVE LeaseIsKept'
  BY <1>10 DEF Timeout
<1>11. ASSUME NEW c \in Calls, Resume(c) PROVE LeaseIsKept'
  BY <1>11 DEF Resume, Started
<1>12. ASSUME NEW c \in Calls, PrepareOk(c) PROVE LeaseIsKept'
  BY <1>12 DEF PrepareOk
<1>13. ASSUME NEW c \in Calls, PrepareAuthFails(c) PROVE LeaseIsKept'
  BY <1>13 DEF PrepareAuthFails, PreparationFails
<1>14. ASSUME NEW c \in Calls, RetireAndRetry(c) PROVE LeaseIsKept'
  BY <1>14 DEF RetireAndRetry, Retires, PreparationFails
<1>15. ASSUME NEW c \in Calls, RetireAndFail(c) PROVE LeaseIsKept'
  BY <1>15 DEF RetireAndFail, Retires, PreparationFails
<1>16. ASSUME NEW c \in Calls, Finish(c) PROVE LeaseIsKept'
  BY <1>16 DEF Finish
<1>17. ASSUME NEW c \in Calls, Replay(c) PROVE LeaseIsKept'
  BY <1>17 DEF Replay, SessionDead
<1>18. ASSUME NEW c \in Calls, ThrowDead(c) PROVE LeaseIsKept'
  BY <1>18 DEF ThrowDead, SessionDead
<1>19. ASSUME NEW c \in Calls, EndDebug(c) PROVE LeaseIsKept'
  BY <1>19 DEF EndDebug
<1>20. ASSUME NEW s \in Slots, DiesIdle(s) PROVE LeaseIsKept'
  BY <1>20 DEF DiesIdle, Dies
<1>21. ASSUME NEW s \in Slots, DiesInUse(s) PROVE LeaseIsKept'
  BY <1>21 DEF DiesInUse, Dies, LeftToFinally
<1>22. ASSUME NEW s \in Slots, DiesUnderDebug(s) PROVE LeaseIsKept'
  BY <1>22 DEF DiesUnderDebug, Dies, LeftToFinally
<1>23. CASE SeatIdle
  BY <1>23 DEF SeatIdle, Reseats
<1>24. CASE SeatMinted
  BY <1>24 DEF SeatMinted, Reseats, SeatMints
<1>25. CASE SeatNobody
  BY <1>25 DEF SeatNobody, Reseats
<1>26. CASE SeatShared
  BY <1>26 DEF SeatShared, Reseats
<1>27. CASE Shutdown
  BY <1>27 DEF Shutdown, Closes
<1>28. CASE Dispose
  BY <1>28 DEF Dispose, Closes
<1> QED BY <1>1, <1>2, <1>3, <1>4, <1>5, <1>6, <1>7, <1>8, <1>9, <1>10, <1>11,
    <1>12, <1>13, <1>14, <1>15, <1>16, <1>17, <1>18, <1>19, <1>20, <1>21,
    <1>22, <1>23, <1>24, <1>25, <1>26, <1>27, <1>28 DEF Next, Handoff, Acquire,
    CallStep, Primary

LEMMA LeaseInit == Init => LeaseIsKept
BY DEF Init, LeaseIsKept, Using

(***************************************************************************)
(* A session that was given to a call stays that call's, whatever is       *)
(* released, replayed, evicted, minted or dies in the meantime; only a     *)
(* debug lease ends with its session.                                      *)
(***************************************************************************)
THEOREM LeasesAreKept == Spec => []LeaseIsKept
<1>1. TypeInv /\ LeaseIsKept /\ [Next]_vars => (TypeInv /\ LeaseIsKept)'
  <2> SUFFICES ASSUME TypeInv, LeaseIsKept, [Next]_vars
               PROVE  TypeInv' /\ LeaseIsKept'
    OBVIOUS
  <2>1. TypeInv'
    BY TypeStep
  <2>2. CASE Next
    BY <2>1, <2>2, LeaseStep, TypeParts DEF TypeInv
  <2>3. CASE UNCHANGED vars
    BY <2>1, <2>3
    DEF vars, slotVars, loopVars, callVars, LeaseIsKept, Using
  <2> QED BY <2>1, <2>2, <2>3
<1>2. Init => TypeInv /\ LeaseIsKept
  BY TypeInit, LeaseInit
<1>3. Spec => [](TypeInv /\ LeaseIsKept)
  BY <1>1, <1>2, PTL DEF Spec
<1> QED BY <1>3, PTL

----------------------------------------------------------------------------
(***************************************************************************)
(* Order.  Only TakeNow and ServeHead make a call one that uses a slot.    *)
(***************************************************************************)
NowUsing(c) == ~Using(c) /\ Using(c)'

LEMMA WhoIsServed ==
  ASSUME Places, Queue, Next, NEW d \in Calls, NowUsing(d)
  PROVE  \/ TakeNow(d)
         \/ ServeHead /\ d = Head(waiters)
<1> DEFINE Goal == TakeNow(d) \/ (ServeHead /\ d = Head(waiters))
<1> USE DEF Places, Using, NowUsing, Stages, Ends, loopVars, callVars

<1>1. CASE StopDraining
  BY <1>1 DEF StopDraining, TakesNone
<1>2. CASE ServeHead
  <2>1. Head(waiters) \in Calls
    BY <1>2, HeadIsCall DEF ServeHead
  <2> QED BY <1>2, <2>1 DEF ServeHead
<1>3. CASE RejectHead
  <2>1. Head(waiters) \in Calls
    BY <1>3, HeadIsCall DEF RejectHead
  <2> QED BY <1>3, <2>1 DEF RejectHead
<1>4. ASSUME NEW c \in Calls, RefuseAtDoor(c) PROVE Goal
  BY <1>4 DEF RefuseAtDoor, Fails
<1>5. ASSUME NEW c \in Calls, FindClosed(c) PROVE Goal
  BY <1>5 DEF FindClosed, Fails
<1>6. ASSUME NEW c \in Calls, TakeNow(c) PROVE Goal
  BY <1>6 DEF TakeNow
<1>7. ASSUME NEW c \in Calls, TakeThrows(c) PROVE Goal
  BY <1>7 DEF TakeThrows, MintThrows, Fails
<1>8. ASSUME NEW c \in Calls, Park(c) PROVE Goal
  BY <1>8 DEF Park, CannotTake, TakesNone
<1>9. ASSUME NEW c \in Calls, ParkRefused(c) PROVE Goal
  BY <1>9 DEF ParkRefused, CannotTake, TakesNone, Fails
<1>10. ASSUME NEW c \in Calls, Timeout(c) PROVE Goal
  BY <1>10 DEF Timeout
<1>11. ASSUME NEW c \in Calls, Resume(c) PROVE Goal
  BY <1>11 DEF Resume, Started
<1>12. ASSUME NEW c \in Calls, PrepareOk(c) PROVE Goal
  BY <1>12 DEF PrepareOk
<1>13. ASSUME NEW c \in Calls, PrepareAuthFails(c) PROVE Goal
  BY <1>13 DEF PrepareAuthFails, PreparationFails
<1>14. ASSUME NEW c \in Calls, RetireAndRetry(c) PROVE Goal
  BY <1>14 DEF RetireAndRetry, Retires, PreparationFails
<1>15. ASSUME NEW c \in Calls, RetireAndFail(c) PROVE Goal
  BY <1>15 DEF RetireAndFail, Retires, PreparationFails
<1>16. ASSUME NEW c \in Calls, Finish(c) PROVE Goal
  BY <1>16 DEF Finish
<1>17. ASSUME NEW c \in Calls, Replay(c) PROVE Goal
  BY <1>17 DEF Replay, SessionDead
<1>18. ASSUME NEW c \in Calls, ThrowDead(c) PROVE Goal
  BY <1>18 DEF ThrowDead, SessionDead
<1>19. ASSUME NEW c \in Calls, EndDebug(c) PROVE Goal
  BY <1>19 DEF EndDebug
<1>20. ASSUME NEW s \in Slots, DiesIdle(s) PROVE Goal
  BY <1>20 DEF DiesIdle, Dies
<1>21. ASSUME NEW s \in Slots, DiesInUse(s) PROVE Goal
  BY <1>21 DEF DiesInUse, Dies
<1>22. ASSUME NEW s \in Slots, DiesUnderDebug(s) PROVE Goal
  BY <1>22 DEF DiesUnderDebug, Dies
<1>23. CASE SeatIdle
  BY <1>23 DEF SeatIdle, Reseats
<1>24. CASE SeatMinted
  BY <1>24 DEF SeatMinted, Reseats, SeatMints
<1>25. CASE SeatNobody
  BY <1>25 DEF SeatNobody, Reseats
<1>26. CASE SeatShared
  BY <1>26 DEF SeatShared, Reseats
<1>27. CASE Shutdown
  BY <1>27 DEF Shutdown, Closes
<1>28. CASE Dispose
  BY <1>28 DEF Dispose, Closes
<1> QED BY <1>1, <1>2, <1>3, <1>4, <1>5, <1>6, <1>7, <1>8, <1>9, <1>10, <1>11,
    <1>12, <1>13, <1>14, <1>15, <1>16, <1>17, <1>18, <1>19, <1>20, <1>21,
    <1>22, <1>23, <1>24, <1>25, <1>26, <1>27, <1>28 DEF Next, Handoff, Acquire,
    CallStep, Primary

LEMMA NobodyServed ==
  ASSUME NEW c \in Calls, UNCHANGED vars
  PROVE  ~NowUsing(c)
BY DEF vars, callVars, NowUsing, Using

(***************************************************************************)
(* A read or write that gets a session while others are parked is the one  *)
(* that was parked first.                                                  *)
(***************************************************************************)
THEOREM ServedInOrder == Spec => NoBarging
<1> DEFINE InOrder ==
      \A c \in Calls :
        ~Using(c) /\ Using(c)' /\ waiters # <<>> /\ Kind[c] # "debug"
          => c = Head(waiters)
<1>1. TypeInv /\ [Next]_vars => InOrder
  <2> SUFFICES ASSUME TypeInv, [Next]_vars, NEW c \in Calls, NowUsing(c),
                      waiters # <<>>, Kind[c] # "debug"
               PROVE  c = Head(waiters)
    BY DEF NowUsing
  <2>1. Next
    BY NobodyServed
  <2>2. TakeNow(c) \/ (ServeHead /\ c = Head(waiters))
    BY <2>1, WhoIsServed, TypeParts DEF TypeInv
  <2>3. ~TakeNow(c)
    BY DEF TakeNow, MayTake
  <2> QED BY <2>2, <2>3
<1>2. TypeInv /\ [Next]_vars => TypeInv'
  BY TypeStep
<1> QED BY <1>1, <1>2, TypeInit, PTL DEF Spec, NoBarging

----------------------------------------------------------------------------
(***************************************************************************)
(* Tries.  The first try's preparations and run are behind a call that is  *)
(* in its second; those of the current one are its attempts, or, once it   *)
(* runs, at most MAX_PREPARE_ATTEMPTS.                                     *)
(***************************************************************************)
FirstTry(c, n) == IF c \in replayed THEN n ELSE 0

Tallied ==
  \A c \in Calls :
    /\ prepared[c] <= FirstTry(c, MaxAttempts)
                       + (IF pc[c] = "running" THEN MaxAttempts ELSE attempts[c])
    /\ runs[c] <= FirstTry(c, 1) + (IF pc[c] = "running" THEN 1 ELSE 0)
    /\ Kind[c] = "debug" => c \notin replayed

LEMMA TalliedStep ==
  ASSUME Places, Queue, Counts, Trying, Waiting(waiters, pc), Tallied, Next
  PROVE  Tallied'
<1> USE PoolAssumption DEF PoolAssumption, Stages, Places, Counts, Trying, Ends,
                           AtLoopTop, callVars, loopVars, Tallied, FirstTry

<1>1. CASE StopDraining
  BY <1>1 DEF StopDraining, TakesNone
<1>2. CASE ServeHead
  <2>1. Head(waiters) \in Calls /\ pc[Head(waiters)] = "waiting"
    BY <1>2, HeadIsCall, HeadWaits DEF ServeHead
  <2> QED BY <1>2, <2>1 DEF ServeHead
<1>3. CASE RejectHead
  <2>1. Head(waiters) \in Calls /\ pc[Head(waiters)] = "waiting"
    BY <1>3, HeadIsCall, HeadWaits DEF RejectHead
  <2> QED BY <1>3, <2>1 DEF RejectHead
<1>4. ASSUME NEW c \in Calls, RefuseAtDoor(c) PROVE Tallied'
  BY <1>4 DEF RefuseAtDoor, Fails
<1>5. ASSUME NEW c \in Calls, FindClosed(c) PROVE Tallied'
  BY <1>5 DEF FindClosed, Fails
<1>6. ASSUME NEW c \in Calls, TakeNow(c) PROVE Tallied'
  BY <1>6 DEF TakeNow, Takes, Started
<1>7. ASSUME NEW c \in Calls, TakeThrows(c) PROVE Tallied'
  BY <1>7 DEF TakeThrows, MintThrows, Fails
<1>8. ASSUME NEW c \in Calls, Park(c) PROVE Tallied'
  BY <1>8 DEF Park, CannotTake, TakesNone
<1>9. ASSUME NEW c \in Calls, ParkRefused(c) PROVE Tallied'
  BY <1>9 DEF ParkRefused, CannotTake, TakesNone, Fails
<1>10. ASSUME NEW c \in Calls, Timeout(c) PROVE Tallied'
  BY <1>10 DEF Timeout
<1>11. ASSUME NEW c \in Calls, Resume(c) PROVE Tallied'
  BY <1>11 DEF Resume, Started
<1>12. ASSUME NEW c \in Calls, PrepareOk(c) PROVE Tallied'
  BY <1>12 DEF PrepareOk
<1>13. ASSUME NEW c \in Calls, PrepareAuthFails(c) PROVE Tallied'
  BY <1>13 DEF PrepareAuthFails, PreparationFails
<1>14. ASSUME NEW c \in Calls, RetireAndRetry(c) PROVE Tallied'
  BY <1>14 DEF RetireAndRetry, Retires, PreparationFails
<1>15. ASSUME NEW c \in Calls, RetireAndFail(c) PROVE Tallied'
  BY <1>15 DEF RetireAndFail, Retires, PreparationFails
<1>16. ASSUME NEW c \in Calls, Finish(c) PROVE Tallied'
  BY <1>16 DEF Finish
<1>17. ASSUME NEW c \in Calls, Replay(c) PROVE Tallied'
  BY <1>17 DEF Replay, SessionDead, EligibleForReplay, RoleOf
<1>18. ASSUME NEW c \in Calls, ThrowDead(c) PROVE Tallied'
  BY <1>18 DEF ThrowDead, SessionDead
<1>19. ASSUME NEW c \in Calls, EndDebug(c) PROVE Tallied'
  BY <1>19 DEF EndDebug
<1>20. ASSUME NEW s \in Slots, DiesIdle(s) PROVE Tallied'
  BY <1>20 DEF DiesIdle, Dies
<1>21. ASSUME NEW s \in Slots, DiesInUse(s) PROVE Tallied'
  BY <1>21 DEF DiesInUse, Dies
<1>22. ASSUME NEW s \in Slots, DiesUnderDebug(s) PROVE Tallied'
  BY <1>22 DEF DiesUnderDebug, Dies
<1>23. CASE SeatIdle
  BY <1>23 DEF SeatIdle, Reseats
<1>24. CASE SeatMinted
  BY <1>24 DEF SeatMinted, Reseats, SeatMints
<1>25. CASE SeatNobody
  BY <1>25 DEF SeatNobody, Reseats
<1>26. CASE SeatShared
  BY <1>26 DEF SeatShared, Reseats
<1>27. CASE Shutdown
  BY <1>27 DEF Shutdown, Closes
<1>28. CASE Dispose
  BY <1>28 DEF Dispose, Closes
<1> QED BY <1>1, <1>2, <1>3, <1>4, <1>5, <1>6, <1>7, <1>8, <1>9, <1>10, <1>11,
    <1>12, <1>13, <1>14, <1>15, <1>16, <1>17, <1>18, <1>19, <1>20, <1>21,
    <1>22, <1>23, <1>24, <1>25, <1>26, <1>27, <1>28 DEF Next, Handoff, Acquire,
    CallStep, Primary

(***************************************************************************)
(* However sessions die under it, a call asks for at most twice            *)
(* MAX_PREPARE_ATTEMPTS preparations and begins its work at most twice, a  *)
(* debug lease once: the second try is the last.                           *)
(***************************************************************************)
THEOREM RetriesStayBounded == Spec => []RetriesAreBounded
<1> DEFINE Inv == TypeInv /\ Tallied
<1>1. Init => Inv
  <2>1. Init => Tallied
    BY PoolAssumption DEF Init, Tallied, FirstTry, PoolAssumption
  <2> QED BY <2>1, TypeInit
<1>2. Inv /\ [Next]_vars => Inv'
  <2> SUFFICES ASSUME Inv, [Next]_vars PROVE TypeInv' /\ Tallied'
    OBVIOUS
  <2>1. CASE Next
    BY <2>1, TypeStep, TalliedStep, TypeParts DEF TypeInv
  <2>2. CASE UNCHANGED vars
    BY <2>2, TypeStep DEF vars, callVars, Tallied, FirstTry
  <2> QED BY <2>1, <2>2
<1>3. Inv => RetriesAreBounded
  <2> SUFFICES ASSUME Inv, NEW c \in Calls
               PROVE  LET tries == IF Kind[c] = "debug" THEN 1 ELSE 2 IN
                      prepared[c] <= tries * MaxAttempts /\ runs[c] <= tries
    BY DEF RetriesAreBounded
  <2>1. /\ attempts[c] \in 0..MaxAttempts /\ MaxAttempts \in Nat
        /\ prepared[c] \in Nat /\ runs[c] \in Nat
    BY PoolAssumption DEF TypeInv, TypeOK, PoolAssumption
  <2>2. CASE Kind[c] = "debug"
    BY <2>1, <2>2 DEF Tallied, FirstTry
  <2>3. CASE Kind[c] # "debug"
    BY <2>1, <2>3 DEF Tallied, FirstTry
  <2> QED BY <2>2, <2>3
<1> QED BY <1>1, <1>2, <1>3, PTL DEF Spec

----------------------------------------------------------------------------
(***************************************************************************)
(* Capacity.  What counts against maxSessions only grows where there was   *)
(* room for one more.                                                      *)
(***************************************************************************)
Counted == {s \in slots : role[s] # None \/ s \notin dead}

Roomy(C) ==
  \E L \in SUBSET Slots, s \in Slots :
    Cardinality(L) < MaxSessions /\ C \subseteq L \cup {s}

LEMMA TakeCounts ==
  ASSUME Places, NEW r, NEW s \in Slots, NEW E \in SUBSET Evictable, Takes(r, s, E)
  PROVE  Counted' \subseteq Counted \/ Roomy(Counted')
<1> USE DEF Places, Counted, Busy, Swept, FitIn, IdleIn
<1>1. CASE s \in IdleIn(Swept(E)) /\ Sweeps(E)
  BY <1>1 DEF Takes, Sweeps
<1>2. CASE MayMint(E) /\ Mints(s, E)
  <2>1. Cardinality(LiveIn(Swept(E))) < MaxSessions
    BY <1>2 DEF MayMint, RoomIn
  <2>2. LiveIn(Swept(E)) \in SUBSET Slots
    BY DEF LiveIn
  <2>3. Counted' \subseteq LiveIn(Swept(E)) \cup {s}
    BY <1>2 DEF Takes, Mints, LiveIn
  <2> QED BY <2>1, <2>2, <2>3 DEF Roomy
<1> QED BY <1>1, <1>2 DEF Takes

LEMMA SeatCounts ==
  ASSUME Places, SeatMinted
  PROVE  Counted' \subseteq Counted \/ Roomy(Counted')
<1>1. PICK E \in SUBSET Evictable, s \in Slots : SeatMints(E) /\ Mints(s, E)
  BY DEF SeatMinted
<1>2. Cardinality(LiveIn(Swept(E))) < MaxSessions
  BY <1>1 DEF SeatMints, MayMint, RoomIn
<1>3. LiveIn(Swept(E)) \in SUBSET Slots
  BY DEF LiveIn, Places, Swept, FitIn
<1>4. role' = role
  BY DEF SeatMinted, Reseats
<1>5. Counted' \subseteq LiveIn(Swept(E)) \cup {s}
  BY <1>1, <1>4 DEF Counted, Mints, LiveIn, Places, Busy, FitIn, Swept
<1> QED BY <1>2, <1>3, <1>5 DEF Roomy

LEMMA CountedStep ==
  ASSUME Places, Queue, Tied, Next
  PROVE  Counted' \subseteq Counted \/ Roomy(Counted')
<1> DEFINE Goal == Counted' \subseteq Counted \/ Roomy(Counted')
<1> USE DEF Places, Tied, Using, Counted, Busy, Swept, Sweeps, FitIn, IdleIn,
            Evictable, FreesSlot, Ends, loopVars, slotVars, callVars

<1>1. CASE StopDraining
  BY <1>1, StopLooks DEF Looks
<1>2. CASE ServeHead
  <2>1. PICK E \in SUBSET Evictable, s \in Slots : Takes(RoleOf(Head(waiters)), s, E)
    BY <1>2 DEF ServeHead
  <2> QED BY <2>1, TakeCounts
<1>3. CASE RejectHead
  BY <1>3 DEF RejectHead, MintThrows
<1>4. ASSUME NEW c \in Calls, RefuseAtDoor(c) PROVE Goal
  BY <1>4 DEF RefuseAtDoor, Fails
<1>5. ASSUME NEW c \in Calls, FindClosed(c) PROVE Goal
  BY <1>5 DEF FindClosed, Fails
<1>6. ASSUME NEW c \in Calls, TakeNow(c) PROVE Goal
  <2>1. PICK E \in SUBSET Evictable, s \in Slots : Takes(RoleOf(c), s, E)
    BY <1>6 DEF TakeNow
  <2> QED BY <2>1, TakeCounts
<1>7. ASSUME NEW c \in Calls, TakeThrows(c) PROVE Goal
  BY <1>7 DEF TakeThrows, MintThrows, Fails
<1>8. ASSUME NEW c \in Calls, Park(c) PROVE Goal
  <2>1. Looks
    BY <1>8, CannotTakeLooks DEF Park
  <2> QED BY <2>1 DEF Looks
<1>9. ASSUME NEW c \in Calls, ParkRefused(c) PROVE Goal
  <2>1. Looks
    BY <1>9, CannotTakeLooks DEF ParkRefused
  <2> QED BY <2>1 DEF Looks
<1>10. ASSUME NEW c \in Calls, Timeout(c) PROVE Goal
  BY <1>10 DEF Timeout
<1>11. ASSUME NEW c \in Calls, Resume(c) PROVE Goal
  BY <1>11 DEF Resume, Started
<1>12. ASSUME NEW c \in Calls, PrepareOk(c) PROVE Goal
  BY <1>12 DEF PrepareOk
<1>13. ASSUME NEW c \in Calls, PrepareAuthFails(c) PROVE Goal
  BY <1>13 DEF PrepareAuthFails, PreparationFails
<1>14. ASSUME NEW c \in Calls, RetireAndRetry(c) PROVE Goal
  BY <1>14 DEF RetireAndRetry, Retires, PreparationFails
<1>15. ASSUME NEW c \in Calls, RetireAndFail(c) PROVE Goal
  BY <1>15 DEF RetireAndFail, Retires, PreparationFails
<1>16. ASSUME NEW c \in Calls, Finish(c) PROVE Goal
  BY <1>16 DEF Finish
<1>17. ASSUME NEW c \in Calls, Replay(c) PROVE Goal
  BY <1>17 DEF Replay, SessionDead
<1>18. ASSUME NEW c \in Calls, ThrowDead(c) PROVE Goal
  BY <1>18 DEF ThrowDead, SessionDead
<1>19. ASSUME NEW c \in Calls, EndDebug(c) PROVE Goal
  BY <1>19 DEF EndDebug
<1>20. ASSUME NEW s \in Slots, DiesIdle(s) PROVE Goal
  BY <1>20 DEF DiesIdle, Dies
<1>21. ASSUME NEW s \in Slots, DiesInUse(s) PROVE Goal
  BY <1>21 DEF DiesInUse, Dies
<1>22. ASSUME NEW s \in Slots, DiesUnderDebug(s) PROVE Goal
  BY <1>22 DEF DiesUnderDebug, Dies
<1>23. CASE SeatIdle
  BY <1>23 DEF SeatIdle, Reseats
<1>24. CASE SeatMinted
  BY <1>24, SeatCounts
<1>25. CASE SeatNobody
  BY <1>25 DEF SeatNobody, Reseats
<1>26. CASE SeatShared
  BY <1>26 DEF SeatShared, Reseats
<1>27. CASE Shutdown
  BY <1>27 DEF Shutdown, Closes
<1>28. CASE Dispose
  BY <1>28 DEF Dispose, Closes
<1> QED BY <1>1, <1>2, <1>3, <1>4, <1>5, <1>6, <1>7, <1>8, <1>9, <1>10, <1>11,
    <1>12, <1>13, <1>14, <1>15, <1>16, <1>17, <1>18, <1>19, <1>20, <1>21,
    <1>22, <1>23, <1>24, <1>25, <1>26, <1>27, <1>28 DEF Next, Handoff, Acquire,
    CallStep, Primary

LEMMA CapacityStep ==
  ASSUME Places, Queue, Tied, CapacityBound, Next
  PROVE  CapacityBound'
<1>0. IsFiniteSet(Slots) /\ MaxSessions \in Nat
  BY PoolAssumption DEF PoolAssumption
<1>1. CASE Counted' \subseteq Counted
  <2>1. Counted \in SUBSET Slots
    BY DEF Counted, Places
  <2>2. IsFiniteSet(Counted)
    BY <1>0, <2>1, FS_Subset
  <2>3. Cardinality(Counted') <= Cardinality(Counted)
    BY <1>1, <2>2, FS_Subset
  <2>4. Cardinality(Counted) \in Nat /\ Cardinality(Counted') \in Nat
    BY <1>1, <2>2, FS_Subset, FS_CardinalityType
  <2>5. Cardinality(Counted) <= MaxSessions
    BY DEF CapacityBound, Counted
  <2>6. Cardinality(Counted') <= MaxSessions
    BY <1>0, <2>3, <2>4, <2>5
  <2> QED BY <2>6 DEF CapacityBound, Counted
<1>2. CASE Roomy(Counted')
  <2>1. PICK L \in SUBSET Slots, s \in Slots :
          Cardinality(L) < MaxSessions /\ Counted' \subseteq L \cup {s}
    BY <1>2 DEF Roomy
  <2>2. IsFiniteSet(L)
    BY <1>0, FS_Subset
  <2>3. /\ IsFiniteSet(L \cup {s})
        /\ Cardinality(L \cup {s}) =
             IF s \in L THEN Cardinality(L) ELSE Cardinality(L) + 1
    BY <2>2, FS_AddElement
  <2>4. IsFiniteSet(Counted') /\ Cardinality(Counted') <= Cardinality(L \cup {s})
    BY <2>1, <2>3, FS_Subset
  <2>5. Cardinality(L) \in Nat /\ Cardinality(Counted') \in Nat
    BY <2>2, <2>4, FS_CardinalityType
  <2>6. Cardinality(Counted') <= MaxSessions
    BY <1>0, <2>1, <2>3, <2>4, <2>5
  <2> QED BY <2>6 DEF CapacityBound, Counted
<1> QED BY <1>1, <1>2, CountedStep

LEMMA CapacityInit == Init => CapacityBound
<1> SUFFICES ASSUME Init PROVE CapacityBound
  OBVIOUS
<1>1. Counted \subseteq {primary}
  BY DEF Init, Counted
<1>2. IsFiniteSet({primary}) /\ Cardinality({primary}) = 1
  BY FS_Singleton
<1>3. Cardinality(Counted) <= 1 /\ IsFiniteSet(Counted)
  BY <1>1, <1>2, FS_Subset
<1>4. Cardinality(Counted) \in Nat
  BY <1>3, FS_CardinalityType
<1>5. Cardinality(Counted) <= MaxSessions
  BY <1>3, <1>4, PoolAssumption DEF PoolAssumption
<1> QED BY <1>5 DEF CapacityBound, Counted

(***************************************************************************)
(* The sessions that count, corpses under lease among them, never exceed   *)
(* maxSessions, however the primary is re-seated.                          *)
(***************************************************************************)
THEOREM CapacityIsBounded == Spec => []CapacityBound
<1>1. TypeInv /\ CapacityBound /\ [Next]_vars => (TypeInv /\ CapacityBound)'
  <2> SUFFICES ASSUME TypeInv, CapacityBound, [Next]_vars
               PROVE  TypeInv' /\ CapacityBound'
    OBVIOUS
  <2>1. CASE Next
    BY <2>1, TypeStep, CapacityStep, TypeParts DEF TypeInv
  <2>2. CASE UNCHANGED vars
    BY <2>2, TypeStep DEF vars, slotVars, CapacityBound
  <2> QED BY <2>1, <2>2
<1>2. Init => TypeInv /\ CapacityBound
  BY TypeInit, CapacityInit
<1>3. Spec => [](TypeInv /\ CapacityBound)
  BY <1>1, <1>2, PTL DEF Spec
<1> QED BY <1>3, PTL

----------------------------------------------------------------------------
(***************************************************************************)
(* Role limits.  The calls that use a session in a role map one to one to  *)
(* the slots leased in it, so tryTake's count of slots bounds the calls.   *)
(***************************************************************************)
Users(r) ==
  {c \in Calls : /\ Using(c) /\ RoleOf(c) = r
                 /\ r = "debug" => at[c] \notin dead}

LEMMA UsersHoldSlots ==
  ASSUME Places, Tied, LeaseIsKept, ~closed, NEW r \in Roles
  PROVE  /\ IsFiniteSet(Users(r))
         /\ Cardinality(Users(r)) <= Cardinality(InFlight(r))
<1> DEFINE f == [c \in Users(r) |-> at[c]]
<1>1. ASSUME NEW c \in Users(r) PROVE f[c] \in InFlight(r)
  BY <1>1, PoolAssumption
  DEF Users, InFlight, LeaseIsKept, Tied, RoleOf, PoolAssumption, Kinds
<1>2. \A c, d \in Users(r) : f[c] = f[d] => c = d
  BY DEF Users, LeaseIsKept
<1>3. f \in Injection(Users(r), InFlight(r))
  BY <1>1, <1>2 DEF Injection, IsInjective
<1>4. InFlight(r) \in SUBSET Slots /\ IsFiniteSet(Slots)
  BY PoolAssumption DEF InFlight, Places, PoolAssumption
<1>5. IsFiniteSet(InFlight(r))
  BY <1>4, FS_Subset
<1> HIDE DEF f
<1> QED BY <1>3, <1>5, FS_Injection

LEMMA TakeUsers ==
  ASSUME Places, Tied, NEW r \in Roles, NEW c \in Calls, NEW s \in Slots,
         NEW E \in SUBSET Evictable, Takes(RoleOf(c), s, E),
         at' = [at EXCEPT ![c] = s], NEW st, pc' = [pc EXCEPT ![c] = st]
  PROVE  \/ Users(r)' \subseteq Users(r)
         \/ Users(r)' \subseteq Users(r) \cup {c} /\ Passes(r)
<1>1. Passes(RoleOf(c))
  BY DEF Takes
<1>2. dead \ dead' \subseteq {s} /\ (s \in dead => s \in Fresh)
  BY DEF Takes, Sweeps, Mints, IdleIn, FitIn
<1>3. Users(r)' \subseteq Users(r) \cup {c}
  BY <1>2, PoolAssumption
  DEF Users, Using, Places, Tied, Fresh, Held, PoolAssumption
<1>4. CASE RoleOf(c) = r
  BY <1>1, <1>3, <1>4
<1>5. CASE RoleOf(c) # r
  BY <1>3, <1>5 DEF Users
<1> QED BY <1>4, <1>5

LEMMA ServeUsers ==
  ASSUME Places, Queue, Tied, ServeHead, NEW r \in Roles
  PROVE  \/ Users(r)' \subseteq Users(r)
         \/ \E d \in Calls : Users(r)' \subseteq Users(r) \cup {d} /\ Passes(r)
<1>1. Head(waiters) \in Calls
  BY HeadIsCall DEF ServeHead
<1>2. PICK E \in SUBSET Evictable, s \in Slots :
        /\ Takes(RoleOf(Head(waiters)), s, E)
        /\ at' = [at EXCEPT ![Head(waiters)] = s]
  BY DEF ServeHead
<1>3. pc' = [pc EXCEPT ![Head(waiters)] = "granted"]
  BY DEF ServeHead
<1> QED BY <1>1, <1>2, <1>3, TakeUsers

LEMMA UsersStep ==
  ASSUME Places, Queue, Tied, Next, NEW r \in Roles
  PROVE  \/ Users(r)' \subseteq Users(r)
         \/ \E d \in Calls : Users(r)' \subseteq Users(r) \cup {d} /\ Passes(r)
<1> DEFINE Goal == \/ Users(r)' \subseteq Users(r)
                   \/ \E d \in Calls :
                        Users(r)' \subseteq Users(r) \cup {d} /\ Passes(r)
<1> USE DEF Places, Tied, Using, Users, Stages, Sweeps, Mints, Fresh, Held, Ends,
            FreesSlot, loopVars, slotVars, callVars

<1>1. CASE StopDraining
  BY <1>1, StopLooks DEF Looks
<1>2. CASE ServeHead
  BY <1>2, ServeUsers
<1>3. CASE RejectHead
  <2>1. Head(waiters) \in Calls
    BY <1>3, HeadIsCall DEF RejectHead
  <2>2. /\ pc' = [pc EXCEPT ![Head(waiters)] = "over"]
        /\ at' = [at EXCEPT ![Head(waiters)] = None]
        /\ dead \subseteq dead'
    BY <1>3 DEF RejectHead, MintThrows
  <2> QED BY ONLY Places, <2>1, <2>2
<1>4. ASSUME NEW c \in Calls, RefuseAtDoor(c) PROVE Goal
  BY <1>4 DEF RefuseAtDoor, Fails
<1>5. ASSUME NEW c \in Calls, FindClosed(c) PROVE Goal
  BY <1>5 DEF FindClosed, Fails
<1>6. ASSUME NEW c \in Calls, TakeNow(c) PROVE Goal
  <2>1. PICK E \in SUBSET Evictable, s \in Slots :
          /\ Takes(RoleOf(c), s, E)
          /\ at' = [at EXCEPT ![c] = s]
    BY <1>6 DEF TakeNow
  <2>2. pc' = [pc EXCEPT ![c] = "preparing"]
    BY <1>6 DEF TakeNow
  <2>3. \/ Users(r)' \subseteq Users(r)
        \/ Users(r)' \subseteq Users(r) \cup {c} /\ Passes(r)
    BY <2>1, <2>2, TakeUsers
  <2> QED BY <2>3
<1>7. ASSUME NEW c \in Calls, TakeThrows(c) PROVE Goal
  BY <1>7 DEF TakeThrows, MintThrows, Fails
<1>8. ASSUME NEW c \in Calls, Park(c) PROVE Goal
  <2>1. Looks
    BY <1>8, CannotTakeLooks DEF Park
  <2> QED BY <1>8, <2>1 DEF Park, Looks, Fails
<1>9. ASSUME NEW c \in Calls, ParkRefused(c) PROVE Goal
  <2>1. Looks
    BY <1>9, CannotTakeLooks DEF ParkRefused
  <2> QED BY <1>9, <2>1 DEF ParkRefused, Looks, Fails
<1>10. ASSUME NEW c \in Calls, Timeout(c) PROVE Goal
  BY <1>10 DEF Timeout
<1>11. ASSUME NEW c \in Calls, Resume(c) PROVE Goal
  BY <1>11 DEF Resume, Started
<1>12. ASSUME NEW c \in Calls, PrepareOk(c) PROVE Goal
  BY <1>12 DEF PrepareOk
<1>13. ASSUME NEW c \in Calls, PrepareAuthFails(c) PROVE Goal
  BY <1>13 DEF PrepareAuthFails, PreparationFails
<1>14. ASSUME NEW c \in Calls, RetireAndRetry(c) PROVE Goal
  BY <1>14 DEF RetireAndRetry, Retires, PreparationFails
<1>15. ASSUME NEW c \in Calls, RetireAndFail(c) PROVE Goal
  BY <1>15 DEF RetireAndFail, Retires, PreparationFails
<1>16. ASSUME NEW c \in Calls, Finish(c) PROVE Goal
  BY <1>16 DEF Finish
<1>17. ASSUME NEW c \in Calls, Replay(c) PROVE Goal
  BY <1>17 DEF Replay, SessionDead
<1>18. ASSUME NEW c \in Calls, ThrowDead(c) PROVE Goal
  BY <1>18 DEF ThrowDead, SessionDead
<1>19. ASSUME NEW c \in Calls, EndDebug(c) PROVE Goal
  BY <1>19 DEF EndDebug
<1>20. ASSUME NEW s \in Slots, DiesIdle(s) PROVE Goal
  BY <1>20 DEF DiesIdle, Dies
<1>21. ASSUME NEW s \in Slots, DiesInUse(s) PROVE Goal
  BY <1>21 DEF DiesInUse, Dies
<1>22. ASSUME NEW s \in Slots, DiesUnderDebug(s) PROVE Goal
  BY <1>22 DEF DiesUnderDebug, Dies
<1>23. CASE SeatIdle
  BY <1>23 DEF SeatIdle, Reseats
<1>24. CASE SeatMinted
  BY <1>24, PoolAssumption
  DEF SeatMinted, Reseats, SeatMints, PoolAssumption
<1>25. CASE SeatNobody
  BY <1>25 DEF SeatNobody, Reseats
<1>26. CASE SeatShared
  BY <1>26 DEF SeatShared, Reseats
<1>27. CASE Shutdown
  BY <1>27 DEF Shutdown, Closes
<1>28. CASE Dispose
  BY <1>28 DEF Dispose, Closes
<1> QED BY <1>1, <1>2, <1>3, <1>4, <1>5, <1>6, <1>7, <1>8, <1>9, <1>10, <1>11,
    <1>12, <1>13, <1>14, <1>15, <1>16, <1>17, <1>18, <1>19, <1>20, <1>21,
    <1>22, <1>23, <1>24, <1>25, <1>26, <1>27, <1>28 DEF Next, Handoff, Acquire,
    CallStep, Primary

FewUsers == \A r \in Roles : IsFiniteSet(Users(r))

LEMMA RoleStep ==
  ASSUME Places, Queue, Tied, LeaseIsKept, FewUsers, RoleBound, Next
  PROVE  FewUsers' /\ RoleBound'
<1> SUFFICES ASSUME NEW r \in Roles
             PROVE  /\ IsFiniteSet(Users(r)')
                    /\ Cardinality(Users(r)') <= RoleLimit(r)
  BY DEF FewUsers, RoleBound, Users, RoleLimit
<1>1. RoleLimit(r) \in Nat
  BY PoolAssumption
  DEF PoolAssumption, Roles, RoleLimit, DebugLimit, DiaCost, Larger, Smaller
<1>2. CASE Users(r)' \subseteq Users(r)
  <2>1. IsFiniteSet(Users(r)') /\ Cardinality(Users(r)') <= Cardinality(Users(r))
    BY <1>2, FS_Subset DEF FewUsers
  <2>2. Cardinality(Users(r)') \in Nat /\ Cardinality(Users(r)) \in Nat
    BY <2>1, FS_CardinalityType DEF FewUsers
  <2>3. Cardinality(Users(r)) <= RoleLimit(r)
    BY DEF RoleBound, Users
  <2> QED BY <1>1, <2>1, <2>2, <2>3
<1>3. CASE \E d \in Calls : Users(r)' \subseteq Users(r) \cup {d} /\ Passes(r)
  <2>1. PICK d \in Calls : Users(r)' \subseteq Users(r) \cup {d} /\ Passes(r)
    BY <1>3
  <2>2. ~closed /\ Cardinality(InFlight(r)) < RoleLimit(r)
    BY <2>1 DEF Passes
  <2>3. IsFiniteSet(Users(r)) /\ Cardinality(Users(r)) <= Cardinality(InFlight(r))
    BY <2>2, UsersHoldSlots
  <2>4. IsFiniteSet(InFlight(r))
    BY FS_Subset, PoolAssumption DEF InFlight, Places, PoolAssumption
  <2>5. Cardinality(Users(r)) \in Nat /\ Cardinality(InFlight(r)) \in Nat
    BY <2>3, <2>4, FS_CardinalityType
  <2>6. /\ IsFiniteSet(Users(r) \cup {d})
        /\ Cardinality(Users(r) \cup {d}) <= Cardinality(Users(r)) + 1
        /\ Cardinality(Users(r) \cup {d}) \in Nat
    <3>1. /\ IsFiniteSet(Users(r) \cup {d})
          /\ Cardinality(Users(r) \cup {d}) =
               IF d \in Users(r) THEN Cardinality(Users(r))
                                ELSE Cardinality(Users(r)) + 1
      BY <2>3, FS_AddElement
    <3> QED BY ONLY <2>5, <3>1
  <2>7. /\ IsFiniteSet(Users(r)')
        /\ Cardinality(Users(r)') <= Cardinality(Users(r) \cup {d})
    BY <2>1, <2>6, FS_Subset
  <2>8. Cardinality(Users(r)') \in Nat
    BY <2>7, FS_CardinalityType
  <2> QED BY <1>1, <2>2, <2>3, <2>5, <2>6, <2>7, <2>8
<1> QED BY <1>2, <1>3, UsersStep

LEMMA RoleInit == Init => FewUsers /\ RoleBound
<1> SUFFICES ASSUME Init, NEW r \in Roles
             PROVE  /\ IsFiniteSet(Users(r))
                    /\ Cardinality(Users(r)) <= RoleLimit(r)
  BY DEF FewUsers, RoleBound, Users
<1>1. Users(r) = {}
  BY DEF Init, Users, Using
<1>2. RoleLimit(r) \in Nat
  BY PoolAssumption
  DEF PoolAssumption, Roles, RoleLimit, DebugLimit, DiaCost, Larger, Smaller
<1> QED BY <1>1, <1>2, FS_EmptySet

(***************************************************************************)
(* No more calls of a role than its limit are using a session, a call      *)
(* whose session died under it included.                                   *)
(***************************************************************************)
THEOREM RolesAreBounded == Spec => []RoleBound
<1> DEFINE Inv == TypeInv /\ LeaseIsKept /\ FewUsers /\ RoleBound
<1>1. Inv /\ [Next]_vars => Inv'
  <2> SUFFICES ASSUME Inv, [Next]_vars PROVE Inv'
    OBVIOUS
  <2>1. CASE Next
    BY <2>1, TypeStep, LeaseStep, RoleStep, TypeParts DEF TypeInv
  <2>2. CASE UNCHANGED vars
    <3>1. UNCHANGED <<closed, slots, dead, role, pc, at>>
      BY <2>2 DEF vars, slotVars, callVars
    <3>2. LeaseIsKept' /\ FewUsers' /\ RoleBound'
      BY <3>1 DEF LeaseIsKept, FewUsers, RoleBound, Users, Using
    <3> QED BY <3>2, TypeStep
  <2> QED BY <2>1, <2>2
<1>2. Init => Inv
  BY TypeInit, LeaseInit, RoleInit
<1>3. Spec => []Inv
  BY <1>1, <1>2, PTL DEF Spec
<1> QED BY <1>3, PTL

----------------------------------------------------------------------------
(***************************************************************************)
(* Wake-ups.  A role is blocked when its limit is reached or every session *)
(* there may be is leased; only what sets draining can end that.           *)
(***************************************************************************)
Blocked(r) ==
  \/ Cardinality(InFlight(r)) >= RoleLimit(r)
  \/ slots \subseteq Busy /\ Cardinality(slots) >= MaxSessions

ClosedIsEmpty == closed => waiters = <<>>

LEMMA HeadBlocked ==
  ASSUME Places
  PROVE  HeadIsBlocked <=>
           (~draining /\ waiters # <<>> => Blocked(RoleOf(Head(waiters))))
BY DEF HeadIsBlocked, Blocked, InFlight, Busy, Places

LEMMA Cardinals ==
  ASSUME Places, NEW r \in Roles
  PROVE  /\ RoleLimit(r) \in Nat /\ MaxSessions \in Nat
         /\ \A S \in SUBSET Slots : IsFiniteSet(S) /\ Cardinality(S) \in Nat
         /\ slots \in SUBSET Slots /\ InFlight(r) \in SUBSET Slots
<1>1. RoleLimit(r) \in Nat /\ MaxSessions \in Nat
  BY PoolAssumption
  DEF PoolAssumption, Roles, RoleLimit, DebugLimit, DiaCost, Larger, Smaller
<1>2. ASSUME NEW S \in SUBSET Slots
      PROVE  IsFiniteSet(S) /\ Cardinality(S) \in Nat
  BY FS_Subset, FS_CardinalityType, PoolAssumption DEF PoolAssumption
<1>3. slots \in SUBSET Slots /\ InFlight(r) \in SUBSET Slots
  BY DEF Places, InFlight
<1> QED BY <1>1, <1>2, <1>3

LEMMA NoneTakenBlocks ==
  ASSUME Places, Places', ~closed, NEW r \in Roles, NEW E \in SUBSET Evictable,
         TakesNone(r, E)
  PROVE  Blocked(r)'
<1>1. CASE ~Passes(r) /\ UNCHANGED <<slots, dead>>
  <2>1. Cardinality(InFlight(r)) >= RoleLimit(r)
    BY <1>1, Cardinals DEF Passes
  <2>2. InFlight(r)' = InFlight(r)
    BY <1>1 DEF TakesNone, InFlight
  <2> QED BY <2>1, <2>2 DEF Blocked, RoleLimit
<1>2. CASE IdleIn(Swept(E)) = {} /\ ~RoomIn(Swept(E)) /\ Sweeps(E)
  <2>1. slots' = Swept(E) /\ role' = role
    BY <1>2 DEF Sweeps, TakesNone
  <2>2. Swept(E) \subseteq Busy
    BY <1>2 DEF Swept, IdleIn, FitIn
  <2>3. LiveIn(Swept(E)) = Swept(E)
    BY <2>2 DEF LiveIn, FitIn
  <2>4. Swept(E) \in SUBSET Slots
    BY DEF Swept, FitIn, Places
  <2>5. Cardinality(Swept(E)) >= MaxSessions
    BY <1>2, <2>3, <2>4, Cardinals DEF RoomIn
  <2>6. Busy' = Busy
    BY <2>1 DEF Busy
  <2> QED BY <2>1, <2>2, <2>5, <2>6 DEF Blocked
<1> QED BY <1>1, <1>2 DEF TakesNone

LEMMA KeptBlocked ==
  ASSUME Places, Places', NEW r \in Roles, Blocked(r),
         InFlight(r) \subseteq InFlight(r)',
         slots \subseteq Busy /\ Cardinality(slots) >= MaxSessions =>
           slots' = slots /\ Busy \subseteq Busy'
  PROVE  Blocked(r)'
<1>1. CASE Cardinality(InFlight(r)) >= RoleLimit(r)
  <2>1. /\ IsFiniteSet(InFlight(r)')
        /\ Cardinality(InFlight(r)') \in Nat
    BY Cardinals DEF Places, InFlight
  <2>2. Cardinality(InFlight(r)) <= Cardinality(InFlight(r)')
    BY <2>1, FS_Subset
  <2>3. Cardinality(InFlight(r)) \in Nat /\ RoleLimit(r) \in Nat
    BY Cardinals
  <2>4. Cardinality(InFlight(r)') >= RoleLimit(r)
    BY <1>1, <2>1, <2>2, <2>3
  <2> QED BY <2>4 DEF Blocked, RoleLimit
<1>2. CASE slots \subseteq Busy /\ Cardinality(slots) >= MaxSessions
  BY <1>2 DEF Blocked
<1> QED BY <1>1, <1>2 DEF Blocked

LEMMA LooksBlocked ==
  ASSUME Places, Places', Looks, NEW r \in Roles, Blocked(r)
  PROVE  Blocked(r)'
<1>1. /\ InFlight(r) \subseteq InFlight(r)'
      /\ slots \subseteq Busy => slots' = slots
      /\ Busy' = Busy
  BY PoolAssumption
  DEF Looks, Places, InFlight, Sweeps, Swept, FitIn, Busy, IdleIn, Evictable,
      PoolAssumption
<1> QED BY <1>1, KeptBlocked

LEMMA TakeBlocked ==
  ASSUME Places, Places', NEW q \in Roles, NEW s \in Slots,
         NEW E \in SUBSET Evictable, Takes(q, s, E), NEW r \in Roles, Blocked(r)
  PROVE  Blocked(r)'
<1>1. InFlight(r) \subseteq InFlight(r)' /\ Busy \subseteq Busy'
  BY PoolAssumption
  DEF Takes, Places, InFlight, Sweeps, Mints, Fresh, Swept, FitIn, Busy, IdleIn,
      Evictable, PoolAssumption
<1>2. ASSUME slots \subseteq Busy, Cardinality(slots) >= MaxSessions PROVE FALSE
  <2>1. Swept(E) = slots /\ IdleIn(slots) = {} /\ LiveIn(slots) = slots
    BY <1>2 DEF Swept, IdleIn, LiveIn, FitIn, Evictable
  <2>2. Cardinality(slots) < MaxSessions
    BY <2>1 DEF Takes, MayMint, RoomIn
  <2> QED BY <1>2, <2>2, Cardinals
<1> QED BY <1>1, <1>2, KeptBlocked

LEMMA SeatBlocked ==
  ASSUME Places, Places', SeatMinted, NEW r \in Roles, Blocked(r)
  PROVE  Blocked(r)'
<1>1. PICK E \in SUBSET Evictable, s \in Slots : SeatMints(E) /\ Mints(s, E)
  BY DEF SeatMinted
<1>2. role' = role /\ Busy' = Busy
  BY DEF SeatMinted, Reseats, Busy
<1>3. InFlight(r) \subseteq InFlight(r)'
  BY <1>1, <1>2, PoolAssumption
  DEF Places, InFlight, Mints, Swept, Busy, PoolAssumption
<1>4. ASSUME slots \subseteq Busy, Cardinality(slots) >= MaxSessions PROVE FALSE
  <2>1. Swept(E) = slots /\ LiveIn(slots) = slots
    BY <1>4 DEF Swept, IdleIn, LiveIn, FitIn, Evictable
  <2>2. Cardinality(slots) < MaxSessions
    BY <1>1, <2>1 DEF SeatMints, MayMint, RoomIn
  <2> QED BY <1>4, <2>2, Cardinals
<1> QED BY <1>2, <1>3, <1>4, KeptBlocked

LEMMA BlockedStep ==
  ASSUME Places, Places', Queue, ClosedIsEmpty, HeadIsBlocked, Next
  PROVE  HeadIsBlocked' /\ ClosedIsEmpty'
<1> DEFINE Goal == HeadIsBlocked' /\ ClosedIsEmpty'
<1>a. ASSUME waiters # <<>> PROVE RoleOf(Head(waiters)) \in Roles
  BY <1>a, HeadIsCall, PoolAssumption DEF RoleOf, Roles, PoolAssumption, Kinds
<1>b. ASSUME UNCHANGED <<waiters, closed>>, ~draining' => ~draining,
             \A r \in Roles : ~draining /\ Blocked(r) => Blocked(r)'
      PROVE  Goal
  BY <1>a, <1>b, HeadBlocked DEF HeadIsBlocked, ClosedIsEmpty, Blocked, InFlight,
                                 Busy, RoleOf
<1>c. ASSUME draining', waiters' = <<>> \/ UNCHANGED closed,
             UNCHANGED waiters \/ waiters' = <<>> \/ ~closed
      PROVE  Goal
  BY <1>c DEF HeadIsBlocked, ClosedIsEmpty
<1>d. ASSUME UNCHANGED <<slots, role>>
      PROVE  \A r \in Roles : Blocked(r) => Blocked(r)'
  BY <1>d DEF Blocked, InFlight, Busy, RoleLimit

<1>1. CASE StopDraining
  <2>1. UNCHANGED <<waiters, closed>>
    BY <1>1 DEF StopDraining
  <2>2. CASE waiters = <<>>
    BY <2>1, <2>2 DEF HeadIsBlocked, ClosedIsEmpty
  <2>3. CASE waiters # <<>>
    <3>1. PICK E \in SUBSET Evictable : TakesNone(RoleOf(Head(waiters)), E)
      BY <1>1, <2>3 DEF StopDraining
    <3>2. RoleOf(Head(waiters)) \in Roles /\ ~closed
      BY <2>3, <1>a DEF ClosedIsEmpty
    <3>3. Blocked(RoleOf(Head(waiters)))'
      BY <3>1, <3>2, <2>1, NoneTakenBlocks DEF RoleOf
    <3> QED BY <2>1, <3>2, <3>3 DEF HeadIsBlocked, ClosedIsEmpty, Blocked,
                                    InFlight, Busy
  <2> QED BY <2>2, <2>3
<1>2. CASE ServeHead
  <2>1. waiters # <<>> /\ draining' /\ UNCHANGED closed
    BY <1>2 DEF ServeHead, loopVars
  <2>2. ~closed
    BY <2>1 DEF ClosedIsEmpty
  <2> QED BY <2>1, <2>2, <1>c
<1>3. CASE RejectHead
  <2>1. waiters # <<>> /\ draining' /\ UNCHANGED closed
    BY <1>3 DEF RejectHead, loopVars
  <2>2. ~closed
    BY <2>1 DEF ClosedIsEmpty
  <2> QED BY <2>1, <2>2, <1>c
<1>4. ASSUME NEW c \in Calls, RefuseAtDoor(c) PROVE Goal
  <2>1. UNCHANGED <<waiters, closed, draining, slots, role>>
    BY <1>4 DEF RefuseAtDoor, Fails, loopVars, slotVars, callVars
  <2> QED BY <2>1, <1>b, <1>d
<1>5. ASSUME NEW c \in Calls, FindClosed(c) PROVE Goal
  <2>1. UNCHANGED <<waiters, closed, draining, slots, role>>
    BY <1>5 DEF FindClosed, Fails, loopVars, slotVars, callVars
  <2> QED BY <2>1, <1>b, <1>d
<1>6. ASSUME NEW c \in Calls, TakeNow(c) PROVE Goal
  <2>1. PICK E \in SUBSET Evictable, s \in Slots : Takes(RoleOf(c), s, E)
    BY <1>6 DEF TakeNow
  <2>2. RoleOf(c) \in Roles
    BY PoolAssumption DEF RoleOf, Roles, PoolAssumption, Kinds
  <2>3. UNCHANGED <<waiters, closed, draining>>
    BY <1>6 DEF TakeNow
  <2> QED BY <2>1, <2>2, <2>3, <1>b, TakeBlocked
<1>7. ASSUME NEW c \in Calls, TakeThrows(c) PROVE Goal
  <2>1. Looks /\ UNCHANGED <<waiters, closed, draining>>
    BY <1>7, CannotTakeLooks DEF TakeThrows, MintThrows, Fails, Looks
  <2> QED BY <2>1, <1>b, LooksBlocked
<1>8. ASSUME NEW c \in Calls, Park(c) PROVE Goal
  <2>1. /\ ~closed /\ UNCHANGED <<closed, draining>>
        /\ waiters' = Append(waiters, c)
    BY <1>8 DEF Park, CannotTake
  <2>2. RoleOf(c) \in Roles
    BY PoolAssumption DEF RoleOf, Roles, PoolAssumption, Kinds
  <2>3. CASE waiters = <<>>
    <3>1. PICK E \in SUBSET Evictable : TakesNone(RoleOf(c), E)
      BY <1>8, <2>3 DEF Park, CannotTake, MayTake
    <3>2. Blocked(RoleOf(c))'
      BY <3>1, <2>1, <2>2, NoneTakenBlocks
    <3>3. Head(waiters') = c
      BY <2>1, <2>3
    <3> QED BY <2>1, <3>2, <3>3 DEF HeadIsBlocked, ClosedIsEmpty, Blocked,
                                    InFlight, Busy
  <2>4. CASE waiters # <<>>
    <3>1. Looks
      BY <1>8, CannotTakeLooks DEF Park
    <3>2. Head(waiters') = Head(waiters)
      BY <2>1, <2>4, EmptySeq, AppendProperties, HeadTailProperties, LenProperties
      DEF Queue
    <3>3. ASSUME NEW r \in Roles, r = RoleOf(Head(waiters)), ~draining
          PROVE  Blocked(r)'
      BY <2>4, <3>1, <3>3, HeadBlocked, LooksBlocked
    <3>4. RoleOf(Head(waiters)) \in Roles
      BY <2>4, <1>a
    <3> QED BY <2>1, <3>2, <3>3, <3>4 DEF HeadIsBlocked, ClosedIsEmpty, Blocked,
                                    InFlight, Busy, RoleOf
  <2> QED BY <2>3, <2>4
<1>9. ASSUME NEW c \in Calls, ParkRefused(c) PROVE Goal
  <2>1. Looks /\ UNCHANGED <<waiters, closed, draining>>
    BY <1>9, CannotTakeLooks DEF ParkRefused, Fails
  <2> QED BY <2>1, <1>b, LooksBlocked
<1>10. ASSUME NEW c \in Calls, Timeout(c) PROVE Goal
  <2>1. waiters # <<>>
    BY <1>10, EmptySeq DEF Timeout
  <2>2. draining' /\ UNCHANGED closed /\ ~closed
    BY <1>10, <2>1 DEF Timeout, ClosedIsEmpty
  <2> QED BY <2>2, <1>c
<1>11. ASSUME NEW c \in Calls, Resume(c) PROVE Goal
  <2>1. UNCHANGED <<waiters, closed, draining, slots, role>>
    BY <1>11 DEF Resume, loopVars, slotVars, callVars
  <2> QED BY <2>1, <1>b, <1>d
<1>12. ASSUME NEW c \in Calls, PrepareOk(c) PROVE Goal
  <2>1. UNCHANGED <<waiters, closed, draining, slots, role>>
    BY <1>12 DEF PrepareOk, loopVars, slotVars, callVars
  <2> QED BY <2>1, <1>b, <1>d
<1>13. ASSUME NEW c \in Calls, PrepareAuthFails(c) PROVE Goal
  <2>1. draining' /\ UNCHANGED <<waiters, closed>>
    BY <1>13 DEF PrepareAuthFails, FreesSlot
  <2> QED BY <2>1, <1>c
<1>14. ASSUME NEW c \in Calls, RetireAndRetry(c) PROVE Goal
  <2>1. draining' /\ UNCHANGED <<waiters, closed>>
    BY <1>14 DEF RetireAndRetry, Retires
  <2> QED BY <2>1, <1>c
<1>15. ASSUME NEW c \in Calls, RetireAndFail(c) PROVE Goal
  <2>1. draining' /\ UNCHANGED <<waiters, closed>>
    BY <1>15 DEF RetireAndFail, Retires
  <2> QED BY <2>1, <1>c
<1>16. ASSUME NEW c \in Calls, Finish(c) PROVE Goal
  <2>1. draining' /\ UNCHANGED <<waiters, closed>>
    BY <1>16 DEF Finish, FreesSlot
  <2> QED BY <2>1, <1>c
<1>17. ASSUME NEW c \in Calls, Replay(c) PROVE Goal
  <2>1. draining' /\ UNCHANGED <<waiters, closed>>
    BY <1>17 DEF Replay, SessionDead, FreesSlot
  <2> QED BY <2>1, <1>c
<1>18. ASSUME NEW c \in Calls, ThrowDead(c) PROVE Goal
  <2>1. draining' /\ UNCHANGED <<waiters, closed>>
    BY <1>18 DEF ThrowDead, SessionDead, FreesSlot
  <2> QED BY <2>1, <1>c
<1>19. ASSUME NEW c \in Calls, EndDebug(c) PROVE Goal
  <2>1. UNCHANGED <<waiters, closed>>
    BY <1>19 DEF EndDebug
  <2>2. draining' \/ UNCHANGED <<slots, role, draining>>
    BY <1>19 DEF EndDebug, FreesSlot
  <2> QED BY <2>1, <2>2, <1>b, <1>c, <1>d
<1>20. ASSUME NEW s \in Slots, DiesIdle(s) PROVE Goal
  <2>1. draining' /\ UNCHANGED <<waiters, closed>>
    BY <1>20 DEF DiesIdle, Dies
  <2> QED BY <2>1, <1>c
<1>21. ASSUME NEW s \in Slots, DiesInUse(s) PROVE Goal
  <2>1. UNCHANGED <<waiters, closed, draining, slots, role>>
    BY <1>21 DEF DiesInUse, Dies, loopVars, slotVars, callVars
  <2> QED BY <2>1, <1>b, <1>d
<1>22. ASSUME NEW s \in Slots, DiesUnderDebug(s) PROVE Goal
  <2>1. draining' /\ UNCHANGED <<waiters, closed>>
    BY <1>22 DEF DiesUnderDebug, Dies, FreesSlot
  <2> QED BY <2>1, <1>c
<1>23. CASE SeatIdle
  <2>1. Looks /\ UNCHANGED <<waiters, closed, draining>>
    BY <1>23, CannotTakeLooks DEF SeatIdle, Reseats, Looks, loopVars
  <2> QED BY <2>1, <1>b, LooksBlocked
<1>24. CASE SeatMinted
  <2>1. UNCHANGED <<waiters, closed, draining>>
    BY <1>24 DEF SeatMinted, Reseats, loopVars
  <2> QED BY <1>24, <2>1, <1>b, SeatBlocked
<1>25. CASE SeatNobody
  <2>1. Looks /\ UNCHANGED <<waiters, closed, draining>>
    BY <1>25, CannotTakeLooks DEF SeatNobody, Reseats, Looks, loopVars
  <2> QED BY <2>1, <1>b, LooksBlocked
<1>26. CASE SeatShared
  <2>1. \E E \in SUBSET Evictable : Sweeps(E)
    BY <1>26 DEF SeatShared
  <2>2. Looks /\ UNCHANGED <<waiters, closed, draining>>
    BY <1>26, <2>1 DEF SeatShared, Reseats, Looks, loopVars
  <2> QED BY <2>2, <1>b, LooksBlocked
<1>27. CASE Shutdown
  <2>1. waiters' = <<>>
    BY <1>27 DEF Shutdown, Closes
  <2> QED BY <2>1 DEF HeadIsBlocked, ClosedIsEmpty
<1>28. CASE Dispose
  <2>1. waiters' = <<>>
    BY <1>28 DEF Dispose, Closes
  <2> QED BY <2>1 DEF HeadIsBlocked, ClosedIsEmpty
<1> QED BY <1>1, <1>2, <1>3, <1>4, <1>5, <1>6, <1>7, <1>8, <1>9, <1>10, <1>11,
    <1>12, <1>13, <1>14, <1>15, <1>16, <1>17, <1>18, <1>19, <1>20, <1>21,
    <1>22, <1>23, <1>24, <1>25, <1>26, <1>27, <1>28 DEF Next, Handoff, Acquire,
    CallStep, Primary

(***************************************************************************)
(* No wake-up is lost: between two blocks the first parked call is one     *)
(* that could not be served now.                                           *)
(***************************************************************************)
THEOREM NoLostWakeUp == Spec => []HeadIsBlocked
<1> DEFINE Inv == TypeInv /\ ClosedIsEmpty /\ HeadIsBlocked
<1>1. Inv /\ [Next]_vars => Inv'
  <2> SUFFICES ASSUME Inv, [Next]_vars PROVE Inv'
    OBVIOUS
  <2>1. TypeInv'
    BY TypeStep
  <2>2. Places /\ Places' /\ Queue
    BY <2>1, TypeParts DEF TypeInv, TypeOK, Places
  <2>3. CASE Next
    BY <2>1, <2>2, <2>3, BlockedStep
  <2>4. CASE UNCHANGED vars
    BY <2>1, <2>4
    DEF vars, slotVars, loopVars, ClosedIsEmpty, HeadIsBlocked
  <2> QED BY <2>3, <2>4
<1>2. Init => Inv
  BY TypeInit DEF Init, ClosedIsEmpty, HeadIsBlocked
<1>3. Spec => []Inv
  BY <1>1, <1>2, PTL DEF Spec
<1> QED BY <1>3, PTL

----------------------------------------------------------------------------
(***************************************************************************)
(* Corpses.                                                                *)
(***************************************************************************)
LEMMA CorpseStep ==
  ASSUME Places, Queue, Tied, CorpseFreesDebug, Next
  PROVE  CorpseFreesDebug'
<1> USE PoolAssumption DEF PoolAssumption, Roles
<1> USE DEF Places, Tied, Using, CorpseFreesDebug, Swept, Sweeps, FitIn, IdleIn,
            Fresh, Mints, Ends, FreesSlot, loopVars, slotVars, callVars

<1>1. CASE StopDraining
  BY <1>1, StopLooks DEF Looks
<1>2. CASE ServeHead
  <2>1. Head(waiters) \in Calls
    BY <1>2, HeadIsCall DEF ServeHead
  <2> QED BY <1>2, <2>1 DEF ServeHead, Takes
<1>3. CASE RejectHead
  <2>1. Head(waiters) \in Calls
    BY <1>3, HeadIsCall DEF RejectHead
  <2> QED BY <1>3, <2>1 DEF RejectHead, MintThrows
<1>4. ASSUME NEW c \in Calls, RefuseAtDoor(c) PROVE CorpseFreesDebug'
  BY <1>4 DEF RefuseAtDoor, Fails
<1>5. ASSUME NEW c \in Calls, FindClosed(c) PROVE CorpseFreesDebug'
  BY <1>5 DEF FindClosed, Fails
<1>6. ASSUME NEW c \in Calls, TakeNow(c) PROVE CorpseFreesDebug'
  BY <1>6 DEF TakeNow, Takes, Started
<1>7. ASSUME NEW c \in Calls, TakeThrows(c) PROVE CorpseFreesDebug'
  BY <1>7 DEF TakeThrows, MintThrows, Fails
<1>8. ASSUME NEW c \in Calls, Park(c) PROVE CorpseFreesDebug'
  <2>1. Looks
    BY <1>8, CannotTakeLooks DEF Park
  <2> QED BY <1>8, <2>1 DEF Park, Looks, Fails
<1>9. ASSUME NEW c \in Calls, ParkRefused(c) PROVE CorpseFreesDebug'
  <2>1. Looks
    BY <1>9, CannotTakeLooks DEF ParkRefused
  <2> QED BY <1>9, <2>1 DEF ParkRefused, Looks, Fails
<1>10. ASSUME NEW c \in Calls, Timeout(c) PROVE CorpseFreesDebug'
  BY <1>10 DEF Timeout
<1>11. ASSUME NEW c \in Calls, Resume(c) PROVE CorpseFreesDebug'
  BY <1>11 DEF Resume, Started
<1>12. ASSUME NEW c \in Calls, PrepareOk(c) PROVE CorpseFreesDebug'
  BY <1>12 DEF PrepareOk
<1>13. ASSUME NEW c \in Calls, PrepareAuthFails(c) PROVE CorpseFreesDebug'
  BY <1>13 DEF PrepareAuthFails, PreparationFails
<1>14. ASSUME NEW c \in Calls, RetireAndRetry(c) PROVE CorpseFreesDebug'
  BY <1>14 DEF RetireAndRetry, Retires, PreparationFails
<1>15. ASSUME NEW c \in Calls, RetireAndFail(c) PROVE CorpseFreesDebug'
  BY <1>15 DEF RetireAndFail, Retires, PreparationFails
<1>16. ASSUME NEW c \in Calls, Finish(c) PROVE CorpseFreesDebug'
  BY <1>16 DEF Finish
<1>17. ASSUME NEW c \in Calls, Replay(c) PROVE CorpseFreesDebug'
  BY <1>17 DEF Replay, SessionDead
<1>18. ASSUME NEW c \in Calls, ThrowDead(c) PROVE CorpseFreesDebug'
  BY <1>18 DEF ThrowDead, SessionDead
<1>19. ASSUME NEW c \in Calls, EndDebug(c) PROVE CorpseFreesDebug'
  BY <1>19 DEF EndDebug
<1>20. ASSUME NEW s \in Slots, DiesIdle(s) PROVE CorpseFreesDebug'
  BY <1>20 DEF DiesIdle, Dies
<1>21. ASSUME NEW s \in Slots, DiesInUse(s) PROVE CorpseFreesDebug'
  BY <1>21 DEF DiesInUse, Dies, LeftToFinally
<1>22. ASSUME NEW s \in Slots, DiesUnderDebug(s) PROVE CorpseFreesDebug'
  BY <1>22 DEF DiesUnderDebug, Dies, LeftToFinally
<1>23. CASE SeatIdle
  BY <1>23 DEF SeatIdle, Reseats
<1>24. CASE SeatMinted
  BY <1>24 DEF SeatMinted, Reseats, SeatMints
<1>25. CASE SeatNobody
  BY <1>25 DEF SeatNobody, Reseats
<1>26. CASE SeatShared
  BY <1>26 DEF SeatShared, Reseats
<1>27. CASE Shutdown
  BY <1>27 DEF Shutdown, Closes
<1>28. CASE Dispose
  BY <1>28 DEF Dispose, Closes
<1> QED BY <1>1, <1>2, <1>3, <1>4, <1>5, <1>6, <1>7, <1>8, <1>9, <1>10, <1>11,
    <1>12, <1>13, <1>14, <1>15, <1>16, <1>17, <1>18, <1>19, <1>20, <1>21,
    <1>22, <1>23, <1>24, <1>25, <1>26, <1>27, <1>28 DEF Next, Handoff, Acquire,
    CallStep, Primary

(***************************************************************************)
(* The slot of a debugger whose session died is out of the pool, whether   *)
(* or not its owner has let go of it.                                      *)
(***************************************************************************)
THEOREM DebugCorpsesAreFreed == Spec => []CorpseFreesDebug
<1>1. TypeInv /\ CorpseFreesDebug /\ [Next]_vars =>
        (TypeInv /\ CorpseFreesDebug)'
  <2> SUFFICES ASSUME TypeInv, CorpseFreesDebug, [Next]_vars
               PROVE  TypeInv' /\ CorpseFreesDebug'
    OBVIOUS
  <2>1. CASE Next
    BY <2>1, TypeStep, CorpseStep, TypeParts DEF TypeInv
  <2>2. CASE UNCHANGED vars
    BY <2>2, TypeStep DEF vars, slotVars, CorpseFreesDebug
  <2> QED BY <2>1, <2>2
<1>2. Init => TypeInv /\ CorpseFreesDebug
  BY TypeInit, PoolAssumption
  DEF Init, CorpseFreesDebug, PoolAssumption, Roles
<1>3. Spec => [](TypeInv /\ CorpseFreesDebug)
  BY <1>1, <1>2, PTL DEF Spec
<1> QED BY <1>3, PTL

(***************************************************************************)
(* Nobody waits for what is free.                                          *)
(***************************************************************************)
THEOREM NothingIsHeldBack == Spec => []NothingHeldBack
BY NoLostWakeUp, DebugCorpsesAreFreed, PTL DEF NothingHeldBack

(***************************************************************************)
(* Neither the cap nor a role's limit is ever passed.                      *)
(***************************************************************************)
THEOREM LimitsAreKept == Spec => []WithinLimits
BY TypeCorrect, CapacityIsBounded, RolesAreBounded, PTL DEF WithinLimits

=============================================================================
