------------------------- MODULE SessionLock_proofs -------------------------
(***************************************************************************)
(* The safety of the session lock for any number of calls and locks, any   *)
(* queue length and any lease TTL.                                         *)
(***************************************************************************)
EXTENDS SessionLock, SequenceTheorems, TLAPS

(* Only a call whose work has started can enclose another one. *)
AmbientRan ==
  \A f \in Frames : \A g \in ambient[f] : status[g] \in {"inside", "ended"}

(* A lease never queues; it fails fast instead. *)
NoParkedLease ==
  \A f \in Frames : status[f] = "parked" => kind[f] # "lease"

(* No parked call has the token it waits for in its set, ... *)
NoAmbientDeadlock ==
  \A f \in Frames : status[f] = "parked" => hold[lock[f]] \notin ambient[f]

(* ... and the set is exactly the calls it runs inside. *)
IInv ==
  /\ TypeOK
  /\ HoldIsOwned
  /\ QueueServed
  /\ QueueIsParked
  /\ NoAmbientDeadlock
  /\ AmbientRan
  /\ NoParkedLease
  /\ ambient = enclosing

LEMMA RemoveAtProperties ==
  ASSUME NEW S, NEW s \in Seq(S), NEW i \in 1 .. Len(s)
  PROVE  /\ RemoveAt(s, i) \in Seq(S)
         /\ Len(RemoveAt(s, i)) = Len(s) - 1
         /\ \A j \in 1 .. Len(s) - 1 :
              RemoveAt(s, i)[j] = IF j < i THEN s[j] ELSE s[j + 1]
<1> DEFINE a == SubSeq(s, 1, i - 1)
           b == SubSeq(s, i + 1, Len(s))
<1>0. Len(s) \in Nat /\ \A j \in 1 .. Len(s) : s[j] \in S
  BY LenProperties, ElementOfSeq
<1>1. /\ a \in Seq(S)
      /\ Len(a) = i - 1
      /\ \A j \in 1 .. i - 1 : a[j] = s[j]
  <2>1. \A j \in 1 .. i - 1 : s[j] \in S
    BY <1>0
  <2>2. /\ SubSeq(s, 1, i - 1) \in Seq(S)
        /\ Len(SubSeq(s, 1, i - 1)) = IF 1 <= i - 1 THEN i - 1 - 1 + 1 ELSE 0
        /\ \A j \in 1 .. i - 1 - 1 + 1 : SubSeq(s, 1, i - 1)[j] = s[1 + j - 1]
    BY <2>1, <1>0, SubSeqProperties
  <2> QED BY <2>2, <1>0
<1>2. /\ b \in Seq(S)
      /\ Len(b) = Len(s) - i
      /\ \A j \in 1 .. Len(s) - i : b[j] = s[i + j]
  <2>1. \A j \in i + 1 .. Len(s) : s[j] \in S
    BY <1>0
  <2>2. /\ SubSeq(s, i + 1, Len(s)) \in Seq(S)
        /\ Len(SubSeq(s, i + 1, Len(s)))
             = IF i + 1 <= Len(s) THEN Len(s) - (i + 1) + 1 ELSE 0
        /\ \A j \in 1 .. Len(s) - (i + 1) + 1 :
             SubSeq(s, i + 1, Len(s))[j] = s[i + 1 + j - 1]
    BY <2>1, <1>0, SubSeqProperties
  <2> QED BY <2>2, <1>0
<1> HIDE DEF a, b
<1>3. /\ a \o b \in Seq(S)
      /\ Len(a \o b) = Len(a) + Len(b)
      /\ \A j \in 1 .. Len(a) + Len(b) :
           (a \o b)[j] = IF j <= Len(a) THEN a[j] ELSE b[j - Len(a)]
  BY <1>1, <1>2, ConcatProperties
<1>4. RemoveAt(s, i) = a \o b
  BY DEF RemoveAt, a, b
<1>5. Len(a) + Len(b) = Len(s) - 1
  BY <1>0, <1>1, <1>2
<1>6. ASSUME NEW j \in 1 .. Len(s) - 1
      PROVE  (a \o b)[j] = IF j < i THEN s[j] ELSE s[j + 1]
  <2>1. CASE j < i
    BY <2>1, <1>0, <1>1, <1>3, <1>5
  <2>2. CASE ~(j < i)
    <3>1. (a \o b)[j] = b[j - (i - 1)]
      BY <2>2, <1>0, <1>1, <1>3, <1>5
    <3>2. j - (i - 1) \in 1 .. Len(s) - i /\ i + (j - (i - 1)) = j + 1
      BY <2>2, <1>0
    <3>3. b[j - (i - 1)] = s[i + (j - (i - 1))]
      BY <3>2, <1>2
    <3> QED BY <3>1, <3>2, <3>3, <2>2
  <2> QED BY <2>1, <2>2
<1> QED BY <1>3, <1>4, <1>5, <1>6

(* What is left of a queue once its head is shifted out. *)
LEMMA ShiftProperties ==
  ASSUME NEW S, NEW s \in Seq(S), s # <<>>
  PROVE  /\ Len(s) \in Nat \ {0}
         /\ s[1] \in S
         /\ SubSeq(s, 2, Len(s)) \in Seq(S)
         /\ Len(SubSeq(s, 2, Len(s))) = Len(s) - 1
         /\ \A j \in 1 .. Len(s) - 1 : SubSeq(s, 2, Len(s))[j] = s[j + 1]
<1>1. Len(s) \in Nat \ {0} /\ \A j \in 1 .. Len(s) : s[j] \in S
  BY LenProperties, ElementOfSeq, EmptySeq
<1>2. SubSeq(s, 2, Len(s)) = Tail(s)
  BY TailIsSubSeq
<1>3. /\ Tail(s) \in Seq(S)
      /\ Len(Tail(s)) = Len(s) - 1
      /\ \A j \in 1 .. Len(Tail(s)) : Tail(s)[j] = s[j + 1]
  BY HeadTailProperties
<1> QED BY <1>1, <1>2, <1>3

(***************************************************************************)
(* All that waits in a queue is alive, so a hand-off serves its head.      *)
(***************************************************************************)
LEMMA HandOffServesHead ==
  ASSUME IInv, NEW l \in Locks, NEW st \in [Frames -> Statuses],
         \A f \in Frames : status[f] = "parked" => st[f] = "parked",
         HandOff(l, st)
  PROVE  \/ /\ waiters[l] = <<>>
            /\ hold' = [hold EXCEPT ![l] = None]
            /\ waiters' = waiters
            /\ status' = st
         \/ /\ waiters[l] # <<>>
            /\ hold' = [hold EXCEPT ![l] = waiters[l][1]]
            /\ waiters' = [waiters EXCEPT ![l] = SubSeq(@, 2, Len(@))]
            /\ status' = [st EXCEPT ![waiters[l][1]] = "granted"]
<1>1. waiters[l] \in Seq(Frames) /\ waiters \in [Locks -> Seq(Frames)]
  BY DEF IInv, TypeOK
<1>2. Len(waiters[l]) \in Nat /\ \A i \in 1 .. Len(waiters[l]) : waiters[l][i] \in Frames
  BY <1>1, LenProperties, ElementOfSeq
<1>3. \A i \in 1 .. Len(waiters[l]) : LiveAt(l, st, i)
  BY <1>2 DEF IInv, QueueIsParked, InQueue, LiveAt
<1>4. CASE waiters[l] = <<>>
  <2>1. Len(waiters[l]) = 0
    BY <1>4, EmptySeq
  <2>2. waiters = [waiters EXCEPT ![l] = <<>>]
    BY <1>1, <1>4
  <2> QED BY <1>4, <2>1, <2>2 DEF HandOff
<1>5. CASE waiters[l] # <<>>
  <2>1. Len(waiters[l]) \in Nat \ {0}
    BY <1>5, <1>1, EmptySeq
  <2>2. ~ \A i \in 1 .. Len(waiters[l]) : ~LiveAt(l, st, i)
    BY <2>1, <1>3
  <2>3. PICK i \in 1 .. Len(waiters[l]) :
          /\ \A j \in 1 .. (i - 1) : ~LiveAt(l, st, j)
          /\ hold'    = [hold EXCEPT ![l] = waiters[l][i]]
          /\ waiters' = [waiters EXCEPT ![l] = SubSeq(@, i + 1, Len(@))]
          /\ status'  = [st EXCEPT ![waiters[l][i]] = "granted"]
    BY <2>2 DEF HandOff
  <2>4. i = 1
    <3>1. CASE i > 1
      BY <3>1, <2>1, <2>3, <1>3
    <3> QED BY <3>1, <2>1
  <2> QED BY <1>5, <2>3, <2>4
<1> QED BY <1>4, <1>5

(***************************************************************************)
(* A hand-off preserves the invariant when nothing else changes, except    *)
(* that the call that held the lock may have ended.                        *)
(***************************************************************************)
LEMMA HandOffInv ==
  ASSUME IInv, NEW l \in Locks, hold[l] # None,
         NEW st \in [Frames -> Statuses],
         st = status \/ st = [status EXCEPT ![hold[l]] = "ended"],
         status[hold[l]] = "inside",
         HandOff(l, st),
         UNCHANGED <<ttl, lock, kind, ambient, enclosing>>
  PROVE  IInv'
<1> DEFINE h == hold[l]
           w == waiters[l][1]
<1>1. /\ hold \in [Locks -> Frames \cup {None}]
      /\ waiters \in [Locks -> Seq(Frames)]
      /\ status \in [Frames -> Statuses]
      /\ lock \in [Frames -> Locks]
      /\ h \in Frames
  BY DEF IInv, TypeOK
<1>2. \A f \in Frames : (st[f] = status[f] /\ st[f] = status[f]) \/ (f = h /\ st[f] = "ended")
  BY <1>1
<1>3. \A f \in Frames : status[f] = "parked" <=> st[f] = "parked"
  BY <1>1, <1>2
<1>4. CASE waiters[l] = <<>>
  <2>1. /\ hold' = [hold EXCEPT ![l] = None]
        /\ waiters' = waiters
        /\ status' = st
    BY <1>3, <1>4, HandOffServesHead
  <2>2. TypeOK'
    BY <1>1, <2>1 DEF IInv, TypeOK
  <2>3. HoldIsOwned'
    BY <1>1, <1>2, <2>1 DEF IInv, HoldIsOwned
  <2>4. QueueServed'
    BY <1>1, <1>4, <2>1 DEF IInv, QueueServed
  <2>5. QueueIsParked'
    BY <1>3, <2>1 DEF IInv, QueueIsParked, InQueue
  <2>6. NoAmbientDeadlock' /\ AmbientRan' /\ NoParkedLease'
    <3>1. \A f \in Frames : status[f] = "parked" /\ lock[f] = l => FALSE
      BY <1>4, EmptySeq DEF IInv, QueueIsParked, InQueue
    <3>2. NoAmbientDeadlock'
      BY <1>1, <1>3, <2>1, <3>1 DEF IInv, NoAmbientDeadlock
    <3>3. AmbientRan'
      BY <1>1, <1>2, <2>1 DEF IInv, AmbientRan, TypeOK
    <3>4. NoParkedLease'
      BY <1>3, <2>1 DEF IInv, NoParkedLease
    <3> QED BY <3>2, <3>3, <3>4
  <2>7. ambient' = enclosing'
    BY DEF IInv
  <2> QED BY <2>2, <2>3, <2>4, <2>5, <2>6, <2>7 DEF IInv
<1>5. CASE waiters[l] # <<>>
  <2> DEFINE q == waiters[l]
             r == SubSeq(waiters[l], 2, Len(waiters[l]))
  <2>1. /\ hold' = [hold EXCEPT ![l] = w]
        /\ waiters' = [waiters EXCEPT ![l] = r]
        /\ status' = [st EXCEPT ![w] = "granted"]
    BY <1>3, <1>5, HandOffServesHead
  <2>2. /\ Len(q) \in Nat \ {0}
        /\ w \in Frames
        /\ r \in Seq(Frames)
        /\ Len(r) = Len(q) - 1
        /\ \A j \in 1 .. Len(q) - 1 : r[j] = q[j + 1]
    BY <1>1, <1>5, ShiftProperties
  <2>3. /\ \A i, j \in 1 .. Len(q) : i # j => q[i] # q[j]
        /\ Len(q) <= MaxQueue
        /\ \A f \in Frames : (status[f] = "parked" /\ lock[f] = l)
                               <=> \E i \in 1 .. Len(q) : q[i] = f
    BY DEF IInv, QueueIsParked, InQueue
  <2>4. status[w] = "parked" /\ lock[w] = l /\ w # h /\ w # None
    BY <1>1, <2>2, <2>3, SessionLockAssumption
  <2>5. kind[w] # "lease"
    BY <2>2, <2>4 DEF IInv, NoParkedLease
  <2> HIDE DEF q, r, w, h
  <2>6. \A f \in Frames :
          /\ status'[f] = IF f = w THEN "granted" ELSE st[f]
          /\ status'[f] = "parked" <=> status[f] = "parked" /\ f # w
          /\ status[f] \in {"inside", "ended"} => status'[f] \in {"inside", "ended"}
    BY <1>1, <1>2, <2>1, <2>2, <2>4
  <2>7. TypeOK'
    BY <1>1, <2>1, <2>2 DEF IInv, TypeOK, Statuses
  <2>8. HoldIsOwned'
    <3> SUFFICES ASSUME NEW m \in Locks, hold'[m] # None
                 PROVE  lock[hold'[m]] = m /\ status'[hold'[m]] \in {"granted", "inside"}
      BY DEF HoldIsOwned
    <3>1. CASE m = l
      BY <3>1, <1>1, <2>1, <2>2, <2>4, <2>6
    <3>2. CASE m # l
      <4>1. /\ hold'[m] = hold[m]
            /\ lock[hold[m]] = m
            /\ status[hold[m]] \in {"granted", "inside"}
            /\ hold[m] \in Frames
        BY <3>2, <1>1, <2>1 DEF IInv, HoldIsOwned
      <4>2. lock[h] = l
        BY DEF IInv, HoldIsOwned, h
      <4>3. hold[m] # h /\ hold[m] # w
        BY <4>1, <4>2, <3>2, <2>4
      <4> QED BY <4>1, <4>3, <1>2, <2>6
    <3> QED BY <3>1, <3>2
  <2>9. QueueServed'
    <3> SUFFICES ASSUME NEW m \in Locks, waiters'[m] # <<>>
                 PROVE  hold'[m] # None /\ kind[hold'[m]] # "lease"
      BY DEF QueueServed
    <3>1. CASE m = l
      BY <3>1, <1>1, <2>1, <2>4, <2>5
    <3>2. CASE m # l
      BY <3>2, <1>1, <2>1 DEF IInv, QueueServed
    <3> QED BY <3>1, <3>2
  <2>10. QueueIsParked'
    <3> SUFFICES ASSUME NEW m \in Locks
                 PROVE  /\ Len(waiters'[m]) <= MaxQueue
                        /\ \A i, j \in 1 .. Len(waiters'[m]) :
                             i # j => waiters'[m][i] # waiters'[m][j]
                        /\ \A f \in Frames :
                             (status'[f] = "parked" /\ lock[f] = m)
                               <=> \E i \in 1 .. Len(waiters'[m]) : waiters'[m][i] = f
      BY DEF QueueIsParked, InQueue
    <3>1. CASE m = l
      <4>1. waiters'[m] = r
        BY <3>1, <1>1, <2>1
      <4>2. MaxQueue \in Nat
        BY SessionLockAssumption
      <4>3. Len(r) <= MaxQueue
        BY <4>2, <2>2, <2>3
      <4>4. \A i, j \in 1 .. Len(r) : i # j => r[i] # r[j]
        BY <2>2, <2>3
      <4>5. w = q[1]
        BY DEF w, q
      <4>6. ASSUME NEW f \in Frames
            PROVE  (f # w /\ \E i \in 1 .. Len(q) : q[i] = f)
                     <=> \E i \in 1 .. Len(r) : r[i] = f
        <5>1. ASSUME f # w, NEW i \in 1 .. Len(q), q[i] = f
              PROVE  \E j \in 1 .. Len(r) : r[j] = f
          <6>1. i # 1
            BY <5>1, <4>5
          <6>2. i - 1 \in 1 .. Len(r) /\ r[i - 1] = q[i]
            BY <6>1, <2>2
          <6> QED BY <6>2, <5>1
        <5>2. ASSUME NEW i \in 1 .. Len(r), r[i] = f
              PROVE  f # w /\ \E j \in 1 .. Len(q) : q[j] = f
          <6>1. i + 1 \in 1 .. Len(q) /\ 1 \in 1 .. Len(q) /\ q[i + 1] = f /\ i + 1 # 1
            BY <5>2, <2>2
          <6>2. q[i + 1] # q[1]
            BY <6>1, <2>3
          <6> QED BY <6>1, <6>2, <4>5
        <5> QED BY <5>1, <5>2
      <4>7. ASSUME NEW f \in Frames
            PROVE  (status'[f] = "parked" /\ lock[f] = m)
                     <=> \E i \in 1 .. Len(r) : r[i] = f
        BY <4>6, <2>3, <2>6, <3>1
      <4> QED BY <4>1, <4>3, <4>4, <4>7
    <3>2. CASE m # l
      <4>1. waiters'[m] = waiters[m]
        BY <3>2, <1>1, <2>1
      <4>2. \A f \in Frames : (status'[f] = "parked" /\ lock[f] = m)
                                <=> (status[f] = "parked" /\ lock[f] = m)
        BY <3>2, <2>4, <2>6
      <4> QED BY <4>1, <4>2 DEF IInv, QueueIsParked, InQueue
    <3> QED BY <3>1, <3>2
  <2>11. NoAmbientDeadlock'
    <3> SUFFICES ASSUME NEW f \in Frames, status'[f] = "parked"
                 PROVE  hold'[lock[f]] \notin ambient[f]
      BY DEF NoAmbientDeadlock
    <3>1. status[f] = "parked" /\ lock[f] \in Locks
      BY <1>1, <2>6
    <3>2. CASE lock[f] = l
      <4>1. hold'[l] = w
        BY <1>1, <2>1
      <4>2. w \notin ambient[f]
        BY <2>4 DEF IInv, AmbientRan
      <4> QED BY <4>1, <4>2, <3>2
    <3>3. CASE lock[f] # l
      BY <3>1, <3>3, <1>1, <2>1 DEF IInv, NoAmbientDeadlock
    <3> QED BY <3>2, <3>3
  <2>12. AmbientRan'
    <3> SUFFICES ASSUME NEW f \in Frames, NEW g \in ambient[f]
                 PROVE  status'[g] \in {"inside", "ended"}
      BY DEF AmbientRan
    <3>1. g \in Frames /\ status[g] \in {"inside", "ended"}
      BY DEF IInv, TypeOK, AmbientRan
    <3> QED BY <3>1, <2>6
  <2>13. NoParkedLease'
    BY <2>6 DEF IInv, NoParkedLease
  <2>14. ambient' = enclosing'
    BY DEF IInv
  <2> QED BY <2>7, <2>8, <2>9, <2>10, <2>11, <2>12, <2>13, <2>14 DEF IInv
<1> QED BY <1>4, <1>5

LEMMA SameSet ==
  ASSUME IInv, NEW p \in Frames \cup {None}
  PROVE  AmbientIn(p) = EnclosingIn(p)
BY DEF IInv, AmbientIn, EnclosingIn, WithToken

(***************************************************************************)
(* The invariant is about parked calls, holders, queues and the calls      *)
(* others are nested in.  A step that moves one call f between two states  *)
(* that are neither, and touches no lock, preserves it.                    *)
(***************************************************************************)
LEMMA StatusOnly ==
  ASSUME IInv, NEW f \in Frames, NEW s \in Statuses,
         status' = [status EXCEPT ![f] = s],
         \/ UNCHANGED <<ambient, enclosing>>
         \/ status[f] = "new" /\ \E p \in Frames \cup {None} :
              /\ CanEnclose(p)
              /\ ambient' = [ambient EXCEPT ![f] = AmbientIn(p)]
              /\ enclosing' = [enclosing EXCEPT ![f] = EnclosingIn(p)],
         status[f] # "parked", s # "parked",
         status[f] = "granted" => s = "inside",
         status[f] = "inside" => s = "ended" /\ hold[lock[f]] # f,
         status[f] = "ended" => s = "ended",
         UNCHANGED <<hold, waiters, ttl, lock, kind>>
  PROVE  IInv'
<1>1. /\ hold \in [Locks -> Frames \cup {None}]
      /\ waiters \in [Locks -> Seq(Frames)]
      /\ status \in [Frames -> Statuses]
      /\ lock \in [Frames -> Locks]
      /\ ambient \in [Frames -> SUBSET Frames]
  BY DEF IInv, TypeOK
<1>2. \A g \in Frames :
        /\ status'[g] = IF g = f THEN s ELSE status[g]
        /\ status'[g] = "parked" <=> status[g] = "parked"
        /\ status[g] \in {"inside", "ended"} => status'[g] \in {"inside", "ended"}
  BY <1>1
<1>3. \A p \in Frames \cup {None} : CanEnclose(p) =>
        /\ AmbientIn(p) \subseteq Frames
        /\ \A g \in AmbientIn(p) : status[g] \in {"inside", "ended"}
  BY <1>1 DEF IInv, AmbientRan, AmbientIn, WithToken, CanEnclose
<1>11. ambient' = enclosing'
  BY SameSet DEF IInv
<1>4. TypeOK'
  <2>1. status' \in [Frames -> Statuses]
    BY <1>1
  <2>2. ambient' \in [Frames -> SUBSET Frames]
    BY <1>1, <1>3
  <2> QED BY <2>1, <2>2, <1>11 DEF IInv, TypeOK
<1>5. HoldIsOwned'
  BY <1>1, <1>2 DEF IInv, HoldIsOwned
<1>10. QueueServed' /\ NoParkedLease'
  BY <1>1, <1>2 DEF IInv, QueueServed, NoParkedLease
<1>6. QueueIsParked'
  BY <1>2 DEF IInv, QueueIsParked, InQueue
<1>7. \A g \in Frames : status[g] = "parked" => ambient'[g] = ambient[g]
  BY <1>1
<1>8. NoAmbientDeadlock'
  BY <1>2, <1>7 DEF IInv, NoAmbientDeadlock
<1>9. AmbientRan'
  <2> SUFFICES ASSUME NEW c \in Frames, NEW g \in ambient'[c]
               PROVE  status'[g] \in {"inside", "ended"}
    BY DEF AmbientRan
  <2>1. g \in Frames /\ status[g] \in {"inside", "ended"}
    <3>1. CASE ambient' = ambient
      BY <3>1, <1>1 DEF IInv, AmbientRan
    <3>2. CASE \E p \in Frames \cup {None} :
                 CanEnclose(p) /\ ambient' = [ambient EXCEPT ![f] = AmbientIn(p)]
      <4>1. PICK p \in Frames \cup {None} :
              CanEnclose(p) /\ ambient' = [ambient EXCEPT ![f] = AmbientIn(p)]
        BY <3>2
      <4>2. CASE c = f
        BY <4>1, <4>2, <1>1, <1>3
      <4>3. CASE c # f
        BY <4>1, <4>3, <1>1 DEF IInv, AmbientRan
      <4> QED BY <4>2, <4>3
    <3> QED BY <3>1, <3>2
  <2> QED BY <2>1, <1>2
<1> QED BY <1>4, <1>5, <1>6, <1>8, <1>9, <1>10, <1>11 DEF IInv

(* A call that takes a free lock, exclusively or as a lease. *)
LEMMA TakeInv ==
  ASSUME IInv, NEW f \in Frames, NEW p \in Frames \cup {None},
         TakeFree(f, p) \/ TakeLease(f, p)
  PROVE  IInv'
<1> DEFINE l == lock[f]
<1>1. /\ hold \in [Locks -> Frames \cup {None}]
      /\ waiters \in [Locks -> Seq(Frames)]
      /\ status \in [Frames -> Statuses]
      /\ lock \in [Frames -> Locks]
      /\ ambient \in [Frames -> SUBSET Frames]
      /\ l \in Locks
  BY DEF IInv, TypeOK
<1>2. /\ hold[l] = None
      /\ hold' = [hold EXCEPT ![l] = f]
      /\ waiters' = waiters
      /\ \E s \in {"granted", "inside"} : status' = [status EXCEPT ![f] = s]
      /\ status[f] = "new"
      /\ CanEnclose(p)
      /\ ambient' = [ambient EXCEPT ![f] = AmbientIn(p)]
      /\ enclosing' = [enclosing EXCEPT ![f] = EnclosingIn(p)]
      /\ UNCHANGED <<lock, kind>>
  BY DEF TakeFree, TakeLease, Called
<1>3. /\ AmbientIn(p) \subseteq Frames
      /\ \A g \in AmbientIn(p) : status[g] \in {"inside", "ended"}
  BY <1>1, <1>2 DEF IInv, AmbientRan, AmbientIn, WithToken, CanEnclose
<1>12. ambient' = enclosing'
  BY <1>2, SameSet DEF IInv
<1>4. \A g \in Frames :
        /\ status'[g] = "parked" <=> status[g] = "parked"
        /\ g # f => status'[g] = status[g]
  BY <1>1, <1>2
<1>5. waiters[l] = <<>>
  BY <1>1, <1>2 DEF IInv, QueueServed
<1>6. TypeOK'
  <2>1. ttl' \in [Locks -> 0 .. LeaseTtl]
    <3>1. ttl' = ttl \/ ttl' = [ttl EXCEPT ![l] = LeaseTtl]
      BY DEF TakeFree, TakeLease
    <3>2. ttl \in [Locks -> 0 .. LeaseTtl] /\ LeaseTtl \in 0 .. LeaseTtl
      BY SessionLockAssumption DEF IInv, TypeOK
    <3> QED BY <3>1, <3>2
  <2> QED BY <2>1, <1>1, <1>2, <1>3, <1>12 DEF IInv, TypeOK, Statuses
<1>7. HoldIsOwned'
  BY <1>1, <1>2, <1>4, SessionLockAssumption DEF IInv, HoldIsOwned
<1>8. QueueServed' /\ NoParkedLease'
  BY <1>1, <1>2, <1>4, <1>5 DEF IInv, QueueServed, NoParkedLease
<1>9. QueueIsParked'
  BY <1>2, <1>4 DEF IInv, QueueIsParked, InQueue
<1>10. NoAmbientDeadlock'
  <2>1. \A g \in Frames : status[g] = "parked" => lock[g] # l
    <3>1. Len(waiters[l]) = 0
      BY <1>5
    <3> QED BY <3>1, <1>1 DEF IInv, QueueIsParked, InQueue
  <2> QED BY <2>1, <1>1, <1>2, <1>4 DEF IInv, NoAmbientDeadlock
<1>11. AmbientRan'
  BY <1>1, <1>2, <1>3, <1>4 DEF IInv, AmbientRan
<1> QED BY <1>6, <1>7, <1>8, <1>9, <1>10, <1>11, <1>12 DEF IInv

LEMMA ParkInv ==
  ASSUME IInv, NEW f \in Frames, NEW p \in Frames \cup {None}, Park(f, p)
  PROVE  IInv'
<1> DEFINE l == lock[f]
           q == waiters[l]
           r == Append(q, f)
<1>1. /\ hold \in [Locks -> Frames \cup {None}]
      /\ waiters \in [Locks -> Seq(Frames)]
      /\ status \in [Frames -> Statuses]
      /\ lock \in [Frames -> Locks]
      /\ ambient \in [Frames -> SUBSET Frames]
      /\ l \in Locks
  BY DEF IInv, TypeOK
<1>2. /\ hold[l] # None
      /\ kind[hold[l]] # "lease"
      /\ Len(q) < MaxQueue
      /\ hold' = hold
      /\ waiters' = [waiters EXCEPT ![l] = r]
      /\ status' = [status EXCEPT ![f] = "parked"]
      /\ status[f] = "new"
      /\ CanEnclose(p)
      /\ hold[l] \notin AmbientIn(p)
      /\ kind[f] # "lease"
      /\ ambient' = [ambient EXCEPT ![f] = AmbientIn(p)]
      /\ enclosing' = [enclosing EXCEPT ![f] = EnclosingIn(p)]
      /\ UNCHANGED <<lock, kind, ttl>>
  BY DEF Park, Called, IsReentrant, Exclusive
<1>3. /\ AmbientIn(p) \subseteq Frames
      /\ \A g \in AmbientIn(p) : status[g] \in {"inside", "ended"}
  BY <1>1, <1>2 DEF IInv, AmbientRan, AmbientIn, WithToken, CanEnclose
<1>12. ambient' = enclosing'
  BY <1>2, SameSet DEF IInv
<1>4. /\ r \in Seq(Frames)
      /\ Len(q) \in Nat
      /\ Len(r) = Len(q) + 1
      /\ \A i \in 1 .. Len(q) : r[i] = q[i]
      /\ r[Len(q) + 1] = f
  <2>1. q \in Seq(Frames)
    BY <1>1
  <2> QED BY <2>1, AppendProperties, LenProperties
<1>5. ~ \E i \in 1 .. Len(q) : q[i] = f
  BY <1>1, <1>2 DEF IInv, QueueIsParked, InQueue
<1> HIDE DEF r, q, l
<1>6. TypeOK'
  BY <1>1, <1>2, <1>3, <1>4, <1>12 DEF IInv, TypeOK, Statuses
<1>7. HoldIsOwned'
  BY <1>1, <1>2 DEF IInv, HoldIsOwned
<1>8. QueueServed' /\ NoParkedLease'
  BY <1>1, <1>2 DEF IInv, QueueServed, NoParkedLease
<1>9. QueueIsParked'
  <2> SUFFICES ASSUME NEW m \in Locks
               PROVE  /\ Len(waiters'[m]) <= MaxQueue
                      /\ \A i, j \in 1 .. Len(waiters'[m]) :
                           i # j => waiters'[m][i] # waiters'[m][j]
                      /\ \A g \in Frames :
                           (status'[g] = "parked" /\ lock[g] = m)
                             <=> \E i \in 1 .. Len(waiters'[m]) : waiters'[m][i] = g
    BY <1>2 DEF QueueIsParked, InQueue
  <2>1. CASE m = l
    <3>1. waiters'[m] = r
      BY <2>1, <1>1, <1>2
    <3>2. /\ \A i, j \in 1 .. Len(q) : i # j => q[i] # q[j]
          /\ \A g \in Frames : (status[g] = "parked" /\ lock[g] = l)
                                 <=> \E i \in 1 .. Len(q) : q[i] = g
      BY <1>1 DEF IInv, QueueIsParked, InQueue, q
    <3>3. \A i, j \in 1 .. Len(r) : i # j => r[i] # r[j]
      BY <3>2, <1>4, <1>5
    <3>4. Len(r) <= MaxQueue
      BY <1>2, <1>4, SessionLockAssumption
    <3>5. \A g \in Frames : (\E i \in 1 .. Len(r) : r[i] = g)
                              <=> (g = f \/ \E i \in 1 .. Len(q) : q[i] = g)
      BY <1>4
    <3>6. \A g \in Frames : status'[g] = "parked" <=> (g = f \/ status[g] = "parked")
      BY <1>1, <1>2
    <3>7. lock[f] = l
      BY DEF l
    <3> QED BY <3>1, <3>2, <3>3, <3>4, <3>5, <3>6, <3>7, <2>1
  <2>2. CASE m # l
    <3>1. waiters'[m] = waiters[m]
      BY <2>2, <1>1, <1>2
    <3>2. \A g \in Frames : (status'[g] = "parked" /\ lock[g] = m)
                              <=> (status[g] = "parked" /\ lock[g] = m)
      BY <2>2, <1>1, <1>2 DEF l
    <3> QED BY <3>1, <3>2 DEF IInv, QueueIsParked, InQueue
  <2> QED BY <2>1, <2>2
<1>10. NoAmbientDeadlock'
  <2> SUFFICES ASSUME NEW g \in Frames, status'[g] = "parked"
               PROVE  hold[lock[g]] \notin ambient'[g]
    BY <1>2 DEF NoAmbientDeadlock
  <2>1. CASE g = f
    BY <2>1, <1>1, <1>2 DEF l
  <2>2. CASE g # f
    BY <2>2, <1>1, <1>2 DEF IInv, NoAmbientDeadlock
  <2> QED BY <2>1, <2>2
<1>11. AmbientRan'
  BY <1>1, <1>2, <1>3 DEF IInv, AmbientRan
<1> QED BY <1>6, <1>7, <1>8, <1>9, <1>10, <1>11, <1>12 DEF IInv

LEMMA TimeOutInv ==
  ASSUME IInv, NEW f \in Frames, TimeOutWaiter(f)
  PROVE  IInv'
<1> DEFINE l == lock[f]
           q == waiters[l]
<1>1. /\ hold \in [Locks -> Frames \cup {None}]
      /\ waiters \in [Locks -> Seq(Frames)]
      /\ status \in [Frames -> Statuses]
      /\ lock \in [Frames -> Locks]
      /\ ambient \in [Frames -> SUBSET Frames]
      /\ l \in Locks
      /\ q \in Seq(Frames)
      /\ Len(q) \in Nat
  <2>1. waiters[l] \in Seq(Frames)
    BY DEF IInv, TypeOK
  <2> QED BY <2>1, LenProperties DEF IInv, TypeOK
<1>2. PICK k \in 1 .. Len(q) :
        q[k] = f /\ waiters' = [waiters EXCEPT ![l] = RemoveAt(q, k)]
  BY DEF TimeOutWaiter
<1> DEFINE r == RemoveAt(q, k)
<1>3. /\ status[f] = "parked"
      /\ status' = [status EXCEPT ![f] = "refused"]
      /\ UNCHANGED <<hold, ttl, lock, kind, ambient, enclosing>>
  BY DEF TimeOutWaiter
<1>4. /\ r \in Seq(Frames)
      /\ Len(r) = Len(q) - 1
      /\ \A j \in 1 .. Len(q) - 1 : r[j] = IF j < k THEN q[j] ELSE q[j + 1]
  BY <1>1, RemoveAtProperties
<1>15. \A j \in 1 .. Len(r) : /\ j < k => r[j] = q[j]
                              /\ ~(j < k) => r[j] = q[j + 1]
  BY <1>4
<1>16. Len(q) \in Nat /\ Len(r) = Len(q) - 1 /\ k \in 1 .. Len(q)
  BY <1>1, <1>2, <1>4
<1>5. /\ \A i, j \in 1 .. Len(q) : i # j => q[i] # q[j]
      /\ Len(q) <= MaxQueue
      /\ \A g \in Frames : (status[g] = "parked" /\ lock[g] = l)
                             <=> \E i \in 1 .. Len(q) : q[i] = g
  BY <1>1 DEF IInv, QueueIsParked, InQueue
<1>6. waiters' = [waiters EXCEPT ![l] = r]
  BY <1>2
<1>7. lock[f] = l
  OBVIOUS
<1> HIDE DEF r, q, l
<1>8. \A g \in Frames :
        /\ status'[g] = "parked" <=> (status[g] = "parked" /\ g # f)
        /\ status[g] # "parked" => status'[g] = status[g]
  BY <1>1, <1>3
<1>9. TypeOK'
  BY <1>1, <1>3, <1>4, <1>6 DEF IInv, TypeOK, Statuses
<1>10. HoldIsOwned'
  BY <1>1, <1>3, <1>8 DEF IInv, HoldIsOwned
<1>11. QueueServed'
  <2>1. q # <<>>
    BY <1>1, <1>2
  <2> QED BY <2>1, <1>1, <1>3, <1>6 DEF IInv, QueueServed, q
<1>12. QueueIsParked'
  <2> SUFFICES ASSUME NEW m \in Locks
               PROVE  /\ Len(waiters'[m]) <= MaxQueue
                      /\ \A i, j \in 1 .. Len(waiters'[m]) :
                           i # j => waiters'[m][i] # waiters'[m][j]
                      /\ \A g \in Frames :
                           (status'[g] = "parked" /\ lock[g] = m)
                             <=> \E i \in 1 .. Len(waiters'[m]) : waiters'[m][i] = g
    BY <1>3 DEF QueueIsParked, InQueue
  <2>1. CASE m = l
    <3>1. waiters'[m] = r
      BY <2>1, <1>1, <1>6
    <3>2. Len(r) <= MaxQueue
      BY <1>1, <1>4, <1>5, SessionLockAssumption
    <3>3. ASSUME NEW i \in 1 .. Len(r), NEW j \in 1 .. Len(r), i # j
          PROVE  r[i] # r[j]
      <4>1. CASE i < k /\ j < k
        <5>1. i \in 1 .. Len(q) /\ j \in 1 .. Len(q)
          BY <4>1, <1>16
        <5>2. q[i] # q[j]
          BY <5>1, <3>3, <1>5
        <5>3. r[i] = q[i] /\ r[j] = q[j]
          BY <4>1, <1>15
        <5> QED BY <5>2, <5>3
      <4>2. CASE i < k /\ ~(j < k)
        <5>1. i \in 1 .. Len(q) /\ j + 1 \in 1 .. Len(q) /\ i # j + 1
          BY <4>2, <1>16
        <5>2. q[i] # q[j + 1]
          BY <5>1, <1>5
        <5>3. r[i] = q[i] /\ r[j] = q[j + 1]
          BY <4>2, <1>15
        <5> QED BY <5>2, <5>3
      <4>3. CASE ~(i < k) /\ j < k
        <5>1. i + 1 \in 1 .. Len(q) /\ j \in 1 .. Len(q) /\ i + 1 # j
          BY <4>3, <1>16
        <5>2. q[i + 1] # q[j]
          BY <5>1, <1>5
        <5>3. r[i] = q[i + 1] /\ r[j] = q[j]
          BY <4>3, <1>15
        <5> QED BY <5>2, <5>3
      <4>4. CASE ~(i < k) /\ ~(j < k)
        <5>1. i + 1 \in 1 .. Len(q) /\ j + 1 \in 1 .. Len(q) /\ i + 1 # j + 1
          BY <4>4, <3>3, <1>16
        <5>2. q[i + 1] # q[j + 1]
          BY <5>1, <1>5
        <5>3. r[i] = q[i + 1] /\ r[j] = q[j + 1]
          BY <4>4, <1>15
        <5> QED BY <5>2, <5>3
      <4> QED BY <4>1, <4>2, <4>3, <4>4
    <3>4. ASSUME NEW g \in Frames
          PROVE  (\E i \in 1 .. Len(r) : r[i] = g)
                   <=> (g # f /\ \E i \in 1 .. Len(q) : q[i] = g)
      <4>1. ASSUME NEW i \in 1 .. Len(r), r[i] = g
            PROVE  g # f /\ \E j \in 1 .. Len(q) : q[j] = g
        <5>1. CASE i < k
          <6>1. i \in 1 .. Len(q) /\ i # k /\ q[i] = g
            BY <4>1, <5>1, <1>15, <1>16
          <6> QED BY <6>1, <1>2, <1>5
        <5>2. CASE ~(i < k)
          <6>1. i + 1 \in 1 .. Len(q) /\ i + 1 # k /\ q[i + 1] = g
            BY <4>1, <5>2, <1>15, <1>16
          <6> QED BY <6>1, <1>2, <1>5
        <5> QED BY <5>1, <5>2
      <4>2. ASSUME NEW i \in 1 .. Len(q), q[i] = g, g # f
            PROVE  \E j \in 1 .. Len(r) : r[j] = g
        <5>1. i # k
          BY <4>2, <1>2
        <5>2. CASE i < k
          <6>1. i \in 1 .. Len(r)
            BY <5>2, <1>16
          <6> QED BY <6>1, <5>2, <4>2, <1>15
        <5>3. CASE i > k
          <6>1. i - 1 \in 1 .. Len(r) /\ ~(i - 1 < k) /\ (i - 1) + 1 = i
            BY <5>3, <1>16
          <6>2. r[i - 1] = q[i]
            BY <6>1, <1>15
          <6> QED BY <6>1, <6>2, <4>2
        <5> QED BY <5>1, <5>2, <5>3
      <4> QED BY <4>1, <4>2
    <3> QED BY <3>1, <3>2, <3>3, <3>4, <1>5, <1>8, <2>1
  <2>2. CASE m # l
    <3>1. waiters'[m] = waiters[m]
      BY <2>2, <1>1, <1>6
    <3>2. \A g \in Frames : (status'[g] = "parked" /\ lock[g] = m)
                              <=> (status[g] = "parked" /\ lock[g] = m)
      BY <2>2, <1>7, <1>8
    <3> QED BY <3>1, <3>2 DEF IInv, QueueIsParked, InQueue
  <2> QED BY <2>1, <2>2
<1>13. NoAmbientDeadlock' /\ NoParkedLease'
  BY <1>3, <1>8 DEF IInv, NoAmbientDeadlock, NoParkedLease
<1>14. AmbientRan'
  BY <1>1, <1>3, <1>8 DEF IInv, AmbientRan
<1> QED BY <1>3, <1>9, <1>10, <1>11, <1>12, <1>13, <1>14 DEF IInv

LEMMA ForceReleaseInv ==
  ASSUME IInv, NEW l \in Locks, ForceRelease(l)
  PROVE  IInv'
<1>1. /\ hold \in [Locks -> Frames \cup {None}]
      /\ waiters \in [Locks -> Seq(Frames)]
      /\ status \in [Frames -> Statuses]
      /\ lock \in [Frames -> Locks]
      /\ ambient \in [Frames -> SUBSET Frames]
  BY DEF IInv, TypeOK
<1>2. /\ hold' = [hold EXCEPT ![l] = None]
      /\ waiters' = [waiters EXCEPT ![l] = <<>>]
      /\ UNCHANGED <<ttl, lock, kind, ambient, enclosing>>
  BY DEF ForceRelease
<1>3. \A f \in Frames : InQueue(f, l) <=> (status[f] = "parked" /\ lock[f] = l)
  BY DEF IInv, QueueIsParked
<1>4. \A f \in Frames :
        /\ status'[f] = "parked" <=> (status[f] = "parked" /\ lock[f] # l)
        /\ status[f] # "parked" => status'[f] = status[f]
        /\ status'[f] \in Statuses
  BY <1>1, <1>3 DEF ForceRelease, Statuses
<1>5. TypeOK'
  <2>1. status' \in [Frames -> Statuses]
    BY <1>1, <1>4 DEF ForceRelease
  <2>2. <<>> \in Seq(Frames)
    BY EmptySeq
  <2>3. hold' \in [Locks -> Frames \cup {None}]
    BY <1>1, <1>2
  <2>4. waiters' \in [Locks -> Seq(Frames)]
    BY <2>2, <1>1, <1>2
  <2> QED BY <2>1, <2>3, <2>4, <1>2 DEF IInv, TypeOK
<1>6. HoldIsOwned'
  <2> SUFFICES ASSUME NEW m \in Locks, hold'[m] # None
               PROVE  lock[hold'[m]] = m /\ status'[hold'[m]] \in {"granted", "inside"}
    BY <1>2 DEF HoldIsOwned
  <2>1. hold'[m] = hold[m] /\ hold[m] \in Frames
    BY <1>1, <1>2
  <2>2. lock[hold[m]] = m /\ status[hold[m]] \in {"granted", "inside"}
    BY <2>1 DEF IInv, HoldIsOwned
  <2> QED BY <2>1, <2>2, <1>4
<1>7. QueueServed'
  BY <1>1, <1>2 DEF IInv, QueueServed
<1>8. QueueIsParked'
  <2> SUFFICES ASSUME NEW m \in Locks
               PROVE  /\ Len(waiters'[m]) <= MaxQueue
                      /\ \A i, j \in 1 .. Len(waiters'[m]) :
                           i # j => waiters'[m][i] # waiters'[m][j]
                      /\ \A g \in Frames :
                           (status'[g] = "parked" /\ lock[g] = m)
                             <=> \E i \in 1 .. Len(waiters'[m]) : waiters'[m][i] = g
    BY <1>2 DEF QueueIsParked, InQueue
  <2>1. CASE m = l
    <3>1. waiters'[m] = <<>> /\ Len(waiters'[m]) = 0
      BY <2>1, <1>1, <1>2
    <3> QED BY <3>1, <2>1, <1>4, SessionLockAssumption
  <2>2. CASE m # l
    <3>1. waiters'[m] = waiters[m]
      BY <2>2, <1>1, <1>2
    <3> QED BY <3>1, <2>2, <1>4 DEF IInv, QueueIsParked, InQueue
  <2> QED BY <2>1, <2>2
<1>9. NoAmbientDeadlock' /\ NoParkedLease'
  BY <1>1, <1>2, <1>4 DEF IInv, NoAmbientDeadlock, NoParkedLease
<1>10. AmbientRan'
  BY <1>1, <1>2, <1>4 DEF IInv, AmbientRan
<1> QED BY <1>2, <1>5, <1>6, <1>7, <1>8, <1>9, <1>10 DEF IInv

LEMMA LeaveInv ==
  ASSUME IInv, NEW f \in Frames, Leave(f)
  PROVE  IInv'
<1> DEFINE st == [status EXCEPT ![f] = "ended"]
<1>1. /\ st \in [Frames -> Statuses]
      /\ status[f] = "inside"
      /\ lock[f] \in Locks
      /\ ReleaseToken(f, st)
      /\ UNCHANGED <<ttl, lock, kind, ambient, enclosing>>
  BY DEF IInv, TypeOK, Leave, Statuses
<1>2. CASE hold[lock[f]] = f
  <2>1. HandOff(lock[f], st) /\ hold[lock[f]] # None
    BY <1>1, <1>2, SessionLockAssumption DEF ReleaseToken
  <2> HIDE DEF st
  <2>2. st = [status EXCEPT ![hold[lock[f]]] = "ended"]
    BY <1>2 DEF st
  <2> QED BY <1>1, <1>2, <2>1, <2>2, HandOffInv
<1>3. CASE hold[lock[f]] # f
  <2>1. status' = st /\ UNCHANGED <<hold, waiters>>
    BY <1>1, <1>3 DEF ReleaseToken
  <2> QED BY <1>1, <1>3, <2>1, StatusOnly DEF Statuses
<1> QED BY <1>2, <1>3

LEMMA InitInv == Init => IInv
<1> SUFFICES ASSUME Init PROVE IInv
  OBVIOUS
<1>1. TypeOK
  <2>1. <<>> \in Seq(Frames) /\ 0 \in 0 .. LeaseTtl
    BY EmptySeq, SessionLockAssumption
  <2> QED BY <2>1 DEF Init, TypeOK, Statuses
<1>2. HoldIsOwned /\ QueueServed /\ NoAmbientDeadlock /\ AmbientRan /\ NoParkedLease
  BY DEF Init, HoldIsOwned, QueueServed, NoAmbientDeadlock, AmbientRan, NoParkedLease
<1>3. QueueIsParked
  BY SessionLockAssumption DEF Init, QueueIsParked, InQueue
<1>4. ambient = enclosing
  BY DEF Init
<1> QED BY <1>1, <1>2, <1>3, <1>4 DEF IInv

LEMMA StepInv == IInv /\ [Next]_vars => IInv'
<1> SUFFICES ASSUME IInv, [Next]_vars PROVE IInv'
  OBVIOUS
<1>1. ASSUME NEW f \in Frames, NEW p \in Frames \cup {None}, Call(f, p)
      PROVE  IInv'
  <2>1. CASE TakeFree(f, p) \/ TakeLease(f, p)
    BY <2>1, TakeInv
  <2>2. CASE Park(f, p)
    BY <2>2, ParkInv
  <2>3. CASE PassThrough(f, p)
    BY <2>3, StatusOnly DEF PassThrough, Called, Statuses
  <2>4. CASE RefuseExclusive(f, p)
    BY <2>4, StatusOnly DEF RefuseExclusive, Called, Statuses
  <2>5. CASE RefuseLease(f, p)
    BY <2>5, StatusOnly DEF RefuseLease, Called, Statuses
  <2> QED BY <1>1, <2>1, <2>2, <2>3, <2>4, <2>5 DEF Call
<1>2. ASSUME NEW f \in Frames, Enter(f)
      PROVE  IInv'
  BY <1>2, StatusOnly DEF Enter, Statuses
<1>3. ASSUME NEW f \in Frames, Leave(f)
      PROVE  IInv'
  BY <1>3, LeaveInv
<1>4. ASSUME NEW f \in Frames, LeavePassThrough(f)
      PROVE  IInv'
  BY <1>4, StatusOnly DEF LeavePassThrough, Statuses
<1>5. ASSUME NEW f \in Frames, TimeOutWaiter(f)
      PROVE  IInv'
  BY <1>5, TimeOutInv
<1>6. ASSUME UNCHANGED <<hold, waiters, status, lock, kind, ambient, enclosing>>,
             ttl' \in [Locks -> 0 .. LeaseTtl]
      PROVE  IInv'
  <2>1. TypeOK'
    BY <1>6 DEF IInv, TypeOK
  <2>2. HoldIsOwned' /\ QueueServed' /\ NoAmbientDeadlock' /\ AmbientRan' /\ NoParkedLease'
    BY <1>6 DEF IInv, HoldIsOwned, QueueServed, NoAmbientDeadlock, AmbientRan, NoParkedLease
  <2>3. QueueIsParked'
    BY <1>6 DEF IInv, QueueIsParked, InQueue
  <2> QED BY <1>6, <2>1, <2>2, <2>3 DEF IInv
<1>7. ASSUME NEW f \in Frames, Renew(f)
      PROVE  IInv'
  <2>1. ttl' \in [Locks -> 0 .. LeaseTtl]
    BY <1>7, SessionLockAssumption DEF IInv, TypeOK, Renew
  <2> QED BY <1>6, <1>7, <2>1 DEF Renew
<1>8. ASSUME NEW l \in Locks, Tick(l)
      PROVE  IInv'
  <2>1. ttl[l] \in 0 .. LeaseTtl /\ ttl[l] > 0 /\ LeaseTtl \in Nat
    BY <1>8, SessionLockAssumption DEF IInv, TypeOK, Tick
  <2>2. ttl[l] - 1 \in 0 .. LeaseTtl
    BY <2>1
  <2>3. ttl' \in [Locks -> 0 .. LeaseTtl]
    BY <1>8, <2>2 DEF IInv, TypeOK, Tick
  <2> QED BY <1>6, <1>8, <2>3 DEF Tick
<1>9. ASSUME NEW l \in Locks, ExpireLease(l)
      PROVE  IInv'
  <2>1. /\ hold[l] # None /\ kind[hold[l]] = "lease" /\ hold[l] \in Frames
        /\ HandOff(l, status) /\ UNCHANGED <<ttl, lock, kind, ambient, enclosing>>
        /\ status \in [Frames -> Statuses]
    BY <1>9 DEF ExpireLease, LeaseHeld, IInv, TypeOK
  <2>2. waiters[l] = <<>>
    BY <2>1 DEF IInv, QueueServed
  <2>3. /\ hold' = [hold EXCEPT ![l] = None]
        /\ waiters' = waiters
        /\ status' = status
    BY <2>1, <2>2, HandOffServesHead
  <2>4. TypeOK'
    BY <2>1, <2>3 DEF IInv, TypeOK
  <2>5. HoldIsOwned' /\ NoAmbientDeadlock' /\ AmbientRan' /\ NoParkedLease'
    <3>1. \A f \in Frames : status[f] = "parked" => lock[f] # l
      <4>1. Len(waiters[l]) = 0
        BY <2>2
      <4> QED BY <4>1 DEF IInv, QueueIsParked, InQueue
    <3>2. HoldIsOwned'
      BY <2>1, <2>3 DEF IInv, HoldIsOwned, TypeOK
    <3>3. NoAmbientDeadlock'
      BY <2>1, <2>3, <3>1 DEF IInv, NoAmbientDeadlock, TypeOK
    <3>4. AmbientRan' /\ NoParkedLease'
      BY <2>1, <2>3 DEF IInv, AmbientRan, NoParkedLease
    <3> QED BY <3>2, <3>3, <3>4
  <2>6. QueueServed'
    BY <2>2, <2>1, <2>3 DEF IInv, QueueServed, TypeOK
  <2>7. QueueIsParked'
    BY <2>1, <2>3 DEF IInv, QueueIsParked, InQueue
  <2> QED BY <2>1, <2>4, <2>5, <2>6, <2>7 DEF IInv
<1>10. ASSUME NEW l \in Locks, ForceRelease(l)
       PROVE  IInv'
  BY <1>10, ForceReleaseInv
<1>11. CASE UNCHANGED vars
  BY <1>6, <1>11 DEF vars, IInv, TypeOK
<1> QED BY <1>1, <1>2, <1>3, <1>4, <1>5, <1>7, <1>8, <1>9, <1>10, <1>11
        DEF Next, FrameStep, LockStep

LEMMA Invariance == Spec => []IInv
BY InitInv, StepInv, PTL DEF Spec

(* The variables of the lock keep their types: every status, hold, queue   *)
(* and token set is one the code can represent.                            *)
THEOREM TypeCorrect == Spec => []TypeOK
<1>1. IInv => TypeOK
  BY DEF IInv
<1> QED BY <1>1, Invariance, PTL

(* The hold of a session lock always belongs to a call that will release   *)
(* it, and who waits in its queue waits for such a call: no ownerless      *)
(* hold wedges the connection and no wakeup is lost.                       *)
THEOREM NoWedge == Spec => []NobodyIsStranded
<1>1. IInv => NobodyIsStranded
  BY DEF IInv, NobodyIsStranded
<1> QED BY <1>1, Invariance, PTL

(* No nesting of calls, over any number of locks, makes a call wait for    *)
(* the hold it runs inside: the token set of a context is only extended.   *)
THEOREM NestingIsSafe == Spec => []NoSelfDeadlock
<1>1. IInv => NoSelfDeadlock
  BY DEF IInv, NoAmbientDeadlock, NoSelfDeadlock
<1> QED BY <1>1, Invariance, PTL

(***************************************************************************)
(* The steps that take a hold away: the holder's own release, which serves *)
(* the head of the queue, the TTL of a lease, and forceRelease.            *)
(***************************************************************************)
LEMMA HoldChanges ==
  ASSUME IInv, [Next]_vars, NEW l \in Locks, hold'[l] # hold[l]
  PROVE  \/ ForceRelease(l)
         \/ hold[l] = None /\ waiters[l] = <<>>
         \/ /\ waiters[l] # <<>> => hold'[l] = waiters[l][1]
            /\ \/ status[hold[l]] = "inside" /\ status'[hold[l]] = "ended"
               \/ kind[hold[l]] = "lease" /\ ttl[l] = 0
<1>1. /\ hold \in [Locks -> Frames \cup {None}]
      /\ waiters \in [Locks -> Seq(Frames)]
      /\ status \in [Frames -> Statuses]
      /\ lock \in [Frames -> Locks]
  BY DEF IInv, TypeOK
<1>2. ASSUME NEW f \in Frames, NEW p \in Frames \cup {None}, Call(f, p)
      PROVE  hold[l] = None /\ waiters[l] = <<>>
  <2>1. hold' = hold \/ (hold[lock[f]] = None /\ hold' = [hold EXCEPT ![lock[f]] = f])
    BY <1>2 DEF Call, TakeFree, TakeLease, Park, PassThrough, RefuseExclusive, RefuseLease
  <2>2. hold[l] = None
    BY <1>1, <2>1
  <2> QED BY <2>2 DEF IInv, QueueServed
<1>3. ASSUME NEW f \in Frames, Leave(f)
      PROVE  /\ waiters[l] # <<>> => hold'[l] = waiters[l][1]
             /\ status[hold[l]] = "inside" /\ status'[hold[l]] = "ended"
  <2> DEFINE st == [status EXCEPT ![f] = "ended"]
  <2>1. /\ status[f] = "inside"
        /\ ReleaseToken(f, st)
        /\ lock[f] \in Locks
        /\ st \in [Frames -> Statuses]
        /\ \A g \in Frames : status[g] = "parked" => st[g] = "parked"
        /\ st[f] = "ended"
    BY <1>1, <1>3 DEF Leave, Statuses
  <2> HIDE DEF st
  <2>2. hold[lock[f]] = f /\ HandOff(lock[f], st)
    BY <2>1 DEF ReleaseToken
  <2>3. \/ /\ waiters[lock[f]] = <<>>
           /\ hold' = [hold EXCEPT ![lock[f]] = None]
           /\ status' = st
        \/ /\ waiters[lock[f]] # <<>>
           /\ hold' = [hold EXCEPT ![lock[f]] = waiters[lock[f]][1]]
           /\ status' = [st EXCEPT ![waiters[lock[f]][1]] = "granted"]
    BY <2>1, <2>2, HandOffServesHead
  <2>4. lock[f] = l
    BY <1>1, <2>1, <2>3
  <2>5. waiters[l] # <<>> => waiters[l][1] # f
    <3>1. waiters[l] # <<>> => 1 \in 1 .. Len(waiters[l])
      BY <1>1, ShiftProperties
    <3> QED BY <3>1, <2>1 DEF IInv, QueueIsParked, InQueue
  <2> QED BY <1>1, <2>1, <2>2, <2>3, <2>4, <2>5
<1>4. ASSUME NEW m \in Locks, ExpireLease(m)
      PROVE  /\ waiters[l] = <<>>
             /\ kind[hold[l]] = "lease" /\ ttl[l] = 0
  <2>1. /\ hold[m] # None /\ kind[hold[m]] = "lease" /\ ttl[m] = 0
        /\ HandOff(m, status)
    BY <1>4 DEF ExpireLease, LeaseHeld
  <2>2. waiters[m] = <<>>
    BY <2>1 DEF IInv, QueueServed
  <2>3. hold' = [hold EXCEPT ![m] = None]
    BY <1>1, <2>1, <2>2, HandOffServesHead
  <2>4. m = l
    BY <1>1, <2>3
  <2> QED BY <2>1, <2>2, <2>4
<1>5. ASSUME NEW m \in Locks, ForceRelease(m)
      PROVE  ForceRelease(l)
  <2>1. m = l
    BY <1>1, <1>5 DEF ForceRelease
  <2> QED BY <2>1, <1>5
<1>6. ASSUME hold' = hold
      PROVE  FALSE
  BY <1>6
<1> QED
  BY <1>2, <1>3, <1>4, <1>5, <1>6
     DEF Next, FrameStep, LockStep, Enter, LeavePassThrough, TimeOutWaiter,
         Renew, Tick, vars

(* The late release of an evicted call leaves its successor alone: a hold  *)
(* ends with its owner, its lease's TTL or a forced release, by nothing    *)
(* else.                                                                   *)
THEOREM ReleaseIsKeyed == Spec => HoldIsKept
<1>1. ASSUME IInv, [Next]_vars
      PROVE  [\A l \in Locks :
                (hold[l] # None /\ hold'[l] # hold[l]) =>
                  \/ status[hold[l]] = "inside" /\ status'[hold[l]] = "ended"
                  \/ kind[hold[l]] = "lease" /\ ttl[l] = 0
                  \/ ForceRelease(l)]_vars
  BY <1>1, HoldChanges
<1> QED BY <1>1, Invariance, PTL DEF Spec, HoldIsKept

(* The lock is served first come, first served with no gap for a newcomer. *)
THEOREM ServedInOrder == Spec => NoOvertaking
<1>1. ASSUME IInv, [Next]_vars
      PROVE  [\A l \in Locks :
                (waiters[l] # <<>> /\ hold'[l] # hold[l]) =>
                  \/ hold'[l] = Head(waiters[l])
                  \/ ForceRelease(l)]_vars
  <2>1. \A l \in Locks : Head(waiters[l]) = waiters[l][1]
    BY <1>1 DEF IInv, TypeOK
  <2> QED BY <1>1, <2>1, HoldChanges
<1> QED BY <1>1, Invariance, PTL DEF Spec, NoOvertaking

=============================================================================
