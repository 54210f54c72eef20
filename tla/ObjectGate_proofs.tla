-------------------------- MODULE ObjectGate_proofs --------------------------
(***************************************************************************)
(* What holds of the object gate for any calls, processes, names, gates    *)
(* and sessions.  The chain of a key is a queue although the map names its *)
(* last link only: Chained says that the last link has everybody ahead,    *)
(* that of two unsettled links one was there first, and that whoever left  *)
(* the queue left nobody behind.                                           *)
(***************************************************************************)
EXTENDS ObjectGate, TLAPS

(* The unsettled writes chained on the key n of process p. *)
Links(p, n) ==
  {c \in Calls : Pending(c) /\ Gated(c) /\ ProcOf[c] = p /\ Key(c) = n}

(* The map names the last of them, and nobody if there is none. *)
TailIsLast ==
  \A p \in Procs, n \in Names :
    IF chains[p][n] = None THEN Links(p, n) = {}
    ELSE /\ chains[p][n] \in Links(p, n)
         /\ \A b \in Links(p, n) : b = chains[p][n] \/ b \in ahead[chains[p][n]]

(* Two unsettled links of one chain have an order. *)
Ordered ==
  \A p \in Procs, n \in Names : \A b, c \in Links(p, n) :
    b = c \/ b \in ahead[c] \/ c \in ahead[b]

(* Who is ahead of a queued write is its predecessor or ahead of that. *)
Behind ==
  \A c \in Calls : at[c] = "queued" =>
    /\ prev[c] # None => at[prev[c]] # "idle"
    /\ \A d \in ahead[c] :
         \/ at[d] = "done"
         \/ prev[c] # None /\ (d = prev[c] \/ d \in ahead[prev[c]])

(* Nobody is ahead of a call that has not run. *)
Fresh == \A c \in Calls : at[c] = "idle" => ahead[c] = {}

Chained == TailIsLast /\ Ordered /\ Behind /\ Fresh /\ FirstComeFirstServed

(* Between the acquisition of the lock file and its release. *)
Inside(c) ==
  /\ Gated(c) /\ Gate(c) = "file"
  /\ at[c] \in {"parked", "writing", "releasing"}

(* A lock file belongs to the write that is past the wait for it. *)
Locked ==
  /\ \A c \in Calls : Inside(c) => held[Key(c)] = c
  /\ \A n \in Names :
       held[n] # None => Inside(held[n]) /\ Key(held[n]) = n

(* Only a write that gave up waiting is told so. *)
GaveUp == \A c \in busy : at[c] \in {"settling", "done"}

----------------------------------------------------------------------------
(* Keys are names. *)
LEMMA KeyType ==
  ASSUME TypeOK, NEW c \in Calls, Gated(c)
  PROVE  Key(c) \in Names /\ ProcOf[c] \in Procs
BY ObjectGateAssumption DEF Gated, Key, WriteGateKey

(* Moving the end of a chain leaves a map of chains. *)
LEMMA SetTailType ==
  ASSUME TypeOK, NEW c \in Calls, Gated(c), NEW t \in Calls \cup {None},
         SetTail(c, t)
  PROVE  chains' \in [Procs -> [Names -> Calls \cup {None}]]
<1>1. Key(c) \in Names /\ ProcOf[c] \in Procs
  BY KeyType
<1> HIDE DEF Key, Gated
<1>2. DEFINE row == [chains[ProcOf[c]] EXCEPT ![Key(c)] = t]
<1>3. chains' = [chains EXCEPT ![ProcOf[c]] = row]
  BY DEF SetTail
<1>4. row \in [Names -> Calls \cup {None}]
  BY <1>1 DEF TypeOK
<1> HIDE DEF row
<1>5. QED
  BY <1>1, <1>3, <1>4 DEF TypeOK

(* The initial state is well typed. *)
LEMMA InitTyped == Init => TypeOK
BY ObjectGateAssumption DEF Init, TypeOK, PlacesOf, Places, Gates, Gated, Gate

(* Every action keeps the types and the places. *)
LEMMA NextTyped == TypeOK /\ [Next]_vars => TypeOK'
<1> SUFFICES ASSUME TypeOK, [Next]_vars PROVE TypeOK'
  OBVIOUS
<1> USE ObjectGateAssumption
        DEF TypeOK, PlacesOf, Places, Gated, Gate, Goto
<1>1. ASSUME NEW c \in Calls, UNCHANGED gate, Run(c) PROVE TypeOK'
  <2>1. CASE Gated(c)
    <3>1. Key(c) \in Names /\ ProcOf[c] \in Procs /\ Tail(c) \in Calls \cup {None}
      BY <2>1, KeyType DEF Tail
    <3>2. chains' \in [Procs -> [Names -> Calls \cup {None}]]
      BY <1>1, <2>1, SetTailType DEF Run
    <3>3. at' = [at EXCEPT ![c] = "queued"] /\ UNCHANGED <<held, replayed, busy>>
      BY <1>1, <2>1 DEF Run
    <3>4. /\ prev'  \in [Calls -> Calls \cup {None}]
          /\ ahead' \in [Calls -> SUBSET Calls]
      <4>1. /\ prev'  = [prev EXCEPT ![c] = Tail(c)]
            /\ ahead' = [ahead EXCEPT ![c] = Queue(c)]
        BY <1>1, <2>1 DEF Run, Predecessor
      <4>2. Queue(c) \in SUBSET Calls
        BY DEF Queue
      <4>3. QED
        BY <3>1, <4>1, <4>2
    <3>5. gate' \in [Procs -> Gates] /\ at' \in [Calls -> Places]
      BY <1>1, <3>3
    <3>6. (\A d \in Calls : at[d] \in PlacesOf(d))'
      BY <1>1, <2>1, <3>3
    <3>7. QED
      BY <3>2, <3>3, <3>4, <3>5, <3>6 DEF TypeOK
  <2>2. CASE ~Gated(c)
    <3>1. /\ at' = [at EXCEPT ![c] = "parked"]
          /\ UNCHANGED <<gate, chains, prev, held, replayed, busy, ahead>>
      BY <1>1, <2>2 DEF Run
    <3>2. QED
      BY <3>1
  <2>3. QED
    BY <2>1, <2>2
<1>2. ASSUME NEW c \in Calls, UNCHANGED gate, Begin(c) PROVE TypeOK'
  BY <1>2 DEF Begin
<1>3. ASSUME NEW c \in Calls, UNCHANGED gate, Acquire(c) PROVE TypeOK'
  BY <1>3 DEF Acquire
<1>4. ASSUME NEW c \in Calls, UNCHANGED gate, GiveUp(c) PROVE TypeOK'
  BY <1>4 DEF GiveUp, Rejected
<1>5. ASSUME NEW c \in Calls, UNCHANGED gate, Lease(c) PROVE TypeOK'
  BY <1>5 DEF Lease
<1>6. ASSUME NEW c \in Calls, UNCHANGED gate, Refuse(c) PROVE TypeOK'
  BY <1>6 DEF Refuse, Rejected, AfterFn
<1>7. ASSUME NEW c \in Calls, UNCHANGED gate, Replay(c) PROVE TypeOK'
  BY <1>7 DEF Replay
<1>8. ASSUME NEW c \in Calls, UNCHANGED gate, Finish(c) PROVE TypeOK'
  BY <1>8 DEF Finish, Rejected, AfterFn
<1>9. ASSUME NEW c \in Calls, UNCHANGED gate, Release(c) PROVE TypeOK'
  BY <1>9 DEF Release
<1>10. ASSUME NEW c \in Calls, UNCHANGED gate, Clear(c) PROVE TypeOK'
  <2>1. Gated(c)
    BY <1>10 DEF Clear
  <2>2. Key(c) \in Names /\ ProcOf[c] \in Procs
    BY <2>1, KeyType
  <2>3. chains' \in [Procs -> [Names -> Calls \cup {None}]]
    BY <1>10, <2>1, SetTailType DEF Clear
  <2>4. at' = [at EXCEPT ![c] = "done"]
         /\ UNCHANGED <<prev, held, replayed, busy, ahead>>
    BY <1>10 DEF Clear
  <2>5. QED
    BY <1>10, <2>3, <2>4
<1>11. CASE UNCHANGED vars
  BY <1>11 DEF vars
<1>12. QED
  BY <1>1, <1>2, <1>3, <1>4, <1>5, <1>6, <1>7, <1>8, <1>9, <1>10, <1>11
     DEF Next, Step

(* The types of the gate's variables hold throughout, and no call is where *)
(* its gate does not lead.                                                 *)
THEOREM TypeCorrect == Spec => []TypeOK
BY InitTyped, NextTyped, PTL DEF Spec

----------------------------------------------------------------------------
(* What a step of a call on its way does, whichever it is: it moves that   *)
(* call alone, past the queue for good, and only the clean-up ends a gated *)
(* write and touches the map.                                              *)
Moves(c) ==
  /\ at[c] \notin {"idle", "done"}
  /\ at' = [at EXCEPT ![c] = at'[c]]
  /\ at'[c] \notin {"idle", "queued"}
  /\ UNCHANGED <<gate, prev, ahead>>
  /\ at[c] = "queued" => Begin(c)
  /\ ~Clear(c) => UNCHANGED chains /\ (Gated(c) => at'[c] # "done")

LEMMA StepMoves ==
  ASSUME TypeOK, NEW c \in Calls, Step(c), UNCHANGED gate
  PROVE  Moves(c)
<1> USE DEF TypeOK, Moves, Goto
<1>1. CASE Begin(c)
  BY <1>1 DEF Begin
<1>2. CASE Acquire(c)
  BY <1>2 DEF Acquire
<1>3. CASE GiveUp(c)
  BY <1>3 DEF GiveUp
<1>4. CASE Lease(c)
  BY <1>4 DEF Lease
<1>5. CASE Refuse(c)
  BY <1>5 DEF Refuse, AfterFn
<1>6. CASE Replay(c)
  BY <1>6 DEF Replay
<1>7. CASE Finish(c)
  BY <1>7 DEF Finish, AfterFn
<1>8. CASE Release(c)
  BY <1>8 DEF Release
<1>9. CASE Clear(c)
  BY <1>9 DEF Clear
<1>10. QED
  BY <1>1, <1>2, <1>3, <1>4, <1>5, <1>6, <1>7, <1>8, <1>9 DEF Step

(* A gated write that has not run yet joins its chain at the end. *)
Joins(c) ==
  /\ at[c] = "idle" /\ Gated(c)
  /\ at'    = [at EXCEPT ![c] = "queued"]
  /\ prev'  = [prev EXCEPT ![c] = Tail(c)]
  /\ ahead' = [ahead EXCEPT ![c] = Links(ProcOf[c], Key(c))]
  /\ SetTail(c, c)
  /\ UNCHANGED gate

LEMMA RunJoins ==
  ASSUME TypeOK, NEW c \in Calls, Run(c), Gated(c), UNCHANGED gate
  PROVE  Joins(c)
BY DEF Run, Joins, Goto, Predecessor, Queue, Links

(* The links of a chain change when one joins and when one is settled. *)
LEMMA JoinLinks ==
  ASSUME TypeOK, NEW c \in Calls, Joins(c),
         NEW p \in Procs, NEW n \in Names
  PROVE  Links(p, n)' = IF p = ProcOf[c] /\ n = Key(c)
                        THEN Links(p, n) \cup {c} ELSE Links(p, n)
BY ObjectGateAssumption
   DEF TypeOK, Joins, Links, Pending, Gated, Gate, Key, WriteGateKey

LEMMA MoveLinks ==
  ASSUME TypeOK, NEW c \in Calls, Moves(c),
         NEW p \in Procs, NEW n \in Names
  PROVE  Links(p, n)' = IF at'[c] = "done" THEN Links(p, n) \ {c}
                        ELSE Links(p, n)
BY ObjectGateAssumption
   DEF TypeOK, Moves, Links, Pending, Gated, Gate, Key, WriteGateKey

----------------------------------------------------------------------------
(* Joining keeps the chain in order: the new link has everybody ahead.     *)
LEMMA JoinKeepsOrder ==
  ASSUME TypeOK, Chained, NEW c \in Calls, Joins(c)
  PROVE  Chained'
<1>1. ProcOf[c] \in Procs /\ Key(c) \in Names
  BY KeyType DEF Joins
<1>2. c \notin Links(ProcOf[c], Key(c))
  BY DEF Joins, Links, Pending
<1>3. /\ ahead'[c] = Links(ProcOf[c], Key(c))
      /\ \A d \in Calls : d # c => ahead'[d] = ahead[d]
      /\ prev'[c] = Tail(c)
      /\ \A d \in Calls : d # c => prev'[d] = prev[d]
      /\ at'[c] = "queued" /\ at[c] = "idle"
      /\ \A d \in Calls : d # c => at'[d] = at[d]
  BY DEF Joins, TypeOK
<1>4. \A p \in Procs, n \in Names :
        chains'[p][n] = IF p = ProcOf[c] /\ n = Key(c) THEN c ELSE chains[p][n]
  BY <1>1 DEF Joins, SetTail, TypeOK
<1>5. TailIsLast'
  <2> SUFFICES ASSUME NEW p \in Procs, NEW n \in Names
      PROVE  IF chains'[p][n] = None THEN Links(p, n)' = {}
             ELSE /\ chains'[p][n] \in Links(p, n)'
                  /\ \A b \in Links(p, n)' :
                       b = chains'[p][n] \/ b \in ahead'[chains'[p][n]]
    BY DEF TailIsLast
  <2>1. CASE p = ProcOf[c] /\ n = Key(c)
    BY <2>1, <1>3, <1>4, JoinLinks, ObjectGateAssumption
  <2>2. CASE ~(p = ProcOf[c] /\ n = Key(c))
    <3>1. Links(p, n)' = Links(p, n) /\ chains'[p][n] = chains[p][n]
      BY <2>2, <1>4, JoinLinks
    <3>2. chains[p][n] \in Links(p, n) => chains[p][n] # c /\ chains[p][n] \in Calls
      BY <1>3 DEF Links, Pending
    <3>3. QED
      BY <3>1, <3>2, <1>3 DEF Chained, TailIsLast
  <2>3. QED
    BY <2>1, <2>2
<1>6. Ordered'
  <2> SUFFICES ASSUME NEW p \in Procs, NEW n \in Names,
                      NEW a \in Links(p, n)', NEW b \in Links(p, n)'
      PROVE  a = b \/ a \in ahead'[b] \/ b \in ahead'[a]
    BY DEF Ordered
  <2>1. \A d \in Links(p, n) : d # c /\ d \in Calls
    BY <1>3 DEF Links, Pending
  <2>2. a \in Links(p, n) /\ b \in Links(p, n)
          => a = b \/ a \in ahead[b] \/ b \in ahead[a]
    BY DEF Chained, Ordered
  <2>3. QED
    BY <2>1, <2>2, <1>3, JoinLinks
<1>7. Behind'
  <2> SUFFICES ASSUME NEW x \in Calls, at'[x] = "queued"
      PROVE  /\ prev'[x] # None => at'[prev'[x]] # "idle"
             /\ \A d \in ahead'[x] :
                  \/ at'[d] = "done"
                  \/ prev'[x] # None /\ (d = prev'[x] \/ d \in ahead'[prev'[x]])
    BY DEF Behind
  <2>1. CASE x = c
    <3>1. Tail(c) # None => Tail(c) \in Links(ProcOf[c], Key(c))
      BY <1>1 DEF Chained, TailIsLast, Tail
    <3>2. \A d \in Links(ProcOf[c], Key(c)) :
            Tail(c) # None /\ (d = Tail(c) \/ d \in ahead[Tail(c)])
      BY <1>1 DEF Chained, TailIsLast, Tail
    <3>3. Tail(c) # None => /\ Tail(c) # c /\ Tail(c) \in Calls
                            /\ at[Tail(c)] # "idle"
      BY <3>1, <1>2 DEF Links, Pending
    <3>4. QED
      BY <2>1, <3>2, <3>3, <1>3
  <2>2. CASE x # c
    <3>1. at[x] = "queued" /\ prev'[x] = prev[x] /\ ahead'[x] = ahead[x]
      BY <2>2, <1>3
    <3>2. prev[x] # None => /\ prev[x] # c /\ prev[x] \in Calls
                            /\ at[prev[x]] # "idle"
      BY <3>1, <1>3 DEF Chained, Behind, TypeOK
    <3>3. \A d \in ahead[x] : d \in Calls /\ (at[d] = "done" => at'[d] = "done")
      BY <1>3 DEF TypeOK
    <3>4. QED
      BY <3>1, <3>2, <3>3, <1>3 DEF Chained, Behind
  <2>3. QED
    BY <2>1, <2>2
<1>8. FirstComeFirstServed'
  <2> SUFFICES ASSUME NEW x \in Calls, at'[x] \notin {"idle", "queued"},
                      NEW b \in ahead'[x]
      PROVE  at'[b] = "done"
    BY DEF FirstComeFirstServed
  <2>1. x # c /\ at[x] \notin {"idle", "queued"} /\ b \in ahead[x] /\ b \in Calls
    BY <1>3 DEF TypeOK
  <2>2. QED
    BY <2>1, <1>3 DEF Chained, FirstComeFirstServed
<1>9. Fresh'
  BY <1>3 DEF Chained, Fresh
<1>10. QED
  BY <1>5, <1>6, <1>7, <1>8, <1>9 DEF Chained

(* So does any other step: whoever leaves the chain has nobody ahead, and  *)
(* the map's entry goes with the last link only.                           *)
LEMMA MoveKeepsOrder ==
  ASSUME TypeOK, Chained, NEW c \in Calls, Moves(c)
  PROVE  Chained'
<1>1. /\ \A d \in Calls : d # c => at'[d] = at[d]
      /\ at'[c] \notin {"idle", "queued"}
      /\ at[c] \notin {"idle", "done"}
      /\ ahead' = ahead /\ prev' = prev /\ gate' = gate
  BY DEF Moves, TypeOK
<1>2. \A d \in Calls : /\ at[d] = "done" => at'[d] = "done"
                       /\ at[d] # "idle" => at'[d] # "idle"
                       /\ at'[d] = "queued" => at[d] = "queued"
  BY <1>1
<1>3. \A d \in Calls : ahead[d] \subseteq Calls /\ prev[d] \in Calls \cup {None}
  BY DEF TypeOK
<1>4. FirstComeFirstServed'
  <2> SUFFICES ASSUME NEW x \in Calls, at'[x] \notin {"idle", "queued"},
                      NEW b \in ahead[x]
      PROVE  at'[b] = "done"
    BY <1>1 DEF FirstComeFirstServed
  <2>1. CASE at[x] # "queued"
    <3>1. at[x] \notin {"idle", "queued"}
      BY <2>1, <1>1
    <3>2. QED
      BY <3>1, <1>2, <1>3 DEF Chained, FirstComeFirstServed
  <2>2. CASE at[x] = "queued"
    <3>1. x = c /\ Begin(c)
      BY <2>2, <1>1 DEF Moves
    <3>2. prev[c] # None => at[prev[c]] = "done"
      BY <3>1 DEF Begin
    <3>3. prev[c] # None => \A d \in ahead[prev[c]] : at[d] = "done"
      BY <3>2, <1>3 DEF Chained, FirstComeFirstServed
    <3>4. at[b] = "done"
      BY <2>2, <3>1, <3>2, <3>3 DEF Chained, Behind
    <3>5. QED
      BY <3>4, <1>2, <1>3
  <2>3. QED
    BY <2>1, <2>2
<1>5. Behind'
  BY <1>1, <1>2, <1>3 DEF Chained, Behind
<1>6. Ordered'
  <2> SUFFICES ASSUME NEW p \in Procs, NEW n \in Names,
                      NEW a \in Links(p, n)', NEW b \in Links(p, n)'
      PROVE  a = b \/ a \in ahead'[b] \/ b \in ahead'[a]
    BY DEF Ordered
  <2>1. a \in Links(p, n) /\ b \in Links(p, n)
    BY MoveLinks
  <2>2. QED
    BY <2>1, <1>1 DEF Chained, Ordered
<1>7. TailIsLast'
  <2>1. CASE Clear(c)
    <3>1. /\ Gated(c) /\ at'[c] = "done" /\ at[c] = "settling"
          /\ ProcOf[c] \in Procs /\ Key(c) \in Names
          /\ c \in Links(ProcOf[c], Key(c))
      BY <2>1, KeyType
         DEF Clear, Goto, TypeOK, PlacesOf, Places, Links, Pending
    <3>2. \A b \in ahead[c] : at[b] = "done"
      BY <3>1 DEF Chained, FirstComeFirstServed
    <3> SUFFICES ASSUME NEW p \in Procs, NEW n \in Names
        PROVE  IF chains'[p][n] = None THEN Links(p, n)' = {}
               ELSE /\ chains'[p][n] \in Links(p, n)'
                    /\ \A b \in Links(p, n)' :
                         b = chains'[p][n] \/ b \in ahead'[chains'[p][n]]
      BY DEF TailIsLast
    <3>3. Links(p, n)' = Links(p, n) \ {c}
      BY <3>1, MoveLinks
    <3>4. CASE IsTail(c)
      <4>1. chains'[p][n] = IF p = ProcOf[c] /\ n = Key(c) THEN None
                            ELSE chains[p][n]
        BY <2>1, <3>1, <3>4 DEF Clear, SetTail, TypeOK
      <4>2. CASE p = ProcOf[c] /\ n = Key(c)
        <5>1. \A b \in Links(p, n) : b = c \/ b \in ahead[c]
          BY <3>4, <4>2, ObjectGateAssumption
             DEF Chained, TailIsLast, IsTail, Tail
        <5>2. \A b \in Links(p, n) : at[b] # "done"
          BY DEF Links, Pending
        <5>3. QED
          BY <3>2, <3>3, <4>1, <4>2, <5>1, <5>2
      <4>3. CASE ~(p = ProcOf[c] /\ n = Key(c))
        <5>1. c \notin Links(p, n)
          BY <4>3 DEF Links
        <5>2. QED
          BY <3>3, <4>1, <4>3, <5>1, <1>1 DEF Chained, TailIsLast
      <4>4. QED
        BY <4>2, <4>3
    <3>5. CASE ~IsTail(c)
      <4>1. chains'[p][n] = chains[p][n]
        BY <2>1, <3>5 DEF Clear
      <4>2. CASE p = ProcOf[c] /\ n = Key(c)
        <5>1. chains[p][n] # c /\ chains[p][n] # None
          BY <3>1, <3>5, <4>2 DEF IsTail, Tail, Chained, TailIsLast
        <5>2. QED
          BY <3>3, <4>1, <5>1, <1>1 DEF Chained, TailIsLast
      <4>3. CASE ~(p = ProcOf[c] /\ n = Key(c))
        <5>1. c \notin Links(p, n)
          BY <4>3 DEF Links
        <5>2. QED
          BY <3>3, <4>1, <5>1, <1>1 DEF Chained, TailIsLast
      <4>4. QED
        BY <4>2, <4>3
    <3>6. QED
      BY <3>4, <3>5
  <2>2. CASE ~Clear(c)
    <3>1. chains' = chains /\ (Gated(c) => at'[c] # "done")
      BY <2>2 DEF Moves
    <3>2. \A p \in Procs, n \in Names : Links(p, n)' = Links(p, n)
      BY <3>1, MoveLinks DEF Links
    <3>3. QED
      BY <3>1, <3>2, <1>1 DEF Chained, TailIsLast
  <2>3. QED
    BY <2>1, <2>2
<1>8. Fresh'
  BY <1>1 DEF Chained, Fresh
<1>9. QED
  BY <1>4, <1>5, <1>6, <1>7, <1>8 DEF Chained

----------------------------------------------------------------------------
(* What a step does to the lock files and to the calls told of them.       *)
Told(c) ==
  /\ \/ busy' = busy
     \/ busy' = busy \cup {c} /\ at[c] = "locking" /\ at'[c] = "settling"
  /\ at[c] # "done"
  /\ at[c] = "settling" => at'[c] = "done"
  /\ at[c] = "locking" /\ at'[c] = "settling" => c \in busy'

(* Only giving up the wait for the lock file makes a call busy: no other   *)
(* failure carries the path of its key.                                    *)
LEMMA StepTells ==
  ASSUME TypeOK, NEW c \in Calls, Run(c) \/ Step(c)
  PROVE  Told(c)
<1>1. Gated(c) => Key(c) \notin {"journal", "other"}
  BY KeyType, ObjectGateAssumption
<1> USE DEF Told, Goto, TypeOK
<1>2. CASE Run(c) \/ Begin(c) \/ Acquire(c)
  BY <1>2 DEF Run, Begin, Acquire
<1>3. CASE GiveUp(c)
  <2>1. Gated(c) /\ Gate(c) = "file"
    BY <1>3 DEF GiveUp, PlacesOf
  <2>2. busy' = busy \cup {c}
    BY <1>3, <2>1 DEF GiveUp, Rejected, IsFileLockAcquisitionFailure
  <2>3. QED
    BY <1>3, <2>2 DEF GiveUp
<1>4. CASE Lease(c) \/ Replay(c) \/ Release(c) \/ Clear(c)
  BY <1>4 DEF Lease, Replay, Release, Clear
<1>5. CASE Refuse(c)
  BY <1>1, <1>5 DEF Refuse, Rejected, IsFileLockAcquisitionFailure
<1>6. CASE Finish(c)
  BY <1>1, <1>6 DEF Finish, Thrown, Rejected, IsFileLockAcquisitionFailure
<1>7. QED
  BY <1>2, <1>3, <1>4, <1>5, <1>6 DEF Step

(* How a step handles the lock file of its key: it takes a free one, keeps *)
(* its own from one place inside to another, gives its own back, or is and *)
(* stays outside.                                                          *)
Takes(c) ==
  /\ at[c] = "locking" /\ at'[c] = "parked" /\ held[Key(c)] = None
  /\ held' = [held EXCEPT ![Key(c)] = c]

GivesBack(c) ==
  /\ at[c] = "releasing" /\ at'[c] = "settling"
  /\ held' = [held EXCEPT ![Key(c)] = None]

Keeps(c) ==
  /\ held' = held
  /\ Gated(c) /\ Gate(c) = "file"
       => \/ /\ at[c]  \in {"parked", "writing"}
             /\ at'[c] \in {"parked", "writing", "releasing"}
          \/ <<at[c], at'[c]>> \in
               {<<"idle", "queued">>, <<"queued", "locking">>,
                <<"locking", "settling">>, <<"settling", "done">>}

Handles(c) ==
  /\ at' = [at EXCEPT ![c] = at'[c]]
  /\ Takes(c) \/ GivesBack(c) \/ Keeps(c)

LEMMA StepHandles ==
  ASSUME TypeOK, NEW c \in Calls, Run(c) \/ Step(c)
  PROVE  Handles(c)
<1> USE DEF Handles, Keeps, Goto, TypeOK
<1>1. CASE Run(c)
  BY <1>1 DEF Run
<1>2. CASE Begin(c)
  BY <1>2 DEF Begin
<1>3. CASE Acquire(c)
  BY <1>3 DEF Acquire, Takes
<1>4. CASE GiveUp(c)
  BY <1>4 DEF GiveUp
<1>5. CASE Lease(c)
  BY <1>5 DEF Lease
<1>6. CASE Refuse(c)
  BY <1>6 DEF Refuse, AfterFn
<1>7. CASE Replay(c)
  BY <1>7 DEF Replay
<1>8. CASE Finish(c)
  BY <1>8 DEF Finish, AfterFn
<1>9. CASE Release(c)
  BY <1>9 DEF Release, GivesBack
<1>10. CASE Clear(c)
  BY <1>10 DEF Clear
<1>11. QED
  BY <1>1, <1>2, <1>3, <1>4, <1>5, <1>6, <1>7, <1>8, <1>9, <1>10 DEF Step

(* A lock file stays with the write inside. *)
LEMMA StepKeepsLocked ==
  ASSUME TypeOK, Locked, GaveUp, NEW c \in Calls, Run(c) \/ Step(c),
         UNCHANGED gate
  PROVE  Locked' /\ GaveUp'
<1>1. Handles(c) /\ Told(c)
  BY StepHandles, StepTells
<1>2. /\ \A d \in Calls : d # c => at'[d] = at[d]
      /\ \A d \in Calls : Gated(d)' = Gated(d) /\ Gate(d)' = Gate(d) /\ Key(d)' = Key(d)
  BY <1>1 DEF Handles, TypeOK, Gated, Gate, Key, WriteGateKey
<1>3. /\ at[c] \in {"locking", "releasing"} => /\ Gated(c) /\ Gate(c) = "file"
                                               /\ Key(c) \in Names
  BY KeyType DEF TypeOK, PlacesOf
<1>4. GaveUp'
  BY <1>1, <1>2 DEF GaveUp, Told, Handles, Takes, GivesBack, Keeps, TypeOK
<1>5. Locked'
  <2>1. CASE Takes(c)
    <3>1. at'[c] = "parked" /\ held'[Key(c)] = c
          /\ \A n \in Names : n # Key(c) => held'[n] = held[n]
      BY <2>1, <1>3 DEF Takes, TypeOK
    <3>2. \A d \in Calls : Inside(d) => d # c /\ Key(d) # Key(c)
      BY <2>1, ObjectGateAssumption DEF Takes, Locked, Inside
    <3>3. \A d \in Calls : d # c => (Inside(d)' <=> Inside(d))
      BY <1>2 DEF Inside
    <3>4. Inside(c)'
      BY <2>1, <3>1, <1>2, <1>3 DEF Inside, Takes
    <3>5. \A d \in Calls : Inside(d) => Key(d) \in Names
      BY KeyType DEF Inside
    <3>6. (\A d \in Calls : Inside(d) => held[Key(d)] = d)'
      BY <1>2, <3>1, <3>2, <3>3, <3>5 DEF Locked
    <3>7. (\A n \in Names : held[n] # None => Inside(held[n]) /\ Key(held[n]) = n)'
      BY <1>2, <1>3, <3>1, <3>3, <3>4, ObjectGateAssumption
         DEF Locked, TypeOK, Inside, Takes
    <3>8. QED
      BY <3>6, <3>7 DEF Locked
  <2>2. CASE GivesBack(c)
    BY <2>2, <1>2, <1>3 DEF GivesBack, Locked, Inside, TypeOK
  <2>3. CASE Keeps(c)
    BY <2>3, <1>2, ObjectGateAssumption DEF Keeps, Locked, Inside, TypeOK
  <2>4. QED
    BY <1>1, <2>1, <2>2, <2>3 DEF Handles
<1>6. QED
  BY <1>4, <1>5

----------------------------------------------------------------------------
(* The inductive invariant. *)
GateInv == TypeOK /\ Chained /\ Locked /\ GaveUp

LEMMA InitInv == Init => GateInv
<1> SUFFICES ASSUME Init PROVE GateInv
  OBVIOUS
<1>1. TypeOK
  BY InitTyped
<1>2. \A p \in Procs, n \in Names : Links(p, n) = {} /\ chains[p][n] = None
  BY DEF Init, Links, Pending
<1>3. Chained
  BY <1>2 DEF Init, Chained, TailIsLast, Ordered, Behind, Fresh,
                    FirstComeFirstServed
<1>4. Locked /\ GaveUp
  BY DEF Init, Locked, Inside, GaveUp
<1>5. QED
  BY <1>1, <1>3, <1>4 DEF GateInv

LEMMA NextInv == GateInv /\ [Next]_vars => GateInv'
<1> SUFFICES ASSUME GateInv, [Next]_vars PROVE GateInv'
  OBVIOUS
<1>1. TypeOK'
  BY NextTyped DEF GateInv
<1>2. CASE UNCHANGED vars
  <2>1. \A p \in Procs, n \in Names : Links(p, n)' = Links(p, n)
    BY <1>2 DEF vars, Links, Pending, Gated, Gate, Key, WriteGateKey
  <2>2. Chained'
    BY <1>2, <2>1 DEF vars, GateInv, Chained, TailIsLast, Ordered, Behind,
                      Fresh, FirstComeFirstServed
  <2>3. Locked' /\ GaveUp'
    BY <1>2 DEF vars, GateInv, Locked, GaveUp, Inside, Gated, Gate, Key
  <2>4. QED
    BY <1>1, <2>2, <2>3 DEF GateInv
<1>3. ASSUME NEW c \in Calls, UNCHANGED gate, Run(c) \/ Step(c) PROVE GateInv'
  <2>1. Locked' /\ GaveUp'
    BY <1>3, StepKeepsLocked DEF GateInv
  <2>2. Chained'
    <3>1. CASE Step(c)
      BY <1>3, <3>1, StepMoves, MoveKeepsOrder DEF GateInv
    <3>2. CASE Run(c) /\ Gated(c)
      BY <1>3, <3>2, RunJoins, JoinKeepsOrder DEF GateInv
    <3>3. CASE Run(c) /\ ~Gated(c)
      <4>1. /\ at[c] = "idle" /\ at'[c] = "parked"
            /\ \A d \in Calls : d # c => at'[d] = at[d]
            /\ UNCHANGED <<gate, chains, prev, ahead>>
        BY <1>3, <3>3 DEF Run, Goto, GateInv, TypeOK
      <4>2. \A p \in Procs, n \in Names : Links(p, n)' = Links(p, n)
        BY <1>3, <3>3, <4>1
           DEF Links, Pending, Gated, Gate, Key, WriteGateKey
      <4>3. TailIsLast' /\ Ordered'
        BY <4>1, <4>2 DEF GateInv, Chained, TailIsLast, Ordered
      <4>4. ahead \in [Calls -> SUBSET Calls] /\ prev \in [Calls -> Calls \cup {None}]
        BY DEF GateInv, TypeOK
      <4>5. Behind' /\ Fresh' /\ FirstComeFirstServed'
        BY <4>1, <4>4 DEF GateInv, Chained, Behind, Fresh, FirstComeFirstServed
      <4>6. QED
        BY <4>3, <4>5 DEF Chained
    <3>4. QED
      BY <1>3, <3>1, <3>2, <3>3
  <2>3. QED
    BY <1>1, <2>1, <2>2 DEF GateInv
<1>4. QED
  BY <1>2, <1>3 DEF Next

LEMMA InvHolds == Spec => []GateInv
BY InitInv, NextInv, PTL DEF Spec

----------------------------------------------------------------------------
(* In the invariant two writers of one object would each have to wait for  *)
(* the other, on a chain or for the lock file.                             *)
LEMMA InvExcludes == GateInv => OneWriterPerObject
<1> SUFFICES ASSUME GateInv, NEW b \in Calls, NEW c \in Calls, b # c,
                    SameObject(b, c), Exclude(b, c),
                    at[b] = "writing", at[c] = "writing"
             PROVE  FALSE
  BY DEF OneWriterPerObject
<1>1. Key(b) = Key(c)
  BY DEF SameObject, Key, WriteGateKey
<1>2. CASE ProcOf[b] = ProcOf[c] /\ Gate(b) # "noop"
  <2>1. Gated(b) /\ Gated(c)
    BY <1>2 DEF Gated, Gate, SameObject
  <2>2. /\ ProcOf[c] \in Procs /\ Key(c) \in Names
        /\ b \in Links(ProcOf[c], Key(c)) /\ c \in Links(ProcOf[c], Key(c))
    BY <1>1, <1>2, <2>1, KeyType DEF Links, Pending, GateInv
  <2>3. b \in ahead[c] \/ c \in ahead[b]
    BY <2>2 DEF GateInv, Chained, Ordered
  <2>4. QED
    BY <2>3 DEF GateInv, Chained, FirstComeFirstServed
<1>3. CASE Gate(b) = "file" /\ Gate(c) = "file"
  BY <1>1, <1>3 DEF GateInv, Locked, Inside, Gated, SameObject
<1>4. QED
  BY <1>2, <1>3 DEF Exclude

(* Two writes of one object never overlap, behind gates that exclude each  *)
(* other.                                                                  *)
THEOREM WritesExclude == Spec => []OneWriterPerObject
BY InvHolds, InvExcludes, PTL

(* A write starts only after all that were on its chain before it.         *)
THEOREM ChainIsFifo == Spec => []FirstComeFirstServed
<1>1. GateInv => FirstComeFirstServed
  BY DEF GateInv, Chained
<1>2. QED
  BY <1>1, InvHolds, PTL

(* The map of chains holds unsettled writes only.                          *)
THEOREM ChainsAreCleared == Spec => []IdleGateIsEmpty
<1>1. GateInv => IdleGateIsEmpty
  BY DEF GateInv, Chained, TailIsLast, IdleGateIsEmpty, Links
<1>2. QED
  BY <1>1, InvHolds, PTL

(* So a chain is a queue that is cleared away.                             *)
THEOREM ChainsAreSound == Spec => []ChainIsSound
BY TypeCorrect, ChainIsFifo, ChainsAreCleared, PTL DEF ChainIsSound

(* Only a write that never began is reported busy.                         *)
THEOREM BusyIsHarmless == Spec => BusyMeansUntouched
<1>1. GateInv /\ [Next]_vars
        => [\A c \in Calls : c \in busy' \ busy => at[c] = "locking"]_vars
  <2> SUFFICES ASSUME GateInv, Next
      PROVE  \A c \in Calls : c \in busy' \ busy => at[c] = "locking"
    OBVIOUS
  <2>1. PICK d \in Calls : Run(d) \/ Step(d)
    BY DEF Next
  <2>2. Told(d)
    BY <2>1, StepTells DEF GateInv
  <2>3. QED
    BY <2>2 DEF Told
<1>2. QED
  BY <1>1, InvHolds, PTL DEF Spec, BusyMeansUntouched

----------------------------------------------------------------------------
(* The lock file's view of a call, action by action.                       *)
LEMMA PhaseOf ==
  ASSUME GateInv, NEW c \in Calls, Gated(c), Gate(c) = "file"
  PROVE  /\ at[c] \in {"idle", "queued"} => LockPhase(Key(c), c) = "out"
         /\ at[c] = "locking" => LockPhase(Key(c), c) = "waiting"
         /\ at[c] \in {"parked", "writing", "releasing"}
              => LockPhase(Key(c), c) = "in"
         /\ at[c] \in {"settling", "done"}
              => LockPhase(Key(c), c) = IF c \in busy THEN "out" ELSE "over"
BY DEF LockPhase, Gated

LEMMA StepIsSectionStep ==
  ASSUME GateInv, GateInv', NEW c \in Calls, Run(c) \/ Step(c),
         UNCHANGED gate, NEW n \in Names
  PROVE  [LockFile(n)!Next]_<<held[n], LockPhases(n)>>
<1>1. Handles(c) /\ Told(c)
  BY StepHandles, StepTells DEF GateInv
<1>2. /\ \A d \in Calls : d # c => at'[d] = at[d]
      /\ \A d \in Calls : /\ Gated(d)' = Gated(d) /\ Gate(d)' = Gate(d)
                           /\ Key(d)' = Key(d)
      /\ \A d \in Calls : d # c => (d \in busy' <=> d \in busy)
  BY <1>1 DEF Handles, Told, GateInv, TypeOK, Gated, Gate, Key, WriteGateKey
<1>3. \A d \in Calls : d # c => LockPhase(n, d)' = LockPhase(n, d)
  BY <1>2 DEF LockPhase
<1>4. LockPhases(n)' = [LockPhases(n) EXCEPT ![c] = LockPhase(n, c)']
  BY <1>3 DEF LockPhases
<1>5. CASE ~(Gated(c) /\ Gate(c) = "file" /\ Key(c) = n)
  <2>1. LockPhase(n, c) = "out" /\ LockPhase(n, c)' = "out"
    BY <1>5, <1>2, ObjectGateAssumption DEF LockPhase, Gated
  <2>2. LockPhases(n)' = LockPhases(n)
    BY <1>4, <2>1 DEF LockPhases
  <2>3. held'[n] = held[n]
    BY <1>1, <1>5 DEF Handles, Takes, GivesBack, Keeps, GateInv, TypeOK,
                      PlacesOf
  <2>4. QED
    BY <2>2, <2>3
<1>6. CASE Gated(c) /\ Gate(c) = "file" /\ Key(c) = n
  <2> DEFINE ph == LockPhase(n, c)
  <2>1. /\ at[c] \in {"idle", "queued"} => ph = "out"
        /\ at[c] = "locking" => ph = "waiting"
        /\ at[c] \in {"parked", "writing", "releasing"} => ph = "in"
        /\ at[c] \in {"settling", "done"}
             => ph = IF c \in busy THEN "out" ELSE "over"
    BY <1>6, PhaseOf
  <2>2. /\ at'[c] \in {"idle", "queued"} => ph' = "out"
        /\ at'[c] = "locking" => ph' = "waiting"
        /\ at'[c] \in {"parked", "writing", "releasing"} => ph' = "in"
        /\ at'[c] \in {"settling", "done"}
             => ph' = IF c \in busy' THEN "out" ELSE "over"
    BY <1>2, <1>6 DEF LockPhase, Gated
  <2>3. LockPhases(n)[c] = ph
    BY DEF LockPhases
  <2>4. LockPhases(n)' = [LockPhases(n) EXCEPT ![c] = ph']
    BY <1>4
  <2>5. at[c] \notin {"settling", "done"} => c \notin busy
    BY DEF GateInv, GaveUp
  <2> HIDE DEF ph
  <2>6. CASE Takes(c)
    <3>1. ph = "waiting" /\ ph' = "in" /\ held[n] = None /\ held'[n] = c
      BY <2>6, <2>1, <2>2, <1>6 DEF Takes, GateInv, TypeOK
    <3>2. LockFile(n)!Enter(c)
      BY <3>1, <2>3, <2>4 DEF LockFile!Enter
    <3>3. QED
      BY <3>2 DEF LockFile!Next
  <2>7. CASE GivesBack(c)
    <3>1. held[n] = c
      BY <2>7, <1>6 DEF GivesBack, GateInv, Locked, Inside
    <3>2. c \notin busy'
      BY <1>1, <2>5, <2>7 DEF GivesBack, Told
    <3>3. ph = "in" /\ ph' = "over" /\ held'[n] = None
      BY <2>7, <2>1, <2>2, <3>2, <1>6 DEF GivesBack, GateInv, TypeOK
    <3>4. LockFile(n)!Exit(c)
      BY <3>1, <3>3, <2>3, <2>4 DEF LockFile!Exit
    <3>5. QED
      BY <3>4 DEF LockFile!Next
  <2>8. CASE Keeps(c)
    <3>1. held' = held
      BY <2>8 DEF Keeps
    <3>2. CASE at[c] = "queued" /\ at'[c] = "locking"
      <4>1. LockFile(n)!Call(c)
        BY <3>1, <3>2, <2>1, <2>2, <2>3, <2>4 DEF LockFile!Call
      <4>2. QED
        BY <4>1 DEF LockFile!Next
    <3>3. CASE at[c] = "locking" /\ at'[c] = "settling"
      <4>1. c \in busy'
        BY <3>3, <1>1 DEF Told
      <4>2. LockFile(n)!GiveUp(c)
        BY <3>1, <3>3, <4>1, <2>1, <2>2, <2>3, <2>4 DEF LockFile!GiveUp
      <4>3. QED
        BY <4>2 DEF LockFile!Next
    <3>4. CASE ~(at[c] \in {"queued", "locking"} /\ at[c] # at'[c])
      <4>1. ph' = ph
        BY <3>4, <2>8, <1>6, <1>1, <2>1, <2>2, <2>5 DEF Keeps, Told
      <4>2. LockPhases(n)' = LockPhases(n)
        BY <4>1, <2>3, <2>4 DEF LockPhases
      <4>3. QED
        BY <3>1, <4>2
    <3>5. QED
      BY <3>2, <3>3, <3>4, <2>8, <1>6 DEF Keeps
  <2>9. QED
    BY <1>1, <2>6, <2>7, <2>8 DEF Handles
<1>7. QED
  BY <1>5, <1>6

(* The gate uses the lock file of every key as the section that FileLock   *)
(* implements among healthy processes.                                     *)
THEOREM LocksAreSections == Spec => LockFilesAreSections
<1>1. Init => \A n \in Names : LockFile(n)!Init
  BY DEF Init, LockFile!Init, LockPhases, LockPhase
<1>2. GateInv /\ GateInv' /\ [Next]_vars
        => [\A n \in Names :
              [LockFile(n)!Next]_<<held[n], LockPhases(n)>>]_vars
  <2> SUFFICES ASSUME GateInv, GateInv', Next, NEW n \in Names
      PROVE  [LockFile(n)!Next]_<<held[n], LockPhases(n)>>
    OBVIOUS
  <2>1. PICK d \in Calls : UNCHANGED gate /\ (Run(d) \/ Step(d))
    BY DEF Next
  <2>2. QED
    BY <2>1, StepIsSectionStep
<1>3. QED
  BY <1>1, <1>2, InvHolds, PTL DEF Spec, LockFilesAreSections

=============================================================================
