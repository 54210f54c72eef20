----------------------------- MODULE ObjectGate -----------------------------
(***************************************************************************)
(* Same-object writes (src/src/adt/object-gate.ts) of several server       *)
(* processes: AdtSessionPool.withWrite runs a write through the gate of    *)
(* its process, and only inside it asks for a session.                     *)
(*                                                                         *)
(* A gate keeps one promise chain per key: a write chains itself to the    *)
(* last one and becomes the last.  The cross-process gate also takes the   *)
(* key's lock file, once it is the write's turn.  The lock file is the one *)
(* FileLock shows to implement ExclusiveSection; the pool is abstracted to *)
(* a number of sessions, handed out in any order.                          *)
(***************************************************************************)
EXTENDS Naturals, FiniteSets

CONSTANTS
  Calls,     (* withWrite calls, all processes together               *)
  Procs,     (* server processes                                      *)
  ProcOf,    (* per call: its process                                 *)
  Names,     (* object names as agents spell them                     *)
  Upper,     (* per name: its upper-case spelling                     *)
  NameOf,    (* per call: the name it writes, or None for a batch     *)
  Sessions,  (* maxSessions, per process                              *)
  Fragile,   (* the calls whose session may die under the write       *)
  None

ASSUME ObjectGateAssumption ==
  /\ ProcOf \in [Calls -> Procs]
  /\ Upper \in [Names -> Names]
  /\ NameOf \in [Calls -> Names \cup {None}]
  /\ Sessions \in Nat \ {0}
  /\ Fragile \subseteq Calls
  /\ None \notin Names \cup Calls
  /\ {"journal", "other"} \cap Names = {}

VARIABLES
  gate,      (* per process: the gate its pool was built with             *)
  chains,    (* per process and key: the last write of the chain, or None *)
  prev,      (* per call: the write it is chained to, or None             *)
  at,        (* per call: where it is                                     *)
  held,      (* per key: whose the lock file is, or None                  *)
  replayed,  (* the calls whose session died and was replaced             *)
  busy,      (* the calls told that another process holds the object      *)
  ahead      (* history: per call, the unsettled writes of its chain when *)
             (* it joined                                                 *)

vars == <<gate, chains, prev, at, held, replayed, busy, ahead>>

(***************************************************************************)
(* queued: on the chain    locking: in withFileLock    parked: in the      *)
(* pool's queue    writing: fn runs on a session    releasing: fn is over, *)
(* the lock file is not gone yet    settling: the promise has settled, its *)
(* reactions have not run                                                  *)
(***************************************************************************)
Places == {"idle", "queued", "locking", "parked", "writing", "releasing",
           "settling", "done"}

(* Serialising can be switched off, and so can the lock files. *)
Gates == {"noop", "chain", "file"}

Init ==
  /\ gate     \in [Procs -> Gates]
  /\ chains   = [p \in Procs |-> [n \in Names |-> None]]
  /\ prev     = [c \in Calls |-> None]
  /\ at       = [c \in Calls |-> "idle"]
  /\ held     = [n \in Names |-> None]
  /\ replayed = {}
  /\ busy     = {}
  /\ ahead    = [c \in Calls |-> {}]

----------------------------------------------------------------------------
(* Agents spell an object in any case; a plausible slip: the key is the    *)
(* name as spelled.                                                        *)
NameAsGiven(n) == n

WriteGateKey(n) == Upper[n]

Key(c)   == WriteGateKey(NameOf[c])
Gate(c)  == gate[ProcOf[c]]
Gated(c) == NameOf[c] # None /\ Gate(c) # "noop"
Tail(c)  == chains[ProcOf[c]][Key(c)]

Pending(c) == at[c] \notin {"idle", "done"}

(* The unsettled writes on the chain c joins. *)
Queue(c) ==
  {b \in Calls : /\ Pending(b) /\ Gated(b)
                 /\ ProcOf[b] = ProcOf[c] /\ Key(b) = Key(c)}

(* A plausible slip: the chain is read after it was set. *)
Itself(c) == c

Predecessor(c) == Tail(c)

SetTail(c, t) == chains' = [chains EXCEPT ![ProcOf[c]][Key(c)] = t]
Goto(c, place) == at' = [at EXCEPT ![c] = place]

(* withWrite: a batch has no key and bypasses the gate, as everything does *)
(* when the gate is off.                                                   *)
Run(c) ==
  /\ at[c] = "idle"
  /\ IF Gated(c)
     THEN /\ prev'  = [prev EXCEPT ![c] = Predecessor(c)]
          /\ ahead' = [ahead EXCEPT ![c] = Queue(c)]
          /\ SetTail(c, c)
          /\ Goto(c, "queued")
     ELSE /\ Goto(c, "parked")
          /\ UNCHANGED <<chains, prev, ahead>>
  /\ UNCHANGED <<held, replayed, busy>>

(* prev.then(fn, fn): its turn comes when the predecessor settled, however *)
(* it did.  The predecessor's own reaction, the clean-up, runs first.      *)
Begin(c) ==
  /\ at[c] = "queued"
  /\ prev[c] # None => at[prev[c]] = "done"
  /\ Goto(c, IF Gate(c) = "file" THEN "locking" ELSE "parked")
  /\ UNCHANGED <<chains, prev, held, replayed, busy, ahead>>

Acquire(c) ==
  /\ at[c] = "locking"
  /\ held[Key(c)] = None
  /\ held' = [held EXCEPT ![Key(c)] = c]
  /\ Goto(c, "parked")
  /\ UNCHANGED <<chains, prev, replayed, busy, ahead>>

----------------------------------------------------------------------------
(* What fn may throw: the failure to acquire another lock file, the        *)
(* journal's, or something else.  The failure to acquire a lock file is    *)
(* known by its path, which is the key for a lock file of the gate.        *)
Thrown == {"journal", "other"}

(* A plausible slip: any lock failure counts as this gate's. *)
AnyLockFailure(e, path) == e # "other"

IsFileLockAcquisitionFailure(e, path) == e = path

(* The cross-process gate alone looks at what was thrown. *)
Rejected(c, e) ==
  busy' = IF /\ Gated(c) /\ Gate(c) = "file"
             /\ IsFileLockAcquisitionFailure(e, Key(c))
          THEN busy \cup {c} ELSE busy

GiveUp(c) ==
  /\ at[c] = "locking"
  /\ Rejected(c, Key(c))
  /\ Goto(c, "settling")
  /\ UNCHANGED <<chains, prev, held, replayed, ahead>>

(* fn is over: release the lock file, settle the link, or just return.     *)
(* A plausible slip: the release is forgotten.                             *)
AfterFnNoRelease(c) == IF Gated(c) THEN "settling" ELSE "done"

AfterFn(c) ==
  IF ~Gated(c) THEN "done"
  ELSE IF Gate(c) = "file" THEN "releasing" ELSE "settling"

InUse(p) == Cardinality({c \in Calls : ProcOf[c] = p /\ at[c] = "writing"})

Lease(c) ==
  /\ at[c] = "parked"
  /\ InUse(ProcOf[c]) < Sessions
  /\ Goto(c, "writing")
  /\ UNCHANGED <<chains, prev, held, replayed, busy, ahead>>

(* The pool's queue is full, or the wait for a session timed out. *)
Refuse(c) ==
  /\ at[c] = "parked"
  /\ Rejected(c, "other")
  /\ Goto(c, AfterFn(c))
  /\ UNCHANGED <<chains, prev, held, replayed, ahead>>

(* The session died under the write: runOn asks for another one, once,     *)
(* without leaving the gate.                                               *)
Replay(c) ==
  /\ at[c] = "writing"
  /\ c \in Fragile \ replayed
  /\ replayed' = replayed \cup {c}
  /\ Goto(c, "parked")
  /\ UNCHANGED <<chains, prev, held, busy, ahead>>

Finish(c) ==
  /\ at[c] = "writing"
  /\ UNCHANGED busy \/ \E e \in Thrown : Rejected(c, e)
  /\ Goto(c, AfterFn(c))
  /\ UNCHANGED <<chains, prev, held, replayed, ahead>>

Release(c) ==
  /\ at[c] = "releasing"
  /\ held' = [held EXCEPT ![Key(c)] = None]
  /\ Goto(c, "settling")
  /\ UNCHANGED <<chains, prev, replayed, busy, ahead>>

(* A plausible slip: any link clears the entry. *)
AnyLink(c) == TRUE

IsTail(c) == Tail(c) = c

Clear(c) ==
  /\ at[c] = "settling"
  /\ IF IsTail(c) THEN SetTail(c, None) ELSE UNCHANGED chains
  /\ Goto(c, "done")
  /\ UNCHANGED <<prev, held, replayed, busy, ahead>>

Step(c) ==
  \/ Begin(c)  \/ Acquire(c) \/ GiveUp(c) \/ Lease(c)   \/ Refuse(c)
  \/ Replay(c) \/ Finish(c)  \/ Release(c) \/ Clear(c)

Next == UNCHANGED gate /\ \E c \in Calls : Run(c) \/ Step(c)

Spec == Init /\ [][Next]_vars

(* Promise reactions run; a wait for the lock file ends one way or the     *)
(* other; a free session is handed out; an HTTP request is answered or     *)
(* times out.                                                              *)
Fairness ==
  \A c \in Calls :
    /\ WF_vars(Begin(c) /\ UNCHANGED gate)
    /\ WF_vars((Acquire(c) \/ GiveUp(c)) /\ UNCHANGED gate)
    /\ WF_vars(Lease(c) /\ UNCHANGED gate)
    /\ WF_vars(Finish(c) /\ UNCHANGED gate)
    /\ WF_vars(Release(c) /\ UNCHANGED gate)
    /\ WF_vars(Clear(c) /\ UNCHANGED gate)

FairSpec == Spec /\ Fairness

----------------------------------------------------------------------------
(* Where a call may be, given its gate. *)
PlacesOf(c) ==
  Places \ ((IF Gated(c) THEN {} ELSE {"queued", "settling"})
            \cup (IF Gated(c) /\ Gate(c) = "file" THEN {}
                  ELSE {"locking", "releasing"}))

(* Every variable holds what its declaration says, and no call is where    *)
(* its gate does not lead.                                                 *)
TypeOK ==
  /\ gate     \in [Procs -> Gates]
  /\ chains   \in [Procs -> [Names -> Calls \cup {None}]]
  /\ prev     \in [Calls -> Calls \cup {None}]
  /\ at       \in [Calls -> Places]
  /\ \A c \in Calls : at[c] \in PlacesOf(c)
  /\ held     \in [Names -> Calls \cup {None}]
  /\ replayed \subseteq Calls
  /\ busy     \subseteq Calls
  /\ ahead    \in [Calls -> SUBSET Calls]

(* The object is the same, however its name is spelled. *)
SameObject(b, c) ==
  /\ NameOf[b] # None /\ NameOf[c] # None
  /\ Upper[NameOf[b]] = Upper[NameOf[c]]

(* The gates that exclude each other's writes: one process's own, and the  *)
(* cross-process ones of any two.                                          *)
Exclude(b, c) ==
  \/ ProcOf[b] = ProcOf[c] /\ Gate(b) # "noop"
  \/ Gate(b) = "file" /\ Gate(c) = "file"

(* Two writes of one object never overlap, in one process or across two:   *)
(* what the gate is for.  A batch, and a process that opted out, are not   *)
(* covered.                                                                *)
OneWriterPerObject ==
  \A b, c \in Calls :
    b # c /\ SameObject(b, c) /\ Exclude(b, c)
      => ~(at[b] = "writing" /\ at[c] = "writing")

(* Writes of one object are served in the order they came: nobody is past  *)
(* the queue while a write that was there before is unsettled, whoever     *)
(* cleared the map's entry in between.                                     *)
FirstComeFirstServed ==
  \A c \in Calls :
    at[c] \notin {"idle", "queued"} => \A b \in ahead[c] : at[b] = "done"

(* "Must return to 0 when idle": the map names only unsettled writes, so   *)
(* it is empty once all have settled.                                      *)
IdleGateIsEmpty ==
  \A p \in Procs, n \in Names :
    chains[p][n] # None => Pending(chains[p][n])

(* A chain is a queue: types, its order, and an end that is cleared away.  *)
ChainIsSound == TypeOK /\ FirstComeFirstServed /\ IdleGateIsEmpty

(* A caller told that another process holds the object may retry at ease:  *)
(* its write was never begun.                                              *)
BusyMeansUntouched ==
  [][\A c \in Calls : c \in busy' \ busy => at[c] = "locking"]_vars

(* The lock file of a key, seen as the section FileLock implements.        *)
LockPhase(n, c) ==
  IF ~(NameOf[c] # None /\ Gate(c) = "file" /\ Key(c) = n) THEN "out"
  ELSE CASE at[c] = "locking"                             -> "waiting"
         [] at[c] \in {"parked", "writing", "releasing"}  -> "in"
         [] at[c] \in {"settling", "done"} /\ c \notin busy -> "over"
         [] OTHER                                         -> "out"

LockPhases(n) == [c \in Calls |-> LockPhase(n, c)]

LockFile(n) == INSTANCE ExclusiveSection WITH
  Procs  <- Calls,
  Mortal <- {},
  holder <- held[n],
  phase  <- LockPhases(n)

(* The gate uses every lock file as one section per key: each write takes  *)
(* it at most once, keeps it while it waits for sessions and replays, and  *)
(* gives it back on every way out, the refusal by the pool included.       *)
LockFilesAreSections ==
  /\ \A n \in Names : LockFile(n)!Init
  /\ [][\A n \in Names :
         [LockFile(n)!Next]_<<held[n], LockPhases(n)>>]_vars

(* A write that was accepted settles: neither a failing predecessor nor    *)
(* the wait for a session inside the gate wedges it.                       *)
EveryWriteSettles ==
  \A c \in Calls : Pending(c) ~> at[c] = "done"

=============================================================================
