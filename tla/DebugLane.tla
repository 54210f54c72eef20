------------------------------ MODULE DebugLane ------------------------------
(***************************************************************************)
(* The debugger of one process: abap_debug's start, step and stop          *)
(* (tools/debug.ts) over DebugSession (debug/session.ts), at the shipped   *)
(* default of one lane.  A start makes a session, waits for the lock file  *)
(* that keeps other processes from arming (debug/arm-lock.ts), leaves a    *)
(* long poll with SAP, attaches to the debuggee the poll brings, and only  *)
(* then makes the session the lane's.  Calls interleave at every await.    *)
(*                                                                         *)
(* One step is what runs between two awaits.  A request and its answer are *)
(* one step, but the clean-up of a session stops waiting for its requests  *)
(* at a deadline; they are then carried out later, in their order, unless  *)
(* the closing of the session's own connection drops them.                 *)
(***************************************************************************)
EXTENDS Integers, Sequences, FiniteSets, Functions

CONSTANTS
  Starts,       (* the start calls; each makes one session at most *)
  Ends,         (* the stop and step calls *)
  None

ASSUME DebugLaneAssumption ==
  /\ None \notin Starts \cup Ends
  /\ IsFiniteSet(Starts)

VARIABLES
  progress,     (* where each start is in handleStart *)
  status,       (* of its DebugSession *)
  poll,         (* its long poll as the session sees it: listenHandle *)
  told,         (* debuggeeId is set *)
  timer,        (* the idle timer is armed *)
  ending,       (* terminatePromise: a termination is under way *)
  todo,         (* the requests of its terminations still to be carried out *)
  registry,     (* activeSessions *)
  lease,        (* whose the pool's one debug lease is *)
  lane,         (* debugLanes[0] *)
  holds,        (* how many hold the arm lock in this process *)
  section,      (* whose the lock file is *)
  registered,   (* the polls SAP has on record for this identity *)
  debuggee,     (* what became of the program each poll caught: one is left *)
                (* if a request that was to end it failed or was dropped    *)
  at,           (* where each stop or step is *)
  about         (* the session it is about *)

session == <<status, poll, told, timer, ending, todo>>
armLock == <<holds, section>>
sap     == <<registered, debuggee>>
tool    == <<registry, lease, lane>>
calls   == <<at, about>>
laneVars == <<progress, session, tool, armLock, sap, calls>>

LaneInit ==
  /\ progress = [s \in Starts |-> "new"]
  /\ status = [s \in Starts |-> "none"]
  /\ poll = [s \in Starts |-> "none"]
  /\ told = [s \in Starts |-> FALSE]
  /\ timer = [s \in Starts |-> FALSE]
  /\ ending = [s \in Starts |-> FALSE]
  /\ todo = [s \in Starts |-> <<>>]
  /\ registry = {} /\ lease = None /\ lane = None
  /\ holds = 0 /\ section = "free"
  /\ registered = {}
  /\ debuggee = [s \in Starts |-> "none"]
  /\ at = [c \in Ends |-> "new"]
  /\ about = [c \in Ends |-> None]

----------------------------------------------------------------------------
(* The arm lock: a count of its holders over one lock file. *)

(* release: the last one gives the file back; with none it does nothing. *)
ReleaseArmLock ==
  /\ holds'   = IF holds = 0 THEN 0 ELSE holds - 1
  /\ section' = IF holds = 1 THEN "free" ELSE section

(* acquire is granted to s and to all who joined it. *)
Acquiring == {s \in Starts : progress[s] = "acquiring"}

(* launchListener, at once; SAP has the poll on record from now on. *)
Launched(S) ==
  /\ progress' = [s \in Starts |-> IF s \in S THEN "dispatching" ELSE progress[s]]
  /\ poll' = [s \in Starts |-> IF s \in S THEN "out" ELSE poll[s]]
  /\ registered' = registered \cup S

(* Another process arms and gives up in the same way. *)
OtherArms  == section = "free" /\ section' = "theirs"
OtherDisarms == section = "theirs" /\ section' = "free"

Other ==
  /\ OtherArms \/ OtherDisarms
  /\ UNCHANGED <<progress, session, tool, holds, sap, calls>>

----------------------------------------------------------------------------
(* The end of a session: terminate, doTerminate, terminationSteps. *)

MayEnd(s) == status[s] \notin {"none", "dead"} /\ ~ending[s]

MayHoldDebuggee(s) == status[s] \in {"caught", "suspended"} \/ told[s]

(* A plausible slip: what was never attached to is not attached to first. *)
NoAttachFirst(s) ==
  (IF MayHoldDebuggee(s) THEN <<"terminate">> ELSE <<>>) \o <<"stop">>

(* Its requests, chosen when it begins. *)
TerminationSteps(s) ==
  (IF MayHoldDebuggee(s) /\ status[s] # "suspended" /\ told[s]
     THEN <<"attach">> ELSE <<>>)
  \o (IF MayHoldDebuggee(s) THEN <<"terminate">> ELSE <<>>)
  \o <<"stop">>

(* terminate: shared by all who ask, and nothing once dead.  The poll is   *)
(* given up locally, which rejects it; SAP keeps it on record.             *)
Terminate(s) ==
  IF MayEnd(s)
  THEN /\ ending' = [ending EXCEPT ![s] = TRUE]
       /\ todo'   = [todo EXCEPT ![s] = @ \o TerminationSteps(s)]
       /\ poll'   = [poll EXCEPT ![s] = IF @ = "out" THEN "rejected" ELSE @]
  ELSE UNCHANGED <<ending, todo, poll>>

(* DELETE of the listener names the identity, not the poll: all of them end. *)
ListenersStopped ==
  /\ registered' = {}
  /\ poll' = [s \in Starts |->
                IF s \in registered /\ poll[s] = "out" THEN "empty" ELSE poll[s]]

(* What SAP makes of a request for a debuggee.  Attaching to what is       *)
(* attached is harmless; terminating acts on what the session is attached  *)
(* to, which it may still be to one that an earlier clean-up left.         *)
Outcomes(request, now) ==
  IF request = "attach" /\ now \in {"caught", "left"} THEN {"attached"}
  ELSE IF request = "terminate" /\ now = "attached" THEN {"gone"}
  ELSE IF request = "terminate" /\ now = "left" THEN {"left", "gone"}
  ELSE {now}

(* What was to end a debuggee does not, and is not tried again. *)
Without(requests, now) ==
  IF \/ now = "caught" /\ requests \cap {"attach", "terminate"} # {}
     \/ now = "attached" /\ "terminate" \in requests
  THEN "left" ELSE now

(* terminateStep: the next request is carried out, whether or not anybody  *)
(* still waits for it, or it fails, and the sequence moves on without it.  *)
TerminationStep(s) ==
  /\ todo[s] # <<>>
  /\ todo' = [todo EXCEPT ![s] = Tail(@)]
  /\ \/ /\ \E now \in Outcomes(Head(todo[s]), debuggee[s]) :
             debuggee' = [debuggee EXCEPT ![s] = now]
        /\ IF Head(todo[s]) = "stop" THEN ListenersStopped
                                     ELSE UNCHANGED <<registered, poll>>
     \/ /\ debuggee' = [debuggee EXCEPT ![s] = Without({Head(todo[s])}, @)]
        /\ UNCHANGED <<registered, poll>>
  /\ UNCHANGED <<progress, status, told, timer, ending, tool, armLock, calls>>

(* The session's own connection is shut down.  What is parked on it is     *)
(* rejected, and what is under way loses its session; a clean-up that has  *)
(* been abandoned may still go on, over a new logon, to what is left of it. *)
Disconnect(s) ==
  \/ /\ todo' = [todo EXCEPT ![s] = <<>>]
     /\ debuggee' = [debuggee EXCEPT ![s] = Without(Range(todo[s]), @)]
  \/ UNCHANGED <<todo, debuggee>>

(* A plausible slip: a second end gives back a lease it no longer has. *)
ReleaseLeaseAgain(s) == lease' = None

(* A session's lease is released once, whoever has the slot by now. *)
ReleaseLease(s) == lease' = IF lease = s THEN None ELSE lease

(* The finally of doTerminate: its requests are done, or its deadline is   *)
(* over.                                                                   *)
Finalise(s) ==
  /\ ending[s]
  /\ ending' = [ending EXCEPT ![s] = FALSE]
  /\ timer'  = [timer EXCEPT ![s] = FALSE]
  /\ poll'   = [poll EXCEPT ![s] = "none"]
  /\ told'   = [told EXCEPT ![s] = FALSE]
  /\ status' = [status EXCEPT ![s] = "dead"]
  /\ registry' = registry \ {s}
  /\ ReleaseLease(s)
  /\ ReleaseArmLock
  /\ UNCHANGED <<progress, todo, lane, sap, calls>>

(* A caught or suspended debuggee nobody asks about is let go. *)
IdleTimeout(s) ==
  /\ timer[s]
  /\ timer' = [timer EXCEPT ![s] = FALSE]
  /\ Terminate(s)
  /\ UNCHANGED <<progress, status, told, tool, armLock, sap, calls>>

----------------------------------------------------------------------------
(* start *)

(* The registry decides, then the pool, in one go: it never queues for a   *)
(* debugger.                                                               *)
Begin(s) ==
  /\ progress[s] = "new"
  /\ IF registry = {} /\ lease = None
     THEN progress' = [progress EXCEPT ![s] = "connecting"] /\ lease' = s
     ELSE progress' = [progress EXCEPT ![s] = "over"] /\ UNCHANGED lease
  /\ UNCHANGED <<session, registry, lane, armLock, sap, calls>>

(* No session yet: only this gives the lease back. *)
ConnectFails(s) ==
  /\ progress[s] = "connecting"
  /\ progress' = [progress EXCEPT ![s] = "over"]
  /\ lease' = None
  /\ UNCHANGED <<session, registry, lane, armLock, sap, calls>>

Create(s) ==
  /\ progress[s] = "connecting"
  /\ progress' = [progress EXCEPT ![s] = "preparing"]
  /\ status' = [status EXCEPT ![s] = "idle"]
  /\ registry' = registry \cup {s}
  /\ UNCHANGED <<poll, told, timer, ending, todo, lease, lane, armLock, sap, calls>>

(* A plausible slip: the error is reported and the session is left as it is. *)
ReportOnly(s) ==
  /\ progress[s] = "failing"
  /\ progress' = [progress EXCEPT ![s] = "closing"]
  /\ UNCHANGED <<session, tool, armLock, sap, calls>>

(* What a start does until it is in the lane may fail.  It then ends its   *)
(* session, and waits for that longer than the end's own deadline.         *)
Clean(s) ==
  /\ progress[s] = "failing"
  /\ progress' = [progress EXCEPT ![s] = "closing"]
  /\ Terminate(s)
  /\ UNCHANGED <<status, told, timer, tool, armLock, sap, calls>>

(* Then it closes the session's connection, and reports. *)
Close(s) ==
  /\ progress[s] = "closing" /\ ~ending[s]
  /\ progress' = [progress EXCEPT ![s] = "over"]
  /\ Disconnect(s)
  /\ UNCHANGED <<status, poll, told, timer, ending, tool, armLock, registered, calls>>

(* A request of the start itself fails; an attach may have been carried out. *)
StepFails(s) ==
  /\ progress[s] \in {"preparing", "triggering", "attaching"}
  /\ progress' = [progress EXCEPT ![s] = "failing"]
  /\ \/ UNCHANGED debuggee
     \/ /\ progress[s] = "attaching" /\ debuggee[s] \in {"caught", "left"}
        /\ debuggee' = [debuggee EXCEPT ![s] = "attached"]
  /\ UNCHANGED <<session, tool, armLock, registered, calls>>

(* armListener: refused unless idle; in this process the lock is counted,  *)
(* and who asks while another is asking joins it.                          *)
Arm(s) ==
  /\ progress[s] = "preparing"
  /\ \/ /\ status[s] # "idle"
        /\ progress' = [progress EXCEPT ![s] = "failing"]
        /\ UNCHANGED <<poll, registered, holds>>
     \/ /\ status[s] = "idle" /\ holds > 0
        /\ holds' = holds + 1
        /\ Launched({s})
     \/ /\ status[s] = "idle" /\ holds = 0
        /\ progress' = [progress EXCEPT ![s] = "acquiring"]
        /\ UNCHANGED <<poll, registered, holds>>
  /\ UNCHANGED <<status, told, timer, ending, todo, tool, section, debuggee, calls>>

(* The file is ours: all who asked go on, whatever became of their session *)
(* in the meantime.                                                        *)
Granted ==
  /\ Acquiring # {} /\ section = "free"
  /\ section' = "ours"
  /\ holds' = Cardinality(Acquiring)
  /\ Launched(Acquiring)
  /\ UNCHANGED <<status, told, timer, ending, todo, tool, debuggee, calls>>

(* Another process has it for longer than the wait. *)
Busy ==
  /\ Acquiring # {} /\ section = "theirs"
  /\ progress' = [s \in Starts |-> IF s \in Acquiring THEN "failing" ELSE progress[s]]
  /\ UNCHANGED <<session, tool, armLock, sap, calls>>

(* The poll was sent, or failed before it could be: DebugLongPollClient     *)
(* settles `armed' before its result either way, so the race with the      *)
(* result is never lost.  The status is set whatever it is by now.         *)
Armed(s) ==
  /\ progress[s] = "dispatching"
  /\ progress' = [progress EXCEPT ![s] = "triggering"]
  /\ status' = [status EXCEPT ![s] = "listening"]
  /\ UNCHANGED <<poll, told, timer, ending, todo, tool, armLock, sap, calls>>

(* The trigger has its connection; the start waits for the poll, if there  *)
(* still is one.                                                           *)
Wait(s) ==
  /\ progress[s] = "triggering"
  /\ progress' = [progress EXCEPT ![s] = IF poll[s] = "none" THEN "failing" ELSE "waiting"]
  /\ UNCHANGED <<session, tool, armLock, sap, calls>>

(* SAP answers the poll: a program stopped, or nothing came in time.  It   *)
(* may catch a program for a poll that was given up on this side.          *)
Caught(s) ==
  /\ s \in registered
  /\ registered' = registered \ {s}
  /\ debuggee' = [debuggee EXCEPT ![s] = "caught"]
  /\ poll' = [poll EXCEPT ![s] = IF @ = "out" THEN "debuggee" ELSE @]
  /\ UNCHANGED <<progress, status, told, timer, ending, todo, tool, armLock, calls>>

Elapsed(s) ==
  /\ s \in registered
  /\ registered' = registered \ {s}
  /\ poll' = [poll EXCEPT ![s] = IF @ = "out" THEN "empty" ELSE @]
  /\ UNCHANGED <<progress, status, told, timer, ending, todo, tool, armLock, debuggee, calls>>

(* The poll fails on its way; SAP may have it on record or not. *)
PollFails(s) ==
  /\ poll[s] = "out"
  /\ poll' = [poll EXCEPT ![s] = "rejected"]
  /\ registered' \in {registered, registered \ {s}}
  /\ UNCHANGED <<progress, status, told, timer, ending, todo, tool, armLock, debuggee, calls>>

(* waitForDebuggee goes on the moment its poll is over. *)
Due(s) == progress[s] = "waiting" /\ poll[s] # "out"

Resume(s) ==
  /\ Due(s)
  /\ poll' = [poll EXCEPT ![s] = IF @ = "empty" THEN @ ELSE "none"]
  /\ \/ /\ poll[s] = "debuggee"
        /\ told' = [told EXCEPT ![s] = TRUE]
        /\ status' = [status EXCEPT ![s] = "caught"]
        /\ timer' = [timer EXCEPT ![s] = TRUE]
        /\ progress' = [progress EXCEPT ![s] = "attaching"]
     \/ /\ poll[s] = "empty"
        /\ progress' = [progress EXCEPT ![s] = "unlisten"]
        /\ UNCHANGED <<told, status, timer>>
     \/ /\ poll[s] \in {"rejected", "none"}
        /\ progress' = [progress EXCEPT ![s] = "failing"]
        /\ UNCHANGED <<told, status, timer>>
  /\ UNCHANGED <<ending, todo, tool, armLock, sap, calls>>

(* The rest of waitForDebuggee without a debuggee: the listener is taken   *)
(* back, the session is idle again whatever it was, and the arm lock is    *)
(* released.  The request may also fail.                                   *)
Unlisten(s) ==
  /\ progress[s] = "unlisten"
  /\ progress' = [progress EXCEPT ![s] = "failing"]
  /\ status' = [status EXCEPT ![s] = "idle"]
  /\ \/ /\ registered' = {}
        /\ poll' = [t \in Starts |->
                      IF t = s THEN "none"
                      ELSE IF t \in registered /\ poll[t] = "out" THEN "empty"
                      ELSE poll[t]]
     \/ poll' = [poll EXCEPT ![s] = "none"] /\ UNCHANGED registered
  /\ ReleaseArmLock
  /\ UNCHANGED <<told, timer, ending, todo, tool, debuggee, calls>>

(* attach, and at once the lane: the session may be ending or dead. *)
Attach(s) ==
  /\ progress[s] = "attaching"
  /\ debuggee[s] \in {"caught", "attached", "left"}
  /\ progress' = [progress EXCEPT ![s] = "running"]
  /\ debuggee' = [debuggee EXCEPT ![s] = "attached"]
  /\ told' = [told EXCEPT ![s] = TRUE]
  /\ status' = [status EXCEPT ![s] = "suspended"]
  /\ timer' = [timer EXCEPT ![s] = TRUE]
  /\ lane' = s
  /\ UNCHANGED <<poll, ending, todo, registry, lease, armLock, registered, calls>>

StartStep(s) ==
  \/ ConnectFails(s) \/ Create(s) \/ StepFails(s) \/ Arm(s)
  \/ Armed(s) \/ Wait(s) \/ Unlisten(s) \/ Attach(s)
  \/ Clean(s) \/ Close(s)

----------------------------------------------------------------------------
(* stop and step *)

(* stop of the lane's run: terminate, wait, and free the lane. *)
Stop(c) ==
  /\ at[c] = "new" /\ lane # None
  /\ at' = [at EXCEPT ![c] = IF ending[lane] THEN "joined" ELSE "ending"]
  /\ about' = [about EXCEPT ![c] = lane]
  /\ Terminate(lane)
  /\ UNCHANGED <<progress, status, told, timer, tool, armLock, sap>>

(* stop without a run: what is registered is ended, also a start that is   *)
(* under way.                                                              *)
ClearLeaked(c) ==
  /\ at[c] = "new" /\ lane = None
  /\ \/ /\ registry = {}
        /\ at' = [at EXCEPT ![c] = "orphans"]
        /\ UNCHANGED <<about, poll, ending, todo>>
     \/ \E s \in registry :
          /\ at' = [at EXCEPT ![c] = "leaked"]
          /\ about' = [about EXCEPT ![c] = s]
          /\ Terminate(s)
  /\ UNCHANGED <<progress, status, told, timer, tool, armLock, sap>>

(* The wait for it is over.  It is shorter than the deadline of a session  *)
(* with breakpoints, and then a forced stop takes it out of the registry.  *)
Cleared(c) ==
  /\ at[c] = "leaked"
  /\ at' = [at EXCEPT ![c] = "orphans"]
  /\ registry' \in IF ending[about[c]] THEN {registry, registry \ {about[c]}}
                                       ELSE {registry}
  /\ UNCHANGED <<progress, session, lease, lane, armLock, sap, about>>

(* releaseOrphanListener: a listener of this identity, whoever armed it. *)
ReleaseOrphans(c) ==
  /\ at[c] = "orphans"
  /\ at' = [at EXCEPT ![c] = "over"]
  /\ ListenersStopped
  /\ UNCHANGED <<progress, status, told, timer, ending, todo, tool, armLock, debuggee, about>>

(* A step is answered by the death of the debuggee, which ends the session. *)
StepDies(c) ==
  /\ at[c] = "new" /\ lane # None
  /\ at' = [at EXCEPT ![c] = "ending"]
  /\ about' = [about EXCEPT ![c] = lane]
  /\ debuggee' = [debuggee EXCEPT ![lane] = "gone"]
  /\ Terminate(lane)
  /\ UNCHANGED <<progress, status, told, timer, tool, armLock, registered>>

(* The wait of a stop outlasts what it began itself, not what it joined. *)
Ended(c) ==
  /\ \/ at[c] = "ending" /\ ~ending[about[c]]
     \/ at[c] = "joined"
  /\ at' = [at EXCEPT ![c] = "closing"]
  /\ UNCHANGED <<progress, session, tool, armLock, sap, about>>

(* The trigger's output has been waited for: the session's connection is   *)
(* closed, and the lane is free.                                           *)
FreeLane(c) ==
  /\ at[c] = "closing"
  /\ at' = [at EXCEPT ![c] = "over"]
  /\ Disconnect(about[c])
  /\ lane' = None
  /\ UNCHANGED <<progress, status, poll, told, timer, ending, registry, lease,
                 armLock, registered, about>>

EndBegins(c) == Stop(c) \/ ClearLeaked(c) \/ StepDies(c)
EndGoesOn(c) == Cleared(c) \/ ReleaseOrphans(c) \/ Ended(c) \/ FreeLane(c)

----------------------------------------------------------------------------
(* A reaction that is due runs before anything else does. *)
Quiet == \A s \in Starts : ~Due(s)

(* What is under way goes on: requests are answered or time out, SAP ends  *)
(* a poll, timers fire, the wait for the lock file ends.                   *)
GoesOn ==
  \/ \E s \in Starts : Resume(s)
  \/ Quiet /\ \E s \in Starts :
       \/ StartStep(s) \/ TerminationStep(s) \/ Finalise(s)
       \/ IdleTimeout(s) \/ Caught(s) \/ Elapsed(s) \/ PollFails(s)
  \/ Quiet /\ \E c \in Ends : EndGoesOn(c)
  \/ Quiet /\ (Granted \/ Busy)

(* What nobody owes: a call, and what another process does. *)
Happens ==
  \/ Quiet /\ \E s \in Starts : Begin(s)
  \/ Quiet /\ \E c \in Ends : EndBegins(c)
  \/ Quiet /\ Other

LaneNext == GoesOn \/ Happens

LaneSpec == LaneInit /\ [][LaneNext]_laneVars

(* As long as something is under way, something that is goes on. *)
FairLaneSpec == LaneSpec /\ WF_laneVars(GoesOn)

----------------------------------------------------------------------------
(* Types. *)
LaneTypeOK ==
  /\ progress \in [Starts -> {"new", "connecting", "preparing", "acquiring",
                              "dispatching", "triggering", "waiting", "unlisten",
                              "attaching", "running", "failing", "closing", "over"}]
  /\ status \in [Starts -> {"none", "idle", "listening", "caught", "suspended", "dead"}]
  /\ poll \in [Starts -> {"none", "out", "empty", "debuggee", "rejected"}]
  /\ told \in [Starts -> BOOLEAN]
  /\ timer \in [Starts -> BOOLEAN]
  /\ ending \in [Starts -> BOOLEAN]
  /\ todo \in [Starts -> Seq({"attach", "terminate", "stop"})]
  /\ registry \subseteq Starts
  /\ lease \in Starts \cup {None} /\ lane \in Starts \cup {None}
  /\ holds \in 0 .. Cardinality(Starts)
  /\ section \in {"free", "ours", "theirs"}
  /\ registered \subseteq Starts
  /\ debuggee \in [Starts -> {"none", "caught", "attached", "gone", "left"}]
  /\ at \in [Ends -> {"new", "ending", "joined", "leaked", "orphans", "closing", "over"}]
  /\ about \in [Ends -> Starts \cup {None}]

(***************************************************************************)
(* Whatever a start that lost its session does later, and however often a  *)
(* session is ended: each registered session has the one lease, which      *)
(* counts its work processes on SAP, and the lock file is this process's   *)
(* just while somebody here is counted as holding it.                      *)
(***************************************************************************)
RegistryIsSound ==
  /\ LaneTypeOK
  /\ \A s \in registry : lease = s
  /\ holds > 0 <=> section = "ours"

HoldsDebuggee(s) ==
  /\ status[s] \in {"caught", "suspended"} /\ ~ending[s]
  /\ debuggee[s] \in {"caught", "attached"}

(***************************************************************************)
(* "Nothing server-side reaps a forgotten suspended debuggee": one that a  *)
(* session holds is let go in the end, by the idle timer if nobody stops   *)
(* it, whether the session was attached to it or not, and also when its    *)
(* session has been ended, forced out or replaced in the meantime.  The    *)
(* clean-up is best-effort and is not tried again: the debuggee is left    *)
(* only if a request that was to end it failed, or fell to the closing of  *)
(* the session's connection.                                               *)
(***************************************************************************)
HeldIsLetGo ==
  \A s \in Starts : HoldsDebuggee(s) ~> debuggee[s] \in {"gone", "left"}

(***************************************************************************)
(* Every way out of a debug session leaves the registry and gives back the *)
(* lease and the arm lock, so no start is refused for ever: a start needs  *)
(* an empty registry and a free lease, another process the lock file.      *)
(***************************************************************************)
EverySessionEnds ==
  /\ lease # None ~> lease = None /\ registry = {}
  /\ holds > 0 ~> holds = 0

=============================================================================
