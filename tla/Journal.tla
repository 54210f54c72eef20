------------------------------- MODULE Journal -------------------------------
(***************************************************************************)
(* The journal (journal.ts): what is about to be written on SAP goes on    *)
(* record first, with images of the source before and after, so that it    *)
(* can be undone.  Several processes share one journal directory: an index *)
(* of JSON lines, a directory of images, and a directory of markers that   *)
(* say whose begin() is under way.                                         *)
(*                                                                         *)
(* A write is one withJournalledMutation(): begin(), the mutation, and     *)
(* settle().  It stands for the id begin() mints, so a greater number is a *)
(* newer entry.  The lock of the index is FileLock's; here it excludes as  *)
(* ExclusiveSection promises, a wait for it may fail, and a process that   *)
(* dies leaves it to be taken over.  An append holds it for one step, a    *)
(* prune for many.  It also stands for the queue of runExclusive(): what   *)
(* waits behind a prune of its own process waits without a limit.          *)
(***************************************************************************)
EXTENDS Naturals, FiniteSets

CONSTANTS
  Writes,      \* journalled mutations, numbered in the order of their ids
  Procs,       \* server processes that share the directory
  Home,        \* the process a write is made by
  Faulty,      \* the processes that may be killed
  Closable,    \* the writes somebody may reconcile()
  MaxEntries,  \* config.maxEntries
  MaxFaults,   \* bound: how often the disk may fail
  NoOne        \* nobody has the lock, no write prunes

ASSUME JournalAssumption ==
  /\ Writes \subseteq Nat /\ IsFiniteSet(Writes)
  /\ Home \in [Writes -> Procs] /\ Faulty \subseteq Procs
  /\ Closable \subseteq Writes /\ MaxFaults \in Nat
  /\ MaxEntries \in Nat \ {0}
  /\ NoOne \notin Writes /\ NoOne \notin Procs

VARIABLES
  stage,      \* how far a write has come
  images,     \* the images its entry will name
  alive,      \* the processes that run
  markers,    \* .inflight/: the writes with a marker
  unguarded,  \* the writes whose marker could not be written
  blobs,      \* blobs/: pairs of a write and an image
  index,      \* index.jsonl: the merged entry of a write, or NoLine
  torn,       \* the last line of the index is cut short: no newline ends it
  lock,       \* the process that has the index lock, or left it behind
  prune,      \* the prune under way
  faults,     \* how often the disk may still fail
  asserting,  \* the writes reconcile() has read as pending and will close
  excused     \* history: writes a line of which was glued to a torn one, or
              \* whose entry fell to the retention

files   == <<blobs, index, torn, markers>>
history == <<unguarded, excused>>
vars == <<stage, images, alive, files, lock, prune, faults, asserting, history>>

Images   == {"before", "after"}
Outcomes == {"pending", "observed", "asserted"}
Stages   == {"idle", "claimed", "landed", "failing", "refused",
             "returned", "pruning", "mutating", "settling", "settled",
             "unsettled", "dead"}
Steps    == {"none", "rewrite", "list", "judge", "sweep"}

Lines  == [outcome: Outcomes \cup {"none"}, images: SUBSET Images]
NoLine == [outcome |-> "none", images |-> {}]
NoPrune == [by |-> NoOne, step |-> "none", kept |-> [w \in Writes |-> NoLine],
            found |-> {}]

Entries == {w \in Writes : index[w] # NoLine}

Init ==
  /\ stage = [w \in Writes |-> "idle"] /\ images = [w \in Writes |-> {}]
  /\ alive = Procs
  /\ markers = {} /\ blobs = {} /\ torn = FALSE
  /\ index = [w \in Writes |-> NoLine]
  /\ lock = NoOne /\ prune = NoPrune /\ asserting = {}
  /\ faults = MaxFaults
  /\ unguarded = {} /\ excused = {}

Live(w)   == Home[w] \in alive
Over(w)   == stage[w] \in {"refused", "settled", "unsettled", "dead"}
Goes(w, from, to) ==
  /\ Live(w) /\ stage[w] = from
  /\ stage' = [stage EXCEPT ![w] = to]

DiskFails == faults > 0 /\ faults' = faults - 1

(* this.inFlight of process p: from the claim until the append settles.    *)
InFlightOf(p) ==
  {w \in Writes : Home[w] = p /\ stage[w] \in {"claimed", "landed", "failing"}}

--------------------------------------------------------------------------------
(* append(): under the lock, to whatever the index ends in.  A plausible   *)
(* slip: "a line lands whole", so appends take no lock.                    *)
MayAppendUnlocked == TRUE

MayAppend == lock = NoOne

Appends(w, line) ==
  /\ MayAppend
  /\ torn' = FALSE
  /\ IF torn
     THEN excused' = excused \cup {w} /\ UNCHANGED index
     ELSE index' = [index EXCEPT ![w] = line] /\ UNCHANGED excused
  /\ UNCHANGED <<alive, blobs, lock, prune, faults, unguarded>>

(* A patch without the line it patches is no entry.                        *)
Patches(w, outcome, named) ==
  Appends(w, IF index[w] = NoLine THEN NoLine
             ELSE [outcome |-> outcome, images |-> named])

(* The append fails halfway: a part of the line, and no newline.           *)
Tears ==
  /\ MayAppend /\ DiskFails
  /\ torn' = TRUE
  /\ UNCHANGED <<blobs, index, markers, alive, lock, prune, history, images>>

(* withFileLock() gives up: a prune elsewhere, or a lock left behind.      *)
TimesOut(w) ==
  /\ lock \notin {NoOne, Home[w]}
  /\ UNCHANGED <<files, alive, lock, prune, faults, history, images>>

--------------------------------------------------------------------------------
(* begin(): claim, marker, images, line, and the marker away again.        *)
Begin(w) ==
  /\ \A v \in Writes : v < w => stage[v] # "idle"
  /\ Goes(w, "idle", "claimed")
  /\ \/ markers' = markers \cup {w} /\ UNCHANGED <<unguarded, faults>>
     \/ unguarded' = unguarded \cup {w} /\ DiskFails /\ UNCHANGED markers
  /\ UNCHANGED <<images, alive, blobs, index, torn, lock, prune, asserting,
                 excused>>

(* The images begin() writes count as one, "before"; a write without any   *)
(* has none to lose.                                                       *)
WriteBefore(w) ==
  /\ Goes(w, "claimed", "claimed")
  /\ "before" \notin images[w]
  /\ blobs' = blobs \cup {<<w, "before">>}
  /\ images' = [images EXCEPT ![w] = @ \cup {"before"}]
  /\ UNCHANGED <<alive, index, torn, markers, lock, prune, faults, asserting,
                 history>>

(* The directory, or an image, cannot be written.                          *)
BeginFails(w) ==
  /\ Goes(w, "claimed", "failing")
  /\ DiskFails
  /\ UNCHANGED <<images, alive, files, lock, prune, asserting, history>>

AppendEntry(w) ==
  /\ Goes(w, "claimed", "landed") /\ images[w] # {}
  /\ Appends(w, [outcome |-> "pending", images |-> images[w]])
  /\ UNCHANGED <<images, markers, asserting>>

AppendFails(w) ==
  /\ Goes(w, "claimed", "failing") /\ images[w] # {}
  /\ Tears \/ TimesOut(w)
  /\ UNCHANGED asserting

(* finally: the claim goes, and the marker unless its removal fails.       *)
Retract(w) ==
  /\ Goes(w, "landed", "returned") \/ Goes(w, "failing", "refused")
  /\ \/ markers' = markers \ {w} /\ UNCHANGED faults
     \/ DiskFails /\ UNCHANGED markers
  /\ UNCHANGED <<images, alive, blobs, index, torn, lock, prune, asserting,
                 history>>

(* maybePrune(): the index is not long enough, or its lock not to be had.  *)
SkipPrune(w) ==
  /\ Goes(w, "returned", "mutating")
  /\ UNCHANGED <<images, alive, files, lock, prune, faults, asserting, history>>

--------------------------------------------------------------------------------
(* pruneLocked(): what the retention keeps, newest first.  Entries of old  *)
(* age are those of writes that are over.                                  *)
Keeps(p, old, K) ==
  K = {w \in Entries :
         \/ w \in InFlightOf(p)
         \/ w \notin old /\ Cardinality({v \in K : v > w}) < MaxEntries}

StartPrune(w) ==
  /\ Goes(w, "returned", "pruning")
  /\ lock = NoOne /\ lock' = Home[w]
  /\ Entries # {}
  /\ \E old \in SUBSET {v \in Entries : Over(v)}, K \in SUBSET Entries :
       /\ Keeps(Home[w], old, K)
       /\ prune' = [by |-> w, found |-> {},
                    kept |-> [v \in Writes |-> IF v \in K THEN index[v] ELSE NoLine],
                    step |-> IF K = Entries THEN "list" ELSE "rewrite"]
  /\ UNCHANGED <<images, alive, files, faults, asserting, history>>

Survives(w) == prune.kept[w] # NoLine

Prunes(step) ==
  /\ prune.step = step
  /\ UNCHANGED <<stage, images, alive, index, lock, asserting, unguarded>>

(* index.jsonl.tmp and its rename: the entries as they were when read.     *)
Rewrite ==
  /\ prune.step = "rewrite"
  /\ index' = prune.kept /\ torn' = FALSE
  /\ excused' = excused \cup {w \in Entries : ~Survives(w)}
  /\ prune' = [prune EXCEPT !.step = "list"]
  /\ UNCHANGED <<stage, images, alive, blobs, markers, lock, faults, asserting,
                 unguarded>>

(* sweepBlobs(): the images first, the registry after them.                *)
ListBlobs ==
  /\ Prunes("list")
  /\ prune' = [prune EXCEPT !.step = "judge", !.found = blobs]
  /\ UNCHANGED <<blobs, torn, markers, faults, excused>>

(* readInFlightRegistry(): markers of the dead go once they are old.  A    *)
(* plausible slip, once real: only this process's own claims are spared.   *)
SparesOwn(w, registered) == Survives(w)

Spares(w, registered) == Survives(w) \/ w \in registered

Judge ==
  /\ Prunes("judge")
  /\ \E reaped \in SUBSET {w \in markers : ~Live(w)} :
       /\ markers' = markers \ reaped
       /\ prune' = [prune EXCEPT !.step = "sweep",
                      !.found = {b \in @ : ~Spares(b[1], markers \ reaped)}]
  /\ UNCHANGED <<blobs, torn, faults, excused>>

(* One image: unlinked, unless it is of our own begin() or cannot be.      *)
Unlink(b) ==
  /\ Prunes("sweep")
  /\ b \in prune.found
  /\ prune' = [prune EXCEPT !.found = @ \ {b}]
  /\ \/ b[1] \notin InFlightOf(lock) /\ blobs' = blobs \ {b} /\ UNCHANGED faults
     \/ b[1] \in InFlightOf(lock) /\ UNCHANGED <<blobs, faults>>
     \/ DiskFails /\ UNCHANGED blobs
  /\ UNCHANGED <<torn, markers, excused>>

(* The prune is over, done or failed: a failed one fails no write.  A      *)
(* plausible slip: its section is left on success only.                    *)
EndsStuck ==
  /\ stage' = [stage EXCEPT ![prune.by] = "mutating"]
  /\ lock' = IF prune.step = "sweep" THEN NoOne ELSE lock
  /\ prune' = NoPrune
  /\ UNCHANGED <<images, alive, files, asserting, history>>

Ends ==
  /\ stage' = [stage EXCEPT ![prune.by] = "mutating"]
  /\ lock' = NoOne
  /\ prune' = NoPrune
  /\ UNCHANGED <<images, alive, files, asserting, history>>

EndPrune   == prune.step = "sweep" /\ prune.found = {} /\ Ends /\ UNCHANGED faults
PruneFails == prune.step # "none" /\ Ends /\ DiskFails

--------------------------------------------------------------------------------
(* settle(): the index is read without the lock, and patched later.        *)
ReadEntry(w) ==
  /\ Goes(w, "mutating", IF index[w] = NoLine THEN "unsettled" ELSE "settling")
  /\ UNCHANGED <<images, alive, files, lock, prune, faults, asserting, history>>

(* The mutator threw and its outcome is not known: leave-pending.          *)
LeavePending(w) ==
  /\ Goes(w, "mutating", "unsettled")
  /\ UNCHANGED <<images, alive, files, lock, prune, faults, asserting, history>>

WriteAfter(w) ==
  /\ Goes(w, "settling", "settling")
  /\ "after" \notin images[w]
  /\ blobs' = blobs \cup {<<w, "after">>}
  /\ images' = [images EXCEPT ![w] = @ \cup {"after"}]
  /\ UNCHANGED <<alive, index, torn, markers, lock, prune, faults, asserting,
                 history>>

AppendOutcome(w) ==
  /\ Goes(w, "settling", "settled")
  /\ Patches(w, "observed", images[w])
  /\ UNCHANGED <<images, markers, asserting>>

SettleFails(w) ==
  /\ Goes(w, "settling", "unsettled")
  /\ Tears \/ TimesOut(w)
  /\ UNCHANGED asserting

(* reconcile(), by whoever asks: reads without the lock, too.              *)
Reconcile(w) ==
  /\ w \in Closable \ asserting /\ index[w].outcome = "pending"
  /\ asserting' = asserting \cup {w}
  /\ UNCHANGED <<stage, images, alive, files, lock, prune, faults, history>>

AppendAssertion(w) ==
  /\ w \in asserting /\ asserting' = asserting \ {w}
  /\ \/ Patches(w, "asserted", index[w].images) /\ UNCHANGED <<images, markers>>
     \/ Tears
  /\ UNCHANGED stage

--------------------------------------------------------------------------------
(* A process is killed: what it had in memory is gone, an append of its    *)
(* may be cut short, and the lock stays behind.                            *)
Appending(p) ==
  \E w \in Writes : Home[w] = p /\ stage[w] \in {"claimed", "landed", "settling"}

Crash(p) ==
  /\ p \in Faulty /\ p \in alive
  /\ alive' = alive \ {p}
  /\ stage' = [w \in Writes |-> IF Home[w] = p THEN "dead" ELSE stage[w]]
  /\ images' = [w \in Writes |-> IF Home[w] = p THEN {} ELSE images[w]]
  /\ prune' = IF lock = p THEN NoPrune ELSE prune
  /\ \/ UNCHANGED <<lock, torn>>
     \/ lock = NoOne /\ Appending(p) /\ lock' = p /\ torn' \in {torn, TRUE}
  /\ UNCHANGED <<blobs, index, markers, faults, asserting, history>>

(* breakIfStale(): the lock of the dead is taken over.                     *)
BreakLock ==
  /\ lock # NoOne /\ lock \notin alive
  /\ lock' = NoOne
  /\ UNCHANGED <<stage, images, alive, files, prune, faults, asserting, history>>

Proceeds(w) ==
  \/ WriteBefore(w) \/ AppendEntry(w) \/ AppendFails(w)
  \/ Retract(w) \/ SkipPrune(w)
BeginStep(w) ==
  \/ Begin(w) \/ Proceeds(w) \/ BeginFails(w)
SettleStep(w) ==
  \/ ReadEntry(w) \/ LeavePending(w) \/ WriteAfter(w) \/ AppendOutcome(w)
  \/ SettleFails(w) \/ Reconcile(w) \/ AppendAssertion(w)
PruneStep ==
  \/ Rewrite \/ ListBlobs \/ Judge \/ EndPrune
  \/ \E b \in prune.found : Unlink(b)

Next ==
  \/ \E w \in Writes : BeginStep(w) \/ StartPrune(w) \/ SettleStep(w)
  \/ PruneStep \/ PruneFails \/ BreakLock
  \/ \E p \in Procs : Crash(p)

Spec == Init /\ [][Next]_vars

Fairness ==
  /\ \A w \in Writes : WF_vars(Proceeds(w))
  /\ WF_vars(PruneStep \/ BreakLock)

FairSpec == Spec /\ Fairness

--------------------------------------------------------------------------------
(* Types.                                                                  *)
TypeOK ==
  /\ stage \in [Writes -> Stages] /\ images \in [Writes -> SUBSET Images]
  /\ alive \subseteq Procs /\ markers \subseteq Writes
  /\ blobs \subseteq Writes \X Images
  /\ index \in [Writes -> Lines] /\ torn \in BOOLEAN
  /\ lock \in Procs \cup {NoOne}
  /\ prune \in [by: Writes \cup {NoOne}, step: Steps,
                kept: [Writes -> Lines], found: SUBSET (Writes \X Images)]
  /\ asserting \subseteq Closable /\ faults \in 0 .. MaxFaults
  /\ unguarded \subseteq Writes /\ excused \subseteq Writes

(* "The index never points at a blob that is not there": no sweep, by any  *)
(* process and at any moment of a begin() or a settle(), takes an image an *)
(* entry names or is about to name.  A write whose marker could not be     *)
(* published is the risk the code accepts.                                 *)
IndexedHasImage ==
  \A w \in Entries \ unguarded, i \in Images :
    i \in index[w].images => <<w, i>> \in blobs

(* What begin() and settle() have reported is in the index, whatever is    *)
(* appended, rewritten or cut short meanwhile, but for what the retention  *)
(* let go and for a line that met a torn one.                              *)
ReportedIsOnRecord ==
  \A w \in Writes \ excused :
    /\ stage[w] \in {"returned", "pruning", "mutating", "settling", "settled"}
         => w \in Entries
    /\ stage[w] = "settled" => index[w].outcome # "pending"

(* The index is well formed and sound: the types, and images for entries.   *)
IndexIsSound == TypeOK /\ IndexedHasImage

(* begin() returns, however prunes, failed prunes and dead processes stand *)
(* in its way: no exclusive section awaits another or is left locked.      *)
EveryBeginReturns ==
  \A w \in Writes :
    stage[w] = "claimed" ~> stage[w] \in {"mutating", "refused", "dead"}

================================================================================
