----------------------------- MODULE WriteFlow -----------------------------
(***************************************************************************)
(* Writes, deletes and undos of one object: writeObject and deleteObject   *)
(* (src/src/adt/write.ts), the flow of the tool around them with its check *)
(* and activation (src/src/tools/write.ts), and performUndo                *)
(* (src/src/adt/undo.ts), each with its journal entry.                     *)
(*                                                                         *)
(* The calls of processes that share the object gate (ObjectGate) run one  *)
(* after the other; those of a process with a gate of its own, and people  *)
(* in an editor, come in at any request.  A text is known by its author:   *)
(* two texts are equal exactly if their etags are.                         *)
(***************************************************************************)
EXTENDS Naturals

CONSTANTS
  Calls,     (* calls that write, delete or undo                      *)
  Gated,     (* those that go through the one object gate             *)
  Mortal,    (* those whose process may be killed                     *)
  Editors,   (* people who change the object elsewhere                *)
  Original,  (* the text that was there before all of them            *)
  Skeleton,  (* what a create leaves before its text is put           *)
  Absent,    (* no object                                             *)
  None

Texts    == {Original, Skeleton} \cup Calls \cup Editors
Contents == Texts \cup {Absent}

ASSUME WriteFlowAssumption ==
  /\ Gated \subseteq Calls
  /\ Mortal \subseteq Calls
  /\ None \notin Contents
  /\ Absent \notin Texts

VARIABLES
  content,   (* the version on the server, active or not                *)
  active,    (* the version that callers execute                        *)
  author,    (* history: whose request made content what it is          *)
  enqueue,   (* who has the lock of the object                          *)
  gate,      (* who is in the object gate                               *)
  kind,      (* per call: a write, a delete, or an undo                 *)
  at,        (* per call: where it is                                   *)
  seen,      (* per call: the text whose etag it expects, if any        *)
  absent,    (* per call: the object was not there when it was resolved *)
  want,      (* per call: what it is going to make of the object        *)
  base,      (* per call: what it last read                             *)
  undoes,    (* per call: the call whose entry an undo is for           *)
  entry,     (* per call: its journal entry                             *)
  replaced,  (* history: what the change of a call replaced             *)
  overrun    (* history: whose texts a create removed without an image  *)

server  == <<content, active, author>>
private == <<kind, seen, absent, want, base, undoes>>
history == <<replaced, overrun>>
writeVars == <<server, enqueue, gate, private, at, entry, history>>

Kinds    == {"write", "delete", "undo"}
Outcomes == {"pending", "succeeded", "failed"}

NoEntry == [op |-> "none", before |-> Absent, after |-> Absent,
            outcome |-> "pending", undoneBy |-> None]

Entries == [op : {"none", "put", "delete"}, before : Contents, after : Contents,
            outcome : Outcomes, undoneBy : Calls \cup {None}]

(***************************************************************************)
(* resolve ... create   up to the lock     recheck, begin   under the lock *)
(* change, unlock       the PUT or DELETE and after it                     *)
(* reject, rollback     a create whose text was refused                    *)
(* look ... mark        after the change   failing, failed  it is refused  *)
(***************************************************************************)
Places ==
  {"idle", "resolve", "plan", "read", "record", "create", "lock", "recheck",
   "begin", "change", "unlock", "verify", "look", "activate", "active", "settle",
   "reread", "mark", "reject", "rollback", "failing", "failed", "done", "dead"}

WriteInit ==
  /\ content  \in {Original, Absent}
  /\ active   = content
  /\ author   = None
  /\ enqueue  = None
  /\ gate     = None
  /\ kind     \in [Calls -> Kinds]
  /\ at       \in [Calls -> {"idle", "done"}]
  /\ seen     = [c \in Calls |-> None]
  /\ absent   = [c \in Calls |-> FALSE]
  /\ want     = [c \in Calls |-> IF kind[c] = "write" THEN c ELSE Absent]
  /\ base     = [c \in Calls |-> Absent]
  /\ undoes   = [c \in Calls |-> None]
  /\ entry    = [c \in Calls |-> NoEntry]
  /\ replaced = [c \in Calls |-> None]
  /\ overrun  = [c \in Calls |-> {}]

Removes(c) == want[c] = Absent
Creates(c) == absent[c] /\ ~Removes(c)

Goto(c, place) == at' = [at EXCEPT ![c] = place]

(* The call is over: its slot, its gate and its lock are given back. *)
FreedBy(holder, c) == IF holder = c THEN None ELSE holder

End(c) ==
  /\ Goto(c, "done")
  /\ gate'    = FreedBy(gate, c)
  /\ enqueue' = FreedBy(enqueue, c)

----------------------------------------------------------------------------
(***************************************************************************)
(* Up to the lock.                                                         *)
(***************************************************************************)
(* The caller, or the tool for it (edit, method), read the object and      *)
(* expects to replace just that; anything may happen until the call starts. *)
See(c) ==
  /\ at[c] = "idle" /\ kind[c] # "undo" /\ seen[c] = None
  /\ content # Absent
  /\ seen' = [seen EXCEPT ![c] = content]
  /\ UNCHANGED <<server, enqueue, gate, kind, absent, want, base, undoes, at,
                 entry, history>>

(* A plausible slip: the call does not wait for the gate. *)
PassGate(c) == gate' = IF gate = None THEN c ELSE gate

(* withWrite: the gate is held until the call ends. *)
EnterGate(c) == gate = None /\ gate' = c

(* An undo is of an entry whose outcome is known, and which has an image;  *)
(* the entry is not looked at again.                                       *)
Undoable(e) ==
  /\ e.op # "none" /\ e.outcome # "pending"
  /\ e.op = "delete" => e.before # Absent

Start(c) ==
  /\ at[c] = "idle"
  /\ IF c \in Gated THEN EnterGate(c) ELSE UNCHANGED gate
  /\ IF kind[c] = "undo"
     THEN \E e \in Calls : Undoable(entry[e]) /\ undoes' = [undoes EXCEPT ![c] = e]
     ELSE UNCHANGED undoes
  /\ Goto(c, "resolve")
  /\ UNCHANGED <<server, enqueue, kind, seen, absent, want, base, entry, history>>

(* resolveWriteTarget: a GET says whether the object is there. *)
Resolve(c) ==
  /\ at[c] = "resolve"
  /\ absent' = [absent EXCEPT ![c] = content = Absent]
  /\ IF kind[c] = "delete" /\ content = Absent
     THEN End(c)
     ELSE Goto(c, IF kind[c] = "undo" THEN "plan" ELSE "read") /\ UNCHANGED <<gate, enqueue>>
  /\ UNCHANGED <<server, kind, seen, want, base, undoes, entry, history>>

(***************************************************************************)
(* planUndo: undoing a delete is a recreate, undoing a create is a delete, *)
(* anything else a restore; only if the server still has what the entry    *)
(* left there.  What is already as the undo would leave it needs none.     *)
(***************************************************************************)
Drifted(e) == content \notin {e.after, e.before}

Undone(e)  == content = e.before

Plan(c) ==
  LET e == entry[undoes[c]] IN
  /\ at[c] = "plan"
  /\ IF Drifted(e) \/ Undone(e)
     THEN End(c) /\ UNCHANGED want
     ELSE /\ Goto(c, "read")
          /\ want' = [want EXCEPT ![c] = e.before]
          /\ UNCHANGED <<gate, enqueue>>
  /\ UNCHANGED <<server, kind, seen, absent, base, undoes, entry, history>>

(* Nothing is asked about an object that was not there. *)
Reads(c) == IF absent[c] THEN Absent ELSE content

(* The first read: the baseline, and the comparison with the expected etag. *)
Refused(c) ==
  \/ seen[c] # None /\ Reads(c) # seen[c]
  \/ ~absent[c] /\ content = Absent /\ ~Removes(c)

Read(c) ==
  /\ at[c] = "read"
  /\ base' = [base EXCEPT ![c] = Reads(c)]
  /\ IF Refused(c) \/ (~absent[c] /\ content = want[c] /\ ~Removes(c))
     THEN End(c)
     ELSE Goto(c, IF Creates(c) THEN "record" ELSE "lock") /\ UNCHANGED <<gate, enqueue>>
  /\ UNCHANGED <<server, kind, seen, absent, want, undoes, entry, history>>

(* Journal.begin: an entry that cannot be written refuses the change. *)
Entry(c) ==
  [op |-> IF Removes(c) THEN "delete" ELSE "put", before |-> base[c],
   after |-> want[c], outcome |-> "pending", undoneBy |-> None]

(* Of a create before the create, of anything else under the lock. *)
Begin(c) ==
  /\ at[c] \in {"record", "begin"}
  /\ \/ /\ entry' = [entry EXCEPT ![c] = Entry(c)]
        /\ Goto(c, IF at[c] = "record" THEN "create" ELSE "change")
        /\ UNCHANGED <<gate, enqueue>>
     \/ End(c) /\ UNCHANGED entry
  /\ UNCHANGED <<server, private, history>>

(* createNewObject: refused if the name is taken; the answer may be lost. *)
Create(c) ==
  /\ at[c] = "create"
  /\ \/ /\ content = Absent /\ enqueue = None
        /\ content' = Skeleton
        /\ author'  = c
        /\ replaced' = [replaced EXCEPT ![c] = Absent]
        /\ \E place \in {"lock", "failed"} : Goto(c, place)
     \/ Goto(c, "failed") /\ UNCHANGED <<content, author, replaced>>
  /\ UNCHANGED <<active, enqueue, gate, private, entry, overrun>>

----------------------------------------------------------------------------
(***************************************************************************)
(* Under the lock.                                                         *)
(***************************************************************************)
(* A lock is of an object that is there, and of one owner. *)
Lock(c) ==
  /\ at[c] = "lock"
  /\ \/ /\ enqueue = None /\ content # Absent
        /\ enqueue' = c
        /\ Goto(c, IF Creates(c) THEN "change" ELSE "recheck")
        /\ UNCHANGED gate
     \/ IF Creates(c)
        THEN Goto(c, "failed") /\ UNCHANGED <<enqueue, gate>>
        ELSE End(c)
  /\ UNCHANGED <<server, private, entry, history>>

(* A plausible slip: the baseline is taken for the text under the lock. *)
Assumed(c) == TRUE

(***************************************************************************)
(* The lock is the first moment at which nobody else can change the text,  *)
(* so it is read again: it must be the baseline, and it is what the entry  *)
(* will say was there.  The read may fail.                                 *)
(***************************************************************************)
Unchanged(c) == Reads(c) = base[c]

Recheck(c) ==
  /\ at[c] = "recheck"
  /\ \/ Unchanged(c) /\ Goto(c, "begin") /\ UNCHANGED <<gate, enqueue>>
     \/ End(c)
  /\ UNCHANGED <<server, private, entry, history>>

(* What is there by now was put by somebody else: the call has no image    *)
(* of it, since its entry was begun when nothing was there.                *)
Overruns(c) == overrun' = [overrun EXCEPT ![c] = @ \cup ({author} \ {c})]

(* The PUT or the DELETE, refused without the lock.  It may be refused for *)
(* other reasons, and it may land although no answer comes.  What a create *)
(* finds under its lock is not compared with what its POST has left.       *)
Lands(c) ==
  /\ enqueue = c
  /\ content # Absent
  /\ content' = want[c]
  /\ active'  = IF Removes(c) THEN Absent ELSE active
  /\ author'  = c
  /\ IF Creates(c)
     THEN Overruns(c) /\ UNCHANGED replaced
     ELSE replaced' = [replaced EXCEPT ![c] = content] /\ UNCHANGED overrun

Change(c) ==
  /\ at[c] = "change"
  /\ \/ /\ Lands(c)
        /\ \/ Goto(c, IF Removes(c) THEN "verify" ELSE "unlock")
           \/ Goto(c, "failing")
        /\ enqueue' = IF Removes(c) THEN None ELSE enqueue
     \/ /\ Goto(c, IF Creates(c) THEN "reject" ELSE "failing")
        /\ UNCHANGED <<server, enqueue, history>>
  /\ UNCHANGED <<gate, private, entry>>

(* What the create left is removed again, after an unlock of its own, *)
(* whatever it is by then; or it is left there.                       *)
Reject(c) ==
  /\ at[c] = "reject"
  /\ \/ enqueue' = FreedBy(enqueue, c) /\ Goto(c, "rollback")
     \/ Goto(c, "failing") /\ UNCHANGED enqueue
  /\ UNCHANGED <<server, gate, private, entry, history>>

Rollback(c) ==
  /\ at[c] = "rollback"
  /\ Goto(c, "failed")
  /\ \/ /\ enqueue = None /\ content # Absent
        /\ content' = Absent
        /\ active'  = Absent
        /\ author'  = c
        /\ Overruns(c)
     \/ UNCHANGED <<server, overrun>>
  /\ UNCHANGED <<enqueue, gate, private, entry, replaced>>

(* withStatefulSession gives the lock back, whatever came of the change. *)
Unlock(c) ==
  /\ at[c] \in {"unlock", "failing"}
  /\ enqueue' = FreedBy(enqueue, c)
  /\ Goto(c, IF at[c] = "unlock" THEN "look" ELSE "failed")
  /\ UNCHANGED <<server, gate, private, entry, history>>

----------------------------------------------------------------------------
(***************************************************************************)
(* After the change.                                                       *)
(***************************************************************************)
(* What the rest of the call finds wrong leaves a write on record as       *)
(* landed, and an undo as pending.                                         *)
GivesUp(c) ==
  IF kind[c] = "undo" THEN End(c) ELSE Goto(c, "settle") /\ UNCHANGED <<gate, enqueue>>

(* The check fails, or nothing is to be activated; otherwise the text that *)
(* is there must be the one that was put.                                  *)
Look(c) ==
  /\ at[c] = "look"
  /\ \/ content = want[c] /\ Goto(c, "activate") /\ UNCHANGED <<gate, enqueue>>
     \/ GivesUp(c)
     \/ Goto(c, "settle") /\ UNCHANGED <<gate, enqueue>>
  /\ UNCHANGED <<server, private, entry, history>>

(* An activation names the object and no version of it; it may take effect *)
(* although no answer comes.  An undo goes on after a refused one.         *)
Activate(c) ==
  /\ at[c] = "activate"
  /\ \/ /\ enqueue = None /\ content # Absent
        /\ active' = content
        /\ \/ Goto(c, "active") /\ UNCHANGED <<gate, enqueue>>
           \/ GivesUp(c)
     \/ GivesUp(c) /\ UNCHANGED active
     \/ Goto(c, "settle") /\ UNCHANGED <<active, gate, enqueue>>
  /\ UNCHANGED <<content, author, private, entry, history>>

(* An outcome that cannot be written is lost, and the call goes on. *)
SettledAs(c, outcome) ==
  entry' \in {entry, [entry EXCEPT ![c].outcome = outcome]}

(* An undo that finds the object still there after its DELETE has failed;  *)
(* a delete reports it and is on record as sent.                           *)
Verify(c) ==
  /\ at[c] = "verify"
  /\ IF kind[c] = "undo" /\ content # Absent
     THEN SettledAs(c, "failed") /\ End(c)
     ELSE Goto(c, "settle") /\ UNCHANGED <<entry, gate, enqueue>>
  /\ UNCHANGED <<server, private, history>>

Settle(c) ==
  /\ at[c] \in {"settle", "active"}
  /\ SettledAs(c, "succeeded")
  /\ CASE kind[c] = "undo" -> Goto(c, "mark") /\ UNCHANGED <<gate, enqueue>>
       [] at[c] = "active" -> Goto(c, "reread") /\ UNCHANGED <<gate, enqueue>>
       [] OTHER            -> End(c)
  /\ UNCHANGED <<server, private, history>>

(* Activation rewrites a document (not a source): what is there now goes   *)
(* on record as what the write left, if it can be read, whoever wrote it.  *)
Reread(c) ==
  /\ at[c] = "reread"
  /\ entry' \in {entry} \cup
       {[entry EXCEPT ![c].outcome = "succeeded", ![c].after = t] : t \in {content} \ {Absent}}
  /\ End(c)
  /\ UNCHANGED <<server, private, history>>

MarkUndone(c) ==
  /\ at[c] = "mark"
  /\ entry' \in {entry, [entry EXCEPT ![undoes[c]].undoneBy = c]}
  /\ End(c)
  /\ UNCHANGED <<server, private, history>>

(* A write or a delete that threw is on record as failed, though it may    *)
(* have landed; the entry of an undo that threw stays pending.             *)
Fail(c) ==
  /\ at[c] = "failed"
  /\ IF kind[c] = "undo" THEN UNCHANGED entry ELSE SettledAs(c, "failed")
  /\ End(c)
  /\ UNCHANGED <<server, private, history>>

----------------------------------------------------------------------------
(***************************************************************************)
(* Around the calls.                                                       *)
(***************************************************************************)
(* A killed process gives the gate back; its lock goes with its session.   *)
Crash(c) ==
  /\ c \in Mortal
  /\ at[c] \notin {"idle", "done", "dead"}
  /\ Goto(c, "dead")
  /\ gate' = FreedBy(gate, c)
  /\ UNCHANGED <<server, enqueue, private, entry, history>>

(* A session that ends takes its lock with it, and tells nobody. *)
LockExpires ==
  /\ enqueue # None
  /\ enqueue' = None
  /\ UNCHANGED <<server, gate, private, at, entry, history>>

(* Somebody elsewhere writes, creates or deletes the object, under a lock. *)
Edit(p) ==
  /\ enqueue = None
  /\ author # p
  /\ \/ content' = p /\ UNCHANGED active
     \/ content' = Absent /\ active' = Absent /\ content # Absent
  /\ author' = p
  /\ UNCHANGED <<enqueue, gate, private, at, entry, history>>

----------------------------------------------------------------------------
Before(c) == See(c) \/ Start(c) \/ Resolve(c) \/ Plan(c) \/ Read(c) \/ Begin(c)

Locked(c) ==
  Create(c) \/ Lock(c) \/ Recheck(c) \/ Change(c) \/ Reject(c) \/ Rollback(c) \/ Unlock(c)

After(c) ==
  \/ Look(c) \/ Activate(c) \/ Verify(c) \/ Settle(c) \/ Reread(c)
  \/ MarkUndone(c) \/ Fail(c)

WriteNext ==
  \/ \E c \in Calls : Before(c) \/ Locked(c) \/ After(c) \/ Crash(c)
  \/ \E p \in Editors : Edit(p)
  \/ LockExpires

WriteSpec == WriteInit /\ [][WriteNext]_writeVars

----------------------------------------------------------------------------
WriteTypeOK ==
  /\ content \in Contents /\ active \in Contents
  /\ author  \in Calls \cup Editors \cup {None}
  /\ enqueue \in Calls \cup {None} /\ gate \in Gated \cup {None}
  /\ kind    \in [Calls -> Kinds]
  /\ at      \in [Calls -> Places]
  /\ seen    \in [Calls -> Texts \cup {None}]
  /\ absent  \in [Calls -> BOOLEAN]
  /\ want    \in [Calls -> Contents] /\ base \in [Calls -> Contents]
  /\ undoes  \in [Calls -> Calls \cup {None}]
  /\ entry   \in [Calls -> Entries]
  /\ replaced \in [Calls -> Contents \cup {None}]
  /\ overrun  \in [Calls -> SUBSET (Calls \cup Editors \cup {None})]

(* What a call changed is on record with just the text it replaced, though *)
(* others wrote, crashed or lost their locks while it ran: an undo can put *)
(* it back.  Only an undo that was told in one request that the object is  *)
(* gone, and in the next what is in it, deletes it without an image.  For  *)
(* a create this is what its POST replaced: nothing.                       *)
ToldBoth(c) == kind[c] = "undo" /\ absent[c] /\ Removes(c)

ImageIsExact ==
  \A c \in Calls : replaced[c] # None =>
    entry[c].op # "none" /\ (entry[c].before = replaced[c] \/ ToldBoth(c))

(* A text is removed without an image by nothing but a create: by its PUT, *)
(* or its rollback, over what others put there after its POST.  It is one  *)
(* that expected no text, and one in the gate does it to nobody else that  *)
(* goes through the gate.                                                  *)
Outside == (Calls \ Gated) \cup Editors

OnlyCreatesOverrun ==
  \A c \in Calls : overrun[c] # {} =>
    /\ entry[c].op = "put" /\ entry[c].before = Absent /\ seen[c] = None
    /\ c \in Gated => overrun[c] \subseteq Outside

(* A call that said what it expects to replace has replaced nothing else.  *)
ExpectedIsHonoured ==
  \A c \in Calls : {seen[c], replaced[c]} \cap {None} = {} => replaced[c] = seen[c]

(* What is on record as succeeded, or as undone, has really happened.      *)
RecordedIsDone ==
  \A c \in Calls :
    /\ entry[c].outcome = "succeeded" => replaced[c] # None
    /\ entry[c].undoneBy # None => replaced[entry[c].undoneBy] # None

ChangesAreOnRecord ==
  /\ WriteTypeOK /\ ImageIsExact /\ OnlyCreatesOverrun
  /\ ExpectedIsHonoured /\ RecordedIsDone

(***************************************************************************)
(* The gate spans a call from its first read to its activation: none of    *)
(* the calls it admits publishes what another of them wrote, nor takes     *)
(* back, by an undo, more than the change it is for.  Only what comes from *)
(* outside the gate can do that to it.                                     *)
(***************************************************************************)
Publishes(c) == at[c] = "activate" /\ active' # active

TakesBack(c) == kind[c] = "undo" /\ at[c] = "change" /\ replaced'[c] # replaced[c]

GateSpansTheCall ==
  [][\A c \in Gated :
       /\ Publishes(c) => author \in {c} \cup Outside
       /\ TakesBack(c) => content = entry[undoes[c]].after \/ author \in Outside]_writeVars

=============================================================================
