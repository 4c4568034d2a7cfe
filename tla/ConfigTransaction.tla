-------------------------- MODULE ConfigTransaction --------------------------
(***************************************************************************)
(* Crash-recoverable restore of configuration sets                         *)
(* (go-engine/internal/configrestore and the restore and revert commands). *)
(*                                                                         *)
(* A run of the engine takes the mutation lease, rolls back whatever an    *)
(* earlier process left pending, and then restores configuration sets one  *)
(* after the other or reverts the newest run.  A set is restored by a      *)
(* transaction: snapshot the targets, publish an intent, mutate one action *)
(* after the other, validate, publish the terminal marker.                 *)
(*                                                                         *)
(* The content of a set is a function from slots to values.  A slot        *)
(* <<a, e>> is entry e of action a: actions that write or delete one file, *)
(* or set one registry value, have one entry; a directory copy has one     *)
(* entry for each path, in the sorted order in which it is written.        *)
(*                                                                         *)
(* Process death is action Crash, and it may happen between any two steps. *)
(* The lease is a flock that dies with its holder, so the session          *)
(* variables describe the one process that holds it.                       *)
(***************************************************************************)
EXTENDS Naturals

CONSTANTS
  NumSets,          \* configuration sets a run may restore
  NumActions,       \* actions of a set
  NumEntries,       \* entries an action writes one at a time
  Values,           \* contents of one entry
  Absent,           \* the content of an entry that does not exist
  UserEdit,         \* a content written by somebody else
  Initial,          \* the content of every set before the first run
  Payloads,         \* the contents a captured configuration set asks for
  Commands,         \* the commands a user runs
  MaxTx,            \* bound: transaction roots ever created
  MaxCrashes,       \* bound: process deaths
  MaxIOErrors,      \* bound: failing operating system calls
  MaxEdits          \* bound: edits by somebody else

Sets == 1..NumSets
Actions == 1..NumActions
Entries == 1..NumEntries
Slots == Actions \X Entries
Contents == [Slots -> Values]
TxIds == 1..MaxTx

ASSUME SizesAreNaturals ==
  /\ NumSets \in Nat /\ NumActions \in Nat \ {0} /\ NumEntries \in Nat \ {0}
  /\ MaxTx \in Nat /\ MaxCrashes \in Nat /\ MaxIOErrors \in Nat /\ MaxEdits \in Nat

ASSUME ContentsAreTyped ==
  /\ Absent \in Values /\ UserEdit \in Values
  /\ Initial \in Contents /\ Payloads \subseteq Contents
  /\ Commands \subseteq {"restore", "revert"}

VARIABLES
  \* What survives the process: the targets and the store
  tgt,              \* tgt[s]: content of the targets of set s
  roots,            \* transaction directories that exist
  cfgSet, run,      \* descriptor: the set a transaction restores, its run
  prior, desired,   \* what the intent records
  intent,           \* transactions whose journal/intent.json exists
  marker,           \* marker[t]: the terminal record, if any
  reverted,         \* transactions whose reverted.json exists
  nextTx,           \* next transaction; the order of start time and ordinal
  \* The session of the process that holds the lease
  pc, cmd,
  mode,             \* why an undo runs: "rollback", "recover" or "revert"
  cur,              \* the transaction being worked on (0: none)
  act, left,        \* action index, entries of it still to be written
  want,             \* the terminal record being published
  errs,             \* actions whose undo met an error
  touched,          \* actions whose mutation has begun
  mine, todo,       \* roots this run created, transactions still to be done
  \* What the run told its user, and the bounded faults
  report, crashes, ioErrors, edits,
  raced             \* entries edited since the check that the running loop rests on

store == <<roots, cfgSet, run, prior, desired, intent, marker, reverted, nextTx>>
session == <<cmd, mode, cur, act, left, want, errs, touched, mine, todo>>
faults == <<crashes, ioErrors, edits, raced>>
vars == <<tgt, store, pc, session, report, faults>>

PCs == {"idle", "scan", "recover", "ready", "nextSet", "stopped", "intent",
        "execute", "commit", "write", "verify", "mark", "undo", "restoreEntry",
        "revertNext", "markReverted"}
Modes == {"none", "rollback", "recover", "revert"}
Wants == {"none", "committed", "rolled_back", "aborted"}
Markers == {"none", "committed", "rolled_back"}
Reports == {"none", "restored", "rolled_back", "rollback_failed", "failed",
            "skipped", "backup_failed", "journal_intent_failed",
            "recovery_required"}

StoreTyped ==
  /\ tgt \in [Sets -> Contents]
  /\ roots \subseteq TxIds
  /\ cfgSet \in [TxIds -> Sets \cup {0}] /\ run \in [TxIds -> TxIds \cup {0}]
  /\ prior \in [TxIds -> Contents] /\ desired \in [TxIds -> Contents]
  /\ intent \subseteq TxIds /\ reverted \subseteq TxIds
  /\ marker \in [TxIds -> Markers]
  /\ nextTx \in 1..(MaxTx + 1)

SessionTyped ==
  /\ pc \in PCs /\ cmd \in Commands \cup {"none"} /\ mode \in Modes
  /\ cur \in TxIds \cup {0} /\ act \in 0..(NumActions + 1)
  /\ left \subseteq Entries /\ want \in Wants /\ errs \subseteq Actions
  /\ touched \subseteq Actions /\ mine \subseteq TxIds /\ todo \subseteq TxIds

OutcomeTyped ==
  /\ report \in [TxIds -> Reports]
  /\ crashes \in 0..MaxCrashes /\ ioErrors \in 0..MaxIOErrors /\ edits \in 0..MaxEdits
  /\ raced \subseteq Entries

TypeOK == StoreTyped /\ SessionTyped /\ OutcomeTyped

Init ==
  /\ tgt = [s \in Sets |-> Initial]
  /\ roots = {} /\ nextTx = 1
  /\ cfgSet = [t \in TxIds |-> 0] /\ run = [t \in TxIds |-> 0]
  /\ prior = [t \in TxIds |-> Initial] /\ desired = [t \in TxIds |-> Initial]
  /\ intent = {} /\ marker = [t \in TxIds |-> "none"]
  /\ reverted = {}
  /\ pc = "idle" /\ cmd = "none" /\ mode = "none" /\ cur = 0 /\ act = 0
  /\ left = {} /\ want = "none" /\ errs = {} /\ touched = {}
  /\ mine = {} /\ todo = {}
  /\ report = [t \in TxIds |-> "none"]
  /\ crashes = 0 /\ ioErrors = 0 /\ edits = 0 /\ raced = {}

-----------------------------------------------------------------------------
(* What the store says *)

Pending(t) == t \in intent /\ marker[t] = "none"
PendingTx == {t \in TxIds : Pending(t)}
Active(t) == t \in intent /\ marker[t] = "committed" /\ t \notin reverted
ActiveTx == {t \in TxIds : Active(t)}

Newest(S) == CHOOSE t \in S : \A u \in S : u <= t
Oldest(S) == CHOOSE t \in S : \A u \in S : t <= u

(* The state of one action's target, as digests of the scanned target see it *)

AtState(t, a, ref) == \A e \in Entries : tgt[cfgSet[t]][<<a, e>>] = ref[<<a, e>>]
AtPrior(t, a) == AtState(t, a, prior[t])
AtDesired(t, a) == AtState(t, a, desired[t])
AllPrior(t) == \A a \in Actions : AtPrior(t, a)

\* Mutant: no directory is ever recognised as half copied.
WholeOnly(t, a) == AtPrior(t, a) \/ AtDesired(t, a)

\* Only what a commit interrupted after k writes leaves behind is provable.
ProvablePartial(t, a) ==
  \E k \in 0..NumEntries : \A e \in Entries :
    tgt[cfgSet[t]][<<a, e>>] = IF e <= k THEN desired[t][<<a, e>>]
                                         ELSE prior[t][<<a, e>>]

\* Mutants: recovery that accepts anything, or only an untouched target.
ClassifyAnything(t, a) == TRUE
ClassifyPrior(t, a) == AtPrior(t, a)

Classifiable(t, a) == AtPrior(t, a) \/ AtDesired(t, a) \/ ProvablePartial(t, a)

-----------------------------------------------------------------------------
(* Faults and the end of a session *)

IOError ==
  /\ ioErrors < MaxIOErrors /\ ioErrors' = ioErrors + 1
  /\ UNCHANGED <<crashes, edits, raced>>
NoFault == UNCHANGED faults

\* The check before a loop over one action's target has just passed.
Checked == raced' = {} /\ UNCHANGED <<crashes, ioErrors, edits>>

\* Closing the guard, or dying: nothing of the session survives.
Release ==
  /\ pc' = "idle" /\ cmd' = "none" /\ mode' = "none" /\ cur' = 0 /\ act' = 0
  /\ left' = {} /\ want' = "none" /\ errs' = {} /\ touched' = {}
  /\ mine' = {} /\ todo' = {}

Goto(label) == pc' = label

Crash ==
  /\ pc # "idle" /\ crashes < MaxCrashes
  /\ crashes' = crashes + 1
  /\ Release
  /\ UNCHANGED <<tgt, store, report, ioErrors, edits, raced>>

\* Somebody else edits a target.  While a loop writes the entries of one action
\* nothing looks at them, so an edit may fall between the check and the write.
EditTarget ==
  /\ edits < MaxEdits
  /\ \E s \in Sets, a \in Actions, e \in Entries :
       /\ tgt[s][<<a, e>>] # UserEdit
       /\ tgt' = [tgt EXCEPT ![s][<<a, e>>] = UserEdit]
       /\ raced' = IF pc \in {"write", "restoreEntry"} /\ s = cfgSet[cur] /\ a = act
                   THEN raced \cup {e} ELSE raced
  /\ edits' = edits + 1
  /\ UNCHANGED <<store, pc, session, report, crashes, ioErrors>>

-----------------------------------------------------------------------------
(* BeginLive: take the lease, then recover before anything else *)

AcquireLease ==
  /\ pc = "idle"
  /\ cmd' \in Commands
  /\ Goto("scan")
  /\ UNCHANGED <<tgt, store, mode, cur, act, left, want, errs, touched, mine,
                 todo, report>>
  /\ NoFault

\* Roots without an intent are reaped; a failing scan gives the lease back.
ScanPending ==
  /\ pc = "scan"
  /\ UNCHANGED <<tgt, cfgSet, run, prior, desired, intent, marker, reverted, nextTx, report>>
  /\ \/ /\ roots' = {t \in roots : t \in intent}
        /\ Goto("recover")
        /\ UNCHANGED session
        /\ NoFault
     \/ /\ \E reaped \in SUBSET {t \in roots : t \notin intent} : roots' = roots \ reaped
        /\ Release
        /\ IOError

BeginUndo(t, why) ==
  /\ Goto("undo")
  /\ cur' = t /\ mode' = why /\ act' = NumActions /\ errs' = {}

RecoverNext ==
  /\ pc = "recover"
  /\ \/ /\ PendingTx = {}
        /\ Goto("ready")
        /\ UNCHANGED <<cur, mode, act, errs>>
     \/ /\ PendingTx # {}
        /\ BeginUndo(Newest(PendingTx), "recover")
  /\ UNCHANGED <<tgt, store, cmd, left, want, touched, mine, todo, report>>
  /\ NoFault

-----------------------------------------------------------------------------
(* Restore: one transaction root for each selected set, then set by set *)

\* order[t] is the set restored by transaction t; created are the roots whose
\* creation succeeded.
PlanRun ==
  /\ pc = "ready" /\ cmd = "restore"
  /\ \E n \in 0..NumSets :
       /\ nextTx + n <= MaxTx + 1
       /\ LET new == nextTx..(nextTx + n - 1) IN
          \E order \in [new -> Sets], created \in SUBSET new :
            /\ \A t, u \in new : t < u => order[t] < order[u]
            /\ IF created = new THEN NoFault ELSE IOError
            /\ roots' = roots \cup new
            /\ cfgSet' = [t \in TxIds |-> IF t \in new THEN order[t] ELSE cfgSet[t]]
            /\ run' = [t \in TxIds |-> IF t \in new THEN nextTx ELSE run[t]]
            /\ report' = [t \in TxIds |-> IF t \in new \ created THEN "backup_failed"
                                                                 ELSE report[t]]
            /\ mine' = created /\ todo' = created
            /\ nextTx' = nextTx + n
  /\ Goto("nextSet")
  /\ UNCHANGED <<tgt, prior, desired, intent, marker, reverted, cmd, mode, cur,
                 act, left, want, errs, touched>>

\* Mutant: a set that could not be rolled back does not stop the run.
ForgetFailStop(stop) == "nextSet"

\* A result that says !CanContinue stops the run for good.
AfterSet(failStop) == IF failStop THEN "stopped" ELSE "nextSet"

\* A set's own result; the run goes on with the next one.
Finish(t, status, failStop) ==
  /\ report' = [report EXCEPT ![t] = status]
  /\ todo' = todo \ {t}
  /\ Goto(AfterSet(failStop))
  /\ cur' = 0 /\ mode' = "none" /\ act' = 0 /\ left' = {} /\ want' = "none"
  /\ errs' = {} /\ touched' = {}
  /\ UNCHANGED <<cmd, mine>>

\* Prepare: snapshot the prior state, unless nothing would change.
PrepareSet ==
  /\ pc = "nextSet" /\ todo # {}
  /\ LET t == Oldest(todo) IN
     \/ \E p \in Payloads :
          /\ p # tgt[cfgSet[t]]
          /\ prior' = [prior EXCEPT ![t] = tgt[cfgSet[t]]]
          /\ desired' = [desired EXCEPT ![t] = p]
          /\ cur' = t
          /\ Goto("intent")
          /\ UNCHANGED <<cmd, mode, act, left, want, errs, touched, mine, todo, report>>
          /\ NoFault
     \/ /\ tgt[cfgSet[t]] \in Payloads
        /\ Finish(t, "skipped", FALSE)
        /\ UNCHANGED <<prior, desired>>
        /\ NoFault
     \/ /\ Finish(t, "backup_failed", FALSE)
        /\ UNCHANGED <<prior, desired>>
        /\ IOError
  /\ UNCHANGED <<tgt, roots, cfgSet, run, intent, marker, reverted, nextTx>>

\* The remaining sets are reported, not restored.
SkipRemaining ==
  /\ pc = "stopped" /\ todo # {}
  /\ report' = [t \in TxIds |-> IF t \in todo THEN "recovery_required" ELSE report[t]]
  /\ todo' = {}
  /\ UNCHANGED <<tgt, store, pc, cmd, mode, cur, act, left, want, errs, touched, mine>>
  /\ NoFault

\* DiscardTransactionRoot keeps every root that has an intent.
Discardable == {t \in mine : t \notin intent}

\* Deferred clean-up: discard what can be discarded, then unlock.
CloseRun ==
  /\ pc \in {"nextSet", "stopped"} /\ todo = {}
  /\ \/ /\ roots' = roots \ Discardable /\ NoFault
     \/ /\ \E some \in SUBSET Discardable : roots' = roots \ some
        /\ IOError
  /\ Release
  /\ UNCHANGED <<tgt, cfgSet, run, prior, desired, intent, marker, reverted, nextTx, report>>

\* PersistIntent may fail with the record in place or not: either way the run
\* ends here.
PersistIntent ==
  /\ pc = "intent"
  /\ \/ /\ intent' = intent \cup {cur}
        /\ Goto("execute")
        /\ UNCHANGED <<cur, todo, report>>
        /\ NoFault
     \/ /\ intent' \in {intent, intent \cup {cur}}
        /\ report' = [t \in TxIds |-> IF t = cur THEN "journal_intent_failed"
                                      ELSE IF t \in todo THEN "recovery_required"
                                      ELSE report[t]]
        /\ todo' = {} /\ cur' = 0
        /\ Goto("nextSet")
        /\ IOError
  /\ UNCHANGED <<tgt, roots, cfgSet, run, prior, desired, marker, reverted, nextTx,
                 cmd, mode, act, left, want, errs, touched, mine>>

-----------------------------------------------------------------------------
(* Execute: the transaction proper *)

\* finishFailure: close the intent if nothing was mutated, else roll back.
FailTransaction(tch) ==
  /\ touched' = tch
  /\ left' = {}
  /\ \/ /\ tch = {}
        /\ Goto("mark") /\ want' = "aborted"
        /\ UNCHANGED <<cur, mode, act, errs>>
     \/ /\ tch # {}
        /\ BeginUndo(cur, "rollback") /\ want' = "none"
  /\ UNCHANGED <<cmd, mine, todo>>

BeginExecute ==
  /\ pc = "execute"
  /\ \/ /\ AllPrior(cur)
        /\ Goto("commit") /\ act' = 1
        /\ UNCHANGED <<cmd, mode, cur, left, want, errs, touched, mine, todo, report>>
        /\ NoFault
     \/ /\ FailTransaction({})
        /\ UNCHANGED report
        /\ IF AllPrior(cur) THEN IOError ELSE NoFault
     \/ /\ Finish(cur, "failed", TRUE)
        /\ IOError
  /\ UNCHANGED <<tgt, store>>

\* The action's own check before its first mutation.
CommitAction ==
  /\ pc = "commit" /\ act <= NumActions
  /\ \/ /\ AtPrior(cur, act)
        /\ Goto("write") /\ left' = Entries
        /\ UNCHANGED <<cmd, mode, cur, act, want, errs, touched, mine, todo>>
        /\ Checked
     \/ /\ FailTransaction(touched)
        /\ IF AtPrior(cur, act) THEN IOError ELSE NoFault
  /\ UNCHANGED <<tgt, store, report>>

SetSlot(e, ref) == tgt' = [tgt EXCEPT ![cfgSet[cur]][<<act, e>>] = ref[<<act, e>>]]

\* A failing write may have failed before touch, after it, or after the rename.
WriteEntry ==
  /\ pc = "write"
  /\ LET e == Oldest(left) IN
     \/ /\ SetSlot(e, desired[cur])
        /\ touched' = touched \cup {act}
        /\ left' = left \ {e}
        /\ IF left' = {} THEN Goto("verify") ELSE UNCHANGED pc
        /\ UNCHANGED <<cmd, mode, cur, act, want, errs, mine, todo>>
        /\ NoFault
     \/ /\ UNCHANGED tgt
        /\ \E tch \in {touched, touched \cup {act}} : FailTransaction(tch)
        /\ IOError
     \/ /\ SetSlot(e, desired[cur])
        /\ FailTransaction(touched \cup {act})
        /\ IOError
  /\ UNCHANGED <<store, report>>

\* The action's own check after its last mutation.
VerifyAction ==
  /\ pc = "verify"
  /\ \/ /\ AtDesired(cur, act)
        /\ Goto("commit") /\ act' = act + 1
        /\ UNCHANGED <<cmd, mode, cur, left, want, errs, touched, mine, todo>>
        /\ NoFault
     \/ /\ FailTransaction(touched)
        /\ IF AtDesired(cur, act) THEN IOError ELSE NoFault
  /\ UNCHANGED <<tgt, store, report>>

\* Whether the restored targets validate depends on their bytes.
Validate ==
  /\ pc = "commit" /\ act = NumActions + 1
  /\ \/ /\ Goto("mark") /\ want' = "committed"
        /\ UNCHANGED <<cmd, mode, cur, act, left, errs, touched, mine, todo>>
     \/ FailTransaction(touched)
  /\ UNCHANGED <<tgt, store, report>>
  /\ NoFault

-----------------------------------------------------------------------------
(* The terminal record *)

Terminal == IF want = "committed" THEN "committed" ELSE "rolled_back"

MarkDurable ==
  /\ pc = "mark"
  /\ marker' = [marker EXCEPT ![cur] = Terminal]
  /\ \/ /\ want = "committed" /\ Finish(cur, "restored", FALSE)
     \/ /\ want = "aborted" /\ Finish(cur, "failed", FALSE)
     \/ /\ want = "rolled_back" /\ mode = "rollback" /\ Finish(cur, "rolled_back", FALSE)
     \/ /\ want = "rolled_back" /\ mode = "recover"
        /\ Goto("recover")
        /\ cur' = 0 /\ mode' = "none" /\ want' = "none"
        /\ UNCHANGED <<cmd, act, left, errs, touched, mine, todo, report>>
  /\ UNCHANGED <<tgt, roots, cfgSet, run, prior, desired, intent, reverted, nextTx>>
  /\ NoFault

\* What the run does when it cannot publish the record.
AfterMarkFailure(ambiguous) ==
  \/ /\ want = "committed" /\ touched # {} /\ ambiguous
     /\ Finish(cur, "rollback_failed", TRUE)
  \/ /\ want = "committed" /\ (touched = {} \/ ~ambiguous)
     /\ FailTransaction(touched)
     /\ UNCHANGED report
  \/ /\ want = "aborted" /\ Finish(cur, "failed", TRUE)
  \/ /\ want = "rolled_back" /\ mode = "rollback" /\ Finish(cur, "rollback_failed", TRUE)
  \/ /\ want = "rolled_back" /\ mode = "recover" /\ Release /\ UNCHANGED report

\* The publication is proven not to have happened.
MarkFails ==
  /\ pc = "mark"
  /\ AfterMarkFailure(FALSE)
  /\ UNCHANGED <<tgt, store>>
  /\ IOError

\* ErrPublicationAmbiguous: the record may be there or not.
MarkAmbiguous ==
  /\ pc = "mark"
  /\ marker' \in {marker, [marker EXCEPT ![cur] = Terminal]}
  /\ AfterMarkFailure(TRUE)
  /\ UNCHANGED <<tgt, roots, cfgSet, run, prior, desired, intent, reverted, nextTx>>
  /\ IOError

-----------------------------------------------------------------------------
(* Undo: rollback of touched actions, recovery and revert of all, in reverse *)

Skipped(a) == mode = "rollback" /\ a \notin touched

\* An action that cannot be undone is remembered and the others are still undone.
UndoAction ==
  /\ pc = "undo" /\ act # 0
  /\ \/ /\ Skipped(act) \/ AtPrior(cur, act)
        /\ act' = act - 1
        /\ UNCHANGED <<pc, left, errs>>
        /\ NoFault
     \/ /\ ~Skipped(act) /\ ~AtPrior(cur, act) /\ Classifiable(cur, act)
        /\ Goto("restoreEntry") /\ left' = Entries
        /\ UNCHANGED <<act, errs>>
        /\ Checked
     \/ /\ ~Skipped(act)
        /\ act' = act - 1 /\ errs' = errs \cup {act}
        /\ UNCHANGED <<pc, left>>
        /\ IF Classifiable(cur, act) THEN IOError ELSE NoFault
  /\ UNCHANGED <<tgt, store, cmd, mode, cur, want, touched, mine, todo, report>>

\* Entries that did not exist are removed first, then the others rewritten.
RestoreOrder(S) ==
  LET gone == {e \in S : prior[cur][<<act, e>>] = Absent}
  IN  IF gone # {} THEN Oldest(gone) ELSE Oldest(S)

RestoreEntry ==
  /\ pc = "restoreEntry"
  /\ LET e == RestoreOrder(left) IN
     \/ /\ SetSlot(e, prior[cur])
        /\ left' = left \ {e}
        /\ IF left' = {} THEN Goto("undo") /\ act' = act - 1 ELSE UNCHANGED <<pc, act>>
        /\ UNCHANGED errs
        /\ NoFault
     \/ /\ SetSlot(e, prior[cur]) \/ UNCHANGED tgt
        /\ left' = {} /\ errs' = errs \cup {act}
        /\ Goto("undo") /\ act' = act - 1
        /\ IOError
  /\ UNCHANGED <<store, cmd, mode, cur, want, touched, mine, todo, report>>

\* Mutant: errors of an undo are logged and forgotten.
UndoIgnoresErrors == TRUE

\* The whole set is compared with the recorded prior state before the record.
UndoComplete == errs = {} /\ AllPrior(cur)

FinishUndo ==
  /\ pc = "undo" /\ act = 0
  /\ \/ /\ UndoComplete
        /\ IF mode = "revert" THEN Goto("markReverted") /\ UNCHANGED want
                              ELSE Goto("mark") /\ want' = "rolled_back"
        /\ UNCHANGED <<cmd, mode, cur, act, left, errs, touched, mine, todo, report>>
        /\ NoFault
     \/ /\ IF UndoComplete THEN IOError ELSE NoFault
        /\ \/ mode = "rollback" /\ Finish(cur, "rollback_failed", TRUE)
           \/ mode # "rollback" /\ Release /\ UNCHANGED report
  /\ UNCHANGED <<tgt, store>>

-----------------------------------------------------------------------------
(* Revert: the newest run, its members in reverse order *)

\* Mutant: runs are reverted in the order in which they were made.
RevertOldest(S) == Oldest(S)

RevertFirst(S) == Newest(S)

SelectRevert ==
  /\ pc = "ready" /\ cmd = "revert"
  /\ \/ /\ ActiveTx = {} /\ Release /\ NoFault
     \/ /\ ActiveTx # {}
        /\ todo' = {t \in ActiveTx : run[t] = run[RevertFirst(ActiveTx)]}
        /\ Goto("revertNext")
        /\ UNCHANGED <<cmd, mode, cur, act, left, want, errs, touched, mine>>
        /\ NoFault
     \/ Release /\ IOError
  /\ UNCHANGED <<tgt, store, report>>

\* preflightGenerationRevert: every action must be classifiable before the first
\* is touched.
RevertNext ==
  /\ pc = "revertNext"
  /\ \/ /\ todo = {} /\ Release /\ NoFault
     \/ /\ todo # {}
        /\ \A a \in Actions : Classifiable(RevertFirst(todo), a)
        /\ BeginUndo(RevertFirst(todo), "revert")
        /\ UNCHANGED <<cmd, left, want, touched, mine, todo>>
        /\ NoFault
     \/ /\ todo # {} /\ Release
        /\ IF \A a \in Actions : Classifiable(RevertFirst(todo), a) THEN IOError ELSE NoFault
  /\ UNCHANGED <<tgt, store, report>>

MarkReverted ==
  /\ pc = "markReverted"
  /\ \/ /\ reverted' = reverted \cup {cur}
        /\ todo' = todo \ {cur} /\ cur' = 0 /\ mode' = "none"
        /\ Goto("revertNext")
        /\ UNCHANGED <<cmd, act, left, want, errs, touched, mine>>
        /\ NoFault
     \/ /\ reverted' \in {reverted, reverted \cup {cur}}
        /\ Release
        /\ IOError
  /\ UNCHANGED <<tgt, roots, cfgSet, run, prior, desired, intent, marker, nextTx, report>>

-----------------------------------------------------------------------------
Engine ==
  \/ AcquireLease \/ ScanPending \/ RecoverNext
  \/ PlanRun \/ PrepareSet \/ SkipRemaining \/ CloseRun
  \/ PersistIntent \/ BeginExecute \/ CommitAction \/ WriteEntry \/ VerifyAction
  \/ Validate
  \/ MarkDurable \/ MarkFails \/ MarkAmbiguous
  \/ UndoAction \/ RestoreEntry \/ FinishUndo
  \/ SelectRevert \/ RevertNext \/ MarkReverted

Next == Engine \/ Crash \/ EditTarget

Spec == Init /\ [][Next]_vars

\* A process that runs keeps running, and the engine is started again.
FairSpec == Spec /\ WF_vars(Engine)
-----------------------------------------------------------------------------
(* Properties *)

\* At most one transaction is ever pending: a run that leaves one behind stops
\* (fail-stop, or an intent that could not be persisted), and the next run
\* recovers it before it creates another.
SinglePending == \A t, u \in TxIds : Pending(t) /\ Pending(u) => t = u

\* No clean-up (the reaping scan, the deferred discard) removes the directory of
\* a transaction whose intent may be on disk: its backups are still needed.
JournalKept == intent \subseteq roots

\* Whatever the engine writes to the targets of a set, it writes for a
\* transaction of that set whose intent is on disk and beside which nothing
\* else is pending.
RecoveryBeforeMutation ==
  [][\A s \in Sets : tgt'[s] # tgt[s] /\ edits' = edits =>
       \E t \in TxIds : cfgSet[t] = s /\ t \in intent /\ PendingTx \subseteq {t}]_vars

\* Commit, rollback, recovery and revert only ever replace one recorded state
\* by the other: content written by somebody else is not overwritten, unless it
\* came between the check of an action's target and the write.
NoForeignOverwrite ==
  [][\A s \in Sets, a \in Actions, e \in Entries :
       tgt'[s][<<a, e>>] # tgt[s][<<a, e>>] /\ edits' = edits =>
         \E t \in TxIds :
           LET recorded == {prior[t][<<a, e>>], desired[t][<<a, e>>]} IN
           /\ cfgSet[t] = s
           /\ tgt'[s][<<a, e>>] \in recorded
           /\ tgt[s][<<a, e>>] \in recorded \/ (t = cur /\ a = act /\ e \in raced)]_vars

\* A terminal record tells the truth when it appears: the targets hold the
\* desired (committed) or the prior (rolled back, reverted) state, but for what
\* somebody else has written since the engine last looked.
Holds(t, ref) ==
  \A sl \in Slots : tgt[cfgSet[t]][sl] \in {ref[sl], UserEdit}
RecordsTellTheTruth ==
  [][\A t \in TxIds :
       /\ marker'[t] # marker[t] =>
            /\ marker[t] = "none"
            /\ Holds(t, IF marker'[t] = "committed" THEN desired[t] ELSE prior[t])
       /\ t \in reverted' \ reverted => marker[t] = "committed" /\ Holds(t, prior[t])]_vars

\* If nobody else writes, the history explains every set at rest: without an
\* active transaction it is as it was before the first run, else every entry
\* holds what the newest active transaction found or what it put there.
ActiveOn(s) == {t \in ActiveTx : cfgSet[t] = s}
HistoryExplainsContent ==
  pc = "idle" /\ PendingTx = {} /\ edits = 0 =>
    \A s \in Sets :
      IF ActiveOn(s) = {} THEN tgt[s] = Initial
      ELSE \A sl \in Slots : tgt[s][sl] \in {prior[Newest(ActiveOn(s))][sl],
                                              desired[Newest(ActiveOn(s))][sl]}

\* At every point of a commit a process death leaves targets that recovery can
\* classify, directory copies included.
CommitRecoverable ==
  pc \in {"execute", "commit", "write", "verify"} /\ edits = 0 =>
    \A a \in Actions : Classifiable(cur, a)

\* Recovery is idempotent: whenever the process dies, also in the middle of a
\* rollback, a pending transaction can be rolled back by the next run.  It holds for
\* files and not for directories: README, Known divergences.
AlwaysRecoverable ==
  edits = 0 => \A t \in PendingTx, a \in Actions : Classifiable(t, a)

\* A pending transaction is eventually closed if the engine is run again often
\* enough and faults stop.
PendingResolved == \A t \in TxIds : Pending(t) ~> ~Pending(t)

-----------------------------------------------------------------------------
(* What the process that holds the lease knows at each of its steps: the      *)
(* inductive strengthening of SinglePending, JournalKept and                  *)
(* RecoveryBeforeMutation.                                                     *)

Working == {"execute", "commit", "write", "verify", "mark", "undo", "restoreEntry"}

Reverting ==
  \/ pc \in {"revertNext", "markReverted"}
  \/ pc \in {"undo", "restoreEntry"} /\ mode = "revert"

NothingPending ==
  pc \in {"ready", "intent"} \/ (pc = "nextSet" /\ todo # {}) \/ Reverting

PendingKnown ==
  /\ SinglePending
  /\ NothingPending => PendingTx = {}
  /\ pc \in Working => cur \in intent /\ PendingTx \subseteq {cur}
  /\ Reverting => todo \subseteq intent

RootsKnown ==
  /\ JournalKept
  /\ pc \in Working \cup {"intent", "markReverted"} => cur \in roots
  /\ \A t \in roots : cfgSet[t] \in Sets
  /\ todo \subseteq roots
  /\ pc \in {"idle", "scan"} => todo = {}

IndexKnown ==
  /\ pc \in {"write", "verify", "restoreEntry"} => act \in Actions
  /\ pc = "commit" => act >= 1
  /\ pc = "undo" => act <= NumActions

SessionInvariant == PendingKnown /\ RootsKnown /\ IndexKnown

\* The entries that a loop over one action's target has still to write are as
\* the check before the loop found them, but for those edited since.
EntriesKnown ==
  /\ pc \in {"write", "restoreEntry"} => left # {}
  /\ pc = "write" =>
       \A e \in left \ raced : tgt[cfgSet[cur]][<<act, e>>] = prior[cur][<<act, e>>]
  /\ pc = "restoreEntry" =>
       \A e \in left \ raced :
         tgt[cfgSet[cur]][<<act, e>>] \in {prior[cur][<<act, e>>], desired[cur][<<act, e>>]}
-----------------------------------------------------------------------------
(* What the journal and the targets hold at each step of the process: the     *)
(* inductive strengthening of RecordsTellTheTruth, CommitRecoverable and       *)
(* HistoryExplainsContent.  As long as nobody else has written, Foreign is     *)
(* empty and the parts about targets are exact.                                *)

Foreign == IF edits = 0 THEN {} ELSE {UserEdit}
SlotHolds(t, a, e, ref) ==
  tgt[cfgSet[t]][<<a, e>>] \in {ref[<<a, e>>]} \cup Foreign

\* A terminal record is only ever added to an open transaction, and only a
\* committed one that is still in force is reverted.
MarkersKnown ==
  /\ \A t \in TxIds \ intent : marker[t] = "none"
  /\ \A t \in reverted : marker[t] = "committed"
  /\ pc \in Working /\ ~Reverting => marker[cur] = "none"
  /\ Reverting => todo \subseteq ActiveTx
  /\ Reverting /\ pc # "revertNext" => cur \in todo

\* Which actions a commit has begun to mutate.
Committing == {"commit", "write", "verify"}

TouchedKnown ==
  /\ pc \notin Working => touched = {}
  /\ pc = "execute" \/ mode \in {"recover", "revert"} => touched = {}
  /\ pc \notin {"mark", "undo", "restoreEntry", "markReverted"} => mode = "none"
  /\ pc = "mark" /\ want = "committed" => mode = "none"
  /\ pc \in Committing => touched \subseteq 1..act
  /\ pc = "commit" => act \notin touched
  /\ pc \in Committing /\ act > 1 => touched # {}
  /\ pc = "write" => act \in touched \/ left = Entries
  /\ pc = "verify" => act \in touched
  /\ pc = "mark" => (want = "committed" => touched # {} /\ act = NumActions + 1)
                 /\ (want = "aborted" => touched = {})
  /\ pc = "write" => \A e \in left, f \in Entries : f > e => f \in left

\* The entries that the commit at hand has written.
Written(a, e) ==
  \/ a < act
  \/ pc = "verify" /\ a = act
  \/ pc = "write" /\ a = act /\ e \notin left

TargetsKnown ==
  /\ pc \in Committing \cup {"intent", "execute"} \/ (pc = "mark" /\ want = "aborted") =>
       \A a \in Actions \ touched, e \in Entries : SlotHolds(cur, a, e, prior[cur])
  /\ pc \in Committing \/ (pc = "mark" /\ want = "committed") =>
       \A a \in Actions, e \in Entries : Written(a, e) => SlotHolds(cur, a, e, desired[cur])
  /\ (pc = "mark" /\ want = "rolled_back") \/ pc = "markReverted" =>
       \A a \in Actions, e \in Entries : SlotHolds(cur, a, e, prior[cur])
  /\ edits = 0 => raced = {}

\* Transactions are numbered in the order in which they are begun, runs too.
OrderKnown ==
  /\ roots \subseteq 1..(nextTx - 1)
  /\ \A t \in 1..(nextTx - 1) : run[t] < nextTx
  /\ \A t, u \in 1..(nextTx - 1) : t < u => run[t] <= run[u]
  /\ pc \in {"idle", "scan", "recover", "ready"} \/ mode = "recover" => todo = {}
  /\ pc \notin Working \cup {"intent", "markReverted"} => cur = 0
  /\ ~Reverting => \A u \in intent, t \in todo \ {cur} : u < t
  /\ pc = "intent" => /\ \A u \in intent : u < cur
                      /\ \A t \in todo \ {cur} : cur < t
  /\ \A t \in PendingTx, u \in ActiveTx : u < t
  /\ Reverting => \A t \in ActiveTx \ todo, u \in todo : t < u
  /\ Reverting /\ pc # "revertNext" => \A u \in todo : u <= cur

JournalInvariant == MarkersKnown /\ TouchedKnown /\ TargetsKnown /\ OrderKnown

\* What a set may hold whose transactions in force are S.
Explained(S, content) ==
  IF S = {} THEN content = Initial
  ELSE \A sl \in Slots : content[sl] \in {prior[Newest(S)][sl], desired[Newest(S)][sl]}
ActiveBefore(t) == {u \in ActiveTx : cfgSet[u] = cfgSet[t] /\ u < t}

\* Every recorded prior state is explained by the transactions in force before it,
\* and so is every set at rest.
HistoryKnown ==
  edits = 0 =>
    /\ \A t \in ActiveTx \cup PendingTx : Explained(ActiveBefore(t), prior[t])
    /\ \A t \in PendingTx, sl \in Slots :
         tgt[cfgSet[t]][sl] \in {prior[t][sl], desired[t][sl]}
    /\ \A s \in Sets : (\A t \in PendingTx : cfgSet[t] # s) => Explained(ActiveOn(s), tgt[s])
=============================================================================
