---------------------------- MODULE RestoreStore ----------------------------
(***************************************************************************)
(* The configuration restore store config-restore/v1 and its history       *)
(* (internal/configrestore: live.go, recovery.go, store_runs.go,           *)
(* store_inspect.go; internal/commands/revert.go).                         *)
(*                                                                         *)
(* A restore run leaves generation transactions and one journal of its     *)
(* legacy entries; each is a member of the history, ordered by the start   *)
(* of the run and an ordinal.  Every command first brings the store to     *)
(* rest: it retires finished revert work, removes transactions without an  *)
(* intent and rolls back pending ones.  A revert undoes the members of the *)
(* newest run, last ordinal first, and consumes each with a record.  The   *)
(* inspector reads the whole store, without the lock, between two scans.   *)
(*                                                                         *)
(* What a transaction does to its targets is ConfigTransaction, what an    *)
(* entry does is LegacyRestore: here a member is one effect on the host.   *)
(***************************************************************************)
EXTENDS Naturals, FiniteSets, Sequences, SequencesExt

CONSTANTS
  None,
  MaxRuns, MaxSets,     \* bounds: commands, and generation sets of one restore
  Limits,       \* sizes of a behaviour: sets of each command, and trouble, which
                \* is deaths, failing calls, foreign edits and clock changes
  MaxInspectionMembers  \* maxStoreInspectionEntries, in members

ASSUME BoundsAreNatural ==
  /\ {MaxRuns, MaxSets, MaxInspectionMembers} \subseteq Nat
  /\ \A l \in Limits : l.trouble \in Nat /\ l.sets \in Seq(0..MaxSets) /\ Len(l.sets) <= MaxRuns

Runs == 1..MaxRuns
Clock == 0..(2 * MaxRuns)
Txs == Runs \X (1..MaxSets)      \* transaction identities: run and attempt
Members == Runs \X {0, 1}        \* legacy members: a journal and its digest

VARIABLES
  limits,       \* of this behaviour
  \* What survives the process
  tx,           \* tx[t]: None or the directory transactions/t
  members,      \* members[m]: None or the record legacy-members/m
  reverts,      \* members with a record in legacy-reverts
  work,         \* members with a directory in legacy-revert-work
  temps,        \* directories that hold an abandoned publication temp
  journals,     \* journals[r]: None or the restore journal of run r in the logs
  applied,      \* effects on the host, in the order they were made
  \* The guard of the command that holds mutation.lock
  pc, cmd, run, ordinal,
  todo,         \* what the command still has to do, in order
  nruns, clock,
  \* The inspector
  ipc, seen, touched, atScan,
  \* Faults
  faults, edits, backs

store == <<tx, members, reverts, work, temps>>
disk == <<store, journals, applied>>
guard == <<pc, cmd, run, ordinal, todo, nruns, clock>>
inspector == <<ipc, seen, touched, atScan>>
counts == <<limits, faults, edits, backs>>
vars == <<disk, guard, inspector, counts>>

NoRun == [id |-> 0, started |-> 0]

Init ==
  /\ limits \in Limits
  /\ tx = [t \in Txs |-> None] /\ members = [m \in Members |-> None]
  /\ reverts = {} /\ work = {} /\ temps = {}
  /\ journals = [r \in Runs |-> None] /\ applied = <<>>
  /\ pc = "idle" /\ cmd = "none" /\ run = NoRun /\ ordinal = 0 /\ todo = <<>>
  /\ nruns = 0 /\ clock = 0
  /\ ipc = "off" /\ seen = {} /\ touched = FALSE /\ atScan = {}
  /\ faults = 0 /\ edits = 0 /\ backs = 0

Trouble == faults + edits + backs < limits.trouble
Fault == Trouble /\ faults' = faults + 1
Fine == UNCHANGED faults
Goto(l) == pc' = l
\* The inspector notices a change of names, sizes, times or contents.
Touch == /\ touched' = (touched \/ (ipc # "off" /\ store' # store))
         /\ UNCHANGED <<ipc, seen, atScan>>
Seconds(time) == time \div 2

-----------------------------------------------------------------------------
(* Records of the store and what reading them says.                         *)

\* transaction.json names its directory; an ordinal is unique in a run.
Descriptor(ord) == [started |-> run.started, ord |-> ord, desc |-> "ok",
                    snap |-> "none", intent |-> "none", term |-> "none", rev |-> "none",
                    temp |-> "none", known |-> TRUE]

Roots == {t \in Txs : tx[t] # None}
HasIntent(t) == tx[t].intent # "none"
Intended == {t \in Roots : HasIntent(t)}
Unused == Roots \ Intended
Registered == {m \in Members : members[m] # None}

\* A record that was edited fails its own digest; one that belongs elsewhere
\* ("alien") decodes and names another transaction.
decodeTransactionDescriptor(t) == tx[t].desc \in {"ok", "alien"}
readStoredTransactionDescriptor(t) == decodeTransactionDescriptor(t) /\ tx[t].desc # "alien"
decodeJournalIntent(t) == tx[t].intent \in {"ok", "alien"}
lineageMatches(t) == tx[t].intent # "alien"
decodeJournalMarker(t) == tx[t].term \in {"committed", "rolled_back", "alien"}
readJournalMarkerFile(t) == decodeJournalMarker(t) /\ tx[t].term # "alien"
decodeMemberRevert(t) == tx[t].rev \in {"ok", "alien"}
memberReverted(t) == decodeMemberRevert(t) /\ tx[t].rev # "alien"
\* Recovery and revert also need the backups the intent names, unchanged.
readJournalIntentMetadata(t) == decodeJournalIntent(t) /\ lineageMatches(t)
verifySnapshotArtifacts(t) == tx[t].snap = "ok"
ReadJournalIntent(t) == readJournalIntentMetadata(t) /\ verifySnapshotArtifacts(t)

\* A registered journal is read again and its digest compared.
JournalIntact(m) == journals[m[1]] # None /\ journals[m[1]].digest = m[2]

ReadableTransaction(t) ==
  /\ readStoredTransactionDescriptor(t) /\ readJournalIntentMetadata(t)
  /\ tx[t].term # "none" => readJournalMarkerFile(t)
Pending == {t \in Intended : tx[t].term = "none"}

\* One member of the history: its kind, key, run, start and ordinal.
Generation(t) == [kind |-> "generation", key |-> t, run |-> t[1],
                  started |-> tx[t].started, ord |-> tx[t].ord]
Legacy(m) == [kind |-> "legacy", key |-> m, run |-> members[m].run,
              started |-> members[m].started, ord |-> members[m].ord]

\* By start, then by the identity of the run, then by ordinal.
Newer(a, b) ==
  \/ a.started > b.started
  \/ a.started = b.started /\ (a.run > b.run \/ (a.run = b.run /\ a.ord > b.ord))
OrdinalsDistinct(S) == \A m, n \in S : m # n => ~(m.run = n.run /\ m.ord = n.ord)

\* (mutant) A directory without a descriptor is an error even without an intent.
ScannableStrict == /\ \A t \in Roots : tx[t].desc = "ok"
                   /\ \A t \in Intended : ReadableTransaction(t)

\* scanPending goes on past terminal records and keeps the rest, newest first.
Scannable == /\ \A t \in Intended : ReadableTransaction(t)
             /\ \A t \in Pending : ReadJournalIntent(t)
             /\ OrdinalsDistinct({Generation(t) : t \in Intended})
NewestPending(t) == t \in Pending /\ \A u \in Pending \ {t} : Newer(Generation(t), Generation(u))

\* reconcileLegacyRevertWork: every work directory needs its intact journal.
WorkReconcilable == \A m \in work : m \in Registered /\ JournalIntact(m)

-----------------------------------------------------------------------------
(* activeStoreRunsLocked *)

ActiveTxs == {t \in Intended : tx[t].term = "committed" /\ ~memberReverted(t)}
ActiveJournals == Registered \ reverts
ActiveMembers == {Generation(t) : t \in ActiveTxs} \cup {Legacy(m) : m \in ActiveJournals}

\* One unreadable record, or one changed journal, and there is no history.
TransactionsReadable ==
  /\ Pending = {} /\ \A t \in Intended : ReadableTransaction(t)
  /\ \A t \in Intended : tx[t].term = "committed" /\ tx[t].rev # "none" => memberReverted(t)
HistoryReadable ==
  /\ TransactionsReadable
  /\ \A m \in ActiveJournals : JournalIntact(m)
  /\ OrdinalsDistinct(ActiveMembers)

\* The run that is undone: the latest start, then the greater identity.
NewestMember == CHOOSE m \in ActiveMembers : \A n \in ActiveMembers \ {m} : Newer(m, n)
NewestRun == NewestMember.run
\* (mutant) The members of a run in the order of their removal.
MembersOfDescending(r) == {s \in SetToSeqs({m \in ActiveMembers : m.run = r}) :
                              \A i, k \in DOMAIN s : i < k => s[i].ord > s[k].ord}
\* The members of a run by ordinal: one sequence, because ordinals are distinct.
MembersOf(r) == {s \in SetToSeqs({m \in ActiveMembers : m.run = r}) :
                    \A i, k \in DOMAIN s : i < k => s[i].ord < s[k].ord}

-----------------------------------------------------------------------------
(* BeginLive: the lock, then recovery. *)

Begin(c) ==
  /\ pc = "idle" /\ nruns < Len(limits.sets) /\ clock + 1 \in Clock
  /\ nruns' = nruns + 1 /\ clock' = clock + 1
  /\ run' = [id |-> nruns + 1, started |-> clock + 1]
  /\ cmd' = c /\ ordinal' = 0 /\ todo' = <<>> /\ Goto("work")
  /\ Fine /\ UNCHANGED <<disk, inspector, limits, edits, backs>>

\* Close, on every way out of a command.
Close == Goto("idle") /\ cmd' = "none" /\ run' = NoRun /\ ordinal' = 0 /\ todo' = <<>>
         /\ UNCHANGED <<nruns, clock>>
Stay == UNCHANGED <<cmd, run, ordinal, nruns, clock>>

ReconcileLegacyRevertWork ==
  /\ pc = "work" /\ Fine
  /\ IF WorkReconcilable
     THEN /\ work' = work \ reverts
          /\ Goto("scan") /\ Stay /\ UNCHANGED todo
     ELSE Close /\ UNCHANGED work
  /\ UNCHANGED <<tx, members, reverts, temps, journals, applied, limits, edits, backs>>
  /\ Touch

\* A directory without an intent authorised nothing and is removed.
ScanPending ==
  /\ pc = "scan" /\ Fine
  /\ IF Scannable
     THEN /\ tx' = [t \in Txs |-> IF t \in Unused THEN None ELSE tx[t]]
          /\ Goto("recover") /\ Stay /\ UNCHANGED todo
     ELSE /\ \E S \in SUBSET Unused :
               tx' = [t \in Txs |-> IF t \in S THEN None ELSE tx[t]]
          /\ Close
  /\ UNCHANGED <<members, reverts, work, temps, journals, applied, limits, edits, backs>>
  /\ Touch

\* An effect is made once.
Without(seq, e) ==
  IF e \in Range(seq) THEN RemoveAt(seq, CHOOSE i \in DOMAIN seq : seq[i] = e) ELSE seq

\* recoverOne: undo, verify, then the rolled-back record.
RecoverUndo ==
  /\ pc = "recover" /\ Pending # {}
  /\ \/ \E t \in Pending :
          /\ NewestPending(t) /\ applied' = Without(applied, <<"tx", t>>) /\ Fine
          /\ todo' = <<t>> /\ Goto("recovered") /\ Stay
     \/ Fault /\ Close /\ UNCHANGED applied
  /\ UNCHANGED <<store, journals, inspector, limits, edits, backs>>

RecoverRecord ==
  /\ pc = "recovered"
  /\ \/ /\ tx' = [tx EXCEPT ![todo[1]].term = "rolled_back"] /\ Fine
        /\ Goto("recover") /\ Stay /\ todo' = <<>>
     \/ Fault /\ Close /\ UNCHANGED tx
  /\ UNCHANGED <<members, reverts, work, temps, journals, applied, limits, edits, backs>>
  /\ Touch

BeginDone ==
  /\ pc = "recover" /\ Pending = {} /\ Goto(IF cmd = "restore" THEN "roots" ELSE "select")
  /\ Fine /\ Stay /\ UNCHANGED <<disk, todo, inspector, limits, edits, backs>>

-----------------------------------------------------------------------------
(* A restore run. *)

Fresh == {k \in 1..limits.sets[run.id] : tx[<<run.id, k>>] = None}
NextRoot(t) == \E k \in Fresh : t = <<run.id, k>> /\ \A l \in Fresh : k <= l

\* A failed publication leaves the directory, with or without the record, and
\* does not use up the ordinal.
CreateTransactionRoot ==
  /\ pc = "roots"
  /\ \E t \in Txs :
       /\ NextRoot(t)
       /\ \/ /\ tx' = [tx EXCEPT ![t] = Descriptor(ordinal)] /\ Fine
             /\ ordinal' = ordinal + 1 /\ todo' = Append(todo, t)
          \/ /\ Fault /\ UNCHANGED <<ordinal, todo>>
             /\ \E d \in {"none", "ok"} :
                  tx' = [tx EXCEPT ![t] = [Descriptor(ordinal) EXCEPT !.desc = d, !.known = FALSE]]
  /\ Goto("roots") /\ UNCHANGED <<members, reverts, work, temps, journals, applied, cmd, run, nruns, clock, limits, edits, backs>>
  /\ Touch

RootsDone ==
  /\ pc = "roots" /\ Goto("sets")
  /\ Fine /\ Stay /\ UNCHANGED <<disk, todo, inspector, limits, edits, backs>>

\* A set whose snapshots cannot be taken fails alone.
PrepareSet ==
  /\ pc = "sets" /\ todo # <<>>
  /\ \/ /\ tx' = [tx EXCEPT ![todo[1]].snap = "ok"] /\ Fine
        /\ Goto("intent") /\ Stay /\ UNCHANGED todo
     \/ /\ Fault /\ Goto("sets") /\ Stay /\ todo' = Tail(todo)
        /\ \E s \in {"none", "ok"} : tx' = [tx EXCEPT ![todo[1]].snap = s]
  /\ UNCHANGED <<members, reverts, work, temps, journals, applied, limits, edits, backs>>
  /\ Touch

\* An intent that cannot be written, or whose publication cannot be confirmed,
\* ends the command.
PersistIntent ==
  /\ pc = "intent"
  /\ \/ /\ tx' = [tx EXCEPT ![todo[1]].intent = "ok"] /\ Fine
        /\ Goto("mutate") /\ Stay /\ UNCHANGED todo
     \/ /\ Fault /\ Goto("discard") /\ Stay /\ UNCHANGED todo
        /\ \E i \in {"none", "ok"} : tx' = [tx EXCEPT ![todo[1]].intent = i]
  /\ UNCHANGED <<members, reverts, work, temps, journals, applied, limits, edits, backs>>
  /\ Touch

Mutate ==
  /\ pc = "mutate" /\ applied' = Append(applied, <<"tx", todo[1]>>)
  /\ Goto("seal") /\ Fine /\ Stay /\ UNCHANGED <<store, journals, todo, inspector, limits, edits, backs>>

\* Committed; or rolled back with its record; or left pending, which stops
\* the run before the other sets and before the legacy entries.
Seal ==
  /\ pc = "seal"
  /\ \/ /\ tx' = [tx EXCEPT ![todo[1]].term = "committed"] /\ Fine
        /\ Goto("sets") /\ todo' = Tail(todo) /\ UNCHANGED applied
     \/ /\ tx' = [tx EXCEPT ![todo[1]].term = "rolled_back"] /\ Fault
        /\ applied' = Without(applied, <<"tx", todo[1]>>)
        /\ Goto("sets") /\ todo' = Tail(todo)
     \/ Fault /\ Goto("discard") /\ UNCHANGED <<tx, applied, todo>>
  /\ Stay /\ UNCHANGED <<members, reverts, work, temps, journals, limits, edits, backs>>
  /\ Touch

\* The legacy entries and their journal.
WriteJournal ==
  /\ pc = "sets" /\ todo = <<>>
  /\ journals' = [journals EXCEPT ![run.id] =
                    [second |-> Seconds(clock), name |-> run.started, digest |-> 0, backups |-> TRUE]]
  /\ applied' = Append(applied, <<"journal", run.id>>)
  /\ todo' = <<run.id>> /\ Goto("register")
  /\ Fine /\ Stay /\ UNCHANGED <<store, inspector, limits, edits, backs>>

NoLegacyEntries ==
  /\ pc = "sets" /\ todo = <<>> /\ Goto("discard")
  /\ Fine /\ Stay /\ UNCHANGED <<disk, todo, inspector, limits, edits, backs>>

\* findLegacyJournalLocked removes temps and answers with the member that is
\* there; else a member of THIS run is published, at worst with an error.
CurrentMember(j) == <<j, journals[j].digest>>
NewMember(m) == IF m \in Registered THEN members ELSE
  [members EXCEPT ![m] = [run |-> run.id, started |-> run.started, ord |-> ordinal]]
PublishMember(m, next) ==
  /\ \/ /\ members' = NewMember(m) /\ Fine
        /\ ordinal' = IF m \in Registered THEN ordinal ELSE ordinal + 1
        /\ todo' = << <<"legacy", m>> >> \o Tail(todo) /\ Goto(next)
     \/ /\ members' \in {members, NewMember(m)} /\ Fault
        /\ todo' = <<>> /\ Goto("discard") /\ UNCHANGED ordinal
  /\ temps' = temps \ {"members"} /\ UNCHANGED <<cmd, run, nruns, clock>>
  /\ UNCHANGED <<tx, reverts, work, journals, applied, limits, edits, backs>>
  /\ Touch

RegisterLegacyJournal == pc = "register" /\ PublishMember(CurrentMember(run.id), "discard")

\* DiscardTransactionRoot for every root whose creation succeeded.
DiscardTransactionRoots ==
  /\ pc = "discard" /\ Close /\ Fine
  /\ tx' = [t \in Txs |-> IF t \in Unused /\ t[1] = run.id /\ tx[t].known THEN None ELSE tx[t]]
  /\ UNCHANGED <<members, reverts, work, temps, journals, applied, limits, edits, backs>>
  /\ Touch

-----------------------------------------------------------------------------
(* A revert. *)

\* FindLatestJournal: the last name.
LatestJournal(r) == r \in Runs /\ journals[r] # None
  /\ \A q \in Runs \ {r} : journals[q] # None =>
       Newer([started |-> journals[r].name, run |-> r], [started |-> journals[q].name, run |-> q])
HasJournal == \E r \in Runs : LatestJournal(r)

\* LegacyJournalConsumed: the exact bytes are bound to a consumed member.
Consumed(j) == CurrentMember(j) \in Registered \cap reverts

\* newerStandaloneLegacyJournal: the journal of another run, by the second.
OtherRun(j) == LatestJournal(j) /\ ~Consumed(j) /\ j # NewestRun
Unorderable == \E j \in Runs : OtherRun(j) /\ journals[j].second = Seconds(NewestMember.started)
NewerStandalone == \E j \in Runs : OtherRun(j) /\ journals[j].second > Seconds(NewestMember.started)

\* configRestoreRevertMembers: the journal of the run itself may not have been
\* registered; it comes after the other members.
Synthetic == /\ LatestJournal(NewestRun) /\ ~Consumed(NewestRun)
             /\ \A m \in ActiveMembers : m.run = NewestRun /\ m.kind = "legacy" => m.key[1] # NewestRun
Targets(m) == <<m.kind, m.key>>
RevertMembers(seq) ==
  LET own == [i \in DOMAIN seq |-> Targets(seq[i])]
  IN  own \o (IF Synthetic THEN << <<"journal", NewestRun>> >> ELSE <<>>)

\* What a revert works on, last first; or it refuses.
SelectHistory ==
  /\ pc = "select" /\ Fine
  /\ \/ /\ ~HistoryReadable \/ (ActiveMembers # {} /\ Unorderable)
           \/ (ActiveMembers = {} /\ ~HasJournal)
        /\ Close
     \/ /\ HistoryReadable /\ ActiveMembers # {} /\ ~Unorderable /\ ~NewerStandalone
        /\ \E seq \in MembersOf(NewestRun) : todo' = Reverse(RevertMembers(seq))
        /\ Goto("next") /\ Stay
     \/ /\ HistoryReadable /\ HasJournal
        /\ ActiveMembers # {} => ~Unorderable /\ NewerStandalone
        /\ \E j \in Runs : LatestJournal(j) /\ todo' = << <<"journal", j>> >>
        /\ Goto("next") /\ Stay
  /\ temps' = IF TransactionsReadable THEN temps \ {"members"} ELSE temps
  /\ UNCHANGED <<tx, members, reverts, work, journals, applied, limits, edits, backs>>
  /\ Touch

Head1 == todo[1]

RevertFinished ==
  /\ pc = "next" /\ todo = <<>> /\ Close
  /\ Fine /\ UNCHANGED <<disk, inspector, limits, edits, backs>>

\* A journal found in the logs is registered in the run of the revert.
RegisterStandalone ==
  /\ pc = "next" /\ todo # <<>> /\ Head1[1] = "journal"
  /\ PublishMember(CurrentMember(Head1[2]), "prepare")

NextMember ==
  /\ pc = "next" /\ todo # <<>> /\ Head1[1] # "journal"
  /\ Goto(IF Head1[1] = "generation" THEN "undo" ELSE "prepare")
  /\ Fine /\ Stay /\ UNCHANGED <<disk, todo, inspector, limits, edits, backs>>

\* (mutant) A revert that fails half way goes on to its record.
RevertGenerationUndoIgnored ==
  /\ pc = "undo"
  /\ \/ applied' = Without(applied, <<"tx", Head1[2]>>) /\ Fine
     \/ Fault /\ UNCHANGED applied
  /\ Goto("consume") /\ Stay /\ UNCHANGED todo
  /\ UNCHANGED <<store, journals, inspector, limits, edits, backs>>

\* RevertGenerationMember: every action undone and verified before the record.
RevertGenerationUndo ==
  /\ pc = "undo"
  /\ \/ /\ ReadJournalIntent(Head1[2]) /\ applied' = Without(applied, <<"tx", Head1[2]>>) /\ Fine
        /\ Goto("consume") /\ Stay /\ UNCHANGED todo
     \/ Fault /\ Close /\ UNCHANGED applied
     \/ ~ReadJournalIntent(Head1[2]) /\ Fine /\ Close /\ UNCHANGED applied
  /\ UNCHANGED <<store, journals, inspector, limits, edits, backs>>

RevertGenerationMember ==
  /\ pc = "consume"
  /\ \/ /\ tx' = [tx EXCEPT ![Head1[2]].rev = "ok"] /\ Fine
        /\ Goto("next") /\ Stay /\ todo' = Tail(todo)
     \/ /\ Fault /\ Close
        /\ \E v \in {"none", "ok"} : tx' = [tx EXCEPT ![Head1[2]].rev = v]
  /\ UNCHANGED <<members, reverts, work, temps, journals, applied, limits, edits, backs>>
  /\ Touch

\* The bytes of the journal are pinned under the lock.
PrepareLegacyMemberRevert ==
  /\ pc = "prepare" /\ Fine
  /\ IF JournalIntact(Head1[2]) /\ Head1[2] \notin reverts
     THEN /\ work' = work \cup {Head1[2]} /\ Goto("unlegacy") /\ Stay /\ UNCHANGED todo
     ELSE Close /\ UNCHANGED work
  /\ UNCHANGED <<tx, members, reverts, temps, journals, applied, limits, edits, backs>>
  /\ Touch

RunRevertDurable ==
  /\ pc = "unlegacy"
  /\ \/ /\ journals[Head1[2][1]].backups /\ applied' = Without(applied, <<"journal", Head1[2][1]>>) /\ Fine
        /\ Goto("mark") /\ Stay /\ UNCHANGED todo
     \/ Fault /\ Close /\ UNCHANGED applied
     \/ ~journals[Head1[2][1]].backups /\ Fine /\ Close /\ UNCHANGED applied
  /\ UNCHANGED <<store, journals, inspector, limits, edits, backs>>

\* The journal is read a last time before its member is consumed.
MarkLegacyMemberReverted ==
  /\ pc = "mark"
  /\ \/ /\ JournalIntact(Head1[2]) /\ reverts' = reverts \cup {Head1[2]} /\ Fine
        /\ Goto("retire") /\ Stay /\ UNCHANGED todo
     \/ ~JournalIntact(Head1[2]) /\ Fine /\ Close /\ UNCHANGED reverts
     \/ JournalIntact(Head1[2]) /\ Fault /\ Close /\ reverts' \in {reverts, reverts \cup {Head1[2]}}
  /\ UNCHANGED <<tx, members, work, temps, journals, applied, limits, edits, backs>>
  /\ Touch

RetireLegacyMemberRevertWork ==
  /\ pc = "retire" /\ work' = work \ {Head1[2]}
  /\ Goto("next") /\ Fine /\ Stay /\ todo' = Tail(todo)
  /\ UNCHANGED <<tx, members, reverts, temps, journals, applied, limits, edits, backs>>
  /\ Touch

-----------------------------------------------------------------------------
(* The process dies.  A record that was being published may be there, or a  *)
(* temp in its place.                                                        *)

Died ==
  /\ pc # "idle" /\ Fault /\ Close
  /\ \/ UNCHANGED <<tx, temps>>
     \/ /\ pc = "roots" /\ UNCHANGED temps
        /\ \E t \in Txs, d \in {"none", "ok"}, temp \in {"none", "root"} :
             /\ NextRoot(t)
             /\ tx' = [tx EXCEPT ![t] = [Descriptor(ordinal) EXCEPT !.desc = d, !.temp = temp,
                                                                    !.known = FALSE]]
     \/ /\ pc \in {"intent", "seal", "recovered", "consume"} /\ todo # <<>> /\ UNCHANGED temps
        /\ tx' = IF pc = "consume" THEN [tx EXCEPT ![todo[1][2]].temp = "root"]
                                   ELSE [tx EXCEPT ![todo[1]].temp = "journal"]
     \/ pc = "register" /\ temps' = temps \cup {"members"} /\ UNCHANGED tx
     \/ pc = "mark" /\ temps' = temps \cup {"reverts"} /\ UNCHANGED tx
  /\ UNCHANGED <<members, reverts, work, journals, applied, limits, edits, backs>>
  /\ Touch

-----------------------------------------------------------------------------
(* InspectStore *)

\* One directory per action, and in it exactly the backup the action needs.
verifyInspectionSnapshotLayout(t) == tx[t].snap # "none"
inspectActionBackup(t) == tx[t].snap = "ok"
readInspectionJournalIntent(t) ==
  decodeJournalIntent(t) /\ lineageMatches(t) /\ verifyInspectionSnapshotLayout(t) /\ inspectActionBackup(t)
readInspectionTransactionDescriptor(t) == decodeTransactionDescriptor(t) /\ tx[t].desc # "alien"
readInspectionJournalMarker(t) == tx[t].term = "committed"
\* No residue of a publication beside the records.
requireCanonicalJournalLayout(t) == tx[t].temp # "journal"
requireCanonicalTransactionLayout(t) == tx[t].temp # "root" /\ requireCanonicalJournalLayout(t)
inspectMemberRevert(t) == tx[t].rev # "none" => decodeMemberRevert(t) /\ tx[t].rev # "alien"

\* A transaction of a closed store is committed and in its canonical layout.
CanonicalTransaction(t) ==
  /\ readInspectionTransactionDescriptor(t) /\ readInspectionJournalIntent(t)
  /\ readInspectionJournalMarker(t)
  /\ requireCanonicalTransactionLayout(t) /\ inspectMemberRevert(t)

\* A registered journal is unchanged, its backups are there, and its run is
\* the run of its member.
inspectLegacyJournal(m) == JournalIntact(m)
inspectLegacyActionBackup(m) == journals[m[1]].backups
CanonicalMember(m) ==
  inspectLegacyJournal(m) /\ inspectLegacyActionBackup(m) /\ members[m].run = m[1]
requireCanonicalLegacyReverts == "reverts" \notin temps /\ reverts \subseteq Registered

View(m, reverted) == [kind |-> m.kind, key |-> m.key, run |-> m.run, ord |-> m.ord,
                      reverted |-> reverted]
InspectedTransactions == {View(Generation(t), tx[t].rev = "ok") : t \in Roots}
InspectedMembers == {View(Legacy(m), m \in reverts) : m \in Registered}

\* The history as it is: committed transactions and registered journals.
History == {View(Generation(t), tx[t].rev = "ok") : t \in {u \in Intended : tx[u].term = "committed"}}
           \cup InspectedMembers

\* The caller says that nobody holds the lock; a command may start afterwards.
ScanStoreInspectionTree ==
  /\ ipc = "off" /\ pc = "idle"
  /\ Cardinality(Roots) + Cardinality(Registered) <= MaxInspectionMembers
  /\ ipc' = "scanned" /\ touched' = FALSE /\ seen' = {} /\ atScan' = History
  /\ UNCHANGED <<disk, guard, counts>>

Leave == ipc' = "off" /\ seen' = {} /\ touched' = FALSE /\ atScan' = {}

InspectGenerationTransactions ==
  /\ ipc = "scanned"
  /\ IF work = {} /\ \A t \in Roots : CanonicalTransaction(t)
     THEN seen' = InspectedTransactions /\ ipc' = "halfway" /\ UNCHANGED <<touched, atScan>>
     ELSE Leave
  /\ UNCHANGED <<disk, guard, counts>>

InspectLegacyMembers ==
  /\ ipc = "halfway"
  /\ LET all == seen \cup InspectedMembers
     IN  IF /\ "members" \notin temps /\ requireCanonicalLegacyReverts
            /\ \A m \in Registered : CanonicalMember(m)
            /\ OrdinalsDistinct(all)
         THEN seen' = all /\ ipc' = "read" /\ UNCHANGED <<touched, atScan>>
         ELSE Leave
  /\ UNCHANGED <<disk, guard, counts>>

\* (mutant) No second scan.
AcceptedUnseen == ipc = "read"

\* The second scan must find what the first one found.
Accepted == ipc = "read" /\ ~touched
FinishInspection ==
  /\ ipc = "read" /\ Leave
  /\ UNCHANGED <<disk, guard, counts>>

-----------------------------------------------------------------------------
(* Somebody else. *)

\* A journal or a record is edited; or the clock is set back.
EditJournal ==
  /\ Trouble /\ edits' = edits + 1
  /\ \E j \in Runs : journals[j] # None /\ journals[j].digest = 0
       /\ journals' = [journals EXCEPT ![j].digest = 1]
  /\ UNCHANGED <<store, applied, guard, inspector, limits, faults, backs>>

\* The backups a journal names are deleted.
DeleteBackups ==
  /\ pc = "idle" /\ Trouble /\ edits' = edits + 1
  /\ \E j \in Runs : journals[j] # None /\ journals[j].backups
       /\ journals' = [journals EXCEPT ![j].backups = FALSE]
  /\ UNCHANGED <<store, applied, guard, inspector, limits, faults, backs>>

EditRecord ==
  /\ pc = "idle" /\ Trouble /\ edits' = edits + 1
  /\ \E t \in Intended : \E f \in {"desc", "snap", "intent", "term", "rev"} :
       /\ tx[t][f] \notin {"none", "bad", "alien"}
       /\ \E v \in {"bad", "alien"} : tx' = [tx EXCEPT ![t][f] = v]
  /\ UNCHANGED <<members, reverts, work, temps, journals, applied, guard, limits, faults, backs>>
  /\ Touch

SetClockBack ==
  /\ pc = "idle" /\ clock > 0 /\ Trouble /\ backs' = backs + 1 /\ clock' = 0
  /\ UNCHANGED <<disk, pc, cmd, run, ordinal, todo, nruns, inspector, limits, faults, edits>>

GuardNext ==
  \/ \E c \in {"restore", "revert"} : Begin(c)
  \/ ReconcileLegacyRevertWork \/ ScanPending \/ RecoverUndo \/ RecoverRecord \/ BeginDone
  \/ CreateTransactionRoot \/ RootsDone \/ PrepareSet \/ PersistIntent \/ Mutate \/ Seal
  \/ WriteJournal \/ NoLegacyEntries \/ RegisterLegacyJournal \/ DiscardTransactionRoots
  \/ SelectHistory \/ RevertFinished \/ RegisterStandalone \/ NextMember
  \/ RevertGenerationUndo \/ RevertGenerationMember \/ PrepareLegacyMemberRevert
  \/ RunRevertDurable \/ MarkLegacyMemberReverted \/ RetireLegacyMemberRevertWork
  \/ Died
InspectNext ==
  \/ ScanStoreInspectionTree \/ InspectGenerationTransactions
  \/ InspectLegacyMembers \/ FinishInspection
WorldNext == EditJournal \/ DeleteBackups \/ EditRecord \/ SetClockBack
Next == GuardNext \/ InspectNext \/ WorldNext
Spec == Init /\ [][Next]_vars

-----------------------------------------------------------------------------
(* Properties *)

\* Every variable is of its kind: records name known transactions and runs.
StoreTypeOK ==
  /\ \A t \in Txs : tx[t] # None => /\ tx[t].started \in Clock /\ tx[t].ord \in 0..(MaxSets + 1)
                                   /\ {tx[t].desc, tx[t].snap, tx[t].intent, tx[t].rev} \subseteq {"none", "ok", "bad", "alien"}
                                   /\ tx[t].term \in {"none", "committed", "rolled_back", "bad", "alien"}
  /\ Registered \cup reverts \cup work \subseteq Members /\ temps \subseteq {"members", "reverts"}
  /\ Range(applied) \subseteq ({"tx"} \X Txs) \cup ({"journal"} \X Runs)

\* Whatever the engine itself leaves behind, by dying, by failing calls or by
\* publishing with an error, the next command can read: BeginLive finds
\* nothing it must refuse and a revert finds a readable history.  Only an
\* edit by somebody else can block the store.
OwnFaultsNeverBlock ==
  edits = 0 => Scannable /\ WorkReconcilable /\ (Pending = {} => HistoryReadable)

\* As long as the effect of a member is on the host, the store (or, for a
\* journal, the log directory) still says so: no recovery, removal or revert
\* record gets ahead of the undoing it stands for.
NothingForgotten ==
  /\ \A t \in Txs : <<"tx", t>> \in Range(applied) =>
       t \in Intended /\ tx[t].term # "rolled_back" /\ tx[t].rev # "ok"
  /\ \A j \in Runs : <<"journal", j>> \in Range(applied) =>
       journals[j] # None /\ ~\E m \in reverts : m[1] = j

\* Effects are undone in the reverse of the order they were made: what is
\* later than an undone effect is at most a journal the store does not know
\* and that is not the latest one.  The wall clock must not be set back.
Undone(e) == e \in Range(applied) /\ e \notin Range(applied')
Orphan(e) == /\ e[1] = "journal" /\ ~\E m \in Registered : m[1] = e[2]
             /\ ~LatestJournal(e[2])
NewestFirst ==
  \A i, k \in DOMAIN applied : i < k /\ Undone(applied[i]) => Orphan(applied[k])
RevertsNewestFirst == [][backs = 0 /\ edits = 0 => NewestFirst]_vars

\* A report the inspector gives, even with writers running, is the history at
\* the instant of its first scan: nothing pending, rolled back or half
\* consumed is in it, and nothing committed is missing.
ReportIsHistory == Accepted => seen = atScan

-----------------------------------------------------------------------------
(* What the proofs know of every reachable state. *)

Marks == {"none", "ok", "bad", "alien"}
TxRecord == [started : Nat, ord : Nat, desc : Marks, snap : Marks, intent : Marks,
             term : {"none", "committed", "rolled_back", "bad", "alien"}, rev : Marks,
             temp : {"none", "root", "journal"}, known : BOOLEAN]
MemberRecord == [run : Runs, started : Nat, ord : Nat]
JournalRecord == [second : Nat, name : Nat, digest : {0, 1}, backups : BOOLEAN]
Effects == ({"tx"} \X Txs) \cup ({"journal"} \X Runs)

ASSUME NoneIsNoRecord == None \notin TxRecord /\ None \notin MemberRecord /\ None \notin JournalRecord

Injective(s) == \A i, k \in DOMAIN s : s[i] = s[k] => i = k

Opening == {"work", "scan", "recover", "recovered"}
Planning == {"roots", "sets", "intent", "mutate", "seal"}
Reverting == {"next", "undo", "consume", "prepare", "unlegacy", "mark", "retire"}

Typed ==
  /\ limits \in Limits
  /\ tx \in [Txs -> TxRecord \cup {None}] /\ members \in [Members -> MemberRecord \cup {None}]
  /\ journals \in [Runs -> JournalRecord \cup {None}]
  /\ applied \in Seq(Effects) /\ Injective(applied)
  /\ pc \in {"idle", "register", "discard", "select"} \cup Opening \cup Planning \cup Reverting
  /\ nruns \in 0..MaxRuns /\ ordinal \in Nat /\ clock \in Nat /\ edits \in Nat
  /\ run \in [id : Nat, started : Nat]
  /\ pc # "idle" => run.id = nruns /\ nruns \in Runs /\ nruns <= Len(limits.sets)

\* What a restore still has to do: transactions of its own run, of which at
\* most the first has an intent, and that only while it is carried out.
PlanKnown ==
  /\ pc \in {"work", "scan", "recover"} => todo = <<>>
  /\ pc \in Planning =>
       /\ todo \in Seq(Txs) /\ Injective(todo)
       /\ \A i \in DOMAIN todo : LET t == todo[i] IN
            /\ t[1] = run.id /\ tx[t] # None /\ tx[t].desc = "ok" /\ tx[t].term = "none" /\ tx[t].rev = "none"
            /\ tx[t].intent = "none" \/ (i = 1 /\ pc \in {"mutate", "seal"})
       /\ pc \in {"intent", "mutate", "seal"} => todo # <<>> /\ tx[todo[1]].snap = "ok"
       /\ pc \in {"mutate", "seal"} => tx[todo[1]].intent = "ok"
       /\ pc = "mutate" => <<"tx", todo[1]>> \notin Range(applied)

\* What a revert still has to do: members of the history, or a journal of the logs.
ItemKnown(e) ==
  \/ e \in {"generation"} \X Txs /\ e[2] \in Intended
  \/ e \in {"legacy"} \X Members /\ e[2] \in Registered
  \/ e \in {"journal"} \X Runs /\ journals[e[2]] # None
RevertKnown ==
  pc \in Reverting =>
    /\ todo \in Seq(({"generation"} \X Txs) \cup ({"legacy"} \X Members) \cup ({"journal"} \X Runs))
    /\ \A i \in DOMAIN todo : ItemKnown(todo[i])
    /\ pc \in {"undo", "consume"} => todo # <<>> /\ todo[1][1] = "generation"
    /\ pc \in {"prepare", "unlegacy", "mark", "retire"} => todo # <<>> /\ todo[1][1] = "legacy"

\* A record that says undone is written only for what is undone.
UndoneFirst ==
  /\ pc = "recovered" => /\ todo \in Seq(Txs) /\ todo # <<>> /\ todo[1] \in Intended
                         /\ <<"tx", todo[1]>> \notin Range(applied)
  /\ pc = "consume" => <<"tx", todo[1][2]>> \notin Range(applied)
  /\ pc = "mark" => <<"journal", todo[1][2][1]>> \notin Range(applied)

\* Nothing in the store is of a run that has not begun.
RunsSoFar ==
  /\ \A t \in Roots : t[1] <= nruns
  /\ \A m \in Registered : members[m].run <= nruns
  /\ \A r \in Runs : journals[r] # None => r <= nruns
  /\ pc \in Opening \cup Planning => journals[run.id] = None
  /\ pc = "register" => journals[run.id] # None

\* Ordinals of one run are distinct: of transactions with an intent, of those
\* that may get one, and of legacy members.  A failed creation may leave a
\* directory with an ordinal that is used again; it never gets an intent.
Named == Intended \cup (IF pc \in Planning THEN Range(todo) ELSE {})
OrdinalsKnown ==
  /\ \A t, u \in Named : t[1] = u[1] /\ tx[t].ord = tx[u].ord => t = u
  /\ \A t \in Named, m \in Registered : members[m].run = t[1] => members[m].ord # tx[t].ord
  /\ \A m, n \in Registered : members[m].run = members[n].run /\ members[m].ord = members[n].ord => m = n
  /\ pc \notin {"idle", "discard"} =>
       /\ \A t \in Named : t[1] = run.id => tx[t].ord < ordinal
       /\ \A m \in Registered : members[m].run = run.id => members[m].ord < ordinal

\* Members stand for journals that exist; work and consumption are of members.
MembersKnown ==
  /\ \A m \in Registered : journals[m[1]] # None
  /\ work \subseteq Registered /\ reverts \subseteq Members
  /\ \A m \in reverts : journals[m[1]] # None

\* Without an edit from outside every record that counts is readable.
RecordsSound ==
  edits = 0 =>
    /\ \A t \in Intended :
         /\ tx[t].desc = "ok" /\ tx[t].snap = "ok" /\ tx[t].intent = "ok"
         /\ tx[t].term \in {"none", "committed", "rolled_back"} /\ tx[t].rev \in {"none", "ok"}
    /\ \A m \in Registered : m[2] = 0
    /\ \A r \in Runs : journals[r] # None => journals[r].digest = 0

\* The order in which effects are made: by run, and in one run by ordinal, the
\* journal last.  Members stand for effects of the run that made them.
RunOf(e) == IF e[1] = "tx" THEN e[2][1] ELSE e[2]
After(e, f) ==
  \/ RunOf(e) > RunOf(f)
  \/ RunOf(e) = RunOf(f) /\ f[1] = "tx" /\ (e[1] = "journal" \/ tx[e[2]].ord > tx[f[2]].ord)
Effect(x) == IF x[1] = "generation" THEN <<"tx", x[2]>>
             ELSE <<"journal", IF x[1] = "legacy" THEN x[2][1] ELSE x[2]>>
Quiet == edits = 0 /\ backs = 0

\* While the clock is not set back a run starts at the time that is its identity.
StartsKnown ==
  /\ backs \in Nat
  /\ backs = 0 =>
       /\ clock = nruns /\ (pc # "idle" => run.started = run.id)
       /\ \A t \in Roots : tx[t].started = t[1]
       /\ \A m \in Registered : members[m].started = members[m].run
       /\ \A r \in Runs : journals[r] # None => journals[r].name = r /\ journals[r].second = Seconds(r)

\* Effects are on the host in their order, and a restore adds to the end.
EffectsOrdered == \A i, k \in DOMAIN applied : i < k => After(applied[k], applied[i])
PlanOrdered ==
  pc \in Planning =>
    /\ \A i, k \in DOMAIN todo : i < k => tx[todo[i]].ord < tx[todo[k]].ord
    /\ \A t \in Txs : t[1] = run.id /\ <<"tx", t>> \in Range(applied) =>
         \A i \in DOMAIN todo : todo[i] = t \/ tx[t].ord < tx[todo[i]].ord

\* Only the transaction in hand is pending, and nothing is later than it.
PendingKnown ==
  edits = 0 =>
    /\ pc \in {"roots", "sets", "intent", "register", "select"} \cup Reverting => Pending = {}
    /\ pc \in {"mutate", "seal"} => Pending = {todo[1]}
    /\ \A t \in Pending, e \in Range(applied) : ~After(e, <<"tx", t>>)

\* A journal is registered in its own run, last, or adopted by a later one,
\* and then nothing that is later than the journal is on the host.
OwnersKnown ==
  /\ \A m \in Registered : m[1] <= members[m].run
  /\ pc \in Opening \cup Planning => \A m \in Registered : members[m].run < nruns
  /\ \A m \in Registered, t \in Intended :
       members[m].run = t[1] /\ m[1] = t[1] => tx[t].ord < members[m].ord
AdoptedLast ==
  Quiet => \A m \in Registered, e \in Range(applied) :
             ~(m[1] < RunOf(e) /\ RunOf(e) <= members[m].run)

\* What is later than an item of a revert is undone before it, or nobody knows it.
RevertOrdered ==
  Quiet /\ pc \in Reverting =>
    /\ \A i \in DOMAIN todo : todo[i][1] = "journal" => i = 1 /\ LatestJournal(todo[i][2])
    /\ \A i \in DOMAIN todo : \A e \in Range(applied) : After(e, Effect(todo[i])) =>
         Orphan(e) \/ \E h \in 1..(i - 1) : e = Effect(todo[h])
    /\ pc = "retire" => Effect(todo[1]) \notin Range(applied)
Ordered == /\ StartsKnown /\ EffectsOrdered /\ PlanOrdered /\ PendingKnown
           /\ OwnersKnown /\ AdoptedLast /\ RevertOrdered

\* What the inspector has read so far is the history of its first scan, unless
\* its second scan will notice.
ReportSoFar ==
  ~touched =>
    /\ ipc # "off" => atScan = History
    /\ ipc = "halfway" => seen \cup InspectedMembers = History
    /\ ipc = "read" => seen = History

=============================================================================
