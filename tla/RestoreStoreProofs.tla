------------------------- MODULE RestoreStoreProofs -------------------------
(***************************************************************************)
(* Proofs about the restore store and its history, for every number of     *)
(* runs, sets of a run, members the inspector reads and disturbances.      *)
(*                                                                         *)
(* The report of the inspector comes first; it needs only that a change    *)
(* of the store between the two scans is noticed.  Then a lemma for each   *)
(* kind of record says what one step may do to it: transactions (TxStep),  *)
(* journals (JournalStep), members (MemberStep), effects (HostStep),       *)
(* consumption and work (RevertStep), the command that holds the lock      *)
(* (GuardStep) and the plan of a restore (PlanStep).  Every part of        *)
(* Invariant follows from these and not from the actions:                  *)
(* PlanKnown and RevertKnown say what the command in hand may still touch, *)
(* UndoneFirst that it records only what is undone, RunsSoFar,             *)
(* OrdinalsKnown and MembersKnown how records are numbered and owned, and  *)
(* RecordsSound that without an edit from outside all of them can be read. *)
(*                                                                         *)
(* The order in which effects are undone comes last.  Ordered says what    *)
(* the order is in every state: StartsKnown that the clock agrees with the *)
(* identities of the runs, EffectsOrdered that the host has its effects by *)
(* run and ordinal, PlanOrdered and PendingKnown that what a restore adds  *)
(* or recovery undoes is the last, OwnersKnown and AdoptedLast to which    *)
(* run a journal is counted, RevertOrdered that a revert takes the latest  *)
(* first.  It is shown to begin in that order (RevertSelected) and to go   *)
(* on in it (RevertOrderedGoesOn).                                         *)
(***************************************************************************)
EXTENDS RestoreStore, SequenceTheorems, FiniteSetTheorems, WellFoundedInduction, TLAPS

-----------------------------------------------------------------------------
(* The inspector *)

\* The history is a matter of the store alone.
LEMMA HistoryOfStore ==
  ASSUME UNCHANGED store
  PROVE  History' = History /\ InspectedMembers' = InspectedMembers
<1>1. UNCHANGED <<tx, members, reverts>>
  BY DEF store
<1>2. InspectedMembers' = InspectedMembers
  BY <1>1 DEF InspectedMembers, View, Legacy, Registered
<1>3. {View(Generation(t), tx[t].rev = "ok") : t \in {u \in Intended : tx[u].term = "committed"}}'
        = {View(Generation(t), tx[t].rev = "ok") : t \in {u \in Intended : tx[u].term = "committed"}}
  BY <1>1 DEF View, Generation, Intended, Roots, HasIntent
<1> QED
  BY <1>2, <1>3 DEF History

\* A command and the world outside leave the inspector alone, except that it
\* will notice a change of the store.
LEMMA OthersTouch ==
  ASSUME GuardNext \/ WorldNext
  PROVE  /\ UNCHANGED <<ipc, seen, atScan>>
         /\ UNCHANGED <<store, touched>> \/ touched' = (touched \/ (ipc # "off" /\ store' # store))
<1>1. CASE GuardNext
  BY <1>1 DEF GuardNext, Begin, ReconcileLegacyRevertWork, ScanPending, RecoverUndo, RecoverRecord,
     BeginDone, CreateTransactionRoot, RootsDone, PrepareSet, PersistIntent, Mutate, Seal,
     WriteJournal, NoLegacyEntries, RegisterLegacyJournal, PublishMember, DiscardTransactionRoots,
     SelectHistory, RevertFinished, RegisterStandalone, NextMember, RevertGenerationUndo,
     RevertGenerationMember, PrepareLegacyMemberRevert, RunRevertDurable,
     MarkLegacyMemberReverted, RetireLegacyMemberRevertWork, Died, Touch, disk, inspector
<1>2. CASE WorldNext
  BY <1>2 DEF WorldNext, EditJournal, DeleteBackups, EditRecord, SetClockBack, Touch, disk, inspector
<1> QED
  BY <1>1, <1>2

\* The canonical store of an inspection has committed transactions only.
LEMMA CanonicalIsCommitted ==
  ASSUME \A t \in Roots : CanonicalTransaction(t)
  PROVE  InspectedTransactions \cup InspectedMembers = History
<1>1. \A t \in Roots : tx[t].intent # "none" /\ tx[t].term = "committed"
  BY DEF CanonicalTransaction, readInspectionJournalIntent, decodeJournalIntent,
         readInspectionJournalMarker
<1>2. {u \in Intended : tx[u].term = "committed"} = Roots
  BY <1>1 DEF Intended, HasIntent
<1> QED
  BY <1>2 DEF InspectedTransactions, History

\* What an inspection has read so far stays true of the store it saw, or it
\* has noticed the change.
LEMMA ReportStep ==
  ASSUME ReportSoFar, [Next]_vars
  PROVE  ReportSoFar'
<1>1. CASE GuardNext \/ WorldNext
  <2>1. /\ UNCHANGED <<ipc, seen, atScan>>
        /\ UNCHANGED <<store, touched>> \/ touched' = (touched \/ (ipc # "off" /\ store' # store))
    BY <1>1, OthersTouch
  <2>2. CASE UNCHANGED store
    <3>1. History' = History /\ InspectedMembers' = InspectedMembers
      BY <2>2, HistoryOfStore
    <3>2. ~touched' => ~touched
      BY <2>1, Zenon
    <3> QED
      BY <2>1, <3>1, <3>2 DEF ReportSoFar
  <2>3. CASE store' # store
    <3>1. ~touched' => ipc = "off"
      BY <2>1, <2>3, Zenon
    <3> QED
      BY <2>1, <3>1 DEF ReportSoFar
  <2> QED
    BY <2>2, <2>3
<1>2. CASE ScanStoreInspectionTree
  <2>1. UNCHANGED store /\ atScan' = History /\ ipc' = "scanned"
    BY <1>2 DEF ScanStoreInspectionTree, disk
  <2>2. History' = History
    BY <2>1, HistoryOfStore
  <2> QED
    BY <2>1, <2>2 DEF ReportSoFar
<1>3. CASE InspectGenerationTransactions
  <2>1. UNCHANGED store
    BY <1>3 DEF InspectGenerationTransactions, disk
  <2>2. History' = History /\ InspectedMembers' = InspectedMembers
    BY <2>1, HistoryOfStore
  <2>3. \/ ipc' = "off"
        \/ /\ \A t \in Roots : CanonicalTransaction(t)
           /\ seen' = InspectedTransactions /\ ipc' = "halfway" /\ UNCHANGED <<touched, atScan>>
    BY <1>3 DEF InspectGenerationTransactions, Leave
  <2>4. ipc = "scanned"
    BY <1>3 DEF InspectGenerationTransactions
  <2>5. ipc' = "halfway" => seen' \cup InspectedMembers = History
    BY <2>3, CanonicalIsCommitted
  <2> QED
    BY <2>2, <2>3, <2>4, <2>5 DEF ReportSoFar
<1>4. CASE InspectLegacyMembers
  <2>1. UNCHANGED store /\ ipc = "halfway"
    BY <1>4 DEF InspectLegacyMembers, disk
  <2>2. History' = History
    BY <2>1, HistoryOfStore
  <2>3. \/ ipc' = "off"
        \/ /\ seen' = seen \cup InspectedMembers /\ ipc' = "read" /\ UNCHANGED <<touched, atScan>>
    BY <1>4 DEF InspectLegacyMembers, Leave
  <2> QED
    BY <2>1, <2>2, <2>3 DEF ReportSoFar
<1>5. CASE FinishInspection
  BY <1>5 DEF FinishInspection, Leave, ReportSoFar
<1>6. CASE UNCHANGED vars
  <2>1. UNCHANGED <<store, ipc, seen, touched, atScan>>
    BY <1>6 DEF vars, disk, inspector
  <2>2. History' = History /\ InspectedMembers' = InspectedMembers
    BY <2>1, HistoryOfStore
  <2> QED
    BY <2>1, <2>2 DEF ReportSoFar
<1> QED
  BY <1>1, <1>2, <1>3, <1>4, <1>5, <1>6 DEF Next, InspectNext

\* A report that the inspector gives, whatever writers do between its two
\* scans, is the history of the store at its first scan: every committed
\* transaction and registered journal, and nothing else.
THEOREM ReportIsHistoryCorrect == Spec => []ReportIsHistory
<1>1. Init => ReportSoFar
  BY DEF Init, ReportSoFar
<1>2. ReportSoFar /\ [Next]_vars => ReportSoFar'
  BY ReportStep
<1>3. ReportSoFar => ReportIsHistory
  BY DEF ReportSoFar, ReportIsHistory, Accepted
<1> QED
  BY <1>1, <1>2, <1>3, PTL DEF Spec

-----------------------------------------------------------------------------
(* Effects on the host *)

\* Adding an effect that is not there.
LEMMA AddEffect ==
  ASSUME applied \in Seq(Effects), Injective(applied), NEW e \in Effects, e \notin Range(applied),
         applied' = Append(applied, e)
  PROVE  applied' \in Seq(Effects) /\ Injective(applied') /\ Range(applied') = Range(applied) \cup {e}
<1>1. /\ applied' \in Seq(Effects) /\ Len(applied') = Len(applied) + 1 /\ Len(applied) \in Nat
      /\ DOMAIN applied = 1..Len(applied) /\ DOMAIN applied' = 1..(Len(applied) + 1)
      /\ \A i \in 1..Len(applied) : applied'[i] = applied[i]
      /\ applied'[Len(applied) + 1] = e
  OBVIOUS
<1>2. \A i \in DOMAIN applied : applied[i] # e
  BY DEF Range
<1>3. Injective(applied')
  BY <1>1, <1>2 DEF Injective
<1>4. Range(applied') = Range(applied) \cup {e}
  BY <1>1 DEF Range
<1> QED
  BY <1>1, <1>3, <1>4

\* Where the effects of a host without e were before.
LEMMA DropPlaces ==
  ASSUME applied \in Seq(Effects), NEW e, e \in Range(applied), applied' = Without(applied, e)
  PROVE  \E k \in DOMAIN applied :
           /\ applied[k] = e /\ applied' \in Seq(Effects) /\ DOMAIN applied' = 1..(Len(applied) - 1)
           /\ \A i \in DOMAIN applied' : /\ i < k => applied'[i] = applied[i]
                                         /\ ~(i < k) => applied'[i] = applied[i + 1]
<1>1. PICK k \in DOMAIN applied : /\ applied[k] = e /\ k = CHOOSE i \in DOMAIN applied : applied[i] = e
  BY DEF Range
<1>2. applied' = SubSeq(applied, 1, k - 1) \o SubSeq(applied, k + 1, Len(applied))
  BY <1>1 DEF Without, RemoveAt
<1>3. Len(applied) \in Nat /\ DOMAIN applied = 1..Len(applied) /\ k \in 1..Len(applied)
  BY <1>1
<1>4. /\ SubSeq(applied, 1, k - 1) \in Seq(Effects) /\ Len(SubSeq(applied, 1, k - 1)) = k - 1
      /\ \A i \in 1..(k - 1) : SubSeq(applied, 1, k - 1)[i] = applied[i]
  BY <1>3
<1>5. /\ SubSeq(applied, k + 1, Len(applied)) \in Seq(Effects)
      /\ Len(SubSeq(applied, k + 1, Len(applied))) = Len(applied) - k
      /\ \A i \in 1..(Len(applied) - k) : SubSeq(applied, k + 1, Len(applied))[i] = applied[k + i]
  BY <1>3
<1>6. /\ applied' \in Seq(Effects) /\ Len(applied') = Len(applied) - 1
      /\ \A i \in 1..(k - 1) : applied'[i] = applied[i]
      /\ \A i \in k..(Len(applied) - 1) : applied'[i] = applied[i + 1]
  <2> DEFINE a == SubSeq(applied, 1, k - 1)
             b == SubSeq(applied, k + 1, Len(applied))
  <2>1. a \in Seq(Effects) /\ Len(a) = k - 1 /\ b \in Seq(Effects) /\ Len(b) = Len(applied) - k
    BY <1>4, <1>5
  <2> HIDE DEF a, b
  <2>2. /\ a \o b \in Seq(Effects) /\ Len(a \o b) = Len(a) + Len(b)
        /\ \A i \in 1..(Len(a) + Len(b)) : (a \o b)[i] = IF i <= Len(a) THEN a[i] ELSE b[i - Len(a)]
    <3>1. a \in Seq(Effects) /\ b \in Seq(Effects)
      BY <2>1
    <3> QED
      BY <3>1, ConcatProperties, Zenon
  <2>3. applied' = a \o b
    BY <1>2 DEF a, b
  <2>4. applied' \in Seq(Effects) /\ Len(applied') = Len(applied) - 1
    <3>1. Len(a) + Len(b) = Len(applied) - 1
      BY <1>3, <2>1
    <3> QED
      BY <2>2, <2>3, <3>1
  <2>5. \A i \in 1..(k - 1) : applied'[i] = applied[i]
    BY <1>3, <1>4, <2>1, <2>2, <2>3 DEF a
  <2>6. ASSUME NEW i \in k..(Len(applied) - 1) PROVE applied'[i] = applied[i + 1]
    <3>1. applied'[i] = b[i - (k - 1)] /\ i - (k - 1) \in 1..(Len(applied) - k)
      BY <1>3, <2>1, <2>2, <2>3
    <3>2. b[i - (k - 1)] = applied[k + (i - (k - 1))]
      BY <1>5, <3>1 DEF b
    <3>3. k + (i - (k - 1)) = i + 1
      BY <1>3
    <3> QED
      BY <3>1, <3>2, <3>3
  <2> QED
    BY <2>4, <2>5, <2>6
<1>7. DOMAIN applied' = 1..(Len(applied) - 1)
  BY <1>6
<1>8. \A i \in DOMAIN applied' : /\ i < k => applied'[i] = applied[i]
                                 /\ ~(i < k) => applied'[i] = applied[i + 1]
  BY <1>3, <1>6, <1>7
<1> QED
  BY <1>1, <1>6, <1>7, <1>8

\* Taking an effect away.
LEMMA DropEffect ==
  ASSUME applied \in Seq(Effects), Injective(applied), NEW e, applied' = Without(applied, e)
  PROVE  applied' \in Seq(Effects) /\ Injective(applied') /\ Range(applied') = Range(applied) \ {e}
<1>1. CASE e \notin Range(applied)
  BY <1>1 DEF Without
<1>2. CASE e \in Range(applied)
  <2>1. PICK k \in DOMAIN applied :
          /\ applied[k] = e /\ applied' \in Seq(Effects) /\ DOMAIN applied' = 1..(Len(applied) - 1)
          /\ \A i \in DOMAIN applied' : /\ i < k => applied'[i] = applied[i]
                                        /\ ~(i < k) => applied'[i] = applied[i + 1]
    BY <1>2, DropPlaces
  <2>2. Len(applied) \in Nat /\ DOMAIN applied = 1..Len(applied) /\ k \in 1..Len(applied)
    BY <2>1
  <2>3. Injective(applied')
    BY <2>1, <2>2 DEF Injective
  <2>4. ASSUME NEW x \in Range(applied') PROVE x \in Range(applied) \ {e}
    <3>1. PICK i \in DOMAIN applied' : x = applied'[i]
      BY <2>4 DEF Range
    <3>2. PICK h \in DOMAIN applied : h # k /\ x = applied[h]
      BY <2>1, <2>2, <3>1
    <3> QED
      BY <2>1, <3>2 DEF Range, Injective
  <2>5. ASSUME NEW x \in Range(applied) \ {e} PROVE x \in Range(applied')
    <3>1. PICK h \in DOMAIN applied : x = applied[h]
      BY <2>5 DEF Range
    <3>2. h # k
      BY <2>1, <3>1
    <3>3. CASE h < k
      <4>1. h \in DOMAIN applied' /\ applied'[h] = x
        BY <2>1, <2>2, <3>1, <3>3
      <4> QED
        BY <4>1 DEF Range
    <3>4. CASE h > k
      <4>1. h - 1 \in DOMAIN applied' /\ ~(h - 1 < k) /\ (h - 1) + 1 = h
        BY <2>1, <2>2, <3>1, <3>4
      <4>2. applied'[h - 1] = x
        BY <2>1, <3>1, <4>1
      <4> QED
        BY <4>1, <4>2 DEF Range
    <3> QED
      BY <2>2, <3>1, <3>2, <3>3, <3>4
  <2> QED
    BY <2>1, <2>3, <2>4, <2>5
<1> QED
  BY <1>1, <1>2

-----------------------------------------------------------------------------
(* Writing a transaction *)

\* Everything but the directory of t is as it was.
Others(t) == \A u \in Txs : u # t => tx'[u] = tx[u]
TxTyped == tx \in [Txs -> TxRecord \cup {None}]

\* Writing one file of a transaction root leaves its other files and the
\* other roots alone.
LEMMA WriteDesc ==
  ASSUME TxTyped, NEW t \in Roots, NEW v \in Marks,
         tx' = [tx EXCEPT ![t].desc = v]
  PROVE  /\ TxTyped' /\ Others(t) /\ tx'[t] # None /\ tx'[t].desc = v
         /\ tx'[t].started = tx[t].started /\ tx'[t].ord = tx[t].ord /\ tx'[t].snap = tx[t].snap
         /\ tx'[t].intent = tx[t].intent /\ tx'[t].term = tx[t].term /\ tx'[t].rev = tx[t].rev
<1>1. t \in Txs /\ tx[t] \in TxRecord
  BY DEF Roots, TxTyped
<1>2. /\ [tx[t] EXCEPT !.desc = v] \in TxRecord
      /\ tx'[t] = [tx[t] EXCEPT !.desc = v]
      /\ Others(t)
  BY <1>1 DEF TxRecord, TxTyped, Others
<1>3. TxTyped'
  BY <1>1, <1>2 DEF TxTyped
<1> QED
  BY <1>1, <1>2, <1>3, NoneIsNoRecord DEF TxRecord

\* The same for the snapshot.
LEMMA WriteSnap ==
  ASSUME TxTyped, NEW t \in Roots, NEW v \in Marks,
         tx' = [tx EXCEPT ![t].snap = v]
  PROVE  /\ TxTyped' /\ Others(t) /\ tx'[t] # None /\ tx'[t].snap = v
         /\ tx'[t].started = tx[t].started /\ tx'[t].ord = tx[t].ord /\ tx'[t].desc = tx[t].desc
         /\ tx'[t].intent = tx[t].intent /\ tx'[t].term = tx[t].term /\ tx'[t].rev = tx[t].rev
<1>1. t \in Txs /\ tx[t] \in TxRecord
  BY DEF Roots, TxTyped
<1>2. /\ [tx[t] EXCEPT !.snap = v] \in TxRecord
      /\ tx'[t] = [tx[t] EXCEPT !.snap = v]
      /\ Others(t)
  BY <1>1 DEF TxRecord, TxTyped, Others
<1>3. TxTyped'
  BY <1>1, <1>2 DEF TxTyped
<1> QED
  BY <1>1, <1>2, <1>3, NoneIsNoRecord DEF TxRecord

\* The same for the intent.
LEMMA WriteIntent ==
  ASSUME TxTyped, NEW t \in Roots, NEW v \in Marks,
         tx' = [tx EXCEPT ![t].intent = v]
  PROVE  /\ TxTyped' /\ Others(t) /\ tx'[t] # None /\ tx'[t].intent = v
         /\ tx'[t].started = tx[t].started /\ tx'[t].ord = tx[t].ord /\ tx'[t].desc = tx[t].desc
         /\ tx'[t].snap = tx[t].snap /\ tx'[t].term = tx[t].term /\ tx'[t].rev = tx[t].rev
<1>1. t \in Txs /\ tx[t] \in TxRecord
  BY DEF Roots, TxTyped
<1>2. /\ [tx[t] EXCEPT !.intent = v] \in TxRecord
      /\ tx'[t] = [tx[t] EXCEPT !.intent = v]
      /\ Others(t)
  BY <1>1 DEF TxRecord, TxTyped, Others
<1>3. TxTyped'
  BY <1>1, <1>2 DEF TxTyped
<1> QED
  BY <1>1, <1>2, <1>3, NoneIsNoRecord DEF TxRecord

\* The same for the terminal record.
LEMMA WriteTerm ==
  ASSUME TxTyped, NEW t \in Roots, NEW v \in {"none", "committed", "rolled_back", "bad", "alien"},
         tx' = [tx EXCEPT ![t].term = v]
  PROVE  /\ TxTyped' /\ Others(t) /\ tx'[t] # None /\ tx'[t].term = v
         /\ tx'[t].started = tx[t].started /\ tx'[t].ord = tx[t].ord /\ tx'[t].desc = tx[t].desc
         /\ tx'[t].snap = tx[t].snap /\ tx'[t].intent = tx[t].intent /\ tx'[t].rev = tx[t].rev
<1>1. t \in Txs /\ tx[t] \in TxRecord
  BY DEF Roots, TxTyped
<1>2. /\ [tx[t] EXCEPT !.term = v] \in TxRecord
      /\ tx'[t] = [tx[t] EXCEPT !.term = v]
      /\ Others(t)
  BY <1>1 DEF TxRecord, TxTyped, Others
<1>3. TxTyped'
  BY <1>1, <1>2 DEF TxTyped
<1> QED
  BY <1>1, <1>2, <1>3, NoneIsNoRecord DEF TxRecord

\* The same for the revert record.
LEMMA WriteRev ==
  ASSUME TxTyped, NEW t \in Roots, NEW v \in Marks,
         tx' = [tx EXCEPT ![t].rev = v]
  PROVE  /\ TxTyped' /\ Others(t) /\ tx'[t] # None /\ tx'[t].rev = v
         /\ tx'[t].started = tx[t].started /\ tx'[t].ord = tx[t].ord /\ tx'[t].desc = tx[t].desc
         /\ tx'[t].snap = tx[t].snap /\ tx'[t].intent = tx[t].intent /\ tx'[t].term = tx[t].term
<1>1. t \in Txs /\ tx[t] \in TxRecord
  BY DEF Roots, TxTyped
<1>2. /\ [tx[t] EXCEPT !.rev = v] \in TxRecord
      /\ tx'[t] = [tx[t] EXCEPT !.rev = v]
      /\ Others(t)
  BY <1>1 DEF TxRecord, TxTyped, Others
<1>3. TxTyped'
  BY <1>1, <1>2 DEF TxTyped
<1> QED
  BY <1>1, <1>2, <1>3, NoneIsNoRecord DEF TxRecord

\* The same for a temporary file.
LEMMA WriteTemp ==
  ASSUME TxTyped, NEW t \in Roots, NEW v \in {"none", "root", "journal"},
         tx' = [tx EXCEPT ![t].temp = v]
  PROVE  /\ TxTyped' /\ Others(t) /\ tx'[t] # None /\ tx'[t].temp = v
         /\ tx'[t].started = tx[t].started /\ tx'[t].ord = tx[t].ord /\ tx'[t].desc = tx[t].desc
         /\ tx'[t].snap = tx[t].snap /\ tx'[t].intent = tx[t].intent /\ tx'[t].term = tx[t].term /\ tx'[t].rev = tx[t].rev
<1>1. t \in Txs /\ tx[t] \in TxRecord
  BY DEF Roots, TxTyped
<1>2. /\ [tx[t] EXCEPT !.temp = v] \in TxRecord
      /\ tx'[t] = [tx[t] EXCEPT !.temp = v]
      /\ Others(t)
  BY <1>1 DEF TxRecord, TxTyped, Others
<1>3. TxTyped'
  BY <1>1, <1>2 DEF TxTyped
<1> QED
  BY <1>1, <1>2, <1>3, NoneIsNoRecord DEF TxRecord

\* A directory that is there is written: who has an intent is a matter of
\* that directory.
LEMMA WrittenIntents ==
  ASSUME NEW t \in Roots, Others(t), tx'[t] # None
  PROVE  /\ Roots' = Roots
         /\ \A u \in Txs : u # t => (u \in Intended' <=> u \in Intended)
         /\ t \in Intended' <=> tx'[t].intent # "none"
<1>1. Roots' = Roots
  BY DEF Roots, Others
<1>2. \A u \in Txs : u \in Intended' <=> u \in Roots' /\ tx'[u].intent # "none"
  BY DEF Intended, HasIntent, Roots
<1>3. \A u \in Txs : u \in Intended <=> u \in Roots /\ tx[u].intent # "none"
  BY DEF Intended, HasIntent, Roots
<1> QED
  BY <1>1, <1>2, <1>3 DEF Others, Roots

\* Directories without an intent are removed.
LEMMA Removal ==
  ASSUME TxTyped, NEW S \in SUBSET Unused, tx' = [t \in Txs |-> IF t \in S THEN None ELSE tx[t]]
  PROVE  /\ TxTyped' /\ Roots' \subseteq Roots /\ Intended' = Intended
         /\ \A t \in Intended : tx'[t] = tx[t]
<1>1. S \subseteq Txs /\ S \cap Intended = {} /\ Intended \subseteq Txs
  BY DEF Unused, Roots, Intended
<1>2. TxTyped' /\ \A t \in Txs : tx'[t] = IF t \in S THEN None ELSE tx[t]
  BY DEF TxTyped
<1>3. Roots' = Roots \ S
  BY <1>2 DEF Roots
<1>4. \A t \in Txs : t \in Intended' <=> t \in Roots' /\ tx'[t].intent # "none"
  BY DEF Intended, HasIntent, Roots
<1>5. \A t \in Txs : t \in Intended <=> t \in Roots /\ tx[t].intent # "none"
  BY DEF Intended, HasIntent, Roots
<1>6. Intended' \subseteq Txs
  BY DEF Intended, Roots
<1> QED
  BY <1>1, <1>2, <1>3, <1>4, <1>5, <1>6

\* A directory is created.
LEMMA Creation ==
  ASSUME TxTyped, NEW t \in Txs, tx[t] = None, NEW r \in TxRecord, r.intent = "none",
         tx' = [tx EXCEPT ![t] = r]
  PROVE  /\ TxTyped' /\ Others(t) /\ tx'[t] = r /\ Roots' = Roots \cup {t} /\ Intended' = Intended
<1>1. TxTyped' /\ Others(t) /\ tx'[t] = r /\ r # None
  BY NoneIsNoRecord DEF TxTyped, Others
<1>2. Roots' = Roots \cup {t}
  BY <1>1 DEF Roots, Others
<1>4. \A u \in Txs : u \in Intended' <=> u \in Roots' /\ tx'[u].intent # "none"
  BY DEF Intended, HasIntent, Roots
<1>5. \A u \in Txs : u \in Intended <=> u \in Roots /\ tx[u].intent # "none"
  BY DEF Intended, HasIntent, Roots
<1>6. Intended' \subseteq Txs /\ Intended \subseteq Txs /\ t \notin Roots
  BY DEF Intended, Roots
<1> QED
  BY <1>1, <1>2, <1>4, <1>5, <1>6 DEF Others

\* The records a creation can leave.
LEMMA DescriptorTyped ==
  ASSUME run \in [id : Nat, started : Nat], ordinal \in Nat, NEW d \in {"none", "ok"},
         NEW p \in {"none", "root"}
  PROVE  /\ Descriptor(ordinal) \in TxRecord /\ Descriptor(ordinal).intent = "none"
         /\ [Descriptor(ordinal) EXCEPT !.desc = d, !.known = FALSE] \in TxRecord
         /\ [Descriptor(ordinal) EXCEPT !.desc = d, !.known = FALSE].intent = "none"
         /\ [Descriptor(ordinal) EXCEPT !.desc = d, !.temp = p, !.known = FALSE] \in TxRecord
         /\ [Descriptor(ordinal) EXCEPT !.desc = d, !.temp = p, !.known = FALSE].intent = "none"
<1>1. Descriptor(ordinal) \in TxRecord /\ Descriptor(ordinal).intent = "none"
  BY DEF Descriptor, TxRecord, Marks
<1>2. /\ [Descriptor(ordinal) EXCEPT !.desc = d, !.known = FALSE] \in TxRecord
      /\ [Descriptor(ordinal) EXCEPT !.desc = d, !.known = FALSE].intent = "none"
  BY DEF Descriptor, TxRecord, Marks
<1>3. /\ [Descriptor(ordinal) EXCEPT !.desc = d, !.temp = p, !.known = FALSE] \in TxRecord
      /\ [Descriptor(ordinal) EXCEPT !.desc = d, !.temp = p, !.known = FALSE].intent = "none"
  BY DEF Descriptor, TxRecord, Marks
<1> QED
  BY <1>1, <1>2, <1>3

\* Only a directory that is not there is the next one.
LEMMA NextRootIsNew ==
  ASSUME NEW t \in Txs, NextRoot(t)
  PROVE  tx[t] = None /\ t[1] = run.id
BY DEF NextRoot, Fresh
-----------------------------------------------------------------------------
(* What a step does to the transactions *)

Invariant == /\ Typed /\ PlanKnown /\ RevertKnown /\ UndoneFirst /\ RunsSoFar /\ OrdinalsKnown
             /\ MembersKnown /\ NothingForgotten /\ RecordsSound

\* A transaction with an intent keeps it; it is rolled back or consumed only
\* without its effect, and made unreadable only from outside.
Recorded(t) ==
  /\ t \in Intended' /\ tx'[t].ord = tx[t].ord
  /\ \/ tx'[t].term \in {tx[t].term, "committed"}
     \/ tx'[t].term = "rolled_back" /\ <<"tx", t>> \notin Range(applied')
     \/ tx'[t].term \in {"bad", "alien"} /\ edits' # 0
  /\ \/ tx'[t].rev \in {tx[t].rev, "none"}
     \/ tx'[t].rev = "ok" /\ <<"tx", t>> \notin Range(applied')
     \/ tx'[t].rev \in {"bad", "alien"} /\ edits' # 0
  /\ edits' # 0 \/ (tx'[t].desc = tx[t].desc /\ tx'[t].snap = tx[t].snap /\ tx'[t].intent = tx[t].intent)

\* The only transaction that gets an intent is the one in hand.
Begun(t) ==
  /\ pc = "intent" /\ t = todo[1] /\ t \in Roots /\ tx'[t].intent = "ok"
  /\ tx'[t].ord = tx[t].ord /\ tx'[t].desc = tx[t].desc /\ tx'[t].snap = tx[t].snap
  /\ tx'[t].term = tx[t].term /\ tx'[t].rev = tx[t].rev

\* What a step may do to the transactions.
TxStep ==
  /\ TxTyped'
  /\ \A t \in Intended : Recorded(t)
  /\ \A t \in Intended' : t \notin Intended => Begun(t)
  /\ \A t \in Roots' : t \notin Roots => pc = "roots" /\ t[1] = run.id

\* Removing roots without an intent is a step of the transactions.
LEMMA KeptTx ==
  ASSUME TxTyped', Roots' \subseteq Roots, Intended' = Intended, \A t \in Intended : tx'[t] = tx[t]
  PROVE  TxStep
BY DEF TxStep, Recorded

\* So is no change at all.
LEMMA SameTx ==
  ASSUME TxTyped, UNCHANGED tx
  PROVE  TxStep
<1>1. Roots' = Roots /\ Intended' = Intended /\ TxTyped'
  BY DEF Roots, Intended, HasIntent, TxTyped
<1> QED
  BY <1>1, KeptTx

\* So is a new root.
LEMMA CreatedTx ==
  ASSUME TxTyped, NEW t \in Txs, NextRoot(t), pc = "roots", NEW r \in TxRecord, r.intent = "none",
         tx' = [tx EXCEPT ![t] = r]
  PROVE  TxStep
<1>1. tx[t] = None /\ t[1] = run.id
  BY NextRootIsNew
<1>2. TxTyped' /\ Others(t) /\ tx'[t] = r /\ Roots' = Roots \cup {t} /\ Intended' = Intended
  BY <1>1, Creation
<1>3. t \notin Intended /\ Intended \subseteq Txs
  BY <1>1 DEF Intended, Roots
<1>4. \A u \in Intended : tx'[u] = tx[u]
  BY <1>2, <1>3 DEF Others
<1> QED
  BY <1>1, <1>2, <1>4 DEF TxStep, Recorded

\* A directory is written whose intent, if any, stays.
LEMMA WrittenTx ==
  ASSUME TxTyped', NEW t \in Roots, Others(t), tx'[t] # None,
         t \in Intended => Recorded(t),
         t \notin Intended /\ tx'[t].intent # "none" => Begun(t)
  PROVE  TxStep
<1>1. /\ Roots' = Roots
      /\ \A u \in Txs : u # t => (u \in Intended' <=> u \in Intended)
      /\ t \in Intended' <=> tx'[t].intent # "none"
  BY WrittenIntents
<1>2. Intended \subseteq Txs /\ Intended' \subseteq Txs
  BY DEF Intended, Roots
<1>3. ASSUME NEW u \in Intended, u # t PROVE Recorded(u)
  BY <1>1, <1>2, <1>3 DEF Recorded, Others
<1> QED
  BY <1>1, <1>2, <1>3 DEF TxStep

\* The transaction in hand is there, and has an intent once it is persisted.
LEMMA InHand ==
  ASSUME Invariant
  PROVE  /\ pc \in {"intent", "mutate", "seal"} => todo # <<>> /\ todo[1] \in Roots /\ todo[1] \in Txs
         /\ pc = "sets" /\ todo # <<>> => todo[1] \in Roots /\ todo[1] \in Txs
         /\ pc \in {"sets", "intent"} /\ todo # <<>> => todo[1] \notin Intended
         /\ pc \in {"mutate", "seal"} => todo[1] \in Intended /\ tx[todo[1]].intent = "ok"
         /\ pc = "recovered" => todo # <<>> /\ todo[1] \in Intended
         /\ pc \in {"undo", "consume"} => todo # <<>> /\ todo[1][2] \in Intended
<1>1. ASSUME pc \in Planning, todo # <<>>
      PROVE  /\ 1 \in DOMAIN todo /\ todo[1] \in Txs /\ todo[1] \in Roots
             /\ pc \notin {"mutate", "seal"} => tx[todo[1]].intent = "none"
  BY <1>1 DEF Invariant, PlanKnown, Roots
<1>2. pc \in {"intent", "mutate", "seal"} => todo # <<>> /\ todo[1] \in Roots /\ todo[1] \in Txs
  BY <1>1 DEF Invariant, PlanKnown, Planning
<1>3. pc = "sets" /\ todo # <<>> => todo[1] \in Roots /\ todo[1] \in Txs
  BY <1>1 DEF Planning
<1>4. pc \in {"sets", "intent"} /\ todo # <<>> => todo[1] \notin Intended
  BY <1>1 DEF Planning, Intended, HasIntent
<1>5. pc \in {"mutate", "seal"} => todo[1] \in Intended /\ tx[todo[1]].intent = "ok"
  BY <1>2 DEF Invariant, PlanKnown, Planning, Intended, HasIntent
<1>6. pc = "recovered" => todo # <<>> /\ todo[1] \in Intended
  BY DEF Invariant, UndoneFirst
<1>7. ASSUME pc \in {"undo", "consume"} PROVE todo # <<>> /\ todo[1][2] \in Intended
  <2>1. /\ todo \in Seq(({"generation"} \X Txs) \cup ({"legacy"} \X Members) \cup ({"journal"} \X Runs))
        /\ todo # <<>> /\ todo[1][1] = "generation" /\ \A i \in DOMAIN todo : ItemKnown(todo[i])
    BY <1>7 DEF Invariant, RevertKnown, Reverting
  <2>2. 1 \in DOMAIN todo
    BY <2>1
  <2>3. ItemKnown(todo[1])
    BY <2>1, <2>2
  <2> QED
    BY <2>1, <2>3 DEF ItemKnown
<1> QED
  BY <1>2, <1>3, <1>4, <1>5, <1>6, <1>7

\* Every step is one of the transactions.
LEMMA TxStepLemma ==
  ASSUME Invariant, Next
  PROVE  TxStep
<1>1. TxTyped /\ run \in [id : Nat, started : Nat] /\ ordinal \in Nat /\ edits \in Nat
      /\ applied \in Seq(Effects) /\ Injective(applied)
  BY DEF Invariant, Typed, TxTyped
<1>2. CASE UNCHANGED tx
  BY <1>1, <1>2, SameTx
<1>3. CASE ScanPending
  <2>1. PICK S \in SUBSET Unused : tx' = [t \in Txs |-> IF t \in S THEN None ELSE tx[t]]
    BY <1>3 DEF ScanPending
  <2> QED
    BY <1>1, <2>1, Removal, KeptTx
<1>4. CASE DiscardTransactionRoots
  <2> DEFINE S == {t \in Unused : t[1] = run.id /\ tx[t].known}
  <2>1. tx' = [t \in Txs |-> IF t \in S THEN None ELSE tx[t]]
    BY <1>4 DEF DiscardTransactionRoots
  <2>2. S \in SUBSET Unused
    OBVIOUS
  <2> HIDE DEF S
  <2> QED
    BY <1>1, <2>1, <2>2, Removal, KeptTx
<1>5. CASE CreateTransactionRoot
  <2>1. PICK t \in Txs : /\ NextRoot(t)
                         /\ \/ tx' = [tx EXCEPT ![t] = Descriptor(ordinal)]
                            \/ \E d \in {"none", "ok"} :
                                 tx' = [tx EXCEPT ![t] = [Descriptor(ordinal) EXCEPT !.desc = d, !.known = FALSE]]
    BY <1>5 DEF CreateTransactionRoot
  <2>2. pc = "roots"
    BY <1>5 DEF CreateTransactionRoot
  <2>3. PICK r \in TxRecord : r.intent = "none" /\ tx' = [tx EXCEPT ![t] = r]
    BY <1>1, <2>1, DescriptorTyped
  <2> QED
    BY <1>1, <2>1, <2>2, <2>3, CreatedTx
<1>6. CASE PrepareSet
  <2>1. pc = "sets" /\ todo # <<>>
    BY <1>6 DEF PrepareSet
  <2>2. todo[1] \in Roots /\ todo[1] \notin Intended
    BY <2>1, InHand
  <2>3. PICK s \in {"none", "ok"} : tx' = [tx EXCEPT ![todo[1]].snap = s]
    BY <1>6 DEF PrepareSet
  <2>4. /\ TxTyped' /\ Others(todo[1]) /\ tx'[todo[1]] # None /\ tx'[todo[1]].intent = tx[todo[1]].intent
    BY <1>1, <2>2, <2>3, WriteSnap DEF Marks
  <2>5. tx[todo[1]].intent = "none"
    BY <2>2 DEF Intended, HasIntent
  <2> QED
    BY <2>2, <2>4, <2>5, WrittenTx
<1>7. CASE PersistIntent
  <2>1. pc = "intent"
    BY <1>7 DEF PersistIntent
  <2>2. todo[1] \in Roots /\ todo[1] \notin Intended
    BY <2>1, InHand
  <2>3. PICK s \in {"none", "ok"} : tx' = [tx EXCEPT ![todo[1]].intent = s]
    BY <1>7 DEF PersistIntent
  <2>4. /\ TxTyped' /\ Others(todo[1]) /\ tx'[todo[1]] # None /\ tx'[todo[1]].intent = s
        /\ tx'[todo[1]].ord = tx[todo[1]].ord /\ tx'[todo[1]].desc = tx[todo[1]].desc
        /\ tx'[todo[1]].snap = tx[todo[1]].snap
        /\ tx'[todo[1]].term = tx[todo[1]].term /\ tx'[todo[1]].rev = tx[todo[1]].rev
    BY <1>1, <2>2, <2>3, WriteIntent DEF Marks
  <2>5. tx'[todo[1]].intent # "none" => Begun(todo[1])
    BY <2>1, <2>2, <2>4 DEF Begun
  <2> QED
    BY <2>2, <2>4, <2>5, WrittenTx
<1>8. CASE RecoverRecord
  <2>1. pc = "recovered"
    BY <1>8 DEF RecoverRecord
  <2>2. todo[1] \in Intended /\ todo[1] \in Roots /\ <<"tx", todo[1]>> \notin Range(applied)
    BY <2>1 DEF Invariant, UndoneFirst, Intended
  <2>3. CASE tx' = [tx EXCEPT ![todo[1]].term = "rolled_back"]
    <3>1. /\ TxTyped' /\ Others(todo[1]) /\ tx'[todo[1]] # None /\ tx'[todo[1]].term = "rolled_back"
          /\ tx'[todo[1]].ord = tx[todo[1]].ord /\ tx'[todo[1]].desc = tx[todo[1]].desc
          /\ tx'[todo[1]].snap = tx[todo[1]].snap
          /\ tx'[todo[1]].intent = tx[todo[1]].intent /\ tx'[todo[1]].rev = tx[todo[1]].rev
      BY <1>1, <2>2, <2>3, WriteTerm
    <3>2. todo[1] \in Intended' /\ UNCHANGED applied
      BY <1>8, <2>2, <3>1, WrittenIntents DEF RecoverRecord, Intended, HasIntent
    <3>3. Recorded(todo[1])
      BY <2>2, <3>1, <3>2 DEF Recorded
    <3> QED
      BY <2>2, <3>1, <3>3, WrittenTx
  <2> QED
    BY <1>2, <1>8, <2>3 DEF RecoverRecord
<1>9. CASE Seal
  <2>1. pc = "seal"
    BY <1>9 DEF Seal
  <2>2. todo[1] \in Intended /\ todo[1] \in Roots
    BY <2>1, InHand
  <2>3. ASSUME NEW s \in {"committed", "rolled_back"}, tx' = [tx EXCEPT ![todo[1]].term = s],
               s = "rolled_back" => <<"tx", todo[1]>> \notin Range(applied')
        PROVE  TxStep
    <3>1. /\ TxTyped' /\ Others(todo[1]) /\ tx'[todo[1]] # None /\ tx'[todo[1]].term = s
          /\ tx'[todo[1]].ord = tx[todo[1]].ord /\ tx'[todo[1]].desc = tx[todo[1]].desc
          /\ tx'[todo[1]].snap = tx[todo[1]].snap
          /\ tx'[todo[1]].intent = tx[todo[1]].intent /\ tx'[todo[1]].rev = tx[todo[1]].rev
      BY <1>1, <2>2, <2>3, WriteTerm
    <3>2. todo[1] \in Intended'
      BY <2>2, <3>1, WrittenIntents DEF Intended, HasIntent
    <3>3. Recorded(todo[1])
      BY <2>2, <2>3, <3>1, <3>2 DEF Recorded
    <3> QED
      BY <2>2, <3>1, <3>3, WrittenTx
  <2>4. applied' = Without(applied, <<"tx", todo[1]>>) => <<"tx", todo[1]>> \notin Range(applied')
    BY <1>1, DropEffect
  <2> QED
    BY <1>2, <1>9, <2>3, <2>4 DEF Seal
<1>10. CASE RevertGenerationMember
  <2>1. pc = "consume"
    BY <1>10 DEF RevertGenerationMember
  <2> DEFINE t == todo[1][2]
  <2>2. t \in Intended /\ t \in Roots /\ <<"tx", t>> \notin Range(applied)
    BY <2>1, InHand DEF Invariant, UndoneFirst, Intended
  <2>3. PICK s \in {"none", "ok"} : tx' = [tx EXCEPT ![t].rev = s]
    BY <1>10 DEF RevertGenerationMember, Head1
  <2> HIDE DEF t
  <2>4. /\ TxTyped' /\ Others(t) /\ tx'[t] # None /\ tx'[t].rev = s
        /\ tx'[t].ord = tx[t].ord /\ tx'[t].desc = tx[t].desc
        /\ tx'[t].snap = tx[t].snap
        /\ tx'[t].intent = tx[t].intent /\ tx'[t].term = tx[t].term
    BY <1>1, <2>2, <2>3, WriteRev DEF Marks
  <2>5. t \in Intended' /\ UNCHANGED applied
    BY <1>10, <2>2, <2>4, WrittenIntents DEF RevertGenerationMember, Intended, HasIntent
  <2>6. Recorded(t)
    BY <2>2, <2>4, <2>5 DEF Recorded
  <2> QED
    BY <2>2, <2>4, <2>6, WrittenTx
<1>11. CASE Died
  <2>1. CASE pc = "roots" /\ \E t \in Txs, d \in {"none", "ok"}, temp \in {"none", "root"} :
             /\ NextRoot(t)
             /\ tx' = [tx EXCEPT ![t] = [Descriptor(ordinal) EXCEPT !.desc = d, !.temp = temp,
                                                                    !.known = FALSE]]
    <3>1. PICK t \in Txs, r \in TxRecord :
            NextRoot(t) /\ r.intent = "none" /\ tx' = [tx EXCEPT ![t] = r]
      BY <1>1, <2>1, DescriptorTyped
    <3> QED
      BY <1>1, <2>1, <3>1, CreatedTx
  <2>2. ASSUME NEW t \in Roots, NEW p \in {"none", "root", "journal"}, tx' = [tx EXCEPT ![t].temp = p]
        PROVE  TxStep
    <3>1. /\ TxTyped' /\ Others(t) /\ tx'[t] # None
          /\ tx'[t].ord = tx[t].ord /\ tx'[t].desc = tx[t].desc
          /\ tx'[t].snap = tx[t].snap /\ tx'[t].rev = tx[t].rev
          /\ tx'[t].intent = tx[t].intent /\ tx'[t].term = tx[t].term
      BY <1>1, <2>2, WriteTemp
    <3>2. t \in Intended' <=> t \in Intended
      BY <3>1, WrittenIntents DEF Intended, HasIntent
    <3>3. t \in Intended => Recorded(t)
      BY <3>1, <3>2 DEF Recorded
    <3>4. t \notin Intended => tx'[t].intent = "none"
      BY <3>1 DEF Intended, HasIntent
    <3> QED
      BY <3>1, <3>3, <3>4, WrittenTx
  <2>3. pc \in {"intent", "seal", "recovered"} => todo[1] \in Roots
    BY InHand DEF Intended
  <2>4. pc = "consume" => todo[1][2] \in Roots
    BY InHand DEF Intended
  <2> QED
    BY <1>2, <1>11, <2>1, <2>2, <2>3, <2>4 DEF Died
<1>12. CASE EditRecord
  <2>1. PICK t \in Intended, f \in {"desc", "snap", "intent", "term", "rev"}, v \in {"bad", "alien"} :
           tx[t][f] \notin {"none", "bad", "alien"} /\ tx' = [tx EXCEPT ![t][f] = v]
    BY <1>12 DEF EditRecord
  <2>2. edits' # 0 /\ t \in Roots
    BY <1>1, <1>12 DEF EditRecord, Intended
  <2>3. tx[t].intent # "none"
    BY DEF Intended, HasIntent
  <2>4. /\ TxTyped' /\ Others(t) /\ tx'[t] # None
        /\ tx'[t].ord = tx[t].ord /\ tx'[t].intent # "none"
        /\ tx'[t].term \in {tx[t].term, "bad", "alien"} /\ tx'[t].rev \in {tx[t].rev, "bad", "alien"}
    <3>1. CASE f = "desc"
      BY <1>1, <2>1, <2>2, <2>3, <3>1, WriteDesc DEF Marks
    <3>2. CASE f = "snap"
      BY <1>1, <2>1, <2>2, <2>3, <3>2, WriteSnap DEF Marks
    <3>3. CASE f = "intent"
      BY <1>1, <2>1, <2>2, <2>3, <3>3, WriteIntent DEF Marks
    <3>4. CASE f = "term"
      BY <1>1, <2>1, <2>2, <2>3, <3>4, WriteTerm
    <3>5. CASE f = "rev"
      BY <1>1, <2>1, <2>2, <2>3, <3>5, WriteRev DEF Marks
    <3> QED
      BY <2>1, <3>1, <3>2, <3>3, <3>4, <3>5
  <2>5. t \in Intended'
    BY <2>2, <2>4, WrittenIntents
  <2>6. Recorded(t)
    BY <2>2, <2>4, <2>5 DEF Recorded
  <2> QED
    BY <2>2, <2>4, <2>6, WrittenTx
<1> QED
  BY <1>2, <1>3, <1>4, <1>5, <1>6, <1>7, <1>8, <1>9, <1>10, <1>11, <1>12
  DEF Next, GuardNext, InspectNext, WorldNext, Begin, ReconcileLegacyRevertWork, RecoverUndo,
     BeginDone, RootsDone, Mutate,
     WriteJournal, NoLegacyEntries, RegisterLegacyJournal, PublishMember,
     SelectHistory, RevertFinished, RegisterStandalone, NextMember, RevertGenerationUndo,
     PrepareLegacyMemberRevert, RunRevertDurable,
     MarkLegacyMemberReverted, RetireLegacyMemberRevertWork, EditJournal, DeleteBackups, SetClockBack,
     ScanStoreInspectionTree, InspectGenerationTransactions, InspectLegacyMembers, FinishInspection,
     disk, store
-----------------------------------------------------------------------------
(* What a step does to the journals, the legacy members and the host *)

JournalsTyped == journals \in [Runs -> JournalRecord \cup {None}]
MembersTyped == members \in [Members -> MemberRecord \cup {None}]

\* Journals stay; their bytes change only from outside; a new one is of the run.
JournalStep ==
  /\ JournalsTyped'
  /\ \A r \in Runs : journals[r] # None =>
       journals'[r] # None /\ (edits' # 0 \/ journals'[r].digest = journals[r].digest)
  /\ \A r \in Runs : journals[r] = None /\ journals'[r] # None =>
       pc = "sets" /\ todo = <<>> /\ r = run.id /\ pc' = "register" /\ journals'[r].digest = 0

\* Every step is one of the legacy journals.
LEMMA JournalStepLemma ==
  ASSUME Invariant, Next
  PROVE  JournalStep
<1>1. /\ JournalsTyped /\ edits \in Nat /\ clock \in Nat /\ run \in [id : Nat, started : Nat]
      /\ pc # "idle" => run.id \in Runs
  BY DEF Invariant, Typed, JournalsTyped
<1>2. CASE UNCHANGED journals
  BY <1>1, <1>2 DEF JournalStep, JournalsTyped
<1>3. CASE WriteJournal
  <2> DEFINE j == [second |-> Seconds(clock), name |-> run.started, digest |-> 0, backups |-> TRUE]
  <2>1. Seconds(clock) \in Nat
    BY <1>1 DEF Seconds
  <2>2. j \in JournalRecord /\ j.digest = 0
    BY <1>1, <2>1 DEF JournalRecord
  <2>3. /\ pc = "sets" /\ todo = <<>> /\ journals' = [journals EXCEPT ![run.id] = j] /\ pc' = "register"
    BY <1>3 DEF WriteJournal, Goto
  <2>4. run.id \in Runs
    BY <1>1, <2>3
  <2>5. journals[run.id] = None
    BY <2>3 DEF Invariant, RunsSoFar, Planning
  <2> HIDE DEF j
  <2> QED
    BY <1>1, <2>2, <2>3, <2>4, <2>5, NoneIsNoRecord DEF JournalStep, JournalsTyped
<1>4. CASE EditJournal
  <2>1. PICK r \in Runs : journals[r] # None /\ journals' = [journals EXCEPT ![r].digest = 1]
    BY <1>4 DEF EditJournal
  <2>2. edits' # 0
    BY <1>1, <1>4 DEF EditJournal
  <2>3. [journals[r] EXCEPT !.digest = 1] \in JournalRecord
    BY <1>1, <2>1 DEF JournalRecord, JournalsTyped
  <2> QED
    BY <1>1, <2>1, <2>2, <2>3, NoneIsNoRecord DEF JournalStep, JournalsTyped
<1>5. CASE DeleteBackups
  <2>1. PICK r \in Runs : journals[r] # None /\ journals' = [journals EXCEPT ![r].backups = FALSE]
    BY <1>5 DEF DeleteBackups
  <2>2. edits' # 0
    BY <1>1, <1>5 DEF DeleteBackups
  <2>3. [journals[r] EXCEPT !.backups = FALSE] \in JournalRecord
    BY <1>1, <2>1 DEF JournalRecord, JournalsTyped
  <2> QED
    BY <1>1, <2>1, <2>2, <2>3, NoneIsNoRecord DEF JournalStep, JournalsTyped
<1> QED
  BY <1>2, <1>3, <1>4, <1>5
  DEF Next, GuardNext, InspectNext, WorldNext, Begin, ReconcileLegacyRevertWork, RecoverUndo,
     BeginDone, RootsDone, Mutate, ScanPending, RecoverRecord, CreateTransactionRoot, PrepareSet, PersistIntent, Seal,
     NoLegacyEntries, RegisterLegacyJournal, PublishMember, DiscardTransactionRoots,
     SelectHistory, RevertFinished, RegisterStandalone, NextMember, RevertGenerationUndo, RevertGenerationMember,
     PrepareLegacyMemberRevert, RunRevertDurable, Died, EditRecord,
     MarkLegacyMemberReverted, RetireLegacyMemberRevertWork, SetClockBack,
     ScanStoreInspectionTree, InspectGenerationTransactions, InspectLegacyMembers, FinishInspection,
     disk, store

\* A member stays as it is; at most one is added, the one of a journal that
\* exists, in the run of the command and with an ordinal of its own.
MemberStep ==
  /\ MembersTyped'
  /\ \A m \in Registered : m \in Registered' /\ members'[m] = members[m]
  /\ \A m \in Registered' : m \notin Registered =>
       /\ pc \in {"register", "next"} /\ journals[m[1]] # None /\ m[2] = journals[m[1]].digest
       /\ members'[m].run = run.id /\ members'[m].ord = ordinal
       /\ UNCHANGED <<tx, journals>> /\ (pc' = "discard" \/ ordinal' = ordinal + 1)
  /\ \A m, n \in Registered' : m \notin Registered /\ n \notin Registered => m = n

\* Publishing the member of a journal is a step of the members.
LEMMA Published ==
  ASSUME Invariant, pc \in {"register", "next"}, NEW j \in Runs, journals[j] # None, NEW next,
         PublishMember(CurrentMember(j), next)
  PROVE  MemberStep
<1>1. MembersTyped /\ JournalsTyped /\ run \in [id : Nat, started : Nat] /\ run.id \in Runs /\ ordinal \in Nat
  BY DEF Invariant, Typed, MembersTyped, JournalsTyped
<1> DEFINE m == CurrentMember(j)
<1>2. m \in Members /\ m[1] = j /\ m[2] = journals[j].digest
  BY <1>1 DEF JournalsTyped, JournalRecord, CurrentMember, Members
<1>3. UNCHANGED <<tx, journals>>
  BY DEF PublishMember
<1> DEFINE r == [run |-> run.id, started |-> run.started, ord |-> ordinal]
<1>4. r \in MemberRecord /\ r.run = run.id /\ r.ord = ordinal /\ r # None
  BY <1>1, NoneIsNoRecord DEF MemberRecord
<1>5. \/ UNCHANGED members
      \/ /\ m \notin Registered /\ members' = [members EXCEPT ![m] = r]
         /\ pc' = "discard" \/ ordinal' = ordinal + 1
  BY DEF PublishMember, NewMember, Goto
<1> HIDE DEF m, r
<1>6. CASE UNCHANGED members
  BY <1>1, <1>6 DEF MemberStep, MembersTyped, Registered
<1>7. CASE m \notin Registered /\ members' = [members EXCEPT ![m] = r] /\ (pc' = "discard" \/ ordinal' = ordinal + 1)
  <2>1. MembersTyped' /\ members'[m] = r /\ \A n \in Members : n # m => members'[n] = members[n]
    BY <1>1, <1>2, <1>4, <1>7 DEF MembersTyped
  <2>2. \A n \in Members : n \in Registered' <=> n = m \/ n \in Registered
    BY <1>4, <2>1 DEF Registered
  <2>3. Registered \subseteq Members /\ Registered' \subseteq Members
    BY DEF Registered
  <2> QED
    BY <1>2, <1>3, <1>4, <1>7, <2>1, <2>2, <2>3 DEF MemberStep
<1> QED
  BY <1>5, <1>6, <1>7

\* Every step is one of the members.
LEMMA MemberStepLemma ==
  ASSUME Invariant, Next
  PROVE  MemberStep
<1>1. MembersTyped /\ pc # "idle" => run.id \in Runs
  BY DEF Invariant, Typed, MembersTyped
<1>2. CASE UNCHANGED members
  <2>1. MembersTyped
    BY DEF Invariant, Typed, MembersTyped
  <2> QED
    BY <2>1, <1>2 DEF MemberStep, MembersTyped, Registered
<1>3. CASE RegisterLegacyJournal
  <2>1. pc = "register" /\ PublishMember(CurrentMember(run.id), "discard")
    BY <1>3 DEF RegisterLegacyJournal
  <2>2. run.id \in Runs /\ journals[run.id] # None
    BY <2>1 DEF Invariant, Typed, RunsSoFar
  <2> QED
    BY <2>1, <2>2, Published
<1>4. CASE RegisterStandalone
  <2>1. pc = "next" /\ todo # <<>> /\ todo[1][1] = "journal" /\ PublishMember(CurrentMember(todo[1][2]), "prepare")
    BY <1>4 DEF RegisterStandalone, Head1
  <2>2. /\ todo \in Seq(({"generation"} \X Txs) \cup ({"legacy"} \X Members) \cup ({"journal"} \X Runs))
        /\ \A i \in DOMAIN todo : ItemKnown(todo[i])
    BY <2>1 DEF Invariant, RevertKnown, Reverting
  <2>3. ItemKnown(todo[1])
    BY <2>1, <2>2
  <2>4. todo[1][2] \in Runs /\ journals[todo[1][2]] # None
    BY <2>1, <2>3 DEF ItemKnown
  <2> QED
    BY <2>1, <2>4, Published
<1> QED
  BY <1>2, <1>3, <1>4
  DEF Next, GuardNext, InspectNext, WorldNext, Begin, ReconcileLegacyRevertWork, RecoverUndo,
     BeginDone, RootsDone, Mutate, ScanPending, RecoverRecord, CreateTransactionRoot, PrepareSet, PersistIntent, Seal,
     NoLegacyEntries, WriteJournal, DiscardTransactionRoots,
     SelectHistory, RevertFinished, NextMember, RevertGenerationUndo, RevertGenerationMember,
     PrepareLegacyMemberRevert, RunRevertDurable, Died, EditRecord, EditJournal, DeleteBackups,
     MarkLegacyMemberReverted, RetireLegacyMemberRevertWork, SetClockBack,
     ScanStoreInspectionTree, InspectGenerationTransactions, InspectLegacyMembers, FinishInspection,
     disk, store
\* Effects are added by the mutation of the transaction in hand and by the
\* entries of the run; everything else only takes effects away.
HostStep ==
  /\ applied' \in Seq(Effects) /\ Injective(applied')
  /\ \A e \in Range(applied') :
       \/ e \in Range(applied)
       \/ pc = "mutate" /\ e = <<"tx", todo[1]>> /\ UNCHANGED <<tx, reverts>>
       \/ pc = "sets" /\ e = <<"journal", run.id>> /\ UNCHANGED <<tx, reverts>> /\ journals'[run.id] # None

\* Every step keeps account of what is applied to the host.
LEMMA HostStepLemma ==
  ASSUME Invariant, Next
  PROVE  HostStep
<1>1. applied \in Seq(Effects) /\ Injective(applied) /\ JournalsTyped /\ clock \in Nat
      /\ run \in [id : Nat, started : Nat]
  BY DEF Invariant, Typed, JournalsTyped
<1>2. CASE UNCHANGED applied
  BY <1>1, <1>2 DEF HostStep, Injective, Range
<1>3. ASSUME NEW e, applied' = Without(applied, e)
      PROVE  HostStep
  BY <1>1, <1>3, DropEffect DEF HostStep
<1>4. CASE Mutate
  <2>1. pc = "mutate" /\ applied' = Append(applied, <<"tx", todo[1]>>) /\ UNCHANGED <<tx, reverts>>
    BY <1>4 DEF Mutate, store
  <2>2. todo[1] \in Txs
    BY <2>1, InHand
  <2>3. <<"tx", todo[1]>> \in Effects
    BY <2>2 DEF Effects
  <2>4. <<"tx", todo[1]>> \notin Range(applied)
    BY <2>1 DEF Invariant, PlanKnown, Planning
  <2> QED
    BY <1>1, <2>1, <2>3, <2>4, AddEffect DEF HostStep
<1>5. CASE WriteJournal
  <2>1. pc = "sets" /\ applied' = Append(applied, <<"journal", run.id>>) /\ UNCHANGED <<tx, reverts>>
    BY <1>5 DEF WriteJournal, store
  <2>2. run.id \in Runs /\ journals[run.id] = None
    BY <2>1 DEF Invariant, Typed, RunsSoFar, Planning
  <2>3. <<"journal", run.id>> \in Effects
    BY <2>2 DEF Effects
  <2>4. <<"journal", run.id>> \notin Range(applied)
    BY <2>2 DEF Invariant, NothingForgotten
  <2>5. journals'[run.id] # None
    <3>1. [second |-> Seconds(clock), name |-> run.started, digest |-> 0, backups |-> TRUE] \in JournalRecord
      BY <1>1 DEF JournalRecord, Seconds
    <3> QED
      BY <1>1, <1>5, <2>2, <3>1, NoneIsNoRecord DEF WriteJournal, JournalsTyped
  <2> QED
    BY <1>1, <2>1, <2>3, <2>4, <2>5, AddEffect DEF HostStep
<1>6. CASE RecoverUndo
  BY <1>2, <1>3, <1>6 DEF RecoverUndo
<1>7. CASE Seal
  BY <1>2, <1>3, <1>7 DEF Seal
<1>8. CASE RevertGenerationUndo
  BY <1>2, <1>3, <1>8 DEF RevertGenerationUndo
<1>9. CASE RunRevertDurable
  BY <1>2, <1>3, <1>9 DEF RunRevertDurable
<1> QED
  BY <1>2, <1>4, <1>5, <1>6, <1>7, <1>8, <1>9
  DEF Next, GuardNext, InspectNext, WorldNext, Begin, ReconcileLegacyRevertWork,
     BeginDone, RootsDone, ScanPending, RecoverRecord, CreateTransactionRoot, PrepareSet, PersistIntent,
     NoLegacyEntries, RegisterLegacyJournal, PublishMember, DiscardTransactionRoots,
     SelectHistory, RevertFinished, RegisterStandalone, NextMember, RevertGenerationMember,
     PrepareLegacyMemberRevert, Died, EditRecord, EditJournal, DeleteBackups,
     MarkLegacyMemberReverted, RetireLegacyMemberRevertWork, SetClockBack,
     ScanStoreInspectionTree, InspectGenerationTransactions, InspectLegacyMembers, FinishInspection,
     disk

\* Work and consumption are of the member in hand, and consumption comes after
\* its journal is undone.
RevertStep ==
  /\ \A m \in reverts' : m \in reverts \/
       (m \in Registered /\ m \in Members /\ <<"journal", m[1]>> \notin Range(applied) /\ UNCHANGED <<tx, applied, journals>>)
  /\ \A m \in work' : m \in work \/ m \in Registered

\* No step records more as undone than that.
LEMMA RevertStepLemma ==
  ASSUME Invariant, Next
  PROVE  RevertStep
<1>1. CASE UNCHANGED reverts /\ work' \subseteq work
  BY <1>1 DEF RevertStep
<1>2. ASSUME pc \in {"prepare", "mark"}
      PROVE  todo[1][2] \in Registered /\ todo[1][2] \in Members
  <2>1. /\ todo \in Seq(({"generation"} \X Txs) \cup ({"legacy"} \X Members) \cup ({"journal"} \X Runs))
        /\ todo # <<>> /\ todo[1][1] = "legacy" /\ \A i \in DOMAIN todo : ItemKnown(todo[i])
    BY <1>2 DEF Invariant, RevertKnown, Reverting
  <2>2. 1 \in DOMAIN todo
    BY <2>1
  <2>3. ItemKnown(todo[1])
    BY <2>1, <2>2
  <2> QED
    BY <2>1, <2>3 DEF ItemKnown
<1>3. CASE PrepareLegacyMemberRevert
  BY <1>2, <1>3 DEF PrepareLegacyMemberRevert, Head1, RevertStep
<1>4. CASE MarkLegacyMemberReverted
  <2>1. /\ pc = "mark" /\ UNCHANGED <<tx, applied, journals, work>> /\ reverts' \subseteq reverts \cup {todo[1][2]}
    BY <1>4 DEF MarkLegacyMemberReverted, Head1
  <2>2. <<"journal", todo[1][2][1]>> \notin Range(applied)
    BY <2>1 DEF Invariant, UndoneFirst
  <2> QED
    BY <1>2, <2>1, <2>2 DEF RevertStep
<1> QED
  BY <1>1, <1>3, <1>4
  DEF Next, GuardNext, InspectNext, WorldNext, Begin, ReconcileLegacyRevertWork, RecoverUndo, Mutate,
     BeginDone, RootsDone, ScanPending, RecoverRecord, CreateTransactionRoot, PrepareSet, PersistIntent,
     NoLegacyEntries, RegisterLegacyJournal, PublishMember, DiscardTransactionRoots, Seal, WriteJournal,
     SelectHistory, RevertFinished, RegisterStandalone, NextMember, RevertGenerationMember, RevertGenerationUndo,
     RunRevertDurable, Died, EditRecord, EditJournal, DeleteBackups,
     RetireLegacyMemberRevertWork, SetClockBack,
     ScanStoreInspectionTree, InspectGenerationTransactions, InspectLegacyMembers, FinishInspection,
     disk, store

-----------------------------------------------------------------------------
(* The parts of the invariant that follow *)

\* No step leaves an effect on the host without a record.
LEMMA NothingForgottenStep ==
  ASSUME Invariant, Next, TxStep, JournalStep, HostStep, RevertStep
  PROVE  NothingForgotten'
<1>1. ASSUME NEW t \in Txs, <<"tx", t>> \in Range(applied')
      PROVE  t \in Intended' /\ tx'[t].term # "rolled_back" /\ tx'[t].rev # "ok"
  <2>1. CASE <<"tx", t>> \in Range(applied)
    <3>1. t \in Intended /\ tx[t].term # "rolled_back" /\ tx[t].rev # "ok"
      BY <2>1 DEF Invariant, NothingForgotten
    <3> QED
      BY <1>1, <3>1 DEF TxStep, Recorded
  <2>2. CASE <<"tx", t>> \notin Range(applied)
    <3>1. pc = "mutate" /\ t = todo[1] /\ UNCHANGED tx
      BY <1>1, <2>2 DEF HostStep
    <3>2. t \in Intended
      BY <3>1, InHand
    <3>3. t \in Intended'
      BY <3>2 DEF TxStep, Recorded
    <3>4. tx[t].term = "none" /\ tx[t].rev = "none"
      BY <3>1 DEF Invariant, PlanKnown, Planning
    <3> QED
      BY <3>1, <3>3, <3>4
  <2> QED
    BY <2>1, <2>2
<1>2. ASSUME NEW j \in Runs, <<"journal", j>> \in Range(applied')
      PROVE  journals'[j] # None /\ ~\E m \in reverts' : m[1] = j
  <2>1. CASE <<"journal", j>> \in Range(applied)
    <3>1. journals[j] # None /\ ~\E m \in reverts : m[1] = j
      BY <2>1 DEF Invariant, NothingForgotten
    <3>2. journals'[j] # None
      BY <3>1 DEF JournalStep
    <3> QED
      BY <2>1, <3>1, <3>2 DEF RevertStep
  <2>2. CASE <<"journal", j>> \notin Range(applied)
    <3>1. pc = "sets" /\ j = run.id /\ UNCHANGED reverts /\ journals'[j] # None
      BY <1>2, <2>2 DEF HostStep
    <3>2. journals[j] = None
      BY <3>1 DEF Invariant, RunsSoFar, Planning
    <3>3. ~\E m \in reverts : m[1] = j
      BY <3>2 DEF Invariant, MembersKnown
    <3> QED
      BY <3>1, <3>3
  <2> QED
    BY <2>1, <2>2
<1> QED
  BY <1>1, <1>2 DEF NothingForgotten

\* Every step leaves members with a journal, and consumption with a member.
LEMMA MembersKnownStep ==
  ASSUME Invariant, Next, JournalStep, MemberStep, RevertStep
  PROVE  MembersKnown'
<1>1. MembersKnown
  BY DEF Invariant
<1>2. \A m \in Members : m[1] \in Runs
  BY DEF Members
<1>3. Registered \subseteq Members /\ Registered' \subseteq Members
  BY DEF Registered
<1>4. \A m \in Registered' : journals'[m[1]] # None
  BY <1>1, <1>2, <1>3 DEF MembersKnown, JournalStep, MemberStep
<1>5. work' \subseteq Registered'
  BY <1>1 DEF MembersKnown, MemberStep, RevertStep
<1>6. reverts' \subseteq Members
  BY <1>1, <1>3 DEF MembersKnown, RevertStep
<1>7. \A m \in reverts' : journals'[m[1]] # None
  BY <1>1, <1>2, <1>3, <1>6 DEF MembersKnown, JournalStep, RevertStep
<1> QED
  BY <1>4, <1>5, <1>6, <1>7 DEF MembersKnown
\* A command begins in a run of its own, ends, or goes on in its run.
GuardTyped ==
  /\ limits \in Limits
  /\ pc \in {"idle", "register", "discard", "select"} \cup Opening \cup Planning \cup Reverting
  /\ nruns \in 0..MaxRuns /\ ordinal \in Nat /\ clock \in Nat /\ edits \in Nat
  /\ run \in [id : Nat, started : Nat]
Flow(next) ==
  /\ UNCHANGED <<run, nruns, clock, edits, limits>> /\ pc \notin {"idle", "discard"}
  /\ pc' = next /\ ordinal' \in {ordinal, ordinal + 1}
  /\ next \in Opening \cup Planning => pc \in Opening \cup Planning
  /\ next = "register" => pc = "sets" /\ journals'[run.id] # None
Ended == /\ pc' = "idle" /\ run' = NoRun /\ ordinal' = 0 /\ UNCHANGED <<nruns, clock, edits, limits>>
Beginning == /\ pc' = "work" /\ nruns' = nruns + 1 /\ run' = [id |-> nruns', started |-> clock + 1]
             /\ nruns' \in Runs /\ nruns' <= Len(limits.sets) /\ clock' = clock + 1 /\ ordinal' = 0
             /\ UNCHANGED <<edits, limits>>
Aside == UNCHANGED <<pc, run, nruns, ordinal, limits>> /\ clock' \in {clock, 0} /\ edits' \in {edits, edits + 1}
GuardStep ==
  \/ Beginning \/ Ended \/ Aside
  \/ \E next \in {"register", "discard", "select"} \cup Opening \cup Planning \cup Reverting : Flow(next)

\* Every step is one of the command that holds the guard, or of the world.
LEMMA GuardStepLemma ==
  ASSUME Invariant, Next
  PROVE  GuardStep
<1>1. GuardTyped
  BY DEF Invariant, Typed, GuardTyped
<1>2. \A l \in Limits : Len(l.sets) \in Nat /\ Len(l.sets) <= MaxRuns
  BY BoundsAreNatural
<1>3. MaxRuns \in Nat
  BY BoundsAreNatural
<1>4. CASE \E c \in {"restore", "revert"} : Begin(c)
  <2>1. /\ pc' = "work" /\ nruns' = nruns + 1 /\ run' = [id |-> nruns + 1, started |-> clock + 1] /\ clock' = clock + 1
        /\ ordinal' = 0 /\ UNCHANGED <<edits, limits>> /\ nruns < Len(limits.sets)
    BY <1>4 DEF Begin, Goto
  <2>2. nruns + 1 \in Runs /\ nruns + 1 <= Len(limits.sets)
    BY <1>1, <1>2, <1>3, <2>1 DEF GuardTyped, Runs
  <2> QED
    BY <2>1, <2>2 DEF GuardStep, Beginning
<1>5. CASE Close /\ UNCHANGED <<edits, limits>>
  BY <1>5 DEF Close, Goto, GuardStep, Ended
<1> DEFINE F(n) == Flow(n)
<1>15. CASE WriteJournal
  <2>1. JournalsTyped /\ pc = "sets" /\ run.id \in Runs
    BY <1>15 DEF WriteJournal, Invariant, Typed, JournalsTyped
  <2>2. [second |-> Seconds(clock), name |-> run.started, digest |-> 0, backups |-> TRUE] \in JournalRecord
    BY <1>1 DEF JournalRecord, Seconds, GuardTyped
  <2>3. journals'[run.id] # None
    BY <1>15, <2>1, <2>2, NoneIsNoRecord DEF WriteJournal, JournalsTyped
  <2>4. Flow("register")
    BY <1>1, <1>15, <2>1, <2>3 DEF WriteJournal, GuardTyped, Flow, Goto, Stay, Opening, Planning
  <2> QED
    BY <2>4 DEF GuardStep
<1>6. CASE BeginDone \/ RootsDone \/ Mutate \/ NoLegacyEntries \/ NextMember
  <2>1. PICK n \in {"roots", "select", "sets", "seal", "discard", "undo", "prepare"} : Flow(n)
    BY <1>1, <1>6 DEF BeginDone, RootsDone, Mutate, NoLegacyEntries, NextMember, GuardTyped,
       Flow, Goto, Stay, Opening, Planning
  <2> QED
    BY <2>1 DEF GuardStep, Opening, Planning, Reverting
<1>7. CASE RegisterLegacyJournal \/ RegisterStandalone
  <2>1. Flow("discard") \/ Flow("prepare")
    BY <1>1, <1>7 DEF RegisterLegacyJournal, RegisterStandalone, PublishMember, GuardTyped,
       Flow, Goto, Opening, Planning
  <2> QED
    BY <2>1 DEF GuardStep, Reverting
<1>8. CASE PrepareSet \/ PersistIntent \/ Seal \/ CreateTransactionRoot
  <2>1. PICK n \in {"sets", "roots", "intent", "mutate", "discard"} : Flow(n)
    BY <1>1, <1>8 DEF PrepareSet, PersistIntent, Seal, CreateTransactionRoot, GuardTyped,
       Flow, Goto, Stay, Opening, Planning
  <2> QED
    BY <2>1 DEF GuardStep, Opening, Planning, Reverting
<1>9. CASE ReconcileLegacyRevertWork \/ ScanPending \/ RecoverUndo \/ RecoverRecord
  <2>1. (Close /\ UNCHANGED <<edits, limits>>) \/ \E n \in {"scan", "recover", "recovered"} : Flow(n)
    BY <1>1, <1>9 DEF ReconcileLegacyRevertWork, ScanPending, RecoverUndo, RecoverRecord, GuardTyped,
       Flow, Goto, Stay, Opening, Planning
  <2> QED
    BY <1>5, <2>1 DEF GuardStep, Opening, Planning, Reverting
<1>10. CASE SelectHistory \/ RevertGenerationUndo \/ RevertGenerationMember
  <2>1. (Close /\ UNCHANGED <<edits, limits>>) \/ \E n \in {"next", "consume"} : Flow(n)
    BY <1>1, <1>10 DEF SelectHistory, RevertGenerationUndo, RevertGenerationMember, GuardTyped,
       Flow, Goto, Stay, Opening, Planning
  <2> QED
    BY <1>5, <2>1 DEF GuardStep, Opening, Planning, Reverting
<1>11. CASE PrepareLegacyMemberRevert \/ RunRevertDurable \/ MarkLegacyMemberReverted \/ RetireLegacyMemberRevertWork
  <2>1. (Close /\ UNCHANGED <<edits, limits>>) \/ \E n \in {"unlegacy", "mark", "retire", "next"} : Flow(n)
    BY <1>1, <1>11 DEF PrepareLegacyMemberRevert, RunRevertDurable, MarkLegacyMemberReverted,
       RetireLegacyMemberRevertWork, GuardTyped, Flow, Goto, Stay, Opening, Planning
  <2> QED
    BY <1>5, <2>1 DEF GuardStep, Opening, Planning, Reverting
<1>12. CASE DiscardTransactionRoots \/ RevertFinished \/ Died
  BY <1>5, <1>12 DEF DiscardTransactionRoots, RevertFinished, Died
<1>13. CASE InspectNext
  BY <1>1, <1>13 DEF InspectNext, ScanStoreInspectionTree, InspectGenerationTransactions,
     InspectLegacyMembers, FinishInspection, guard, counts, GuardStep, Aside
<1>14. CASE WorldNext
  BY <1>1, <1>14 DEF WorldNext, EditJournal, DeleteBackups, EditRecord, SetClockBack, guard, counts, GuardStep, Aside
<1> QED
  BY <1>4, <1>6, <1>7, <1>8, <1>9, <1>10, <1>11, <1>12, <1>13, <1>14, <1>15 DEF Next, GuardNext

\* Every step keeps the types.
LEMMA TypedStep ==
  ASSUME Invariant, GuardStep, TxStep, MemberStep, JournalStep, HostStep
  PROVE  Typed'
<1>1. Typed
  BY DEF Invariant
<1>2. /\ tx' \in [Txs -> TxRecord \cup {None}] /\ members' \in [Members -> MemberRecord \cup {None}]
      /\ journals' \in [Runs -> JournalRecord \cup {None}]
      /\ applied' \in Seq(Effects) /\ Injective(applied')
  BY DEF TxStep, MemberStep, JournalStep, HostStep, TxTyped, MembersTyped, JournalsTyped
<1>3. CASE Beginning
  <2>1. clock + 1 \in Nat /\ nruns' \in 0..MaxRuns /\ nruns' \in Nat
    BY <1>1, <1>3 DEF Typed, Beginning, Runs
  <2>2. run' \in [id : Nat, started : Nat] /\ run'.id = nruns'
    BY <1>3, <2>1 DEF Beginning
  <2> QED
    BY <1>1, <1>2, <1>3, <2>1, <2>2 DEF Typed, Beginning, Opening
<1>4. CASE Ended
  <2>1. run' \in [id : Nat, started : Nat]
    BY <1>4 DEF Ended, NoRun
  <2> QED
    BY <1>1, <1>2, <1>4, <2>1 DEF Typed, Ended
<1>5. CASE Aside
  <2>1. clock' \in Nat /\ edits' \in Nat
    BY <1>1, <1>5 DEF Typed, Aside
  <2> QED
    BY <1>1, <1>2, <1>5, <2>1 DEF Typed, Aside
<1>6. ASSUME NEW n \in {"register", "discard", "select"} \cup Opening \cup Planning \cup Reverting, Flow(n)
      PROVE  Typed'
  BY <1>1, <1>2, <1>6 DEF Typed, Flow
<1> QED
  BY <1>3, <1>4, <1>5, <1>6 DEF GuardStep

\* The records that the engine writes stay readable while nobody disturbs
\* them.
LEMMA RecordsSoundStep ==
  ASSUME Invariant, GuardStep, TxStep, MemberStep, JournalStep
  PROVE  RecordsSound'
<1>1. SUFFICES ASSUME edits' = 0 PROVE RecordsSound'
  BY DEF RecordsSound
<1>2. edits = 0
  BY <1>1 DEF Invariant, Typed, GuardStep, Beginning, Ended, Aside, Flow
<1>3. /\ \A t \in Intended :
           /\ tx[t].desc = "ok" /\ tx[t].snap = "ok" /\ tx[t].intent = "ok"
           /\ tx[t].term \in {"none", "committed", "rolled_back"} /\ tx[t].rev \in {"none", "ok"}
      /\ \A m \in Registered : m[2] = 0
      /\ \A r \in Runs : journals[r] # None => journals[r].digest = 0
  BY <1>2 DEF Invariant, RecordsSound
<1>4. ASSUME NEW t \in Intended'
      PROVE  /\ tx'[t].desc = "ok" /\ tx'[t].snap = "ok" /\ tx'[t].intent = "ok"
             /\ tx'[t].term \in {"none", "committed", "rolled_back"} /\ tx'[t].rev \in {"none", "ok"}
  <2>1. CASE t \in Intended
    BY <1>1, <1>3, <2>1 DEF TxStep, Recorded
  <2>2. CASE t \notin Intended
    <3>1. Begun(t)
      BY <2>2 DEF TxStep
    <3>2. todo # <<>> /\ todo \in Seq(Txs) /\ tx[todo[1]].snap = "ok"
      BY <3>1 DEF Begun, Invariant, PlanKnown, Planning
    <3>3. 1 \in DOMAIN todo
      BY <3>2
    <3>4. tx[todo[1]].desc = "ok" /\ tx[todo[1]].term = "none" /\ tx[todo[1]].rev = "none"
      BY <3>1, <3>3 DEF Begun, Invariant, PlanKnown, Planning
    <3> QED
      BY <3>1, <3>2, <3>4 DEF Begun
  <2> QED
    BY <2>1, <2>2
<1>5. \A m \in Registered' : m[2] = 0
  <2>1. Registered' \subseteq Members /\ \A m \in Members : m[1] \in Runs
    BY DEF Registered, Members
  <2> QED
    BY <1>3, <2>1 DEF MemberStep
<1>6. \A r \in Runs : journals'[r] # None => journals'[r].digest = 0
  BY <1>1, <1>3 DEF JournalStep
<1> QED
  BY <1>4, <1>5, <1>6 DEF RecordsSound

\* Every record is of a run that has begun.
LEMMA RunsSoFarStep ==
  ASSUME Invariant, GuardStep, TxStep, MemberStep, JournalStep
  PROVE  RunsSoFar'
<1>1. RunsSoFar /\ Typed
  BY DEF Invariant
<1>2. nruns \in Nat /\ nruns' \in Nat /\ nruns' >= nruns /\ (pc # "idle" => run.id = nruns)
  BY <1>1 DEF Typed, GuardStep, Beginning, Ended, Aside, Flow
<1>3. \A t \in Roots' : t[1] <= nruns'
  <2>1. \A t \in Txs : t[1] \in Nat
    BY DEF Txs, Runs
  <2>2. Roots' \subseteq Txs
    BY DEF Roots
  <2> QED
    BY <1>1, <1>2, <2>1, <2>2 DEF RunsSoFar, TxStep
<1>4. \A m \in Registered' : members'[m].run <= nruns'
  <2>1. \A m \in Registered' : m \in Members /\ members'[m] \in MemberRecord
    BY DEF Registered, MemberStep, MembersTyped
  <2>2. \A m \in Registered' : members'[m].run \in Nat
    BY <2>1 DEF MemberRecord, Runs
  <2> QED
    BY <1>1, <1>2, <2>2 DEF RunsSoFar, MemberStep
<1>5. \A r \in Runs : journals'[r] # None => r <= nruns'
  BY <1>1, <1>2 DEF RunsSoFar, JournalStep, Runs
<1>6. ASSUME pc' \in Opening \cup Planning PROVE journals'[run'.id] = None
  <2>1. CASE Beginning
    <3>1. run'.id = nruns + 1 /\ run'.id \in Runs
      BY <2>1 DEF Beginning
    <3>2. journals[run'.id] = None
      BY <1>1, <1>2, <3>1 DEF RunsSoFar
    <3>3. run'.id # run.id \/ pc = "idle"
      BY <1>2, <3>1
    <3> QED
      BY <3>1, <3>2, <3>3 DEF JournalStep
  <2>2. CASE ~Beginning
    <3>1. UNCHANGED run /\ pc \in Opening \cup Planning
      BY <1>6, <2>2 DEF GuardStep, Ended, Aside, Flow, Opening, Planning
    <3>2. journals[run.id] = None /\ run.id \in Runs
      BY <1>1, <3>1 DEF RunsSoFar, Typed, Opening, Planning
    <3>3. pc' # "register"
      BY <1>6 DEF Opening, Planning
    <3> QED
      BY <3>1, <3>2, <3>3 DEF JournalStep
  <2> QED
    BY <2>1, <2>2
<1>7. ASSUME pc' = "register" PROVE journals'[run'.id] # None
  <2>1. UNCHANGED run /\ (pc = "register" \/ journals'[run.id] # None)
    BY <1>7 DEF GuardStep, Ended, Beginning, Aside, Flow
  <2>2. CASE pc = "register"
    BY <1>1, <2>1, <2>2 DEF RunsSoFar, Typed, JournalStep
  <2> QED
    BY <2>1, <2>2
<1> QED
  BY <1>3, <1>4, <1>5, <1>6, <1>7 DEF RunsSoFar
-----------------------------------------------------------------------------
(* The plan of a restore *)

\* The rest of a sequence has its elements, one place earlier.
LEMMA TailOf ==
  ASSUME NEW S, NEW s \in Seq(S), s # <<>>
  PROVE  /\ Tail(s) \in Seq(S) /\ 1 \in DOMAIN s
         /\ \A i \in DOMAIN Tail(s) : i + 1 \in DOMAIN s /\ Tail(s)[i] = s[i + 1]
         /\ Injective(s) => Injective(Tail(s)) /\ \A i \in DOMAIN Tail(s) : Tail(s)[i] # s[1]
<1>1. Len(s) \in Nat /\ DOMAIN s = 1..Len(s) /\ Len(s) # 0
  OBVIOUS
<1>2. /\ Tail(s) \in Seq(S) /\ Len(Tail(s)) = Len(s) - 1
      /\ \A i \in 1..(Len(s) - 1) : Tail(s)[i] = s[i + 1]
  BY <1>1
<1>3. DOMAIN Tail(s) = 1..(Len(s) - 1)
  BY <1>1, <1>2
<1> HIDE DEF Injective
<1>4. \A i \in DOMAIN Tail(s) : i + 1 \in DOMAIN s /\ Tail(s)[i] = s[i + 1] /\ i + 1 # 1
  BY <1>1, <1>2, <1>3
<1>5. ASSUME Injective(s) PROVE Injective(Tail(s)) /\ \A i \in DOMAIN Tail(s) : Tail(s)[i] # s[1]
  BY <1>1, <1>3, <1>4, <1>5 DEF Injective
<1> QED
  BY <1>1, <1>2, <1>4, <1>5

\* A transaction that the run may still give an intent.
Planned(t) == t[1] = run.id /\ tx[t] # None /\ tx[t].desc = "ok" /\ tx[t].term = "none" /\ tx[t].rev = "none"
Plan ==
  /\ todo \in Seq(Txs) /\ Injective(todo)
  /\ \A i \in DOMAIN todo : Planned(todo[i])
\* What a plan says of ordinals: transactions keep theirs, a new one takes the next.
PlanStep ==
  pc' \in Planning => \A t \in Range(todo') :
    \/ pc \in Planning /\ t \in Range(todo) /\ tx'[t].ord = tx[t].ord
    \/ pc = "roots" /\ NextRoot(t) /\ t \in Txs /\ ordinal' = ordinal + 1 /\ tx'[t].ord = ordinal

\* An empty plan asks for nothing.
LEMMA EmptyPlan ==
  ASSUME todo' = <<>>, pc' \notin {"intent", "mutate", "seal"}
  PROVE  PlanKnown' /\ PlanStep
<1>1. todo' \in Seq(Txs) /\ DOMAIN todo' = {}
  OBVIOUS
<1>2. Injective(todo') /\ Range(todo') = {}
  BY <1>1 DEF Injective, Range
<1> QED
  BY <1>1, <1>2 DEF PlanKnown, PlanStep

\* A plan stays good while nobody works on it.
LEMMA SamePlan ==
  ASSUME Invariant, UNCHANGED <<todo, tx, run>>, pc' = pc \/ (pc = "roots" /\ pc' = "sets"),
         pc = "mutate" => UNCHANGED applied
  PROVE  PlanKnown' /\ PlanStep
<1>1. PlanKnown'
  BY DEF Invariant, PlanKnown, Planning, Injective, Range
<1>2. PlanStep
  BY DEF PlanStep, Planning
<1> QED
  BY <1>1, <1>2

\* What is known of the transactions a restore has still to work on.
LEMMA PlanOf ==
  ASSUME Invariant, pc \in Planning
  PROVE  /\ Plan
         /\ \A i \in DOMAIN todo : i # 1 \/ pc \notin {"mutate", "seal"} => tx[todo[i]].intent = "none"
         /\ \A i \in DOMAIN todo : todo[i] \in Txs /\ todo[i] \in Range(todo)
<1>1. todo \in Seq(Txs)
  BY DEF Invariant, PlanKnown
<1>2. \A i \in DOMAIN todo : todo[i] \in Txs /\ todo[i] \in Range(todo)
  BY <1>1 DEF Range
<1> QED
  BY <1>2 DEF Invariant, PlanKnown, Plan, Planned

\* Every step keeps the plan of a restore and writes only transactions of it.
LEMMA PlanStepLemma ==
  ASSUME Invariant, Next
  PROVE  PlanKnown' /\ PlanStep
<1>1. TxTyped /\ run \in [id : Nat, started : Nat] /\ ordinal \in Nat
  BY DEF Invariant, Typed, TxTyped
<1>2. CASE pc' \notin Planning \cup {"work", "scan", "recover"}
  BY <1>2 DEF PlanKnown, PlanStep
<1>3. CASE pc' = "idle"
  BY <1>2, <1>3 DEF Planning
<1>4. CASE (\E c \in {"restore", "revert"} : Begin(c)) \/ ReconcileLegacyRevertWork \/ ScanPending
           \/ RecoverUndo \/ RecoverRecord \/ BeginDone
  <2>1. pc \in {"work", "scan", "recover"} => todo = <<>>
    BY DEF Invariant, PlanKnown
  <2>2. pc' \in {"idle", "recovered"} \/ (todo' = <<>> /\ pc' \notin {"intent", "mutate", "seal"})
    BY <1>4, <2>1 DEF Begin, ReconcileLegacyRevertWork, ScanPending, RecoverUndo, RecoverRecord,
       BeginDone, Close, Goto
  <2>3. CASE pc' \in {"idle", "recovered"}
    BY <1>2, <2>3 DEF Planning
  <2> QED
    BY <2>2, <2>3, EmptyPlan
<1>5. CASE RootsDone
  BY <1>5, SamePlan DEF RootsDone, Goto, Stay, disk, store
<1>6. CASE InspectNext \/ WorldNext
  <2>1. UNCHANGED <<pc, todo, run>> /\ (pc # "idle" => UNCHANGED <<tx, applied>>)
    BY <1>6 DEF InspectNext, WorldNext, EditJournal, DeleteBackups, EditRecord, SetClockBack,
       ScanStoreInspectionTree, InspectGenerationTransactions, InspectLegacyMembers,
       FinishInspection, guard, disk, store
  <2>2. CASE pc = "idle"
    BY <1>3, <2>1, <2>2
  <2>3. CASE pc # "idle"
    BY <2>1, <2>3, SamePlan
  <2> QED
    BY <2>2, <2>3
<1>7. CASE Mutate
  <2>1. /\ pc = "mutate" /\ pc' = "seal" /\ UNCHANGED <<todo, tx, run>>
    BY <1>7 DEF Mutate, Goto, Stay, store
  <2>2. PlanKnown'
    BY <2>1 DEF Invariant, PlanKnown, Planning, Injective, Range
  <2> QED
    BY <2>1, <2>2 DEF PlanStep, Planning
<1>8. CASE CreateTransactionRoot
  <2>1. PICK t \in Txs : /\ NextRoot(t)
                         /\ \/ tx' = [tx EXCEPT ![t] = Descriptor(ordinal)] /\ ordinal' = ordinal + 1
                               /\ todo' = Append(todo, t)
                            \/ UNCHANGED todo /\ \E d \in {"none", "ok"} :
                                 tx' = [tx EXCEPT ![t] = [Descriptor(ordinal) EXCEPT !.desc = d, !.known = FALSE]]
    BY <1>8 DEF CreateTransactionRoot
  <2>2. pc = "roots" /\ pc' = "roots" /\ UNCHANGED run
    BY <1>8 DEF CreateTransactionRoot, Goto
  <2>3. tx[t] = None /\ t[1] = run.id
    BY <2>1, NextRootIsNew
  <2>4. /\ Plan /\ \A i \in DOMAIN todo : todo[i] \in Txs /\ todo[i] \in Range(todo)
        /\ \A i \in DOMAIN todo : tx[todo[i]].intent = "none"
    BY <2>2, PlanOf DEF Planning
  <2>5. PICK r \in TxRecord : /\ r.intent = "none" /\ tx' = [tx EXCEPT ![t] = r]
                              /\ todo' # todo => r = Descriptor(ordinal)
    BY <1>1, <2>1, DescriptorTyped
  <2>6. Others(t) /\ tx'[t] = r
    BY <1>1, <2>3, <2>5, Creation
  <2>7. \A i \in DOMAIN todo : todo[i] # t /\ tx'[todo[i]] = tx[todo[i]]
    BY <2>3, <2>4, <2>6 DEF Plan, Planned, Others
  <2>8. CASE UNCHANGED todo
    <3>1. PlanKnown'
      BY <2>2, <2>4, <2>7, <2>8 DEF PlanKnown, Plan, Planned, Planning, Injective
    <3>2. PlanStep
      BY <2>2, <2>7, <2>8 DEF PlanStep, Range, Planning
    <3> QED
      BY <3>1, <3>2
  <2>9. CASE todo' = Append(todo, t) /\ todo' # todo /\ ordinal' = ordinal + 1
    <3>1. /\ todo \in Seq(Txs) /\ todo' \in Seq(Txs) /\ Len(todo) \in Nat
          /\ DOMAIN todo = 1..Len(todo) /\ DOMAIN todo' = 1..(Len(todo) + 1)
          /\ \A i \in 1..Len(todo) : todo'[i] = todo[i]
          /\ todo'[Len(todo) + 1] = t
      BY <2>4, <2>9 DEF Plan
    <3>2. \A i \in DOMAIN todo' : todo'[i] = t \/ (i \in DOMAIN todo /\ todo'[i] = todo[i])
      BY <3>1
    <3>3. Injective(todo')
      BY <2>4, <2>7, <3>1 DEF Plan, Injective
    <3>4. /\ tx'[t].desc = "ok" /\ tx'[t].term = "none" /\ tx'[t].rev = "none" /\ tx'[t].intent = "none"
          /\ tx'[t] # None /\ tx'[t].ord = ordinal
      BY <2>5, <2>6, <2>9, NoneIsNoRecord DEF Descriptor
    <3>5. ASSUME NEW i \in DOMAIN todo'
          PROVE  /\ todo'[i][1] = run.id /\ tx'[todo'[i]] # None /\ tx'[todo'[i]].desc = "ok"
                 /\ tx'[todo'[i]].term = "none" /\ tx'[todo'[i]].rev = "none" /\ tx'[todo'[i]].intent = "none"
      BY <2>3, <2>4, <2>7, <3>2, <3>4 DEF Plan, Planned
    <3>6. PlanKnown'
      BY <2>2, <3>1, <3>3, <3>5 DEF PlanKnown, Planning
    <3>7. ASSUME NEW u \in Range(todo')
          PROVE  \/ u \in Range(todo) /\ tx'[u].ord = tx[u].ord
                 \/ u = t
      BY <2>7, <3>2 DEF Range
    <3>8. PlanStep
      BY <2>1, <2>2, <2>9, <3>4, <3>7 DEF PlanStep, Planning
    <3> QED
      BY <3>6, <3>8
  <2> QED
    BY <2>1, <2>8, <2>9
<1>9. CASE PrepareSet
  <2>1. pc = "sets" /\ todo # <<>> /\ pc \in Planning
    BY <1>9 DEF PrepareSet, Planning
  <2>2. todo[1] \in Roots
    BY <2>1, InHand
  <2>3. PICK s \in {"none", "ok"} : /\ tx' = [tx EXCEPT ![todo[1]].snap = s] /\ UNCHANGED run
                                    /\ \/ s = "ok" /\ pc' = "intent" /\ UNCHANGED todo
                                       \/ pc' = "sets" /\ todo' = Tail(todo)
    BY <1>9 DEF PrepareSet, Goto, Stay
  <2>4. /\ Others(todo[1]) /\ tx'[todo[1]] # None /\ tx'[todo[1]].snap = s
        /\ tx'[todo[1]].ord = tx[todo[1]].ord /\ tx'[todo[1]].desc = tx[todo[1]].desc
        /\ tx'[todo[1]].intent = tx[todo[1]].intent
        /\ tx'[todo[1]].term = tx[todo[1]].term /\ tx'[todo[1]].rev = tx[todo[1]].rev
    BY <1>1, <2>2, <2>3, WriteSnap DEF Marks
  <2>5. /\ Plan /\ \A i \in DOMAIN todo : todo[i] \in Txs /\ todo[i] \in Range(todo)
        /\ \A i \in DOMAIN todo : tx[todo[i]].intent = "none"
    BY <2>1, PlanOf
  <2>6. ASSUME NEW i \in DOMAIN todo
        PROVE  /\ todo[i][1] = run.id /\ tx'[todo[i]] # None /\ tx'[todo[i]].desc = "ok"
               /\ tx'[todo[i]].term = "none" /\ tx'[todo[i]].rev = "none" /\ tx'[todo[i]].intent = "none"
               /\ tx'[todo[i]].ord = tx[todo[i]].ord
    BY <2>4, <2>5 DEF Others, Plan, Planned
  <2>7. CASE s = "ok" /\ pc' = "intent" /\ UNCHANGED todo
    <3>1. PlanKnown'
      BY <2>1, <2>3, <2>4, <2>5, <2>6, <2>7 DEF PlanKnown, Plan, Planning, Injective
    <3>2. PlanStep
      BY <2>1, <2>6, <2>7 DEF PlanStep, Range
    <3> QED
      BY <3>1, <3>2
  <2>8. CASE pc' = "sets" /\ todo' = Tail(todo)
    <3>1. /\ todo' \in Seq(Txs) /\ Injective(todo')
          /\ \A i \in DOMAIN todo' : i + 1 \in DOMAIN todo /\ todo'[i] = todo[i + 1]
      BY <2>1, <2>5, <2>8, TailOf DEF Plan
    <3>2. PlanKnown'
      BY <2>3, <2>6, <2>8, <3>1 DEF PlanKnown, Planning
    <3>3. PlanStep
      BY <2>1, <2>6, <3>1 DEF PlanStep, Range
    <3> QED
      BY <3>2, <3>3
  <2> QED
    BY <2>3, <2>7, <2>8
<1>10. CASE PersistIntent
  <2>1. pc = "intent" /\ pc \in Planning
    BY <1>10 DEF PersistIntent, Planning
  <2>2. todo[1] \in Roots /\ todo # <<>> /\ todo[1] \notin Intended /\ todo[1] \in Txs
    BY <2>1, InHand
  <2>3. \/ pc' = "discard"
        \/ tx' = [tx EXCEPT ![todo[1]].intent = "ok"] /\ UNCHANGED <<run, todo, applied>> /\ pc' = "mutate"
    BY <1>10 DEF PersistIntent, Goto, Stay
  <2>4. CASE pc' = "discard"
    BY <1>2, <2>4 DEF Planning
  <2>5. CASE tx' = [tx EXCEPT ![todo[1]].intent = "ok"] /\ UNCHANGED <<run, todo, applied>> /\ pc' = "mutate"
    <3>1. /\ Others(todo[1]) /\ tx'[todo[1]] # None /\ tx'[todo[1]].intent = "ok"
          /\ tx'[todo[1]].ord = tx[todo[1]].ord /\ tx'[todo[1]].desc = tx[todo[1]].desc
          /\ tx'[todo[1]].snap = tx[todo[1]].snap
          /\ tx'[todo[1]].term = tx[todo[1]].term /\ tx'[todo[1]].rev = tx[todo[1]].rev
      BY <1>1, <2>2, <2>5, WriteIntent DEF Marks
    <3>2. /\ Plan /\ \A i \in DOMAIN todo : todo[i] \in Txs /\ todo[i] \in Range(todo)
          /\ \A i \in DOMAIN todo : tx[todo[i]].intent = "none"
      BY <2>1, PlanOf
    <3>3. 1 \in DOMAIN todo /\ tx[todo[1]].snap = "ok"
      BY <2>1, <2>2, <3>2, TailOf DEF Plan, Invariant, PlanKnown
    <3>4. <<"tx", todo[1]>> \notin Range(applied)
      BY <2>2 DEF Invariant, NothingForgotten
    <3>5. ASSUME NEW i \in DOMAIN todo
          PROVE  /\ todo[i][1] = run.id /\ tx'[todo[i]] # None /\ tx'[todo[i]].desc = "ok"
                 /\ tx'[todo[i]].term = "none" /\ tx'[todo[i]].rev = "none"
                 /\ tx'[todo[i]].intent = "none" \/ i = 1
                 /\ tx'[todo[i]].ord = tx[todo[i]].ord
      BY <3>1, <3>2, <3>3 DEF Others, Plan, Planned, Injective
    <3>6. PlanKnown'
      BY <2>2, <2>5, <3>1, <3>2, <3>3, <3>4, <3>5 DEF PlanKnown, Plan, Planning, Injective, Range
    <3>7. PlanStep
      BY <2>1, <2>5, <3>5 DEF PlanStep, Range
    <3> QED
      BY <3>6, <3>7
  <2> QED
    BY <2>3, <2>4, <2>5
<1>11. CASE Seal
  <2>1. pc = "seal" /\ pc \in Planning
    BY <1>11 DEF Seal, Planning
  <2>2. todo[1] \in Roots /\ todo # <<>> /\ todo[1] \in Txs
    BY <2>1, InHand
  <2>3. \/ pc' = "discard"
        \/ pc' = "sets" /\ UNCHANGED run /\ todo' = Tail(todo)
           /\ \E s \in {"committed", "rolled_back"} : tx' = [tx EXCEPT ![todo[1]].term = s]
    BY <1>11 DEF Seal, Goto, Stay
  <2>4. CASE pc' = "discard"
    BY <1>2, <2>4 DEF Planning
  <2>5. CASE pc' = "sets" /\ UNCHANGED run /\ todo' = Tail(todo)
             /\ \E s \in {"committed", "rolled_back"} : tx' = [tx EXCEPT ![todo[1]].term = s]
    <3>1. Others(todo[1])
      BY <1>1, <2>2, <2>5, WriteTerm
    <3>2. /\ Plan /\ \A i \in DOMAIN todo : todo[i] \in Txs /\ todo[i] \in Range(todo)
          /\ \A i \in DOMAIN todo : i # 1 => tx[todo[i]].intent = "none"
      BY <2>1, PlanOf
    <3>3. /\ todo' \in Seq(Txs) /\ Injective(todo')
          /\ \A i \in DOMAIN todo' : i + 1 \in DOMAIN todo /\ todo'[i] = todo[i + 1] /\ todo'[i] # todo[1]
      BY <2>2, <2>5, <3>2, TailOf DEF Plan
    <3>4. ASSUME NEW i \in DOMAIN todo'
          PROVE  /\ todo'[i][1] = run.id /\ tx'[todo'[i]] # None /\ tx'[todo'[i]].desc = "ok"
                 /\ tx'[todo'[i]].term = "none" /\ tx'[todo'[i]].rev = "none" /\ tx'[todo'[i]].intent = "none"
                 /\ tx'[todo'[i]].ord = tx[todo'[i]].ord /\ todo'[i] \in Range(todo)
      <4>1. i + 1 \in DOMAIN todo /\ todo'[i] = todo[i + 1] /\ todo'[i] # todo[1] /\ todo'[i] \in Txs
        BY <3>2, <3>3
      <4>2. tx'[todo'[i]] = tx[todo'[i]]
        BY <3>1, <4>1 DEF Others
      <4>3. i + 1 # 1
        BY <4>1
      <4> QED
        BY <3>2, <4>1, <4>2, <4>3 DEF Plan, Planned
    <3>5. PlanKnown'
      BY <2>5, <3>3, <3>4 DEF PlanKnown, Planning
    <3>6. PlanStep
      BY <2>1, <3>4 DEF PlanStep, Range
    <3> QED
      BY <3>5, <3>6
  <2> QED
    BY <2>3, <2>4, <2>5
<1>12. CASE WriteJournal \/ NoLegacyEntries \/ RegisterLegacyJournal \/ RegisterStandalone \/ SelectHistory \/ NextMember
  <2>1. pc' \in {"register", "discard", "prepare", "next", "undo", "idle"}
    BY <1>12 DEF WriteJournal, NoLegacyEntries, RegisterLegacyJournal, RegisterStandalone, PublishMember,
       SelectHistory, NextMember, Goto, Close
  <2> QED
    BY <1>2, <2>1 DEF Planning
<1>13. CASE RevertGenerationUndo \/ RevertGenerationMember \/ PrepareLegacyMemberRevert \/ RunRevertDurable
           \/ MarkLegacyMemberReverted \/ RetireLegacyMemberRevertWork
  <2>1. pc' \in {"consume", "next", "unlegacy", "mark", "retire", "idle"}
    BY <1>13 DEF RevertGenerationUndo, RevertGenerationMember, PrepareLegacyMemberRevert, RunRevertDurable,
       MarkLegacyMemberReverted, RetireLegacyMemberRevertWork, Goto, Close
  <2> QED
    BY <1>2, <2>1 DEF Planning
<1>14. CASE DiscardTransactionRoots \/ RevertFinished \/ Died
  BY <1>3, <1>14 DEF DiscardTransactionRoots, RevertFinished, Died, Close, Goto
<1> QED
  BY <1>4, <1>5, <1>6, <1>7, <1>8, <1>9, <1>10, <1>11, <1>12, <1>13, <1>14 DEF Next, GuardNext
-----------------------------------------------------------------------------
(* Ordinals *)

\* A transaction that is named for the first time has the next ordinal of its run.
Numbered(t) ==
  \/ t \in Named /\ tx'[t].ord = tx[t].ord
  \/ pc = "roots" /\ NextRoot(t) /\ t \in Txs /\ tx'[t].ord = ordinal /\ ordinal' = ordinal + 1

\* Every transaction that has an intent or may get one kept its ordinal or
\* takes the next one.
LEMMA NumberedNames ==
  ASSUME Invariant, TxStep, PlanStep
  PROVE  \A t \in Named' : Numbered(t)
<1>1. ASSUME NEW t \in Intended' PROVE Numbered(t)
  <2>1. CASE t \in Intended
    BY <2>1 DEF Numbered, Named, TxStep, Recorded
  <2>2. CASE t \notin Intended
    <3>1. Begun(t)
      BY <2>2 DEF TxStep
    <3>2. pc \in Planning /\ todo # <<>> /\ todo \in Seq(Txs)
      BY <3>1 DEF Begun, Planning, Invariant, PlanKnown
    <3>3. t \in Range(todo)
      BY <3>1, <3>2, TailOf, PlanOf DEF Begun
    <3> QED
      BY <3>1, <3>2, <3>3 DEF Begun, Numbered, Named
  <2> QED
    BY <2>1, <2>2
<1>2. ASSUME NEW t \in Range(todo'), pc' \in Planning PROVE Numbered(t)
  BY <1>2 DEF PlanStep, Numbered, Named
<1> QED
  BY <1>1, <1>2 DEF Named

\* There is one next root at a time.
LEMMA NextRootUnique ==
  ASSUME Invariant, pc = "roots", NEW t \in Txs, NEW u \in Txs, NextRoot(t), NextRoot(u)
  PROVE  t = u
<1>1. limits.sets[run.id] \in Nat
  <2>1. limits.sets \in Seq(0..MaxSets) /\ run.id \in 1..Len(limits.sets)
    BY BoundsAreNatural DEF Invariant, Typed, Runs
  <2> QED
    BY <2>1, BoundsAreNatural
<1>2. PICK k \in Fresh : t = <<run.id, k>> /\ \A l \in Fresh : k <= l
  BY DEF NextRoot
<1>3. PICK i \in Fresh : u = <<run.id, i>> /\ \A l \in Fresh : i <= l
  BY DEF NextRoot
<1>4. k \in Nat /\ i \in Nat
  BY <1>1 DEF Fresh
<1> QED
  BY <1>2, <1>3, <1>4

\* A transaction that has an intent or may get one has a root and an ordinal.
LEMMA NamedAreRoots ==
  ASSUME Invariant
  PROVE  \A t \in Named : t \in Roots /\ t \in Txs /\ tx[t].ord \in Nat
<1>1. \A t \in Intended : t \in Roots
  BY DEF Intended
<1>2. pc \in Planning => \A t \in Range(todo) : t \in Roots
  BY PlanOf DEF Range, Plan, Planned, Roots
<1>3. \A t \in Roots : t \in Txs /\ tx[t] \in TxRecord
  BY DEF Roots, Invariant, Typed
<1>4. \A t \in Roots : tx[t].ord \in Nat
  BY <1>3 DEF TxRecord
<1> QED
  BY <1>1, <1>2, <1>3, <1>4 DEF Named

\* Ordinals of one run stay distinct.
LEMMA OrdinalsKnownStep ==
  ASSUME Invariant, GuardStep, TxStep, MemberStep, PlanStep
  PROVE  OrdinalsKnown'
<1>1. OrdinalsKnown /\ Typed /\ RunsSoFar
  BY DEF Invariant
<1>2. \A t \in Named' : Numbered(t)
  BY NumberedNames
<1>3. \A t \in Named : t \in Roots /\ t \in Txs /\ tx[t].ord \in Nat
  BY NamedAreRoots
<1>4. \A m \in Registered : m \in Members /\ members[m].run \in Nat /\ members[m].ord \in Nat
  BY <1>1 DEF Typed, Registered, MemberRecord, Runs
<1>5. ordinal \in Nat /\ nruns \in Nat /\ (pc # "idle" => run.id = nruns)
  BY <1>1 DEF Typed
<1>6. pc = "roots" => \A t \in Txs : NextRoot(t) => t[1] = run.id /\ t \notin Named
  BY <1>3, NextRootIsNew DEF Roots
<1>7. pc \notin {"idle", "discard"} =>
        /\ \A t \in Named : t[1] = run.id => tx[t].ord < ordinal
        /\ \A m \in Registered : members[m].run = run.id => members[m].ord < ordinal
  BY <1>1 DEF OrdinalsKnown
<1>8. ASSUME NEW t \in Named', NEW u \in Named', t[1] = u[1], tx'[t].ord = tx'[u].ord PROVE t = u
  <2>1. CASE t \in Named /\ u \in Named /\ tx'[t].ord = tx[t].ord /\ tx'[u].ord = tx[u].ord
    BY <1>1, <1>8, <2>1 DEF OrdinalsKnown
  <2>2. CASE pc = "roots" /\ NextRoot(t) /\ t \in Txs /\ NextRoot(u) /\ u \in Txs
    BY <2>2, NextRootUnique
  <2>3. ASSUME NEW v \in Named, NEW w \in Txs, pc = "roots", NextRoot(w), tx'[w].ord = ordinal,
               v[1] = w[1], tx'[v].ord = tx[v].ord, tx'[v].ord = tx'[w].ord
        PROVE  FALSE
    <3>1. v[1] = run.id /\ tx[v].ord = ordinal
      BY <1>6, <2>3
    <3>2. tx[v].ord < ordinal
      BY <1>7, <2>3, <3>1
    <3> QED
      BY <1>5, <3>1, <3>2
  <2> QED
    BY <1>2, <1>8, <2>1, <2>2, <2>3 DEF Numbered
<1>9. ASSUME NEW t \in Named', NEW m \in Registered', members'[m].run = t[1] PROVE members'[m].ord # tx'[t].ord
  <2>1. CASE m \in Registered
    <3>1. members'[m] = members[m]
      BY <2>1 DEF MemberStep
    <3>2. CASE t \in Named /\ tx'[t].ord = tx[t].ord
      BY <1>1, <1>9, <2>1, <3>1, <3>2 DEF OrdinalsKnown
    <3>3. CASE pc = "roots" /\ NextRoot(t) /\ t \in Txs /\ tx'[t].ord = ordinal
      BY <1>4, <1>5, <1>6, <1>7, <1>9, <2>1, <3>1, <3>3
    <3> QED
      BY <1>2, <3>2, <3>3 DEF Numbered
  <2>2. CASE m \notin Registered
    <3>1. pc \in {"register", "next"} /\ members'[m].run = run.id /\ members'[m].ord = ordinal
      BY <2>2 DEF MemberStep
    <3>2. t \in Named /\ tx'[t].ord = tx[t].ord
      BY <1>2, <3>1 DEF Numbered
    <3>3. tx[t].ord < ordinal
      BY <1>7, <1>9, <3>1, <3>2
    <3> QED
      BY <1>5, <3>1, <3>2, <3>3
  <2> QED
    BY <2>1, <2>2
<1>10. ASSUME NEW m \in Registered', NEW n \in Registered',
              members'[m].run = members'[n].run, members'[m].ord = members'[n].ord
       PROVE  m = n
  <2>1. CASE m \in Registered /\ n \in Registered
    BY <1>1, <1>10, <2>1 DEF OrdinalsKnown, MemberStep
  <2>2. CASE m \notin Registered /\ n \notin Registered
    BY <2>2 DEF MemberStep
  <2>3. ASSUME NEW a \in Registered, NEW b \in Registered', b \notin Registered,
               members'[a].run = members'[b].run, members'[a].ord = members'[b].ord
        PROVE  FALSE
    <3>1. pc \in {"register", "next"} /\ members'[b].run = run.id /\ members'[b].ord = ordinal
          /\ members'[a] = members[a]
      BY <2>3 DEF MemberStep
    <3> QED
      BY <1>4, <1>5, <1>7, <2>3, <3>1
  <2> QED
    BY <1>10, <2>1, <2>2, <2>3
<1>11. ASSUME pc' \notin {"idle", "discard"}
       PROVE  /\ \A t \in Named' : t[1] = run'.id => tx'[t].ord < ordinal'
              /\ \A m \in Registered' : members'[m].run = run'.id => members'[m].ord < ordinal'
  <2>1. CASE Beginning
    <3>1. run'.id = nruns + 1
      BY <2>1 DEF Beginning
    <3>2. \A t \in Roots : t[1] <= nruns /\ t[1] \in Nat
      BY <1>1 DEF RunsSoFar, Roots, Txs, Runs
    <3>3. \A m \in Registered : members[m].run <= nruns
      BY <1>1 DEF RunsSoFar
    <3>4. \A t \in Named' : t \in Named \/ (pc = "roots" /\ t[1] = run.id)
      BY <1>2, <1>6 DEF Numbered
    <3>5. \A t \in Named' : t[1] # run'.id
      BY <1>3, <1>5, <3>1, <3>2, <3>4
    <3>6. \A m \in Registered' : members'[m].run # run'.id
      BY <1>4, <1>5, <3>1, <3>3 DEF MemberStep
    <3> QED
      BY <3>5, <3>6
  <2>2. CASE ~Beginning
    <3>1. pc \notin {"idle", "discard"} /\ UNCHANGED run /\ ordinal' \in {ordinal, ordinal + 1}
      BY <1>11, <2>2 DEF GuardStep, Ended, Aside, Flow
    <3>2. ASSUME NEW t \in Named', t[1] = run'.id PROVE tx'[t].ord < ordinal'
      <4>1. CASE t \in Named /\ tx'[t].ord = tx[t].ord
        BY <1>3, <1>5, <1>7, <3>1, <3>2, <4>1
      <4>2. CASE tx'[t].ord = ordinal /\ ordinal' = ordinal + 1
        BY <1>5, <4>2
      <4> QED
        BY <1>2, <4>1, <4>2 DEF Numbered
    <3>3. ASSUME NEW m \in Registered', members'[m].run = run'.id PROVE members'[m].ord < ordinal'
      <4>1. CASE m \in Registered
        <5>1. members'[m] = members[m]
          BY <4>1 DEF MemberStep
        <5> QED
          BY <1>4, <1>5, <1>7, <3>1, <3>3, <4>1, <5>1
      <4>2. CASE m \notin Registered
        <5>1. members'[m].ord = ordinal /\ ordinal' = ordinal + 1
          BY <1>11, <4>2 DEF MemberStep
        <5> QED
          BY <1>5, <5>1
      <4> QED
        BY <4>1, <4>2
    <3> QED
      BY <3>2, <3>3
  <2> QED
    BY <2>1, <2>2
<1> QED
  BY <1>8, <1>9, <1>10, <1>11 DEF OrdinalsKnown
-----------------------------------------------------------------------------
(* The members a revert works on *)

Items == ({"generation"} \X Txs) \cup ({"legacy"} \X Members) \cup ({"journal"} \X Runs)

\* There are finitely many active members.
LEMMA ActiveFinite == IsFiniteSet(ActiveMembers)
<1>1. MaxRuns \in Int /\ MaxSets \in Int
  BY BoundsAreNatural
<1>2. IsFiniteSet(Runs) /\ IsFiniteSet(1..MaxSets) /\ IsFiniteSet(0..1)
  <2>1. 0 \in Int /\ 1 \in Int
    OBVIOUS
  <2>2. \A a, b \in Int : IsFiniteSet(a..b)
    BY FS_Interval
  <2> QED
    BY <1>1, <2>1, <2>2, Zenon DEF Runs
<1>3. 0..1 = {0, 1}
  OBVIOUS
<1>4. IsFiniteSet(Txs) /\ IsFiniteSet(Members)
  BY <1>2, <1>3, FS_Product DEF Txs, Members
<1>5. ActiveTxs \in SUBSET Txs /\ ActiveJournals \in SUBSET Members
  BY DEF ActiveTxs, Intended, Roots, ActiveJournals, Registered
<1>6. IsFiniteSet(ActiveTxs) /\ IsFiniteSet(ActiveJournals)
  BY <1>4, <1>5, FS_Subset
<1>7. IsFiniteSet({Generation(t) : t \in ActiveTxs})
  <2> DEFINE f == [t \in ActiveTxs |-> Generation(t)]
  <2>1. f \in Surjection(ActiveTxs, {Generation(t) : t \in ActiveTxs})
    BY DEF Surjection
  <2> QED
    BY <1>6, <2>1, FS_Surjection
<1>8. IsFiniteSet({Legacy(m) : m \in ActiveJournals})
  <2> DEFINE f == [m \in ActiveJournals |-> Legacy(m)]
  <2>1. f \in Surjection(ActiveJournals, {Legacy(m) : m \in ActiveJournals})
    BY DEF Surjection
  <2> QED
    BY <1>6, <2>1, FS_Surjection
<1> QED
  BY <1>7, <1>8, FS_Union DEF ActiveMembers

\* An active member can be reverted as an item of a revert plan.
LEMMA ActiveAreItems ==
  ASSUME NEW a \in ActiveMembers
  PROVE  Targets(a) \in Items /\ ItemKnown(Targets(a))
<1>1. CASE \E t \in ActiveTxs : a = Generation(t)
  <2>1. PICK t \in ActiveTxs : a = Generation(t)
    BY <1>1
  <2>2. t \in Intended /\ t \in Txs
    BY DEF ActiveTxs, Intended, Roots
  <2>3. Targets(a) = <<"generation", t>>
    BY <2>1 DEF Targets, Generation
  <2> QED
    BY <2>2, <2>3 DEF Items, ItemKnown
<1>2. CASE \E m \in ActiveJournals : a = Legacy(m)
  <2>1. PICK m \in ActiveJournals : a = Legacy(m)
    BY <1>2
  <2>2. m \in Registered /\ m \in Members
    BY DEF ActiveJournals, Registered
  <2>3. Targets(a) = <<"legacy", m>>
    BY <2>1 DEF Targets, Legacy
  <2> QED
    BY <2>2, <2>3 DEF Items, ItemKnown
<1> QED
  BY <1>1, <1>2 DEF ActiveMembers

\* A revert plan consists of items whose records are there.
LEMMA SelectedAreItems ==
  ASSUME NEW seq \in MembersOf(NewestRun)
  PROVE  /\ Reverse(RevertMembers(seq)) \in Seq(Items)
         /\ \A i \in DOMAIN Reverse(RevertMembers(seq)) : ItemKnown(Reverse(RevertMembers(seq))[i])
<1> DEFINE S == {m \in ActiveMembers : m.run = NewestRun}
           n == Cardinality(S)
           Known == {e \in Items : ItemKnown(e)}
           own == [i \in DOMAIN seq |-> Targets(seq[i])]
           last == IF Synthetic THEN << <<"journal", NewestRun>> >> ELSE <<>>
<1>1. n \in Nat
  <2>1. S \in SUBSET ActiveMembers
    OBVIOUS
  <2>2. IsFiniteSet(S)
    BY <2>1, ActiveFinite, FS_Subset
  <2> QED
    BY <2>2, FS_CardinalityType
<1>2. seq \in [1..n -> S]
  BY DEF MembersOf, SetToSeqs
<1>3. \A a \in S : Targets(a) \in Known
  BY ActiveAreItems
<1> HIDE DEF S, n, Known
<1>4. own \in Seq(Known)
  <2>1. own \in [1..n -> Known]
    BY <1>2, <1>3
  <2> QED
    BY <1>1, <2>1, SeqDef
<1>5. last \in Seq(Known)
  <2>1. CASE Synthetic
    <3>1. NewestRun \in Runs /\ journals[NewestRun] # None
      BY <2>1 DEF Synthetic, LatestJournal
    <3>2. <<"journal", NewestRun>> \in Known
      BY <3>1 DEF Known, Items, ItemKnown
    <3> QED
      BY <2>1, <3>2
  <2>2. CASE ~Synthetic
    BY <2>2
  <2> QED
    BY <2>1, <2>2
<1>6. RevertMembers(seq) = own \o last
  BY DEF RevertMembers
<1> HIDE DEF own, last
<1> DEFINE all == RevertMembers(seq)
<1>7. all \in Seq(Known)
  BY <1>4, <1>5, <1>6, ConcatProperties
<1> HIDE DEF all
<1>8. Len(all) \in Nat /\ \A i \in 1..Len(all) : all[i] \in Known
  BY <1>7
<1>9. \A i \in 1..Len(all) : (Len(all) - i) + 1 \in 1..Len(all)
  BY <1>8
<1>10. Reverse(all) = [i \in 1..Len(all) |-> all[(Len(all) - i) + 1]]
  BY DEF Reverse
<1>11. Reverse(all) \in [1..Len(all) -> Known]
  BY <1>8, <1>9, <1>10
<1>12. Reverse(all) \in Seq(Known)
  BY <1>8, <1>11, SeqDef
<1>13. Reverse(all) \in Seq(Items)
  BY <1>12, SeqMonotonic DEF Known
<1>14. \A i \in DOMAIN Reverse(all) : ItemKnown(Reverse(all)[i])
  BY <1>11 DEF Known
<1> QED
  BY <1>13, <1>14 DEF all

\* What a revert has to do stays known.
StillKnown(e) ==
  \/ e \in {"generation"} \X Txs /\ e[2] \in Intended'
  \/ e \in {"legacy"} \X Members /\ e[2] \in Registered'
  \/ e \in {"journal"} \X Runs /\ journals'[e[2]] # None

\* An item of a revert plan stays one.
LEMMA ItemsStay ==
  ASSUME TxStep, MemberStep, JournalStep, NEW e, ItemKnown(e)
  PROVE  StillKnown(e)
<1>1. CASE e \in {"generation"} \X Txs /\ e[2] \in Intended
  BY <1>1 DEF StillKnown, TxStep, Recorded
<1>2. CASE e \in {"legacy"} \X Members /\ e[2] \in Registered
  BY <1>2 DEF StillKnown, MemberStep
<1>3. CASE e \in {"journal"} \X Runs /\ journals[e[2]] # None
  BY <1>3 DEF StillKnown, JournalStep
<1> QED
  BY <1>1, <1>2, <1>3 DEF ItemKnown

\* Every step keeps what is known of the revert plan.
LEMMA RevertKnownStep ==
  ASSUME Invariant, Next, TxStep, MemberStep, JournalStep
  PROVE  RevertKnown'
<1>1. ASSUME pc \in Reverting
      PROVE  /\ todo \in Seq(Items) /\ \A i \in DOMAIN todo : ItemKnown(todo[i]) /\ StillKnown(todo[i])
             /\ todo # <<>> => ItemKnown(todo[1])
  <2>1. todo \in Seq(Items) /\ \A i \in DOMAIN todo : ItemKnown(todo[i])
    BY <1>1 DEF Invariant, RevertKnown, Items
  <2>2. \A i \in DOMAIN todo : StillKnown(todo[i])
    BY <2>1, ItemsStay
  <2>3. todo # <<>> => 1 \in DOMAIN todo
    BY <2>1
  <2> QED
    BY <2>1, <2>2, <2>3
<1>2. CASE pc' \notin Reverting
  BY <1>2 DEF RevertKnown
<1>3. ASSUME pc \in Reverting, UNCHANGED todo,
             pc' \in {"undo", "consume"} => todo # <<>> /\ todo[1][1] = "generation",
             pc' \in {"prepare", "unlegacy", "mark", "retire"} => todo # <<>> /\ todo[1][1] = "legacy"
      PROVE  RevertKnown'
  BY <1>1, <1>3 DEF RevertKnown, Items, ItemKnown, StillKnown
<1>4. ASSUME pc \in Reverting, todo # <<>>, todo' = Tail(todo), pc' = "next"
      PROVE  RevertKnown'
  <2>1. /\ todo' \in Seq(Items)
        /\ \A i \in DOMAIN todo' : i + 1 \in DOMAIN todo /\ todo'[i] = todo[i + 1]
    BY <1>1, <1>4, TailOf
  <2>2. \A i \in DOMAIN todo' : StillKnown(todo'[i])
    BY <1>1, <1>4, <2>1
  <2> QED
    BY <1>4, <2>1, <2>2 DEF RevertKnown, Items, ItemKnown, StillKnown
<1>5. /\ pc \in {"undo", "consume"} => todo # <<>> /\ todo[1][1] = "generation"
      /\ pc \in {"prepare", "unlegacy", "mark", "retire"} => todo # <<>> /\ todo[1][1] = "legacy"
  BY DEF Invariant, RevertKnown, Reverting
<1>6. CASE SelectHistory
  <2>1. \/ pc' = "idle"
        \/ pc' = "next" /\ \E seq \in MembersOf(NewestRun) : todo' = Reverse(RevertMembers(seq))
        \/ pc' = "next" /\ \E j \in Runs : LatestJournal(j) /\ todo' = << <<"journal", j>> >>
    BY <1>6 DEF SelectHistory, Close, Goto
  <2>2. CASE pc' = "idle"
    BY <1>2, <2>2 DEF Reverting
  <2>3. CASE pc' = "next" /\ \E seq \in MembersOf(NewestRun) : todo' = Reverse(RevertMembers(seq))
    <3>1. todo' \in Seq(Items) /\ \A i \in DOMAIN todo' : ItemKnown(todo'[i])
      BY <2>3, SelectedAreItems
    <3>2. \A i \in DOMAIN todo' : StillKnown(todo'[i])
      BY <3>1, ItemsStay
    <3> QED
      BY <2>3, <3>1, <3>2 DEF RevertKnown, Items, ItemKnown, StillKnown
  <2>4. CASE pc' = "next" /\ \E j \in Runs : LatestJournal(j) /\ todo' = << <<"journal", j>> >>
    <3>1. PICK j \in Runs : journals[j] # None /\ todo' = << <<"journal", j>> >>
      BY <2>4 DEF LatestJournal
    <3>2. todo' \in Seq(Items) /\ ItemKnown(<<"journal", j>>)
      BY <3>1 DEF Items, ItemKnown
    <3>3. StillKnown(<<"journal", j>>)
      BY <3>2, ItemsStay
    <3>4. \A i \in DOMAIN todo' : todo'[i] = <<"journal", j>>
      BY <3>1
    <3> QED
      BY <2>4, <3>2, <3>3, <3>4 DEF RevertKnown, Items, ItemKnown, StillKnown
  <2> QED
    BY <2>1, <2>2, <2>3, <2>4
<1>7. CASE RegisterStandalone
  <2>1. pc = "next" /\ todo # <<>> /\ todo[1][1] = "journal" /\ PublishMember(CurrentMember(todo[1][2]), "prepare")
    BY <1>7 DEF RegisterStandalone, Head1
  <2>2. pc \in Reverting
    BY <2>1 DEF Reverting
  <2>3. todo[1][2] \in Runs /\ journals[todo[1][2]] # None
    BY <1>1, <2>1, <2>2 DEF ItemKnown
  <2> DEFINE m == CurrentMember(todo[1][2])
  <2>4. m \in Members
    BY <2>3 DEF CurrentMember, Members, Invariant, Typed, JournalRecord
  <2>5. \/ pc' = "discard"
        \/ pc' = "prepare" /\ members' = NewMember(m) /\ todo' = << <<"legacy", m>> >> \o Tail(todo)
    BY <2>1 DEF PublishMember, Goto
  <2> HIDE DEF m
  <2>6. CASE pc' = "discard"
    BY <1>2, <2>6 DEF Reverting
  <2>7. CASE pc' = "prepare" /\ members' = NewMember(m) /\ todo' = << <<"legacy", m>> >> \o Tail(todo)
    <3>1. m \in Registered'
      <4>1. [run |-> run.id, started |-> run.started, ord |-> ordinal] \in MemberRecord
        BY <2>1 DEF Invariant, Typed, MemberRecord
      <4> QED
        BY <2>4, <2>7, <4>1, NoneIsNoRecord DEF NewMember, Registered, Invariant, Typed
    <3> DEFINE a == << <<"legacy", m>> >>
               b == Tail(todo)
    <3>2. <<"legacy", m>> \in Items
      BY <2>4 DEF Items
    <3>3. a \in Seq(Items) /\ Len(a) = 1 /\ a[1] = <<"legacy", m>>
      BY <3>2
    <3>4. b \in Seq(Items) /\ \A i \in DOMAIN b : i + 1 \in DOMAIN todo /\ b[i] = todo[i + 1]
      BY <1>1, <2>1, <2>2, TailOf
    <3> HIDE DEF a, b
    <3>5. /\ todo' \in Seq(Items) /\ Len(todo') = Len(a) + Len(b)
          /\ \A i \in 1..(Len(a) + Len(b)) : todo'[i] = IF i <= Len(a) THEN a[i] ELSE b[i - Len(a)]
      BY <2>7, <3>3, <3>4, ConcatProperties DEF a, b
    <3>6. Len(b) \in Nat /\ DOMAIN b = 1..Len(b) /\ DOMAIN todo' = 1..(1 + Len(b))
      BY <3>3, <3>4, <3>5
    <3>7. todo'[1] = <<"legacy", m>> /\ todo' # <<>>
      BY <3>3, <3>5, <3>6
    <3>8. \A i \in DOMAIN todo' : i = 1 \/ \E k \in DOMAIN b : todo'[i] = b[k]
      <4>1. ASSUME NEW i \in DOMAIN todo', i # 1 PROVE \E k \in DOMAIN b : todo'[i] = b[k]
        <5>1. i - 1 \in DOMAIN b /\ todo'[i] = b[i - 1]
          BY <3>3, <3>5, <3>6, <4>1
        <5> QED
          BY <5>1
      <4> QED
        BY <4>1
    <3>9. \A k \in DOMAIN b : StillKnown(b[k])
      <4>1. \A k \in DOMAIN b : ItemKnown(b[k])
        BY <1>1, <2>2, <3>4
      <4> QED
        BY <4>1, ItemsStay
    <3>10. StillKnown(<<"legacy", m>>)
      BY <2>4, <3>1 DEF StillKnown
    <3>11. \A i \in DOMAIN todo' : StillKnown(todo'[i])
      BY <3>7, <3>8, <3>9, <3>10
    <3> QED
      BY <2>7, <3>5, <3>7, <3>11 DEF RevertKnown, Items, ItemKnown, StillKnown
  <2> QED
    BY <2>5, <2>6, <2>7
<1>8. CASE NextMember
  <2>1. pc = "next" /\ todo # <<>> /\ todo[1][1] # "journal" /\ UNCHANGED todo
        /\ pc' = IF todo[1][1] = "generation" THEN "undo" ELSE "prepare"
    BY <1>8 DEF NextMember, Head1, Goto
  <2>2. pc \in Reverting
    BY <2>1 DEF Reverting
  <2>3. todo[1][1] \in {"generation", "legacy"}
    BY <1>1, <2>1, <2>2 DEF ItemKnown
  <2> QED
    BY <1>3, <2>1, <2>2, <2>3
<1>9. CASE RevertGenerationUndo \/ PrepareLegacyMemberRevert \/ RunRevertDurable \/ MarkLegacyMemberReverted
  <2>1. \/ pc' = "idle"
        \/ UNCHANGED todo /\ pc = "undo" /\ pc' = "consume"
        \/ UNCHANGED todo /\ pc \in {"prepare", "unlegacy", "mark"} /\ pc' \in {"unlegacy", "mark", "retire"}
    BY <1>9 DEF RevertGenerationUndo, PrepareLegacyMemberRevert, RunRevertDurable,
       MarkLegacyMemberReverted, Goto, Close
  <2>2. CASE pc' = "idle"
    BY <1>2, <2>2 DEF Reverting
  <2> QED
    BY <1>3, <1>5, <2>1, <2>2 DEF Reverting
<1>10. CASE RevertGenerationMember \/ RetireLegacyMemberRevertWork
  <2>1. \/ pc' = "idle"
        \/ pc \in {"consume", "retire"} /\ todo' = Tail(todo) /\ pc' = "next"
    BY <1>10 DEF RevertGenerationMember, RetireLegacyMemberRevertWork, Goto, Close
  <2>2. CASE pc' = "idle"
    BY <1>2, <2>2 DEF Reverting
  <2> QED
    BY <1>4, <1>5, <2>1, <2>2 DEF Reverting
<1>11. CASE InspectNext \/ WorldNext
  <2>1. UNCHANGED <<pc, todo>>
    BY <1>11 DEF InspectNext, WorldNext, EditJournal, DeleteBackups, EditRecord, SetClockBack,
       ScanStoreInspectionTree, InspectGenerationTransactions, InspectLegacyMembers,
       FinishInspection, guard
  <2> QED
    BY <1>2, <1>3, <1>5, <2>1
<1>12. CASE (\E c \in {"restore", "revert"} : Begin(c)) \/ ReconcileLegacyRevertWork \/ ScanPending
           \/ RecoverUndo \/ RecoverRecord \/ BeginDone
  <2>1. pc' \in {"idle", "work", "scan", "recover", "recovered", "roots", "select"}
    BY <1>12 DEF Begin, ReconcileLegacyRevertWork, ScanPending, RecoverUndo, RecoverRecord,
       BeginDone, Close, Goto
  <2> QED
    BY <1>2, <2>1 DEF Reverting
<1>13. CASE CreateTransactionRoot \/ RootsDone \/ PrepareSet \/ PersistIntent \/ Mutate \/ Seal
           \/ WriteJournal \/ NoLegacyEntries \/ RegisterLegacyJournal
  <2>1. pc' \in {"roots", "sets", "intent", "mutate", "seal", "register", "discard"}
    BY <1>13 DEF CreateTransactionRoot, RootsDone, PrepareSet, PersistIntent, Mutate, Seal,
       WriteJournal, NoLegacyEntries, RegisterLegacyJournal, PublishMember, Goto
  <2> QED
    BY <1>2, <2>1 DEF Reverting
<1>14. CASE DiscardTransactionRoots \/ RevertFinished \/ Died
  <2>1. pc' = "idle"
    BY <1>14 DEF DiscardTransactionRoots, RevertFinished, Died, Close, Goto
  <2> QED
    BY <1>2, <2>1 DEF Reverting
<1> QED
  BY <1>6, <1>7, <1>8, <1>9, <1>10, <1>11, <1>12, <1>13, <1>14 DEF Next, GuardNext

\* A transaction is undone before its revert record is written.
LEMMA UndoneFirstStep ==
  ASSUME Invariant, Next, TxStep
  PROVE  UndoneFirst'
<1>1. applied \in Seq(Effects) /\ Injective(applied)
  BY DEF Invariant, Typed
<1>2. CASE pc' \notin {"recovered", "consume", "mark"}
  BY <1>2 DEF UndoneFirst
<1>3. CASE RecoverUndo
  <2>1. \/ pc' = "idle"
        \/ /\ pc' = "recovered"
           /\ \E t \in Pending : applied' = Without(applied, <<"tx", t>>) /\ todo' = <<t>>
    BY <1>3 DEF RecoverUndo, Close, Goto
  <2>2. CASE pc' = "recovered" /\ \E t \in Pending : applied' = Without(applied, <<"tx", t>>) /\ todo' = <<t>>
    <3>1. PICK t \in Pending : applied' = Without(applied, <<"tx", t>>) /\ todo' = <<t>>
      BY <2>2
    <3>2. t \in Intended /\ t \in Txs
      BY DEF Pending, Intended, Roots
    <3>3. t \in Intended'
      BY <3>2 DEF TxStep, Recorded
    <3>4. <<"tx", t>> \notin Range(applied')
      BY <1>1, <3>1, DropEffect
    <3>5. todo' \in Seq(Txs) /\ todo' # <<>> /\ todo'[1] = t
      BY <3>1, <3>2
    <3> QED
      BY <2>2, <3>3, <3>4, <3>5 DEF UndoneFirst
  <2> QED
    BY <1>2, <2>1, <2>2
<1>4. CASE RevertGenerationUndo
  <2>1. pc' = "idle" \/ (pc' = "consume" /\ applied' = Without(applied, <<"tx", todo[1][2]>>) /\ UNCHANGED todo)
    BY <1>4 DEF RevertGenerationUndo, Close, Goto, Head1
  <2>2. CASE pc' = "consume" /\ applied' = Without(applied, <<"tx", todo[1][2]>>) /\ UNCHANGED todo
    <3>1. <<"tx", todo[1][2]>> \notin Range(applied')
      BY <1>1, <2>2, DropEffect
    <3> QED
      BY <2>2, <3>1 DEF UndoneFirst
  <2> QED
    BY <1>2, <2>1, <2>2
<1>5. CASE RunRevertDurable
  <2>1. pc' = "idle" \/ (pc' = "mark" /\ applied' = Without(applied, <<"journal", todo[1][2][1]>>) /\ UNCHANGED todo)
    BY <1>5 DEF RunRevertDurable, Close, Goto, Head1
  <2>2. CASE pc' = "mark" /\ applied' = Without(applied, <<"journal", todo[1][2][1]>>) /\ UNCHANGED todo
    <3>1. <<"journal", todo[1][2][1]>> \notin Range(applied')
      BY <1>1, <2>2, DropEffect
    <3> QED
      BY <2>2, <3>1 DEF UndoneFirst
  <2> QED
    BY <1>2, <2>1, <2>2
<1>6. CASE InspectNext \/ WorldNext
  <2>1. UNCHANGED <<pc, todo>> /\ (pc # "idle" => UNCHANGED applied)
    BY <1>6 DEF InspectNext, WorldNext, EditJournal, DeleteBackups, EditRecord, SetClockBack,
       ScanStoreInspectionTree, InspectGenerationTransactions, InspectLegacyMembers,
       FinishInspection, guard, disk
  <2>2. ASSUME pc' = "recovered"
        PROVE  todo' \in Seq(Txs) /\ todo' # <<>> /\ todo'[1] \in Intended' /\ <<"tx", todo'[1]>> \notin Range(applied')
    BY <2>1, <2>2 DEF Invariant, UndoneFirst, TxStep, Recorded
  <2>3. pc' = "consume" => <<"tx", todo'[1][2]>> \notin Range(applied')
    BY <2>1 DEF Invariant, UndoneFirst
  <2>4. pc' = "mark" => <<"journal", todo'[1][2][1]>> \notin Range(applied')
    BY <2>1 DEF Invariant, UndoneFirst
  <2> QED
    BY <2>2, <2>3, <2>4 DEF UndoneFirst
<1>7. CASE (\E c \in {"restore", "revert"} : Begin(c)) \/ ReconcileLegacyRevertWork \/ ScanPending
           \/ RecoverRecord \/ BeginDone \/ CreateTransactionRoot \/ RootsDone \/ PrepareSet
  <2>1. pc' \notin {"recovered", "consume", "mark"}
    BY <1>7 DEF Begin, ReconcileLegacyRevertWork, ScanPending, RecoverRecord,
       BeginDone, CreateTransactionRoot, RootsDone, PrepareSet, Close, Goto
  <2> QED
    BY <1>2, <2>1
<1>8. CASE PersistIntent \/ Mutate \/ Seal \/ WriteJournal \/ NoLegacyEntries \/ RegisterLegacyJournal
           \/ DiscardTransactionRoots \/ RevertFinished \/ Died
  <2>1. pc' \notin {"recovered", "consume", "mark"}
    BY <1>8 DEF PersistIntent, Mutate, Seal, WriteJournal, NoLegacyEntries, RegisterLegacyJournal,
       PublishMember, DiscardTransactionRoots, RevertFinished, Died, Close, Goto
  <2> QED
    BY <1>2, <2>1
<1>9. CASE SelectHistory \/ RegisterStandalone \/ NextMember \/ RevertGenerationMember
           \/ PrepareLegacyMemberRevert \/ MarkLegacyMemberReverted \/ RetireLegacyMemberRevertWork
  <2>1. pc' \notin {"recovered", "consume", "mark"}
    BY <1>9 DEF SelectHistory, RegisterStandalone, PublishMember, NextMember, RevertGenerationMember,
       PrepareLegacyMemberRevert, MarkLegacyMemberReverted, RetireLegacyMemberRevertWork, Close, Goto
  <2> QED
    BY <1>2, <2>1
<1> QED
  BY <1>3, <1>4, <1>5, <1>6, <1>7, <1>8, <1>9 DEF Next, GuardNext
-----------------------------------------------------------------------------
(* The invariant and what it implies *)

\* The invariant holds of an empty store.
LEMMA InvariantInitially ==
  ASSUME Init
  PROVE  Invariant
<1>1. /\ tx = [t \in Txs |-> None] /\ members = [m \in Members |-> None] /\ reverts = {} /\ work = {}
      /\ journals = [r \in Runs |-> None] /\ applied = <<>> /\ pc = "idle" /\ run = NoRun /\ ordinal = 0
      /\ todo = <<>> /\ nruns = 0 /\ clock = 0 /\ edits = 0 /\ limits \in Limits
  BY DEF Init
<1>2. Roots = {} /\ Registered = {} /\ \A r \in Runs : journals[r] = None
  BY <1>1 DEF Roots, Registered
<1>3. Intended = {} /\ Named = {}
  BY <1>1, <1>2 DEF Intended, Named, Planning
<1>4. applied \in Seq(Effects) /\ Range(applied) = {} /\ Injective(applied)
  BY <1>1 DEF Range, Injective
<1>5. Typed
  <2>1. run \in [id : Nat, started : Nat]
    BY <1>1 DEF NoRun
  <2>2. nruns \in 0..MaxRuns
    BY <1>1, BoundsAreNatural
  <2> QED
    BY <1>1, <1>4, <2>1, <2>2 DEF Typed
<1>6. PlanKnown /\ RevertKnown /\ UndoneFirst
  BY <1>1 DEF PlanKnown, RevertKnown, UndoneFirst, Planning, Reverting
<1>7. RunsSoFar
  BY <1>1, <1>2 DEF RunsSoFar, Opening, Planning
<1>8. OrdinalsKnown
  BY <1>1, <1>2, <1>3 DEF OrdinalsKnown
<1>9. MembersKnown /\ NothingForgotten /\ RecordsSound
  BY <1>1, <1>2, <1>3, <1>4 DEF MembersKnown, NothingForgotten, RecordsSound
<1> QED
  BY <1>5, <1>6, <1>7, <1>8, <1>9 DEF Invariant

\* The invariant is about the variables alone.
LEMMA InvariantStutters ==
  ASSUME Invariant, UNCHANGED vars
  PROVE  Invariant'
<1>1. UNCHANGED <<tx, members, reverts, work, journals, applied, pc, run, ordinal, todo, nruns, clock, edits, limits>>
  BY DEF vars, disk, store, guard, counts
<1>2. Roots' = Roots /\ Registered' = Registered
  BY <1>1 DEF Roots, Registered
<1>3. Intended' = Intended
  BY <1>1, <1>2 DEF Intended, HasIntent
<1>4. Range(applied') = Range(applied) /\ (Injective(applied) <=> Injective(applied'))
      /\ (Injective(todo) <=> Injective(todo'))
  BY <1>1
<1>5. Named' = Named
  BY <1>1, <1>3 DEF Named
<1>6. Typed'
  BY <1>1, <1>4 DEF Invariant, Typed
<1>7. PlanKnown'
  BY <1>1, <1>4 DEF Invariant, PlanKnown
<1>8. RevertKnown'
  BY <1>1, <1>2, <1>3 DEF Invariant, RevertKnown, ItemKnown
<1>9. UndoneFirst' /\ RunsSoFar'
  BY <1>1, <1>2, <1>3, <1>4 DEF Invariant, UndoneFirst, RunsSoFar
<1>10. OrdinalsKnown'
  BY <1>1, <1>2, <1>5 DEF Invariant, OrdinalsKnown
<1>11. MembersKnown' /\ NothingForgotten' /\ RecordsSound'
  BY <1>1, <1>2, <1>3, <1>4 DEF Invariant, MembersKnown, NothingForgotten, RecordsSound
<1> QED
  BY <1>6, <1>7, <1>8, <1>9, <1>10, <1>11 DEF Invariant

\* Every step keeps the invariant.
LEMMA InvariantStep ==
  ASSUME Invariant, [Next]_vars
  PROVE  Invariant'
<1>1. CASE Next
  <2>1. TxStep /\ MemberStep /\ JournalStep /\ HostStep /\ RevertStep /\ GuardStep
    BY <1>1, TxStepLemma, MemberStepLemma, JournalStepLemma, HostStepLemma, RevertStepLemma, GuardStepLemma
  <2>2. PlanKnown' /\ PlanStep
    BY <1>1, PlanStepLemma
  <2>3. Typed' /\ RecordsSound' /\ RunsSoFar'
    BY <2>1, TypedStep, RecordsSoundStep, RunsSoFarStep
  <2>4. OrdinalsKnown'
    BY <2>1, <2>2, OrdinalsKnownStep
  <2>5. NothingForgotten' /\ MembersKnown'
    BY <1>1, <2>1, NothingForgottenStep, MembersKnownStep
  <2>6. RevertKnown' /\ UndoneFirst'
    BY <1>1, <2>1, RevertKnownStep, UndoneFirstStep
  <2> QED
    BY <2>2, <2>3, <2>4, <2>5, <2>6 DEF Invariant
<1> QED
  BY <1>1, InvariantStutters

\* The facts on records, runs, numbers and plans of the store hold
\* throughout, whatever dies, fails or disturbs the store.
THEOREM InvariantCorrect == Spec => []Invariant
<1>1. Init => Invariant
  BY InvariantInitially
<1>2. Invariant /\ [Next]_vars => Invariant'
  BY InvariantStep
<1> QED
  BY <1>1, <1>2, PTL DEF Spec

\* As long as the effect of a restore is on the host, the store or the logs
\* say so, whenever a command dies and whatever fails: a rolled-back record, a
\* consumption and a removal all come after the undoing they stand for.
THEOREM NothingForgottenCorrect == Spec => []NothingForgotten
<1>1. Invariant => NothingForgotten
  BY DEF Invariant
<1> QED
  BY <1>1, InvariantCorrect, PTL

\* Ordinals of the history are distinct, whatever directories failed creations
\* have left.
LEMMA DistinctHistory ==
  ASSUME Invariant
  PROVE  /\ OrdinalsDistinct({Generation(t) : t \in Intended})
         /\ OrdinalsDistinct(ActiveMembers)
<1>1. /\ \A t, u \in Intended : t[1] = u[1] /\ tx[t].ord = tx[u].ord => t = u
      /\ \A t \in Intended, m \in Registered : members[m].run = t[1] => members[m].ord # tx[t].ord
      /\ \A m, n \in Registered : members[m].run = members[n].run /\ members[m].ord = members[n].ord => m = n
  BY DEF Invariant, OrdinalsKnown, Named
<1>2. OrdinalsDistinct({Generation(t) : t \in Intended})
  BY <1>1 DEF OrdinalsDistinct, Generation
<1>3. ActiveTxs \subseteq Intended /\ ActiveJournals \subseteq Registered
  BY DEF ActiveTxs, ActiveJournals
<1>4. OrdinalsDistinct(ActiveMembers)
  <2>1. ASSUME NEW a \in ActiveMembers, NEW b \in ActiveMembers, a.run = b.run, a.ord = b.ord
        PROVE  a = b
    <3>1. \/ \E t \in Intended : a = Generation(t)
          \/ \E m \in Registered : a = Legacy(m)
      BY <1>3 DEF ActiveMembers
    <3>2. \/ \E t \in Intended : b = Generation(t)
          \/ \E m \in Registered : b = Legacy(m)
      BY <1>3 DEF ActiveMembers
    <3>3. \A t : Generation(t).run = t[1] /\ Generation(t).ord = tx[t].ord
      BY DEF Generation
    <3>4. \A m : Legacy(m).run = members[m].run /\ Legacy(m).ord = members[m].ord
      BY DEF Legacy
    <3> QED
      BY <1>1, <2>1, <3>1, <3>2, <3>3, <3>4
  <2> QED
    BY <2>1 DEF OrdinalsDistinct
<1> QED
  BY <1>2, <1>4

\* Nothing the engine itself leaves behind, by dying, by failing or by
\* publishing with an error, keeps a later command from scanning, recovering
\* or reading the history.
THEOREM OwnFaultsNeverBlockCorrect == Spec => []OwnFaultsNeverBlock
<1>1. ASSUME Invariant PROVE OwnFaultsNeverBlock
  <2>1. SUFFICES ASSUME edits = 0
                 PROVE  Scannable /\ WorkReconcilable /\ (Pending = {} => HistoryReadable)
    BY DEF OwnFaultsNeverBlock
  <2>2. /\ \A t \in Intended :
             /\ tx[t].desc = "ok" /\ tx[t].snap = "ok" /\ tx[t].intent = "ok"
             /\ tx[t].term \in {"none", "committed", "rolled_back"} /\ tx[t].rev \in {"none", "ok"}
        /\ \A m \in Registered : m[2] = 0
        /\ \A r \in Runs : journals[r] # None => journals[r].digest = 0
    BY <1>1, <2>1 DEF Invariant, RecordsSound
  <2>3. \A t \in Intended : ReadableTransaction(t) /\ ReadJournalIntent(t)
    BY <2>2 DEF ReadableTransaction, ReadJournalIntent, readStoredTransactionDescriptor,
       decodeTransactionDescriptor, readJournalIntentMetadata, decodeJournalIntent, lineageMatches,
       readJournalMarkerFile, decodeJournalMarker, verifySnapshotArtifacts
  <2>4. \A t \in Intended : tx[t].rev # "none" => memberReverted(t)
    BY <2>2 DEF memberReverted, decodeMemberRevert
  <2>5. \A m \in Registered : JournalIntact(m)
    <3>1. \A m \in Registered : m[1] \in Runs /\ journals[m[1]] # None
      BY <1>1 DEF Registered, Members, Invariant, MembersKnown
    <3> QED
      BY <2>2, <3>1 DEF JournalIntact
  <2>6. Scannable
    BY <1>1, <2>3, DistinctHistory DEF Scannable, Pending
  <2>7. WorkReconcilable
    BY <1>1, <2>5 DEF WorkReconcilable, Invariant, MembersKnown
  <2>8. Pending = {} => HistoryReadable
    BY <1>1, <2>3, <2>4, <2>5, DistinctHistory DEF HistoryReadable, TransactionsReadable, ActiveJournals
  <2> QED
    BY <2>6, <2>7, <2>8
<1> QED
  BY <1>1, InvariantCorrect, PTL

-----------------------------------------------------------------------------
(* The order in which effects are undone: clock, starts and keeping *)

\* Taking an effect away leaves the others in their order.
LEMMA DropOrder ==
  ASSUME applied \in Seq(Effects), NEW e, applied' = Without(applied, e),
         NEW i \in DOMAIN applied', NEW k \in DOMAIN applied', i < k
  PROVE  \E a, b \in DOMAIN applied : a < b /\ applied'[i] = applied[a] /\ applied'[k] = applied[b]
<1>1. CASE e \notin Range(applied)
  <2>1. UNCHANGED applied
    BY <1>1 DEF Without
  <2> QED
    BY <2>1
<1>2. CASE e \in Range(applied)
  <2>1. PICK h \in DOMAIN applied :
           /\ DOMAIN applied' = 1..(Len(applied) - 1)
           /\ \A j \in DOMAIN applied' : /\ j < h => applied'[j] = applied[j]
                                         /\ ~(j < h) => applied'[j] = applied[j + 1]
    BY <1>2, DropPlaces
  <2>2. Len(applied) \in Nat /\ DOMAIN applied = 1..Len(applied)
    OBVIOUS
  <2>3. CASE k < h
    BY <2>1, <2>2, <2>3
  <2>4. CASE i < h /\ ~(k < h)
    <3>1. applied'[i] = applied[i] /\ applied'[k] = applied[k + 1] /\ i \in DOMAIN applied /\ k + 1 \in DOMAIN applied /\ i < k + 1
      BY <2>1, <2>2, <2>4
    <3> QED
      BY <3>1
  <2>5. CASE ~(i < h)
    <3>1. applied'[i] = applied[i + 1] /\ applied'[k] = applied[k + 1] /\ i + 1 \in DOMAIN applied /\ k + 1 \in DOMAIN applied /\ i + 1 < k + 1
      BY <2>1, <2>2, <2>5
    <3> QED
      BY <3>1
  <2> QED
    BY <2>1, <2>2, <2>3, <2>4, <2>5
<1> QED
  BY <1>1, <1>2

\* A quiet store was quiet before, and the world outside did nothing.
LEMMA QuietBefore ==
  ASSUME Invariant, StartsKnown, Next
  PROVE  /\ backs' \in Nat /\ edits' \in Nat
         /\ edits' = 0 => edits = 0 /\ (WorldNext => SetClockBack)
         /\ backs' = 0 => backs = 0 /\ ~SetClockBack
         /\ ~WorldNext => UNCHANGED <<edits, backs>>
<1>1. edits \in Nat /\ backs \in Nat
  BY DEF Invariant, Typed, StartsKnown
<1>2. GuardNext \/ InspectNext => UNCHANGED <<edits, backs>>
  <2>1. InspectNext => UNCHANGED <<edits, backs>>
    BY DEF InspectNext, ScanStoreInspectionTree, InspectGenerationTransactions,
       InspectLegacyMembers, FinishInspection, counts
  <2>2. GuardNext => UNCHANGED <<edits, backs>>
    BY DEF GuardNext, Begin, ReconcileLegacyRevertWork, ScanPending, RecoverUndo, RecoverRecord,
       BeginDone, CreateTransactionRoot, RootsDone, PrepareSet, PersistIntent, Mutate, Seal,
       WriteJournal, NoLegacyEntries, RegisterLegacyJournal, PublishMember, DiscardTransactionRoots,
       SelectHistory, RevertFinished, RegisterStandalone, NextMember, RevertGenerationUndo,
       RevertGenerationMember, PrepareLegacyMemberRevert, RunRevertDurable,
       MarkLegacyMemberReverted, RetireLegacyMemberRevertWork, Died
  <2> QED
    BY <2>1, <2>2
<1>3. EditJournal \/ DeleteBackups \/ EditRecord => edits' = edits + 1 /\ UNCHANGED backs
  BY DEF EditJournal, DeleteBackups, EditRecord
<1>4. SetClockBack => backs' = backs + 1 /\ UNCHANGED edits
  BY DEF SetClockBack
<1>5. CASE GuardNext \/ InspectNext
  BY <1>1, <1>2, <1>3, <1>4, <1>5 DEF WorldNext
<1>6. CASE WorldNext
  BY <1>1, <1>3, <1>4, <1>6 DEF WorldNext
<1> QED
  BY <1>5, <1>6 DEF Next

\* A directory keeps its start and its ordinal; a new one gets those of the command.
KeepStep ==
  \A t \in Roots' :
    \/ t \in Roots /\ tx'[t].started = tx[t].started /\ tx'[t].ord = tx[t].ord
    \/ pc = "roots" /\ NextRoot(t) /\ tx'[t].started = run.started /\ tx'[t].ord = ordinal

\* Writing a file of a directory is such a step.
LEMMA KeptStart ==
  ASSUME NEW t \in Roots, Others(t), tx'[t] # None,
         tx'[t].started = tx[t].started, tx'[t].ord = tx[t].ord
  PROVE  KeepStep
<1>1. Roots' = Roots
  BY WrittenIntents
<1> QED
  BY <1>1 DEF KeepStep, Others, Roots

\* So are a removal and no change at all.
LEMMA RemovedStart ==
  ASSUME NEW S, tx' = [t \in Txs |-> IF t \in S THEN None ELSE tx[t]]
  PROVE  KeepStep
BY DEF KeepStep, Roots

\* So is a creation.
LEMMA CreatedStart ==
  ASSUME TxTyped, NEW t \in Txs, NextRoot(t), pc = "roots", NEW r \in TxRecord,
         r.started = run.started, r.ord = ordinal, tx' = [tx EXCEPT ![t] = r]
  PROVE  KeepStep
BY DEF KeepStep, Roots, TxTyped

\* Every step is one in which directories keep their place in the history.
LEMMA KeepStepLemma ==
  ASSUME Invariant, Next
  PROVE  KeepStep
<1>1. TxTyped /\ run \in [id : Nat, started : Nat] /\ ordinal \in Nat
  BY DEF Invariant, Typed, TxTyped
<1>2. CASE UNCHANGED tx
  BY <1>2 DEF KeepStep, Roots
<1>3. CASE ScanPending
  BY <1>3, RemovedStart DEF ScanPending
<1>4. CASE DiscardTransactionRoots
  <2> DEFINE S == {t \in Unused : t[1] = run.id /\ tx[t].known}
  <2>1. tx' = [t \in Txs |-> IF t \in S THEN None ELSE tx[t]]
    BY <1>4 DEF DiscardTransactionRoots
  <2> HIDE DEF S
  <2> QED
    BY <2>1, RemovedStart
<1>5. ASSUME pc = "roots", NEW t \in Txs, NextRoot(t), NEW d \in {"none", "ok"}, NEW p \in {"none", "root"},
             \/ tx' = [tx EXCEPT ![t] = Descriptor(ordinal)]
             \/ tx' = [tx EXCEPT ![t] = [Descriptor(ordinal) EXCEPT !.desc = d, !.known = FALSE]]
             \/ tx' = [tx EXCEPT ![t] = [Descriptor(ordinal) EXCEPT !.desc = d, !.temp = p, !.known = FALSE]]
      PROVE  KeepStep
  <2>1. PICK r \in TxRecord : r.started = run.started /\ r.ord = ordinal /\ tx' = [tx EXCEPT ![t] = r]
    <3>1. /\ Descriptor(ordinal) \in TxRecord
          /\ [Descriptor(ordinal) EXCEPT !.desc = d, !.known = FALSE] \in TxRecord
          /\ [Descriptor(ordinal) EXCEPT !.desc = d, !.temp = p, !.known = FALSE] \in TxRecord
      BY <1>1, DescriptorTyped
    <3>2. /\ Descriptor(ordinal).started = run.started /\ Descriptor(ordinal).ord = ordinal
          /\ [Descriptor(ordinal) EXCEPT !.desc = d, !.known = FALSE].started = run.started
          /\ [Descriptor(ordinal) EXCEPT !.desc = d, !.known = FALSE].ord = ordinal
          /\ [Descriptor(ordinal) EXCEPT !.desc = d, !.temp = p, !.known = FALSE].started = run.started
          /\ [Descriptor(ordinal) EXCEPT !.desc = d, !.temp = p, !.known = FALSE].ord = ordinal
      BY DEF Descriptor
    <3> QED
      BY <1>5, <3>1, <3>2
  <2> QED
    BY <1>1, <1>5, <2>1, CreatedStart
<1>6. CASE CreateTransactionRoot
  BY <1>5, <1>6 DEF CreateTransactionRoot
<1>7. CASE PrepareSet
  <2>1. todo[1] \in Roots
    BY <1>7, InHand DEF PrepareSet
  <2>2. PICK s \in {"none", "ok"} : tx' = [tx EXCEPT ![todo[1]].snap = s]
    BY <1>7 DEF PrepareSet
  <2> QED
    BY <1>1, <2>1, <2>2, WriteSnap, KeptStart DEF Marks
<1>8. CASE PersistIntent
  <2>1. todo[1] \in Roots
    BY <1>8, InHand DEF PersistIntent
  <2>2. PICK s \in {"none", "ok"} : tx' = [tx EXCEPT ![todo[1]].intent = s]
    BY <1>8 DEF PersistIntent
  <2> QED
    BY <1>1, <2>1, <2>2, WriteIntent, KeptStart DEF Marks
<1>9. CASE RecoverRecord \/ Seal
  <2>1. todo[1] \in Roots
    BY <1>9, InHand DEF RecoverRecord, Seal, Intended
  <2>2. \/ UNCHANGED tx
        \/ \E s \in {"committed", "rolled_back"} : tx' = [tx EXCEPT ![todo[1]].term = s]
    BY <1>9 DEF RecoverRecord, Seal
  <2>3. ASSUME NEW s \in {"committed", "rolled_back"}, tx' = [tx EXCEPT ![todo[1]].term = s]
        PROVE  KeepStep
    BY <1>1, <2>1, <2>3, WriteTerm, KeptStart
  <2> QED
    BY <1>2, <2>2, <2>3
<1>10. CASE RevertGenerationMember
  <2> DEFINE t == todo[1][2]
  <2>1. t \in Roots
    BY <1>10, InHand DEF RevertGenerationMember, Intended
  <2>2. PICK s \in {"none", "ok"} : tx' = [tx EXCEPT ![t].rev = s]
    BY <1>10 DEF RevertGenerationMember, Head1
  <2> HIDE DEF t
  <2> QED
    BY <1>1, <2>1, <2>2, WriteRev, KeptStart DEF Marks
<1>11. CASE Died
  <2>1. CASE pc = "roots" /\ \E t \in Txs, d \in {"none", "ok"}, temp \in {"none", "root"} :
             /\ NextRoot(t)
             /\ tx' = [tx EXCEPT ![t] = [Descriptor(ordinal) EXCEPT !.desc = d, !.temp = temp,
                                                                    !.known = FALSE]]
    BY <1>5, <2>1
  <2>2. ASSUME NEW t \in Roots, NEW p \in {"none", "root", "journal"}, tx' = [tx EXCEPT ![t].temp = p]
        PROVE  KeepStep
    BY <1>1, <2>2, WriteTemp, KeptStart
  <2>3. pc \in {"intent", "seal", "recovered"} => todo[1] \in Roots
    BY InHand DEF Intended
  <2>4. pc = "consume" => todo[1][2] \in Roots
    BY InHand DEF Intended
  <2> QED
    BY <1>2, <1>11, <2>1, <2>2, <2>3, <2>4 DEF Died
<1>12. CASE EditRecord
  <2>1. PICK t \in Intended, f \in {"desc", "snap", "intent", "term", "rev"}, v \in {"bad", "alien"} :
           tx' = [tx EXCEPT ![t][f] = v]
    BY <1>12 DEF EditRecord
  <2>2. t \in Roots
    BY DEF Intended
  <2>3. Others(t) /\ tx'[t] # None /\ tx'[t].started = tx[t].started /\ tx'[t].ord = tx[t].ord
    <3>1. CASE f = "desc"
      BY <1>1, <2>1, <2>2, <3>1, WriteDesc DEF Marks
    <3>2. CASE f = "snap"
      BY <1>1, <2>1, <2>2, <3>2, WriteSnap DEF Marks
    <3>3. CASE f = "intent"
      BY <1>1, <2>1, <2>2, <3>3, WriteIntent DEF Marks
    <3>4. CASE f = "term"
      BY <1>1, <2>1, <2>2, <3>4, WriteTerm
    <3>5. CASE f = "rev"
      BY <1>1, <2>1, <2>2, <3>5, WriteRev DEF Marks
    <3> QED
      BY <2>1, <3>1, <3>2, <3>3, <3>4, <3>5
  <2> QED
    BY <2>2, <2>3, KeptStart
<1> QED
  BY <1>2, <1>3, <1>4, <1>6, <1>7, <1>8, <1>9, <1>10, <1>11, <1>12
  DEF Next, GuardNext, InspectNext, WorldNext, Begin, ReconcileLegacyRevertWork, RecoverUndo,
     BeginDone, RootsDone, Mutate,
     WriteJournal, NoLegacyEntries, RegisterLegacyJournal, PublishMember,
     SelectHistory, RevertFinished, RegisterStandalone, NextMember, RevertGenerationUndo,
     PrepareLegacyMemberRevert, RunRevertDurable,
     MarkLegacyMemberReverted, RetireLegacyMemberRevertWork, EditJournal, DeleteBackups, SetClockBack,
     ScanStoreInspectionTree, InspectGenerationTransactions, InspectLegacyMembers, FinishInspection,
     disk, store

\* The clock goes on when a command begins, or is set back.
LEMMA ClockStep ==
  ASSUME Next
  PROVE  SetClockBack \/ UNCHANGED clock \/ (clock' = clock + 1 /\ nruns' = nruns + 1)
<1>1. CASE InspectNext
  BY <1>1 DEF InspectNext, ScanStoreInspectionTree, InspectGenerationTransactions,
     InspectLegacyMembers, FinishInspection, guard
<1>2. CASE WorldNext
  BY <1>2 DEF WorldNext, EditJournal, DeleteBackups, EditRecord, guard
<1>3. CASE GuardNext
  BY <1>3 DEF GuardNext, Begin, ReconcileLegacyRevertWork, ScanPending, RecoverUndo, RecoverRecord,
     BeginDone, CreateTransactionRoot, RootsDone, PrepareSet, PersistIntent, Mutate, Seal,
     WriteJournal, NoLegacyEntries, RegisterLegacyJournal, PublishMember, DiscardTransactionRoots,
     SelectHistory, RevertFinished, RegisterStandalone, NextMember, RevertGenerationUndo,
     RevertGenerationMember, PrepareLegacyMemberRevert, RunRevertDurable,
     MarkLegacyMemberReverted, RetireLegacyMemberRevertWork, Died, Close, Stay
<1> QED
  BY <1>1, <1>2, <1>3 DEF Next

\* A member that is added starts with the command that adds it.
LEMMA MemberStart ==
  ASSUME Invariant, Next
  PROVE  \A m \in Registered' : m \notin Registered => members'[m].started = run.started
<1>1. CASE UNCHANGED members
  BY <1>1 DEF Registered
<1>2. ASSUME NEW m, members' = NewMember(m)
      PROVE  \A n \in Registered' : n \notin Registered => members'[n].started = run.started
  BY <1>2 DEF NewMember, Registered, Invariant, Typed
<1>3. CASE RegisterLegacyJournal
  <2>1. members' \in {members, NewMember(CurrentMember(run.id))}
    BY <1>3 DEF RegisterLegacyJournal, PublishMember
  <2> QED
    BY <1>1, <1>2, <2>1
<1>4. CASE RegisterStandalone
  <2>1. members' \in {members, NewMember(CurrentMember(Head1[2]))}
    BY <1>4 DEF RegisterStandalone, PublishMember
  <2> QED
    BY <1>1, <1>2, <2>1
<1> QED
  BY <1>1, <1>3, <1>4
  DEF Next, GuardNext, InspectNext, WorldNext, Begin, ReconcileLegacyRevertWork, RecoverUndo,
     BeginDone, RootsDone, Mutate, ScanPending, RecoverRecord, CreateTransactionRoot, PrepareSet, PersistIntent, Seal,
     NoLegacyEntries, WriteJournal, DiscardTransactionRoots,
     SelectHistory, RevertFinished, NextMember, RevertGenerationUndo, RevertGenerationMember,
     PrepareLegacyMemberRevert, RunRevertDurable, Died, EditRecord, EditJournal, DeleteBackups,
     MarkLegacyMemberReverted, RetireLegacyMemberRevertWork, SetClockBack,
     ScanStoreInspectionTree, InspectGenerationTransactions, InspectLegacyMembers, FinishInspection,
     disk, store

\* A journal keeps its name and its second; a new one has those of the command.
NameStep ==
  \A r \in Runs : journals'[r] # None =>
    \/ journals[r] # None /\ journals'[r].name = journals[r].name /\ journals'[r].second = journals[r].second
    \/ journals[r] = None /\ pc = "sets" /\ r = run.id
       /\ journals'[r].name = run.started /\ journals'[r].second = Seconds(clock)

\* Every step names journals so.
LEMMA NameStepLemma ==
  ASSUME Invariant, Next
  PROVE  NameStep
<1>1. JournalsTyped /\ (pc # "idle" => run.id \in Runs)
  BY DEF Invariant, Typed, JournalsTyped
<1>2. CASE UNCHANGED journals
  BY <1>2 DEF NameStep
<1>3. CASE WriteJournal
  <2> DEFINE j == [second |-> Seconds(clock), name |-> run.started, digest |-> 0, backups |-> TRUE]
  <2>1. pc = "sets" /\ journals' = [journals EXCEPT ![run.id] = j] /\ run.id \in Runs
    BY <1>1, <1>3 DEF WriteJournal
  <2>2. j.second = Seconds(clock) /\ j.name = run.started
    OBVIOUS
  <2>3. journals[run.id] = None
    BY <2>1 DEF Invariant, RunsSoFar, Planning
  <2> HIDE DEF j
  <2> QED
    BY <1>1, <2>1, <2>2, <2>3 DEF NameStep, JournalsTyped
<1>4. CASE EditJournal
  <2>1. PICK r \in Runs : journals[r] # None /\ journals' = [journals EXCEPT ![r].digest = 1]
    BY <1>4 DEF EditJournal
  <2> QED
    BY <1>1, <2>1 DEF NameStep, JournalsTyped, JournalRecord
<1>5. CASE DeleteBackups
  <2>1. PICK r \in Runs : journals[r] # None /\ journals' = [journals EXCEPT ![r].backups = FALSE]
    BY <1>5 DEF DeleteBackups
  <2> QED
    BY <1>1, <2>1 DEF NameStep, JournalsTyped, JournalRecord
<1> QED
  BY <1>2, <1>3, <1>4, <1>5
  DEF Next, GuardNext, InspectNext, WorldNext, Begin, ReconcileLegacyRevertWork, RecoverUndo,
     BeginDone, RootsDone, Mutate, ScanPending, RecoverRecord, CreateTransactionRoot, PrepareSet, PersistIntent, Seal,
     NoLegacyEntries, RegisterLegacyJournal, PublishMember, DiscardTransactionRoots,
     SelectHistory, RevertFinished, RegisterStandalone, NextMember, RevertGenerationUndo, RevertGenerationMember,
     PrepareLegacyMemberRevert, RunRevertDurable, Died, EditRecord,
     MarkLegacyMemberReverted, RetireLegacyMemberRevertWork, SetClockBack,
     ScanStoreInspectionTree, InspectGenerationTransactions, InspectLegacyMembers, FinishInspection,
     disk, store

\* While the clock goes on, starts stay the identities of runs.
LEMMA StartsKnownStep ==
  ASSUME Invariant, StartsKnown, Next, GuardStep, TxStep, MemberStep
  PROVE  StartsKnown'
<1>1. Typed
  BY DEF Invariant
<1>2. backs' \in Nat /\ (backs' = 0 => backs = 0 /\ ~SetClockBack)
  BY QuietBefore
<1>3. SUFFICES ASSUME backs' = 0 PROVE StartsKnown'
  BY <1>2 DEF StartsKnown
<1>4. /\ clock = nruns /\ (pc # "idle" => run.started = run.id)
      /\ \A t \in Roots : tx[t].started = t[1]
      /\ \A m \in Registered : members[m].started = members[m].run
      /\ \A r \in Runs : journals[r] # None => journals[r].name = r /\ journals[r].second = Seconds(r)
  BY <1>2, <1>3 DEF StartsKnown
<1>5. nruns \in Nat /\ (pc # "idle" => run.id = nruns)
  BY <1>1 DEF Typed
<1>6. clock' = nruns'
  BY <1>2, <1>3, <1>4, <1>5, ClockStep DEF GuardStep, Beginning, Ended, Aside, Flow
<1>7. pc' # "idle" => run'.started = run'.id
  BY <1>4, <1>5 DEF GuardStep, Beginning, Ended, Aside, Flow
<1>8. \A t \in Roots' : tx'[t].started = t[1]
  <2>1. KeepStep
    BY KeepStepLemma
  <2>2. pc = "roots" => \A t \in Txs : NextRoot(t) => t[1] = run.id
    BY NextRootIsNew
  <2>3. Roots' \subseteq Txs
    BY DEF Roots
  <2> QED
    BY <1>4, <2>1, <2>2, <2>3 DEF KeepStep
<1>9. \A m \in Registered' : members'[m].started = members'[m].run
  <2>1. \A m \in Registered' : m \notin Registered => members'[m].started = run.started
    BY MemberStart
  <2> QED
    BY <1>4, <2>1 DEF MemberStep
<1>10. \A r \in Runs : journals'[r] # None => journals'[r].name = r /\ journals'[r].second = Seconds(r)
  <2>1. NameStep
    BY NameStepLemma
  <2>2. pc = "sets" => run.started = run.id /\ clock = run.id
    BY <1>4, <1>5
  <2> QED
    BY <1>4, <2>1, <2>2 DEF NameStep
<1>11. \A r : Seconds(r)' = Seconds(r)
  BY DEF Seconds
<1> QED
  BY <1>2, <1>6, <1>7, <1>8, <1>9, <1>10, <1>11 DEF StartsKnown

-----------------------------------------------------------------------------
(* Effects are made in order *)

\* What is on the host is of a run that has begun and, if it is of a transaction,
\* of one with an intent.
LEMMA OnHost ==
  ASSUME Invariant, NEW e \in Range(applied)
  PROVE  /\ e \in Effects /\ RunOf(e) \in Nat /\ RunOf(e) <= nruns
         /\ \/ e[1] = "tx" /\ e = <<"tx", e[2]>> /\ e[2] \in Intended /\ RunOf(e) = e[2][1]
            \/ e[1] = "journal" /\ e = <<"journal", e[2]>> /\ e[2] \in Runs /\ journals[e[2]] # None
               /\ RunOf(e) = e[2]
         /\ pc \in Planning /\ RunOf(e) = run.id => e[1] = "tx"
<1>1. applied \in Seq(Effects)
  BY DEF Invariant, Typed
<1>2. e \in Effects
  BY <1>1 DEF Range
<1>3. CASE e \in {"tx"} \X Txs
  <2>1. PICK t \in Txs : e = <<"tx", t>>
    BY <1>3
  <2>2. t \in Intended
    BY <2>1 DEF Invariant, NothingForgotten
  <2>3. t[1] <= nruns /\ t[1] \in Nat
    BY <2>2 DEF Invariant, RunsSoFar, Intended, Txs, Runs
  <2> QED
    BY <1>2, <2>1, <2>2, <2>3 DEF RunOf
<1>4. CASE e \in {"journal"} \X Runs
  <2>1. PICK r \in Runs : e = <<"journal", r>>
    BY <1>4
  <2>2. journals[r] # None
    BY <2>1 DEF Invariant, NothingForgotten
  <2>3. r <= nruns /\ (pc \in Planning => r # run.id)
    BY <2>2 DEF Invariant, RunsSoFar
  <2> QED
    BY <1>2, <2>1, <2>2, <2>3 DEF RunOf, Runs
<1> QED
  BY <1>2, <1>3, <1>4 DEF Effects

\* The order of effects, and of items that stand for effects, does not change.
Placed(e) == e \in Effects /\ (e[1] = "tx" => e[2] \in Intended)

\* No step changes which of two such effects is later.
LEMMA AfterKept ==
  ASSUME Invariant, TxStep
  PROVE  \A e, f : Placed(e) /\ Placed(f) => (After(e, f)' <=> After(e, f))
<1>1. ASSUME NEW e, NEW f, Placed(e), Placed(f)
      PROVE  After(e, f)' <=> After(e, f)
  <2>1. \A t \in Intended : tx'[t].ord = tx[t].ord
    BY DEF TxStep, Recorded
  <2>2. RunOf(e)' = RunOf(e) /\ RunOf(f)' = RunOf(f)
    BY DEF RunOf
  <2>3. e[1] = "tx" \/ e[1] = "journal"
    BY <1>1 DEF Placed, Effects
  <2>4. f[1] = "tx" => tx'[f[2]].ord = tx[f[2]].ord
    BY <1>1, <2>1 DEF Placed
  <2>5. e[1] # "journal" => tx'[e[2]].ord = tx[e[2]].ord
    BY <1>1, <2>1, <2>3 DEF Placed
  <2> QED
    BY <2>2, <2>4, <2>5 DEF After
<1> QED
  BY <1>1

\* How a step changes what is on the host.
HostChange ==
  \/ UNCHANGED applied
  \/ /\ pc = "mutate" /\ pc' = "seal" /\ todo' = todo
     /\ applied' = Append(applied, <<"tx", todo[1]>>)
  \/ /\ pc = "sets" /\ pc' = "register" /\ applied' = Append(applied, <<"journal", run.id>>)
  \/ \E t \in Pending : applied' = Without(applied, <<"tx", t>>)
  \/ pc \in {"undo", "unlegacy"} /\ applied' = Without(applied, Effect(todo[1]))

\* Effects are added at the end; they are taken away by the recovery of what is
\* pending or by a revert of the item in hand.
LEMMA HostChangeLemma ==
  ASSUME Invariant, Next
  PROVE  HostChange
<1>1. CASE UNCHANGED applied
  BY <1>1 DEF HostChange
<1>2. CASE Mutate
  BY <1>2 DEF Mutate, HostChange, Goto
<1>3. CASE WriteJournal
  BY <1>3 DEF WriteJournal, HostChange, Goto
<1>4. CASE RecoverUndo
  BY <1>1, <1>4 DEF RecoverUndo, HostChange
<1>5. CASE Seal
  <2>1. todo[1] \in Pending
    <3>1. pc = "seal"
      BY <1>5 DEF Seal
    <3>2. todo[1] \in Intended
      BY <3>1, InHand
    <3>3. todo \in Seq(Txs) /\ todo # <<>> /\ \A i \in DOMAIN todo : tx[todo[i]].term = "none"
      BY <3>1 DEF Invariant, PlanKnown, Planning
    <3> QED
      BY <3>2, <3>3 DEF Pending
  <2> QED
    BY <1>1, <1>5, <2>1 DEF Seal, HostChange
<1>6. CASE RevertGenerationUndo
  <2>1. todo[1][1] = "generation"
    BY <1>6 DEF RevertGenerationUndo, Invariant, RevertKnown, Reverting
  <2>2. Effect(todo[1]) = <<"tx", todo[1][2]>>
    BY <2>1 DEF Effect
  <2> QED
    BY <1>1, <1>6, <2>2 DEF RevertGenerationUndo, Head1, HostChange
<1>7. CASE RunRevertDurable
  <2>1. todo[1][1] = "legacy"
    BY <1>7 DEF RunRevertDurable, Invariant, RevertKnown, Reverting
  <2>2. Effect(todo[1]) = <<"journal", todo[1][2][1]>>
    BY <2>1 DEF Effect
  <2> QED
    BY <1>1, <1>7, <2>2 DEF RunRevertDurable, Head1, HostChange
<1> QED
  BY <1>1, <1>2, <1>3, <1>4, <1>5, <1>6, <1>7
  DEF Next, GuardNext, InspectNext, WorldNext, Begin, ReconcileLegacyRevertWork,
     BeginDone, RootsDone, ScanPending, RecoverRecord, CreateTransactionRoot, PrepareSet, PersistIntent,
     NoLegacyEntries, RegisterLegacyJournal, PublishMember, DiscardTransactionRoots,
     SelectHistory, RevertFinished, RegisterStandalone, NextMember, RevertGenerationMember,
     PrepareLegacyMemberRevert, Died, EditRecord, EditJournal, DeleteBackups,
     MarkLegacyMemberReverted, RetireLegacyMemberRevertWork, SetClockBack,
     ScanStoreInspectionTree, InspectGenerationTransactions, InspectLegacyMembers, FinishInspection,
     disk

\* Order is kept when nothing is added.
LEMMA OrderKept ==
  ASSUME Invariant, TxStep, EffectsOrdered,
         \A i, k \in DOMAIN applied' : i < k =>
           \E a, b \in DOMAIN applied : a < b /\ applied'[i] = applied[a] /\ applied'[k] = applied[b]
  PROVE  EffectsOrdered'
<1>1. ASSUME NEW i \in DOMAIN applied', NEW k \in DOMAIN applied', i < k
      PROVE  After(applied[k], applied[i])'
  <2>1. PICK a \in DOMAIN applied, b \in DOMAIN applied :
               a < b /\ applied'[i] = applied[a] /\ applied'[k] = applied[b]
    BY <1>1
  <2>2. PICK e \in Range(applied), f \in Range(applied) : e = applied[b] /\ f = applied[a]
    BY DEF Range
  <2>3. After(e, f)
    BY <2>1, <2>2 DEF EffectsOrdered
  <2>4. Placed(e) /\ Placed(f)
    BY OnHost DEF Placed
  <2>5. After(e, f)'
    BY <2>3, <2>4, AfterKept
  <2> QED
    BY <2>1, <2>2, <2>5 DEF After, RunOf
<1> QED
  BY <1>1 DEF EffectsOrdered

\* Order is kept when what is added is later than everything.
LEMMA OrderAppended ==
  ASSUME Invariant, TxStep, EffectsOrdered, NEW x, Placed(x), applied' = Append(applied, x),
         \A e \in Range(applied) : After(x, e)
  PROVE  EffectsOrdered'
<1>1. applied \in Seq(Effects) /\ x \in Effects
  BY DEF Invariant, Typed, Placed
<1>2. /\ Len(applied) \in Nat /\ DOMAIN applied = 1..Len(applied) /\ DOMAIN applied' = 1..(Len(applied) + 1)
      /\ \A i \in 1..Len(applied) : applied'[i] = applied[i]
      /\ applied'[Len(applied) + 1] = x
  BY <1>1
<1>3. ASSUME NEW i \in DOMAIN applied', NEW k \in DOMAIN applied', i < k
      PROVE  After(applied[k], applied[i])'
  <2>1. i \in DOMAIN applied /\ applied'[i] = applied[i]
    BY <1>2, <1>3
  <2>2. PICK f \in Range(applied) : f = applied[i]
    BY <2>1 DEF Range
  <2>3. PICK e : e = applied'[k]
    OBVIOUS
  <2>4. Placed(f) /\ (e \in Range(applied) => Placed(e))
    BY OnHost DEF Placed
  <2>5. CASE k \in DOMAIN applied
    <3>1. e = applied[k] /\ e \in Range(applied)
      BY <1>2, <2>3, <2>5 DEF Range
    <3>2. After(e, f)
      BY <1>3, <2>1, <2>2, <2>5, <3>1 DEF EffectsOrdered
    <3>3. After(e, f)'
      BY <2>4, <3>1, <3>2, AfterKept
    <3> QED
      BY <2>1, <2>2, <2>3, <3>3 DEF After, RunOf
  <2>6. CASE k \notin DOMAIN applied
    <3>1. e = x
      BY <1>2, <2>3, <2>6
    <3>2. After(e, f)'
      BY <2>4, <3>1, AfterKept
    <3> QED
      BY <2>1, <2>2, <2>3, <3>2 DEF After, RunOf
  <2> QED
    BY <2>5, <2>6
<1> QED
  BY <1>3 DEF EffectsOrdered

\* Effects stay in their order: a restore adds one of its own run, after those
\* with smaller ordinals, and its journal last.
LEMMA EffectsOrderedStep ==
  ASSUME Invariant, EffectsOrdered, PlanOrdered, TxStep, HostChange
  PROVE  EffectsOrdered'
<1>1. applied \in Seq(Effects)
  BY DEF Invariant, Typed
<1>2. CASE UNCHANGED applied
  BY <1>2, OrderKept
<1>3. CASE \E e : applied' = Without(applied, e)
  BY <1>1, <1>3, DropOrder, OrderKept
<1>4. CASE pc = "mutate" /\ applied' = Append(applied, <<"tx", todo[1]>>)
  <2>1. PICK t \in Txs : t = todo[1] /\ t \in Intended /\ t[1] = run.id /\ <<"tx", t>> \notin Range(applied)
    <3>1. todo[1] \in Intended /\ todo[1] \in Txs
      BY <1>4, InHand
    <3>2. todo[1][1] = run.id /\ <<"tx", todo[1]>> \notin Range(applied)
      <4>1. todo \in Seq(Txs) /\ todo # <<>> /\ \A i \in DOMAIN todo : todo[i][1] = run.id
        BY <1>4 DEF Invariant, PlanKnown, Planning
      <4> QED
        BY <1>4, <4>1 DEF Invariant, PlanKnown, Planning
    <3> QED
      BY <3>1, <3>2
  <2> DEFINE x == <<"tx", t>>
  <2>2. Placed(x) /\ x[1] = "tx" /\ x[2] = t /\ RunOf(x) = run.id
    BY <2>1 DEF Placed, Effects, RunOf
  <2>3. 1 \in DOMAIN todo
    <3>1. todo \in Seq(Txs) /\ todo # <<>>
      BY <1>4 DEF Invariant, PlanKnown, Planning
    <3> QED
      BY <3>1
  <2>4. ASSUME NEW e \in Range(applied) PROVE After(x, e)
    <3>1. RunOf(e) \in Nat /\ RunOf(e) <= run.id /\ run.id \in Nat
      BY <1>4, OnHost DEF Invariant, Typed
    <3>2. CASE RunOf(e) = run.id
      <4>1. e[1] = "tx" /\ e = <<"tx", e[2]>> /\ e[2] \in Txs /\ e[2][1] = run.id
        <5>1. e[1] = "tx"
          BY <1>4, <3>2, OnHost DEF Planning
        <5>2. e = <<"tx", e[2]>> /\ e[2] \in Intended /\ e[2][1] = run.id
          BY <3>2, <5>1, OnHost
        <5> QED
          BY <5>1, <5>2 DEF Intended, Roots
      <4>2. e[2] # t
        BY <2>1, <4>1
      <4>3. tx[e[2]].ord < tx[t].ord
        <5>1. <<"tx", e[2]>> \in Range(applied)
          BY <4>1
        <5>2. todo[1] = e[2] \/ tx[e[2]].ord < tx[todo[1]].ord
          BY <1>4, <2>3, <4>1, <5>1 DEF PlanOrdered, Planning
        <5> QED
          BY <2>1, <4>2, <5>2
      <4>4. tx[t].ord > tx[e[2]].ord
        <5>1. tx[t] \in TxRecord /\ tx[e[2]] \in TxRecord
          <6>1. e[2] \in Intended
            BY <4>1, OnHost
          <6> QED
            BY <2>1, <6>1 DEF Intended, Roots, Invariant, Typed
        <5>2. tx[t].ord \in Nat /\ tx[e[2]].ord \in Nat
          BY <5>1 DEF TxRecord
        <5> QED
          BY <4>3, <5>2
      <4> HIDE DEF x
      <4> QED
        BY <2>2, <3>2, <4>1, <4>4 DEF After
    <3>3. CASE RunOf(e) # run.id
      <4>1. RunOf(x) > RunOf(e)
        BY <2>2, <3>1, <3>3
      <4> QED
        BY <4>1 DEF After
    <3> QED
      BY <3>2, <3>3
  <2>5. applied' = Append(applied, x)
    BY <1>4, <2>1
  <2> HIDE DEF x
  <2> QED
    BY <2>2, <2>4, <2>5, OrderAppended
<1>5. CASE pc = "sets" /\ applied' = Append(applied, <<"journal", run.id>>)
  <2> DEFINE x == <<"journal", run.id>>
  <2>1. run.id \in Runs /\ run.id \in Nat /\ run.id = nruns
    BY <1>5 DEF Invariant, Typed, Runs
  <2>2. Placed(x) /\ x[1] = "journal" /\ RunOf(x) = run.id
    BY <2>1 DEF Placed, Effects, RunOf
  <2>3. ASSUME NEW e \in Range(applied) PROVE After(x, e)
    <3>1. RunOf(e) \in Nat /\ RunOf(e) <= run.id /\ (RunOf(e) = run.id => e[1] = "tx")
      BY <1>5, <2>1, OnHost DEF Planning
    <3> HIDE DEF x
    <3>2. RunOf(x) > RunOf(e) \/ RunOf(x) = RunOf(e)
      BY <2>1, <2>2, <3>1
    <3> QED
      BY <2>2, <3>1, <3>2 DEF After
  <2>4. applied' = Append(applied, x)
    BY <1>5
  <2> HIDE DEF x
  <2> QED
    BY <2>2, <2>3, <2>4, OrderAppended
<1> QED
  BY <1>2, <1>3, <1>4, <1>5 DEF HostChange

\* A plan is taken from the front and grows at the end.
PlanMove ==
  pc' \in Planning =>
    \/ todo' = <<>>
    \/ /\ pc \in Planning /\ UNCHANGED run
       /\ \/ UNCHANGED todo
          \/ todo # <<>> /\ todo' = Tail(todo)
          \/ pc = "roots" /\ \E t \in Txs : NextRoot(t) /\ todo' = Append(todo, t)

\* Every step moves the plan so.
LEMMA PlanMoveLemma ==
  ASSUME Invariant, Next
  PROVE  PlanMove
<1>1. pc \in {"work", "scan", "recover"} => todo = <<>>
  BY DEF Invariant, PlanKnown
<1>2. CASE (\E c \in {"restore", "revert"} : Begin(c)) \/ ReconcileLegacyRevertWork \/ ScanPending
           \/ RecoverUndo \/ RecoverRecord \/ BeginDone
  BY <1>1, <1>2 DEF Begin, ReconcileLegacyRevertWork, ScanPending, RecoverUndo, RecoverRecord,
       BeginDone, Close, Goto, PlanMove, Planning
<1>3. CASE CreateTransactionRoot \/ RootsDone \/ PrepareSet \/ PersistIntent \/ Mutate
  BY <1>3 DEF CreateTransactionRoot, RootsDone, PrepareSet, PersistIntent, Mutate, Stay, Goto, PlanMove, Planning
<1>4. CASE Seal
  <2>1. pc = "seal" /\ UNCHANGED run /\ (pc' = "discard" \/ todo' = Tail(todo))
    BY <1>4 DEF Seal, Stay, Goto
  <2>2. todo # <<>>
    BY <2>1, InHand
  <2> QED
    BY <2>1, <2>2 DEF PlanMove, Planning
<1>5. CASE WriteJournal \/ NoLegacyEntries \/ RegisterLegacyJournal \/ RegisterStandalone \/ DiscardTransactionRoots
  BY <1>5 DEF WriteJournal, NoLegacyEntries, RegisterLegacyJournal, RegisterStandalone, PublishMember,
     DiscardTransactionRoots, Close, Goto, PlanMove, Planning
<1>6. CASE SelectHistory \/ RevertFinished \/ NextMember \/ RevertGenerationUndo \/ RevertGenerationMember
           \/ PrepareLegacyMemberRevert \/ RunRevertDurable \/ MarkLegacyMemberReverted
           \/ RetireLegacyMemberRevertWork \/ Died
  BY <1>6 DEF SelectHistory, RevertFinished, NextMember, RevertGenerationUndo, RevertGenerationMember,
     PrepareLegacyMemberRevert, RunRevertDurable, MarkLegacyMemberReverted,
     RetireLegacyMemberRevertWork, Died, Close, Goto, PlanMove, Planning
<1>7. CASE InspectNext \/ WorldNext
  BY <1>7 DEF InspectNext, ScanStoreInspectionTree, InspectGenerationTransactions,
     InspectLegacyMembers, FinishInspection, WorldNext, EditJournal, DeleteBackups, EditRecord,
     SetClockBack, guard, PlanMove
<1> QED
  BY <1>2, <1>3, <1>4, <1>5, <1>6, <1>7 DEF Next, GuardNext

\* A plan stays in the order of its ordinals, after what it has carried out.
LEMMA PlanOrderedStep ==
  ASSUME Invariant, PlanOrdered, TxStep, KeepStep, PlanMove, HostStep, PlanKnown'
  PROVE  PlanOrdered'
<1>1. SUFFICES ASSUME pc' \in Planning PROVE PlanOrdered'
  BY DEF PlanOrdered
<1>2. CASE todo' = <<>>
  <2>1. DOMAIN todo' = {}
    BY <1>2
  <2> QED
    BY <2>1 DEF PlanOrdered
<1>3. CASE todo' # <<>>
  <2>1. pc \in Planning /\ UNCHANGED run
    BY <1>1, <1>3 DEF PlanMove
  <2>2. /\ todo \in Seq(Txs) /\ Len(todo) \in Nat /\ DOMAIN todo = 1..Len(todo)
        /\ \A i \in DOMAIN todo : todo[i] \in Roots /\ todo[i] \in Named /\ todo[i][1] = run.id
    BY <2>1, PlanOf DEF Plan, Planned, Roots, Named
  <2>3. \A t \in Named : t \in Roots /\ tx[t].ord \in Nat
    BY NamedAreRoots
  <2>4. /\ \A i, k \in DOMAIN todo : i < k => tx[todo[i]].ord < tx[todo[k]].ord
        /\ \A t \in Txs : t[1] = run.id /\ <<"tx", t>> \in Range(applied) =>
             \A i \in DOMAIN todo : todo[i] = t \/ tx[t].ord < tx[todo[i]].ord
    BY <2>1 DEF PlanOrdered
  <2>5. \A t \in Named : t[1] = run.id => tx[t].ord < ordinal
    BY <2>1 DEF Invariant, OrdinalsKnown, Planning
  \* The ordinals of what is planned
  <2>6. \A i \in DOMAIN todo' : todo'[i] \in Roots'
    <3>1. todo' \in Seq(Txs) /\ \A i \in DOMAIN todo' : tx'[todo'[i]] # None
      BY <1>1 DEF PlanKnown
    <3> QED
      BY <3>1 DEF Roots
  <2>7. \A t \in Roots : t \in Roots' => tx'[t].ord = tx[t].ord
    BY NextRootIsNew DEF KeepStep, Roots
  <2>8. \A t \in Intended : t \in Named /\ tx'[t].ord = tx[t].ord
    BY DEF TxStep, Recorded, Named
  <2>9. ASSUME NEW t \in Txs, t[1] = run.id, <<"tx", t>> \in Range(applied')
        PROVE  \/ <<"tx", t>> \in Range(applied) /\ t \in Intended
               \/ pc = "mutate" /\ t = todo[1] /\ t \in Intended
    <3>1. CASE <<"tx", t>> \in Range(applied)
      BY <3>1 DEF Invariant, NothingForgotten
    <3>2. CASE <<"tx", t>> \notin Range(applied)
      <4>1. pc = "mutate" /\ t = todo[1]
        BY <2>9, <3>2 DEF HostStep
      <4> QED
        BY <4>1, InHand
    <3> QED
      BY <3>1, <3>2
  <2>10. CASE UNCHANGED todo
    <3>1. \A i \in DOMAIN todo : tx'[todo[i]].ord = tx[todo[i]].ord
      BY <2>2, <2>6, <2>7, <2>10
    <3>2. \A i, k \in DOMAIN todo' : i < k => tx'[todo'[i]].ord < tx'[todo'[k]].ord
      BY <2>4, <2>10, <3>1
    <3>3. ASSUME NEW t \in Txs, t[1] = run.id, <<"tx", t>> \in Range(applied'), NEW i \in DOMAIN todo'
          PROVE  todo'[i] = t \/ tx'[t].ord < tx'[todo'[i]].ord
      <4>1. i \in DOMAIN todo /\ todo'[i] = todo[i] /\ tx'[todo[i]].ord = tx[todo[i]].ord
        BY <2>10, <3>1, <3>3
      <4>2. CASE <<"tx", t>> \in Range(applied) /\ t \in Intended
        BY <2>4, <2>8, <3>3, <4>1, <4>2
      <4>3. CASE pc = "mutate" /\ t = todo[1] /\ t \in Intended
        <5>1. i = 1 \/ (1 < i /\ 1 \in DOMAIN todo)
          BY <2>2, <4>1
        <5> QED
          BY <2>4, <2>8, <4>1, <4>3, <5>1
      <4> QED
        BY <2>9, <3>3, <4>2, <4>3
    <3> QED
      BY <2>1, <3>2, <3>3 DEF PlanOrdered
  <2>11. CASE todo # <<>> /\ todo' = Tail(todo)
    <3>1. /\ 1 \in DOMAIN todo
          /\ \A i \in DOMAIN todo' : i + 1 \in DOMAIN todo /\ todo'[i] = todo[i + 1]
      BY <2>2, <2>11, TailOf
    <3>2. \A i \in DOMAIN todo' : tx'[todo'[i]].ord = tx[todo[i + 1]].ord
      BY <2>2, <2>6, <2>7, <3>1
    <3>3. \A i \in DOMAIN todo' : i \in Int
      BY <2>2, <2>11
    <3>4. \A i, k \in DOMAIN todo' : i < k => tx'[todo'[i]].ord < tx'[todo'[k]].ord
      BY <2>4, <3>1, <3>2, <3>3
    <3>5. ASSUME NEW t \in Txs, t[1] = run.id, <<"tx", t>> \in Range(applied'), NEW i \in DOMAIN todo'
          PROVE  todo'[i] = t \/ tx'[t].ord < tx'[todo'[i]].ord
      <4>1. i + 1 \in DOMAIN todo /\ todo'[i] = todo[i + 1] /\ tx'[todo'[i]].ord = tx[todo[i + 1]].ord
            /\ i + 1 \in 1..Len(todo) /\ i \in DOMAIN Tail(todo)
        BY <2>2, <2>11, <3>1, <3>2, <3>5
      <4>2. CASE <<"tx", t>> \in Range(applied) /\ t \in Intended
        BY <2>4, <2>8, <3>5, <4>1, <4>2
      <4>3. CASE pc = "mutate" /\ t = todo[1] /\ t \in Intended
        <5>1. 1 < i + 1
          <6>1. DOMAIN Tail(todo) = 1..(Len(todo) - 1)
            BY <2>2, <2>11
          <6> QED
            BY <2>2, <4>1, <6>1
        <5> QED
          BY <2>4, <2>8, <3>1, <4>1, <4>3, <5>1
      <4> QED
        BY <2>9, <3>5, <4>2, <4>3
    <3> QED
      BY <2>1, <3>4, <3>5 DEF PlanOrdered
  <2>12. ASSUME pc = "roots", NEW u \in Txs, NextRoot(u), todo' = Append(todo, u)
         PROVE  PlanOrdered'
    <3>1. /\ DOMAIN todo' = 1..(Len(todo) + 1)
          /\ \A i \in DOMAIN todo : i \in DOMAIN todo' /\ todo'[i] = todo[i]
          /\ todo'[Len(todo) + 1] = u
      BY <2>2, <2>12
    <3>2. \A i \in DOMAIN todo : tx'[todo'[i]].ord = tx[todo[i]].ord
      BY <2>2, <2>6, <2>7, <3>1
    <3>3. tx'[u].ord = ordinal
      <4>1. u \in Roots' /\ u \notin Roots
        <5>1. Len(todo) + 1 \in DOMAIN todo'
          BY <2>2, <3>1
        <5> QED
          BY <2>6, <2>12, <3>1, <5>1, NextRootIsNew DEF Roots
      <4> QED
        BY <4>1 DEF KeepStep
    <3>4. ASSUME NEW i \in DOMAIN todo', NEW k \in DOMAIN todo', i < k
          PROVE  tx'[todo'[i]].ord < tx'[todo'[k]].ord
      <4>1. i \in DOMAIN todo
        BY <2>2, <3>1, <3>4
      <4>2. CASE k \in DOMAIN todo
        BY <2>4, <3>2, <3>4, <4>1, <4>2
      <4>3. CASE k \notin DOMAIN todo
        <5>1. todo'[k] = u
          BY <2>2, <3>1, <4>3
        <5> QED
          BY <2>2, <2>5, <3>2, <3>3, <4>1, <5>1
      <4> QED
        BY <4>2, <4>3
    <3>5. ASSUME NEW t \in Txs, t[1] = run.id, <<"tx", t>> \in Range(applied'), NEW i \in DOMAIN todo'
          PROVE  todo'[i] = t \/ tx'[t].ord < tx'[todo'[i]].ord
      <4>1. <<"tx", t>> \in Range(applied) /\ t \in Intended
        BY <2>9, <2>12, <3>5
      <4>2. CASE i \in DOMAIN todo
        BY <2>4, <2>8, <3>1, <3>2, <3>5, <4>1, <4>2
      <4>3. CASE i \notin DOMAIN todo
        <5>1. todo'[i] = u
          BY <2>2, <3>1, <4>3
        <5> QED
          BY <2>5, <2>8, <3>3, <3>5, <4>1, <5>1
      <4> QED
        BY <4>2, <4>3
    <3> QED
      BY <2>1, <3>4, <3>5 DEF PlanOrdered
  <2> QED
    BY <1>1, <1>3, <2>10, <2>11, <2>12 DEF PlanMove
<1> QED
  BY <1>2, <1>3

-----------------------------------------------------------------------------
(* What is pending is last *)

\* Where nothing is pending.
Settled == {"roots", "sets", "intent", "register", "select"} \cup Reverting

\* A command comes to its own work through recovery, and to the mutation of a
\* transaction through its intent.
LEMMA SettledStep ==
  ASSUME Invariant, Next
  PROVE  /\ pc' \in Settled =>
              \/ pc \in Settled /\ (pc = "intent" => UNCHANGED tx)
              \/ pc = "recover" /\ Pending = {} /\ UNCHANGED tx
              \/ pc = "seal" /\ tx'[todo[1]].term # "none"
         /\ pc' \in {"mutate", "seal"} => pc \in {"intent", "mutate", "seal"} /\ UNCHANGED todo
<1>1. CASE InspectNext \/ WorldNext
  BY <1>1 DEF InspectNext, ScanStoreInspectionTree, InspectGenerationTransactions,
     InspectLegacyMembers, FinishInspection, WorldNext, EditJournal, DeleteBackups, EditRecord,
     SetClockBack, guard, disk, store, Settled, Reverting
<1>2. CASE (\E c \in {"restore", "revert"} : Begin(c)) \/ ReconcileLegacyRevertWork \/ ScanPending
           \/ RecoverUndo \/ RecoverRecord \/ BeginDone
  BY <1>2 DEF Begin, ReconcileLegacyRevertWork, ScanPending, RecoverUndo, RecoverRecord,
       BeginDone, Close, Goto, Settled, Reverting, disk, store
<1>3. CASE CreateTransactionRoot \/ RootsDone \/ PrepareSet \/ PersistIntent \/ Mutate
  BY <1>3 DEF CreateTransactionRoot, RootsDone, PrepareSet, PersistIntent, Mutate, Stay, Goto,
       Settled, Reverting
<1>4. CASE Seal
  <2>1. pc = "seal" /\ (pc' = "discard" \/ (pc' = "sets" /\
           \E s \in {"committed", "rolled_back"} : tx' = [tx EXCEPT ![todo[1]].term = s]))
    BY <1>4 DEF Seal, Stay, Goto
  <2>2. TxTyped /\ todo[1] \in Roots
    BY <2>1, InHand DEF Invariant, Typed, TxTyped
  <2>3. pc' = "sets" => tx'[todo[1]].term # "none"
    BY <2>1, <2>2, WriteTerm
  <2> QED
    BY <2>1, <2>3 DEF Settled, Reverting
<1>5. CASE WriteJournal \/ NoLegacyEntries \/ RegisterLegacyJournal \/ RegisterStandalone \/ DiscardTransactionRoots
  BY <1>5 DEF WriteJournal, NoLegacyEntries, RegisterLegacyJournal, RegisterStandalone, PublishMember,
     DiscardTransactionRoots, Close, Goto, Settled, Reverting
<1>6. CASE SelectHistory \/ RevertFinished \/ NextMember \/ RevertGenerationUndo \/ RevertGenerationMember
           \/ PrepareLegacyMemberRevert \/ RunRevertDurable \/ MarkLegacyMemberReverted
           \/ RetireLegacyMemberRevertWork \/ Died
  BY <1>6 DEF SelectHistory, RevertFinished, NextMember, RevertGenerationUndo, RevertGenerationMember,
     PrepareLegacyMemberRevert, RunRevertDurable, MarkLegacyMemberReverted,
     RetireLegacyMemberRevertWork, Died, Close, Goto, Settled, Reverting
<1> QED
  BY <1>1, <1>2, <1>3, <1>4, <1>5, <1>6 DEF Next, GuardNext

\* Only the transaction whose intent is written becomes pending.
LEMMA PendingStep ==
  ASSUME TxStep, edits' = 0
  PROVE  \A t \in Pending' : t \in Intended' /\ (t \in Pending \/ Begun(t))
BY DEF TxStep, Recorded, Pending

\* What is pending stays in hand, and last.
LEMMA PendingKnownStep ==
  ASSUME Invariant, PendingKnown, PlanOrdered, Next, GuardStep, TxStep, HostStep, PlanKnown'
  PROVE  PendingKnown'
<1>1. SUFFICES ASSUME edits' = 0 PROVE PendingKnown'
  BY DEF PendingKnown
<1>2. edits = 0
  BY <1>1 DEF Invariant, Typed, GuardStep, Beginning, Ended, Aside, Flow
<1>3. /\ pc \in Settled => Pending = {}
      /\ pc \in {"mutate", "seal"} => Pending = {todo[1]}
      /\ \A t \in Pending, e \in Range(applied) : ~After(e, <<"tx", t>>)
  BY <1>2 DEF PendingKnown, Settled
<1>4. \A t \in Pending' : t \in Intended' /\ (t \in Pending \/ Begun(t))
  BY <1>1, PendingStep
<1>5. ASSUME pc' \in Settled PROVE Pending' = {}
  <2>1. CASE pc \in Settled /\ (pc = "intent" => UNCHANGED tx)
    <3>1. \A t \in Pending' : Begun(t) /\ t \notin Pending
      BY <1>3, <1>4, <2>1
    <3>2. UNCHANGED tx => Pending' = Pending
      BY DEF Pending, Intended, HasIntent, Roots
    <3> QED
      BY <1>3, <2>1, <3>1, <3>2 DEF Begun
  <2>2. CASE pc = "recover" /\ Pending = {} /\ UNCHANGED tx
    BY <1>4, <2>2 DEF Begun
  <2>3. CASE pc = "seal" /\ tx'[todo[1]].term # "none"
    <3>1. \A t \in Pending' : t = todo[1]
      BY <1>3, <1>4, <2>3 DEF Begun
    <3>2. \A t \in Pending' : tx'[t].term = "none"
      BY DEF Pending
    <3> QED
      BY <2>3, <3>1, <3>2
  <2> QED
    BY <1>5, <2>1, <2>2, <2>3, SettledStep
<1>6. ASSUME pc' \in {"mutate", "seal"} PROVE Pending' = {todo'[1]}
  <2>1. pc \in {"intent", "mutate", "seal"} /\ UNCHANGED todo
    BY <1>6, SettledStep
  <2>2. \A t \in Pending' : t = todo[1]
    BY <1>3, <1>4, <2>1 DEF Begun, Settled
  <2>3. todo'[1] \in Pending'
    <3>1. todo' \in Seq(Txs) /\ todo' # <<>> /\ tx'[todo'[1]].intent = "ok"
          /\ \A i \in DOMAIN todo' : tx'[todo'[i]] # None /\ tx'[todo'[i]].term = "none"
      BY <1>6 DEF PlanKnown, Planning
    <3>2. 1 \in DOMAIN todo' /\ todo'[1] \in Txs
      BY <3>1
    <3> QED
      BY <3>1, <3>2 DEF Pending, Intended, HasIntent, Roots
  <2> QED
    BY <2>1, <2>2, <2>3
<1>7. ASSUME NEW t \in Pending', NEW e \in Range(applied') PROVE ~After(e, <<"tx", t>>)'
  <2>1. t \in Intended' /\ t \in Txs
    BY <1>4 DEF Intended, Roots
  <2>2. CASE e \in Range(applied) /\ t \in Pending
    <3>1. Placed(e) /\ Placed(<<"tx", t>>)
      BY <2>1, <2>2, OnHost DEF Placed, Effects, Pending
    <3>2. ~After(e, <<"tx", t>>)
      BY <1>3, <2>2
    <3> QED
      BY <3>1, <3>2, AfterKept
  <2>3. CASE e \in Range(applied) /\ t \notin Pending
    <3>1. Begun(t) /\ pc = "intent" /\ t = todo[1]
      BY <1>4, <2>3 DEF Begun
    <3>2. /\ t[1] = run.id /\ run.id = nruns /\ run.id \in Nat /\ 1 \in DOMAIN todo /\ t \notin Intended
          /\ t \in Roots /\ tx[t].ord \in Nat
      <4>1. todo # <<>> /\ t \notin Intended /\ t \in Roots
        BY <3>1, InHand
      <4>2. todo \in Seq(Txs) /\ \A i \in DOMAIN todo : todo[i][1] = run.id
        BY <3>1 DEF Invariant, PlanKnown, Planning
      <4>3. tx[t] \in TxRecord
        BY <4>1 DEF Invariant, Typed, Roots
      <4> QED
        BY <3>1, <4>1, <4>2, <4>3 DEF Invariant, Typed, TxRecord
    <3>3. RunOf(e) \in Nat /\ RunOf(e) <= run.id
      BY <2>3, <3>2, OnHost
    <3>4. ASSUME RunOf(e) = run.id PROVE e[1] = "tx" /\ tx'[e[2]].ord < tx'[t].ord /\ tx'[e[2]].ord \in Nat
      <4>1. e[1] = "tx"
        BY <2>3, <3>1, <3>4, OnHost DEF Planning
      <4>2. e = <<"tx", e[2]>> /\ e[2] \in Intended /\ e[2][1] = run.id
        BY <2>3, <3>4, <4>1, OnHost
      <4>3. e[2] \in Txs /\ tx[e[2]] \in TxRecord /\ e[2] # t /\ <<"tx", e[2]>> \in Range(applied)
        BY <2>3, <3>2, <4>2 DEF Intended, Roots, Invariant, Typed
      <4>4. tx[e[2]].ord < tx[t].ord
        BY <3>1, <3>2, <4>2, <4>3 DEF PlanOrdered, Planning
      <4>5. tx'[e[2]].ord = tx[e[2]].ord /\ tx'[t].ord = tx[t].ord
        BY <3>1, <4>2 DEF TxStep, Recorded, Begun
      <4>6. tx[e[2]].ord \in Nat
        BY <4>3 DEF TxRecord
      <4> QED
        BY <4>1, <4>4, <4>5, <4>6
    <3>5. tx'[t].ord \in Nat
      BY <3>1, <3>2 DEF Begun
    <3>6. RunOf(<<"tx", t>>) = run.id
      BY <3>2 DEF RunOf
    <3>7. RunOf(e)' = RunOf(e) /\ RunOf(<<"tx", t>>)' = RunOf(<<"tx", t>>)
      BY DEF RunOf
    <3> QED
      BY <3>2, <3>3, <3>4, <3>5, <3>6, <3>7 DEF After
  <2>4. CASE e \notin Range(applied)
    <3>1. \/ pc = "mutate" /\ e = <<"tx", todo[1]>>
          \/ pc = "sets"
      BY <2>4 DEF HostStep
    <3>2. t \in Pending
      BY <1>4, <3>1 DEF Begun
    <3>3. pc = "mutate" /\ e = <<"tx", t>>
      BY <1>3, <3>1, <3>2 DEF Settled
    <3>4. tx'[t] \in TxRecord
      BY <2>1 DEF TxStep, TxTyped, Intended, Roots
    <3>5. tx'[t].ord \in Nat /\ t[1] \in Nat
      BY <2>1, <3>4 DEF TxRecord, Txs, Runs
    <3>6. ~After(<<"tx", t>>, <<"tx", t>>)'
      BY <3>5 DEF After, RunOf
    <3> QED
      BY <3>3, <3>6
  <2> QED
    BY <2>2, <2>3, <2>4
<1>8. \A t \in Pending', e \in Range(applied') : ~After(e, <<"tx", t>>)'
  BY <1>7
<1> QED
  BY <1>5, <1>6, <1>8 DEF PendingKnown, Settled

-----------------------------------------------------------------------------
(* Owners of journals *)

\* Members are of runs, and of journals of earlier or equal runs.
LEMMA OwnersKnownStep ==
  ASSUME Invariant, OwnersKnown, GuardStep, TxStep, MemberStep
  PROVE  OwnersKnown'
<1>1. /\ ordinal \in Nat /\ nruns \in Nat /\ (pc # "idle" => run.id = nruns)
  BY DEF Invariant, Typed
<1>2. \A m \in Registered : m \in Members /\ members[m].run \in Nat /\ members[m].ord \in Nat /\ members[m].run <= nruns
  BY DEF Invariant, Typed, RunsSoFar, Registered, MemberRecord, Runs
<1>3. \A m \in Registered' : m \in Members /\ m[1] \in Runs
  BY DEF Registered, Members
<1>4. \A m \in Registered' : m[1] <= members'[m].run
  <2>1. \A r \in Runs : journals[r] # None => r <= nruns
    BY DEF Invariant, RunsSoFar
  <2> QED
    BY <1>1, <1>3, <2>1 DEF OwnersKnown, MemberStep
<1>5. ASSUME pc' \in Opening \cup Planning, NEW m \in Registered' PROVE members'[m].run < nruns'
  <2>1. CASE Beginning
    <3>1. ordinal' # ordinal + 1 /\ pc' = "work" /\ nruns' = nruns + 1
      BY <1>1, <2>1 DEF Beginning
    <3>2. m \in Registered
      BY <3>1 DEF MemberStep
    <3> QED
      BY <1>1, <1>2, <3>1, <3>2 DEF MemberStep
  <2>2. CASE ~Beginning
    <3>1. pc \in Opening \cup Planning /\ UNCHANGED nruns
      BY <1>5, <2>2 DEF GuardStep, Ended, Aside, Flow, Opening, Planning
    <3>2. m \in Registered
      BY <3>1 DEF MemberStep, Opening, Planning
    <3> QED
      BY <3>1, <3>2 DEF MemberStep, OwnersKnown
  <2> QED
    BY <2>1, <2>2
<1>6. ASSUME NEW m \in Registered', NEW t \in Intended', members'[m].run = t[1], m[1] = t[1]
      PROVE  tx'[t].ord < members'[m].ord
  <2>1. CASE m \in Registered /\ t \in Intended
    BY <1>6, <2>1 DEF OwnersKnown, MemberStep, TxStep, Recorded
  <2>2. CASE m \in Registered /\ t \notin Intended
    <3>1. pc = "intent" /\ t = todo[1]
      BY <2>2 DEF TxStep, Begun
    <3>2. t[1] = nruns
      <4>1. todo \in Seq(Txs) /\ todo # <<>> /\ \A i \in DOMAIN todo : todo[i][1] = run.id
        BY <3>1 DEF Invariant, PlanKnown, Planning
      <4> QED
        BY <1>1, <3>1, <4>1
    <3>3. members[m].run < nruns
      BY <2>2, <3>1 DEF OwnersKnown, Planning
    <3> QED
      BY <1>1, <1>2, <1>6, <2>2, <3>2, <3>3 DEF MemberStep
  <2>3. CASE m \notin Registered
    <3>1. pc \in {"register", "next"} /\ members'[m].run = run.id /\ members'[m].ord = ordinal /\ UNCHANGED tx
      BY <2>3 DEF MemberStep
    <3>2. t \in Intended
      BY <3>1 DEF Intended, Roots, HasIntent
    <3>3. tx[t].ord < ordinal
      BY <1>6, <3>1, <3>2 DEF Invariant, OrdinalsKnown, Named
    <3> QED
      BY <3>1, <3>3
  <2> QED
    BY <2>1, <2>2, <2>3
<1> QED
  BY <1>4, <1>5, <1>6 DEF OwnersKnown

\* A member that is added is of the journal of the run or of the item in hand.
LEMMA AdoptedStep ==
  ASSUME Invariant, Next, NEW m \in Registered', m \notin Registered
  PROVE  \/ pc = "register" /\ m[1] = run.id
         \/ pc = "next" /\ todo # <<>> /\ todo[1][1] = "journal" /\ m[1] = todo[1][2]
<1>1. ~UNCHANGED members
  BY DEF Registered
<1>2. ASSUME NEW n, members' \in {members, NewMember(n)} PROVE m = n
  <2>1. members' = NewMember(n) /\ n \notin Registered
    BY <1>1, <1>2 DEF NewMember
  <2> QED
    BY <2>1 DEF NewMember, Registered, Invariant, Typed
<1>3. CASE RegisterLegacyJournal
  <2>1. pc = "register" /\ members' \in {members, NewMember(CurrentMember(run.id))}
    BY <1>3 DEF RegisterLegacyJournal, PublishMember
  <2>2. m = CurrentMember(run.id)
    BY <1>2, <2>1
  <2> QED
    BY <2>1, <2>2 DEF CurrentMember
<1>4. CASE RegisterStandalone
  <2>1. pc = "next" /\ todo # <<>> /\ todo[1][1] = "journal"
        /\ members' \in {members, NewMember(CurrentMember(todo[1][2]))}
    BY <1>4 DEF RegisterStandalone, PublishMember, Head1
  <2>2. m = CurrentMember(todo[1][2])
    BY <1>2, <2>1
  <2> QED
    BY <2>1, <2>2 DEF CurrentMember
<1> QED
  BY <1>1, <1>3, <1>4
  DEF Next, GuardNext, InspectNext, WorldNext, Begin, ReconcileLegacyRevertWork, RecoverUndo,
     BeginDone, RootsDone, Mutate, ScanPending, RecoverRecord, CreateTransactionRoot, PrepareSet, PersistIntent, Seal,
     NoLegacyEntries, WriteJournal, DiscardTransactionRoots,
     SelectHistory, RevertFinished, NextMember, RevertGenerationUndo, RevertGenerationMember,
     PrepareLegacyMemberRevert, RunRevertDurable, Died, EditRecord, EditJournal, DeleteBackups,
     MarkLegacyMemberReverted, RetireLegacyMemberRevertWork, SetClockBack,
     ScanStoreInspectionTree, InspectGenerationTransactions, InspectLegacyMembers, FinishInspection,
     disk, store

\* The latest journal is the one of the last run that has one.
LEMMA LatestIsLast ==
  ASSUME StartsKnown, backs = 0, NEW r, LatestJournal(r)
  PROVE  r \in Runs /\ journals[r] # None /\ \A q \in Runs : journals[q] # None => q <= r
<1>1. \A q \in Runs : journals[q] # None => journals[q].name = q
  BY DEF StartsKnown
<1>2. \A q \in Runs : q \in Int
  BY DEF Runs
<1>3. r \in Runs /\ journals[r] # None
  BY DEF LatestJournal
<1>4. ASSUME NEW q \in Runs, journals[q] # None PROVE q <= r
  <2>1. CASE q = r
    BY <1>2, <2>1
  <2>2. CASE q # r
    <3> DEFINE a == [started |-> journals[r].name, run |-> r]
               b == [started |-> journals[q].name, run |-> q]
    <3>1. Newer(a, b)
      BY <1>4, <2>2 DEF LatestJournal
    <3>2. a.started = r /\ a.run = r /\ b.started = q /\ b.run = q
      BY <1>1, <1>3, <1>4
    <3> HIDE DEF a, b
    <3>3. r > q
      BY <2>2, <3>1, <3>2 DEF Newer
    <3> QED
      BY <1>2, <1>3, <1>4, <3>3
  <2> QED
    BY <2>1, <2>2
<1> QED
  BY <1>3, <1>4

\* A revert item stands for an effect.
LEMMA ItemPlaced ==
  ASSUME Invariant, pc \in Reverting, NEW i \in DOMAIN todo
  PROVE  /\ Placed(Effect(todo[i])) /\ todo[i][1] \in {"generation", "legacy", "journal"}
         /\ i \in Nat /\ 1 \in DOMAIN todo /\ DOMAIN todo = 1..Len(todo) /\ Len(todo) \in Nat
<1>1. todo \in Seq(Items) /\ ItemKnown(todo[i])
  BY DEF Invariant, RevertKnown, Items
<1>2. PICK x : x = todo[i]
  OBVIOUS
<1>3. ItemKnown(x)
  BY <1>1, <1>2
<1>4. CASE x \in {"generation"} \X Txs /\ x[2] \in Intended
  BY <1>1, <1>2, <1>4 DEF Placed, Effect, Effects
<1>5. CASE x \in {"legacy"} \X Members /\ x[2] \in Registered
  BY <1>1, <1>2, <1>5 DEF Placed, Effect, Effects, Members
<1>6. CASE x \in {"journal"} \X Runs /\ journals[x[2]] # None
  BY <1>1, <1>2, <1>6 DEF Placed, Effect, Effects
<1> QED
  BY <1>3, <1>4, <1>5, <1>6 DEF ItemKnown

\* A journal is adopted only when nothing later is on the host.
LEMMA AdoptedLastStep ==
  ASSUME Invariant, StartsKnown, OwnersKnown, AdoptedLast, RevertOrdered, Next, GuardStep, HostStep, MemberStep
  PROVE  AdoptedLast'
<1>1. SUFFICES ASSUME Quiet' PROVE AdoptedLast'
  BY DEF AdoptedLast
<1>2. Quiet
  BY <1>1, QuietBefore DEF Quiet
<1>3. SUFFICES ASSUME NEW m \in Registered', NEW e \in Range(applied'),
                      m[1] < RunOf(e), RunOf(e) <= members'[m].run
               PROVE  FALSE
  <2>1. \A e : RunOf(e)' = RunOf(e)
    BY DEF RunOf
  <2> QED
    BY <2>1 DEF AdoptedLast
<1>4. CASE m \in Registered /\ e \in Range(applied)
  BY <1>2, <1>3, <1>4 DEF AdoptedLast, MemberStep
<1>5. CASE m \in Registered /\ e \notin Range(applied)
  <2>1. /\ pc \in {"mutate", "sets"}
        /\ (e = <<"tx", todo[1]>> /\ pc = "mutate") \/ e = <<"journal", run.id>>
    BY <1>5 DEF HostStep
  <2>2. RunOf(e) = nruns /\ nruns \in Nat
    <3>1. run.id = nruns /\ nruns \in Nat
      BY <2>1 DEF Invariant, Typed
    <3>2. pc = "mutate" => todo[1][1] = run.id
      <4>1. pc = "mutate" => todo \in Seq(Txs) /\ todo # <<>> /\ \A i \in DOMAIN todo : todo[i][1] = run.id
        BY DEF Invariant, PlanKnown, Planning
      <4> QED
        BY <4>1
    <3> QED
      BY <2>1, <3>1, <3>2 DEF RunOf
  <2>3. members[m].run < nruns /\ members'[m] = members[m] /\ members[m].run \in Nat
    BY <1>5, <2>1 DEF OwnersKnown, Planning, MemberStep, Registered, Invariant, Typed, MemberRecord, Runs
  <2> QED
    BY <1>3, <2>2, <2>3
<1>6. CASE m \notin Registered
  <2>1. \/ pc = "register" /\ m[1] = run.id
        \/ pc = "next" /\ todo # <<>> /\ todo[1][1] = "journal" /\ m[1] = todo[1][2]
    BY <1>6, AdoptedStep
  <2>2. e \in Range(applied)
    BY <2>1 DEF HostStep
  <2>3. RunOf(e) \in Nat
    BY <2>2, OnHost
  <2>4. CASE pc = "register" /\ m[1] = run.id
    <3>1. members'[m].run = run.id /\ run.id \in Nat
      BY <1>6, <2>4 DEF MemberStep, Invariant, Typed
    <3> QED
      BY <1>3, <2>3, <2>4, <3>1
  <2>5. CASE pc = "next" /\ todo # <<>> /\ todo[1][1] = "journal" /\ m[1] = todo[1][2]
    <3>1. todo \in Seq(Items)
      BY <2>5 DEF Invariant, RevertKnown, Items, Reverting
    <3>2. 1 \in DOMAIN todo
      BY <2>5, <3>1
    <3>3. LatestJournal(m[1]) /\ (After(e, Effect(todo[1])) => Orphan(e) \/ \E h \in 1..(1 - 1) : e = Effect(todo[h]))
      BY <1>2, <2>2, <2>5, <3>2 DEF RevertOrdered, Reverting
    <3>4. RunOf(Effect(todo[1])) = m[1]
      BY <2>5 DEF Effect, RunOf
    <3>5. m[1] \in Nat /\ After(e, Effect(todo[1]))
      <4>1. m[1] \in Nat
        BY DEF Registered, Members, Runs
      <4> QED
        BY <1>3, <2>3, <3>4, <4>1 DEF After
    <3>6. Orphan(e)
      BY <3>3, <3>5
    <3>7. RunOf(e) \in Runs /\ journals[RunOf(e)] # None
      BY <2>2, <3>6, OnHost DEF Orphan
    <3>8. RunOf(e) <= m[1]
      BY <1>2, <3>3, <3>7, LatestIsLast DEF Quiet
    <3> QED
      BY <1>3, <2>3, <3>5, <3>8
  <2> QED
    BY <2>1, <2>4, <2>5
<1> QED
  BY <1>4, <1>5, <1>6

-----------------------------------------------------------------------------
(* A revert goes on in order *)

\* How a revert goes on.
Registering == /\ pc = "next" /\ pc' # "retire" /\ todo # <<>> /\ todo[1][1] = "journal"
               /\ todo' = << <<"legacy", CurrentMember(todo[1][2])>> >> \o Tail(todo)
Finishing == /\ pc \in {"consume", "retire"} /\ pc' = "next" /\ todo # <<>> /\ todo' = Tail(todo)
RevertMove ==
  pc' \in Reverting =>
    \/ SelectHistory
    \/ pc \in Reverting /\ UNCHANGED todo /\ (pc' = "retire" => pc \in {"mark", "retire"})
    \/ Registering
    \/ Finishing

\* Every step of a revert goes on so.
LEMMA RevertMoveLemma ==
  ASSUME Invariant, Next
  PROVE  RevertMove
<1>1. CASE InspectNext \/ WorldNext
  BY <1>1 DEF InspectNext, ScanStoreInspectionTree, InspectGenerationTransactions,
     InspectLegacyMembers, FinishInspection, WorldNext, EditJournal, DeleteBackups, EditRecord,
     SetClockBack, guard, RevertMove
<1>2. CASE GuardNext /\ pc' \notin Reverting
  BY <1>2 DEF RevertMove
<1>3. CASE (\E c \in {"restore", "revert"} : Begin(c)) \/ ReconcileLegacyRevertWork \/ ScanPending
           \/ RecoverUndo \/ RecoverRecord \/ BeginDone
  BY <1>3 DEF Begin, ReconcileLegacyRevertWork, ScanPending, RecoverUndo, RecoverRecord,
       BeginDone, Close, Goto, RevertMove, Reverting
<1>4. CASE CreateTransactionRoot \/ RootsDone \/ PrepareSet \/ PersistIntent \/ Mutate \/ Seal
           \/ WriteJournal \/ NoLegacyEntries \/ RegisterLegacyJournal \/ DiscardTransactionRoots
  BY <1>4 DEF CreateTransactionRoot, RootsDone, PrepareSet, PersistIntent, Mutate, Seal, Goto,
       WriteJournal, NoLegacyEntries, RegisterLegacyJournal, PublishMember, DiscardTransactionRoots, Close,
       RevertMove, Reverting
<1>5. CASE SelectHistory
  BY <1>5 DEF RevertMove
<1>6. CASE RegisterStandalone
  BY <1>6 DEF RegisterStandalone, PublishMember, Head1, Goto, RevertMove, Registering, Reverting
<1>7. CASE RevertGenerationMember \/ RetireLegacyMemberRevertWork
  <2>1. todo # <<>>
    BY <1>7 DEF RevertGenerationMember, RetireLegacyMemberRevertWork, Invariant, RevertKnown, Reverting
  <2> QED
    BY <1>7, <2>1 DEF RevertGenerationMember, RetireLegacyMemberRevertWork, Close, Goto,
       RevertMove, Finishing, Reverting
<1>8. CASE RevertFinished \/ NextMember \/ RevertGenerationUndo \/ PrepareLegacyMemberRevert
           \/ RunRevertDurable \/ MarkLegacyMemberReverted \/ Died
  BY <1>8 DEF RevertFinished, NextMember, RevertGenerationUndo, PrepareLegacyMemberRevert,
     RunRevertDurable, MarkLegacyMemberReverted, Died, Close, Goto, RevertMove, Reverting
<1> QED
  BY <1>1, <1>3, <1>4, <1>5, <1>6, <1>7, <1>8 DEF Next, GuardNext

\* The latest journal stays the latest while nobody restores.
LEMMA LatestKept ==
  ASSUME Invariant, Next, pc # "sets"
  PROVE  /\ \A r : LatestJournal(r)' <=> LatestJournal(r)
         /\ \A r \in Runs : journals'[r] # None <=> journals[r] # None
<1>1. NameStep /\ JournalStep
  BY NameStepLemma, JournalStepLemma
<1>2. \A r \in Runs : /\ journals'[r] # None <=> journals[r] # None
                      /\ journals[r] # None => journals'[r].name = journals[r].name
  BY <1>1 DEF NameStep, JournalStep
<1>3. \A a, b : Newer(a, b)' = Newer(a, b)
  BY DEF Newer
<1>4. ASSUME NEW r \in Runs, journals[r] # None,
             NEW q \in Runs, journals[q] # None
      PROVE  Newer([started |-> journals'[r].name, run |-> r], [started |-> journals'[q].name, run |-> q])
               <=> Newer([started |-> journals[r].name, run |-> r], [started |-> journals[q].name, run |-> q])
  <2>1. journals'[r].name = journals[r].name /\ journals'[q].name = journals[q].name
    BY <1>2, <1>4
  <2> QED
    BY <2>1
<1>5. ASSUME NEW r PROVE LatestJournal(r)' <=> LatestJournal(r)
  BY <1>2, <1>4 DEF LatestJournal, Newer
<1> QED
  BY <1>2, <1>5

\* An effect that nobody knows stays unknown to a revert.
LEMMA OrphanKept ==
  ASSUME Invariant, StartsKnown, RevertOrdered, Quiet, Next, pc \in Reverting, NEW e \in Range(applied), Orphan(e)
  PROVE  Orphan(e)'
<1>1. pc # "sets" /\ pc # "register"
  BY DEF Reverting
<1>2. ~LatestJournal(e[2])' /\ e[1] = "journal"
  BY <1>1, LatestKept DEF Orphan
<1>3. ASSUME NEW m \in Registered', m[1] = e[2] PROVE FALSE
  <2>1. m \notin Registered
    BY <1>3 DEF Orphan
  <2>2. todo # <<>> /\ todo[1][1] = "journal" /\ m[1] = todo[1][2]
    BY <1>1, <2>1, AdoptedStep
  <2>3. 1 \in DOMAIN todo
    BY <2>2 DEF Invariant, RevertKnown, Items
  <2>4. LatestJournal(m[1])
    BY <2>2, <2>3 DEF RevertOrdered
  <2> QED
    BY <1>3, <2>4 DEF Orphan
<1> QED
  BY <1>2, <1>3 DEF Orphan

\* What is left of a revert is in order when the rest of its items is.
LEMMA RevertShift ==
  ASSUME Invariant, StartsKnown, RevertOrdered, Quiet, Next, pc \in Reverting, TxStep, HostStep,
         NEW s \in {0, 1},
         \A i \in DOMAIN todo' :
            /\ i \in Nat /\ i # 0 /\ i + s \in DOMAIN todo
            /\ \A h \in 1..i : Effect(todo'[h]) = Effect(todo[h + s])
            /\ todo'[i][1] = "journal" => todo[i + s] = todo'[i],
         s = 1 => Effect(todo[1]) \notin Range(applied)
  PROVE  /\ \A i \in DOMAIN todo' : todo'[i][1] = "journal" => i = 1 /\ LatestJournal(todo[i][2])'
         /\ \A i \in DOMAIN todo' : \A e \in Range(applied') : \A f : f = Effect(todo'[i]) /\ After(e, f)' =>
              Orphan(e)' \/ \E h \in 1..(i - 1) : e = Effect(todo'[h])
<1>1. /\ \A i \in DOMAIN todo : todo[i][1] = "journal" => i = 1 /\ LatestJournal(todo[i][2])
      /\ \A i \in DOMAIN todo : \A e \in Range(applied) : After(e, Effect(todo[i])) =>
           Orphan(e) \/ \E h \in 1..(i - 1) : e = Effect(todo[h])
  BY DEF RevertOrdered
<1>2. ASSUME NEW i \in DOMAIN todo', todo'[i][1] = "journal"
      PROVE  i = 1 /\ LatestJournal(todo[i][2])'
  <2>1. i + s \in DOMAIN todo /\ todo[i + s] = todo'[i] /\ i \in Nat /\ i # 0
    BY <1>2
  <2>2. i + s = 1 /\ LatestJournal(todo[i + s][2])
    BY <1>1, <1>2, <2>1
  <2>3. s = 0 /\ i = 1
    BY <2>1, <2>2
  <2>4. pc # "sets"
    BY DEF Reverting
  <2>5. PICK r : r = todo[i][2]
    OBVIOUS
  <2>6. LatestJournal(r)'
    BY <2>1, <2>2, <2>3, <2>4, <2>5, LatestKept
  <2>7. todo'[i] = todo[i]
    BY <2>1, <2>3
  <2> QED
    BY <2>3, <2>5, <2>6, <2>7
<1>3. ASSUME NEW i \in DOMAIN todo', NEW e \in Range(applied'), NEW f, f = Effect(todo'[i]), After(e, f)'
      PROVE  Orphan(e)' \/ \E h \in 1..(i - 1) : e = Effect(todo'[h])
  <2>1. e \in Range(applied)
    BY DEF HostStep, Reverting
  <2>2. i \in Nat /\ i # 0 /\ i + s \in DOMAIN todo /\ f = Effect(todo[i + s])
    <3>1. i \in 1..i
      OBVIOUS
    <3> QED
      BY <1>3, <3>1
  <2>3. After(e, f)
    <3>1. Placed(e)
      BY <2>1, OnHost DEF Placed
    <3>2. Placed(f)
      BY <2>2, ItemPlaced
    <3> QED
      BY <1>3, <3>1, <3>2, AfterKept
  <2>4. CASE Orphan(e)
    BY <2>1, <2>4, OrphanKept
  <2>5. ASSUME NEW h \in 1..((i + s) - 1), e = Effect(todo[h])
        PROVE  \E g \in 1..(i - 1) : e = Effect(todo'[g])
    <3>1. h # s
      <4>1. s = 1 => e # Effect(todo[1])
        BY <2>1
      <4> QED
        BY <2>2, <2>5, <4>1
    <3>2. h - s \in 1..(i - 1) /\ h - s \in 1..i /\ (h - s) + s = h
      BY <2>2, <2>5, <3>1
    <3>3. Effect(todo'[h - s]) = Effect(todo[(h - s) + s])
      BY <3>2
    <3> QED
      BY <2>5, <3>2, <3>3
  <2>6. Orphan(e) \/ \E h \in 1..((i + s) - 1) : e = Effect(todo[h])
    BY <1>1, <2>1, <2>2, <2>3
  <2> QED
    BY <2>4, <2>5, <2>6
<1> QED
  BY <1>2, <1>3

\* What RevertShift says of the rest of a revert is that it is in order.
LEMMA RevertRest ==
  ASSUME \A i \in DOMAIN todo' : todo'[i][1] = "journal" => i = 1 /\ LatestJournal(todo[i][2])',
         \A i \in DOMAIN todo' : \A e \in Range(applied') : \A f : f = Effect(todo'[i]) /\ After(e, f)' =>
              Orphan(e)' \/ \E h \in 1..(i - 1) : e = Effect(todo'[h]),
         pc' = "retire" => Effect(todo'[1]) \notin Range(applied')
  PROVE  RevertOrdered'
<1>1. ASSUME NEW i \in DOMAIN todo', NEW e \in Range(applied'), After(e, Effect(todo[i]))'
      PROVE  Orphan(e)' \/ \E h \in 1..(i - 1) : e = Effect(todo'[h])
  <2>1. PICK f : f = Effect(todo'[i])
    OBVIOUS
  <2>2. After(e, f)'
    BY <1>1, <2>1 DEF After, RunOf, Effect
  <2> QED
    BY <2>1, <2>2
<1>2. \A i \in DOMAIN todo' : \A e \in Range(applied') : After(e, Effect(todo[i]))' =>
         Orphan(e)' \/ \E h \in 1..(i - 1) : e = Effect(todo'[h])
  BY <1>1
<1>3. \A x : Effect(x)' = Effect(x)
  BY DEF Effect
<1> QED
  BY <1>2, <1>3 DEF RevertOrdered, Effect

\* A revert stays in order until it is done.
LEMMA RevertOrderedGoesOn ==
  ASSUME Invariant, StartsKnown, RevertOrdered, Quiet, Next, pc \in Reverting, pc' \in Reverting,
         TxStep, HostStep, RevertMove
  PROVE  RevertOrdered'
<1>1. todo \in Seq(Items) /\ Len(todo) \in Nat /\ DOMAIN todo = 1..Len(todo)
  BY DEF Invariant, RevertKnown, Items
<1>2. ~SelectHistory
  BY DEF SelectHistory, Reverting
<1>3. CASE UNCHANGED todo /\ (pc' = "retire" => pc \in {"mark", "retire"})
  <2>1. Effect(todo[1]) \notin Range(applied) \/ pc' # "retire"
    <3>1. pc = "mark" => todo[1][1] = "legacy" /\ <<"journal", todo[1][2][1]>> \notin Range(applied)
      BY DEF Invariant, RevertKnown, UndoneFirst
    <3>2. pc = "mark" => Effect(todo[1]) \notin Range(applied)
      BY <3>1 DEF Effect
    <3>3. pc = "retire" => Effect(todo[1]) \notin Range(applied)
      BY DEF RevertOrdered
    <3> QED
      BY <1>3, <3>2, <3>3
  <2>2. pc' = "retire" => Effect(todo'[1]) \notin Range(applied')
    BY <1>3, <2>1 DEF HostStep, Reverting
  <2>3. \A i \in DOMAIN todo' :
            /\ i \in Nat /\ i # 0 /\ i + 0 \in DOMAIN todo
            /\ \A h \in 1..i : Effect(todo'[h]) = Effect(todo[h + 0])
            /\ todo'[i][1] = "journal" => todo[i + 0] = todo'[i]
    BY <1>1, <1>3
  <2> QED
    BY <2>2, <2>3, RevertShift, RevertRest
<1>4. CASE Registering
  <2> DEFINE x == <<"legacy", CurrentMember(todo[1][2])>>
             rest == Tail(todo)
  <2>1. /\ \A i \in DOMAIN rest : i + 1 \in DOMAIN todo /\ rest[i] = todo[i + 1]
        /\ rest \in Seq(Items) /\ Len(rest) \in Nat /\ Len(rest) = Len(todo) - 1 /\ 1 \in DOMAIN todo
        /\ DOMAIN rest = 1..Len(rest)
    BY <1>1, <1>4, TailOf DEF Registering
  <2>2. x[1] = "legacy" /\ Effect(x) = Effect(todo[1])
    BY <1>4 DEF Registering, Effect, CurrentMember
  <2>3. todo' = <<x>> \o rest
    BY <1>4 DEF Registering
  <2> HIDE DEF x, rest
  <2>4. /\ DOMAIN todo' = 1..Len(todo) /\ todo'[1] = x
        /\ \A i \in DOMAIN todo' : i # 1 => todo'[i] = todo[i]
    <3>1. PICK S : S = Items \cup {x}
      OBVIOUS
    <3>2. PICK u : u = <<x>> /\ u \in Seq(S) /\ rest \in Seq(S) /\ Len(u) = 1 /\ u[1] = x
      <4>1. rest \in Seq(S)
        <5>1. Items \subseteq S
          BY <3>1
        <5> QED
          BY <2>1, <5>1, SeqMonotonic
      <4>2. x \in S
        BY <3>1
      <4>3. <<x>> \in Seq(S) /\ Len(<<x>>) = 1 /\ <<x>>[1] = x
        BY <4>2
      <4> QED
        BY <4>1, <4>3
    <3>3. /\ Len(todo') = Len(todo)
          /\ \A i \in 1..Len(todo) : todo'[i] = IF i <= 1 THEN u[i] ELSE rest[i - 1]
          /\ todo' \in Seq(S)
      <4>1. /\ u \o rest \in Seq(S) /\ Len(u \o rest) = Len(u) + Len(rest)
            /\ \A i \in 1..(Len(u) + Len(rest)) : (u \o rest)[i] = IF i <= Len(u) THEN u[i] ELSE rest[i - Len(u)]
        BY <3>2, ConcatProperties, Zenon
      <4>2. Len(u) + Len(rest) = Len(todo) /\ todo' = u \o rest
        BY <1>1, <2>1, <2>3, <3>2
      <4> QED
        BY <3>2, <4>1, <4>2
    <3>4. 1 \in 1..Len(todo)
      BY <1>1, <2>1
    <3>5. todo'[1] = x
      BY <3>2, <3>3, <3>4
    <3>6. DOMAIN todo' = 1..Len(todo)
      BY <3>3
    <3>7. ASSUME NEW i \in 1..Len(todo), i # 1 PROVE todo'[i] = todo[i]
      <4>1. todo'[i] = rest[i - 1] /\ i - 1 \in DOMAIN rest /\ (i - 1) + 1 = i
        BY <1>1, <2>1, <3>3, <3>7
      <4> QED
        BY <2>1, <4>1
    <3> QED
      BY <3>5, <3>6, <3>7
  <2>5. \A i \in DOMAIN todo' : Effect(todo'[i]) = Effect(todo[i])
    BY <2>2, <2>4
  <2>6. \A i \in DOMAIN todo' :
            /\ i \in Nat /\ i # 0 /\ i + 0 \in DOMAIN todo
            /\ \A h \in 1..i : Effect(todo'[h]) = Effect(todo[h + 0])
            /\ todo'[i][1] = "journal" => todo[i + 0] = todo'[i]
    BY <1>1, <2>2, <2>4, <2>5
  <2>7. pc' # "retire"
    BY <1>4 DEF Registering
  <2> QED
    BY <2>6, <2>7, RevertShift, RevertRest
<1>5. CASE Finishing
  <2>1. /\ \A i \in DOMAIN todo' : i + 1 \in DOMAIN todo /\ todo'[i] = todo[i + 1]
        /\ Len(todo') = Len(todo) - 1 /\ DOMAIN todo' = 1..Len(todo')
    BY <1>1, <1>5, TailOf DEF Finishing
  <2>2. \A i \in DOMAIN todo' : i \in Nat /\ i # 0 /\ i + 1 \in DOMAIN todo /\ i + 1 # 1
    BY <1>1, <2>1
  <2>3. \A i \in DOMAIN todo' : \A h \in 1..i : h \in DOMAIN todo' /\ Effect(todo'[h]) = Effect(todo[h + 1])
    BY <1>1, <2>1
  <2>4. \A i \in DOMAIN todo : todo[i][1] = "journal" => i = 1
    BY DEF RevertOrdered
  <2>5. \A i \in DOMAIN todo' :
            /\ i \in Nat /\ i # 0 /\ i + 1 \in DOMAIN todo
            /\ \A h \in 1..i : Effect(todo'[h]) = Effect(todo[h + 1])
            /\ todo'[i][1] = "journal" => todo[i + 1] = todo'[i]
    BY <2>1, <2>2, <2>3, <2>4
  <2>6. Effect(todo[1]) \notin Range(applied)
    <3>1. pc = "consume" => todo[1][1] = "generation" /\ <<"tx", todo[1][2]>> \notin Range(applied)
      BY DEF Invariant, RevertKnown, UndoneFirst
    <3>2. pc = "consume" => Effect(todo[1]) \notin Range(applied)
      BY <3>1 DEF Effect
    <3> QED
      BY <1>5, <3>2 DEF Finishing, RevertOrdered
  <2>7. Effect(todo[1]) \notin Range(applied')
    BY <2>6 DEF HostStep, Reverting
  <2>8. pc' # "retire"
    BY <1>5 DEF Finishing
  <2> QED
    BY <2>5, <2>6, <2>8, RevertShift, RevertRest
<1> QED
  BY <1>2, <1>3, <1>4, <1>5 DEF RevertMove

-----------------------------------------------------------------------------
(* A revert begins in order *)

\* What the history says of an active member.
LEMMA ActiveTyped ==
  ASSUME Invariant, StartsKnown, backs = 0, NEW a \in ActiveMembers
  PROVE  a.run \in Nat /\ a.ord \in Nat /\ a.started = a.run
<1>1. CASE \E t \in ActiveTxs : a = Generation(t)
  <2>1. PICK t \in ActiveTxs : a = Generation(t)
    BY <1>1
  <2>2. t \in Roots /\ t \in Txs
    BY DEF ActiveTxs, Intended, Roots
  <2>3. t[1] \in Nat /\ tx[t] \in TxRecord
    BY <2>2 DEF Invariant, Typed, Roots, Txs, Runs
  <2>4. tx[t].ord \in Nat /\ tx[t].started = t[1]
    BY <2>2, <2>3 DEF TxRecord, StartsKnown
  <2> QED
    BY <2>1, <2>3, <2>4 DEF Generation
<1>2. CASE \E m \in ActiveJournals : a = Legacy(m)
  <2>1. PICK m \in ActiveJournals : a = Legacy(m)
    BY <1>2
  <2>2. m \in Registered /\ m \in Members
    BY DEF ActiveJournals, Registered
  <2>3. members[m] \in MemberRecord
    BY <2>2 DEF Invariant, Typed, Registered
  <2>4. members[m].run \in Nat /\ members[m].ord \in Nat /\ members[m].started = members[m].run
    BY <2>2, <2>3 DEF MemberRecord, Runs, StartsKnown
  <2> QED
    BY <2>1, <2>4 DEF Legacy
<1> QED
  BY <1>1, <1>2 DEF ActiveMembers

\* The newest member of a history that is not empty is one of its last run.
LEMMA NewestIsLast ==
  ASSUME Invariant, StartsKnown, backs = 0, ActiveMembers # {}
  PROVE  NewestMember \in ActiveMembers /\ \A n \in ActiveMembers : n.run <= NewestRun
<1> DEFINE A == ActiveMembers
           Above(n) == {k \in A : Newer(k, n)}
           T == {Above(n) : n \in A}
<1>1. \A a \in A : a.run \in Nat /\ a.ord \in Nat /\ a.started = a.run
  BY ActiveTyped
<1>2. \A m, n \in A : m # n => ~(m.run = n.run /\ m.ord = n.ord)
  BY DistinctHistory DEF OrdinalsDistinct
<1>3. \A m, n \in A : m # n => Newer(m, n) \/ Newer(n, m)
  BY <1>1, <1>2 DEF Newer
<1>4. \A m \in A : ~Newer(m, m)
  BY <1>1 DEF Newer
<1>5. \A k, m, n \in A : Newer(k, m) /\ Newer(m, n) => Newer(k, n)
  BY <1>1 DEF Newer
<1>6. IsFiniteSet(A)
  BY ActiveFinite
<1>7. T \subseteq FiniteSubsetsOf(A) /\ T # {}
  <2>1. \A n \in A : Above(n) \subseteq A /\ IsFiniteSet(Above(n))
    BY <1>6, FS_Subset
  <2> HIDE DEF A, Above
  <2>2. A # {}
    BY DEF A
  <2> QED
    BY <2>1, <2>2 DEF FiniteSubsetsOf
<1>8. IsWellFoundedOn(StrictSubsetOrdering(A), FiniteSubsetsOf(A))
  BY FS_StrictSubsetOrderingWellFounded
<1>9. PICK n \in A : \A y \in T : <<y, Above(n)>> \notin StrictSubsetOrdering(A)
  <2> HIDE DEF A, Above
  <2>1. PICK x \in T : \A y \in T : <<y, x>> \notin StrictSubsetOrdering(A)
    <3> HIDE DEF T
    <3> QED
      BY <1>7, <1>8, WFMin
  <2> QED
    BY <2>1
<1>10. \A k \in A : ~Newer(k, n)
  <2> SUFFICES ASSUME NEW k \in A, Newer(k, n) PROVE FALSE
    OBVIOUS
  <2>1. k \in Above(n) /\ k \notin Above(k)
    BY <1>4
  <2>2. Above(k) \subseteq Above(n)
    BY <1>5
  <2>3. Above(k) \in SUBSET A /\ Above(n) \in SUBSET A /\ Above(k) \in T
    OBVIOUS
  <2> HIDE DEF A, Above, T
  <2>4. <<Above(k), Above(n)>> \in StrictSubsetOrdering(A)
    BY <2>1, <2>2, <2>3 DEF StrictSubsetOrdering
  <2> QED
    BY <1>9, <2>3, <2>4
<1>11. \A m \in A \ {n} : Newer(n, m)
  BY <1>3, <1>10
<1>12. NewestMember \in A /\ \A m \in A \ {NewestMember} : Newer(NewestMember, m)
  BY <1>11 DEF NewestMember
<1> HIDE DEF A
<1>13. ASSUME NEW m \in A PROVE m.run <= NewestMember.run
  <2>1. m = NewestMember \/ Newer(NewestMember, m)
    BY <1>12
  <2> QED
    BY <1>1, <1>12, <2>1 DEF Newer
<1> QED
  BY <1>12, <1>13 DEF A, NewestRun

\* A plan of a run has all its active members, in the order of their ordinals.
LEMMA MembersInPlan ==
  ASSUME NEW r, NEW seq \in MembersOf(r)
  PROVE  /\ seq \in Seq({m \in ActiveMembers : m.run = r})
         /\ \A a \in ActiveMembers : a.run = r => \E i \in DOMAIN seq : seq[i] = a
         /\ \A i, k \in DOMAIN seq : i < k => seq[i].ord < seq[k].ord
<1> DEFINE S == {m \in ActiveMembers : m.run = r}
           n == Cardinality(S)
<1>1. n \in Nat /\ IsFiniteSet(S)
  <2>1. S \in SUBSET ActiveMembers
    OBVIOUS
  <2>2. IsFiniteSet(S)
    BY <2>1, ActiveFinite, FS_Subset
  <2> QED
    BY <2>2, FS_CardinalityType
<1>2. seq \in [1..n -> S] /\ \A i, j \in 1..n : i # j => seq[i] # seq[j]
  BY DEF MembersOf, SetToSeqs
<1>3. \A i, k \in DOMAIN seq : i < k => seq[i].ord < seq[k].ord
  BY DEF MembersOf
<1>4. \A a \in ActiveMembers : a.run = r => a \in S
  OBVIOUS
<1> HIDE DEF S, n
<1>5. Cardinality(1..n) = n
  <2>1. 1 \in Int /\ n \in Int
    BY <1>1
  <2> QED
    BY <1>1, <2>1, FS_Interval
<1>6. seq \in Injection(1..n, S)
  BY <1>2 DEF Injection, IsInjective
<1>7. seq \in Surjection(1..n, S)
  BY <1>1, <1>5, <1>6, FS_Injection DEF n
<1>8. \A a \in S : \E i \in DOMAIN seq : seq[i] = a
  BY <1>2, <1>7 DEF Surjection
<1>9. seq \in Seq(S)
  BY <1>1, <1>2, SeqDef
<1> QED
  BY <1>3, <1>4, <1>8, <1>9 DEF S

\* An effect that is on the host when a quiet revert reads the history is of an
\* active transaction or journal, or of the latest journal, or nobody knows it.
InHistory(e) ==
  \/ e[1] = "tx" /\ e = <<"tx", e[2]>> /\ e[2] \in ActiveTxs /\ RunOf(e) = e[2][1]
  \/ e[1] = "journal" /\ RunOf(e) = e[2] /\ \E m \in ActiveJournals : m[1] = e[2]
  \/ e = <<"journal", e[2]>> /\ RunOf(e) = e[2] /\ LatestJournal(e[2]) /\ ~\E m \in Registered : m[1] = e[2]

\* Nothing else is on the host then.
LEMMA HostInHistory ==
  ASSUME Invariant, Quiet, Pending = {}, NEW e \in Range(applied), ~Orphan(e)
  PROVE  InHistory(e)
<1>1. CASE e[1] = "tx"
  <2>1. e = <<"tx", e[2]>> /\ e[2] \in Intended /\ RunOf(e) = e[2][1]
    BY <1>1, OnHost
  <2>2. PICK t \in Txs : t = e[2] /\ t \in Intended
    BY <2>1 DEF Intended, Roots
  <2>3. tx[t].term # "rolled_back" /\ tx[t].rev # "ok"
    BY <2>1, <2>2 DEF Invariant, NothingForgotten
  <2>4. tx[t].term \in {"none", "committed", "rolled_back"} /\ tx[t].rev \in {"none", "ok"}
    BY <2>2 DEF Invariant, RecordsSound, Quiet
  <2>5. tx[t].term # "none"
    BY <2>2 DEF Pending
  <2>6. t \in ActiveTxs
    BY <2>2, <2>3, <2>4, <2>5 DEF ActiveTxs, memberReverted, decodeMemberRevert
  <2> QED
    BY <1>1, <2>1, <2>2, <2>6 DEF InHistory
<1>2. CASE e[1] = "journal"
  <2>1. e = <<"journal", e[2]>> /\ e[2] \in Runs /\ RunOf(e) = e[2]
    BY <1>2, OnHost
  <2>2. CASE \E m \in Registered : m[1] = e[2]
    <3>1. ~\E m \in reverts : m[1] = e[2]
      BY <2>1 DEF Invariant, NothingForgotten
    <3>2. \E m \in ActiveJournals : m[1] = e[2]
      BY <2>2, <3>1 DEF ActiveJournals
    <3> QED
      BY <1>2, <2>1, <3>2 DEF InHistory
  <2>3. CASE ~\E m \in Registered : m[1] = e[2]
    BY <1>2, <2>1, <2>3 DEF Orphan, InHistory
  <2> QED
    BY <2>2, <2>3
<1> QED
  BY <1>1, <1>2, OnHost

\* Of two journals one is not the latest.
LEMMA LatestUnique ==
  ASSUME StartsKnown, backs = 0, NEW r, NEW q, LatestJournal(r), LatestJournal(q)
  PROVE  r = q /\ r \in Nat
<1>1. r \in Runs /\ q \in Runs /\ r <= q /\ q <= r
  BY LatestIsLast
<1> QED
  BY <1>1 DEF Runs

\* Halves are in the order of what they are halves of.
LEMMA SecondsOrdered ==
  ASSUME NEW a \in Nat, NEW b \in Nat
  PROVE  Seconds(a) > Seconds(b) => a > b
<1>1. a <= b => Seconds(a) <= Seconds(b)
  BY DEF Seconds
<1>2. Seconds(a) \in Nat /\ Seconds(b) \in Nat
  BY DEF Seconds
<1> QED
  BY <1>1, <1>2

\* A journal that is not registered is of no consumed member.
LEMMA UnregisteredIsNotConsumed ==
  ASSUME NEW j, ~\E m \in Registered : m[1] = j
  PROVE  ~Consumed(j)
BY DEF Consumed, CurrentMember

\* When a revert is of the newest run, nothing it knows of is of a later run, and
\* what is of that run is among its items.
LEMMA NothingLater ==
  ASSUME Invariant, StartsKnown, OwnersKnown, Quiet, Pending = {}, ActiveMembers # {},
         ~Unorderable, ~NewerStandalone, NEW e \in Range(applied), InHistory(e)
  PROVE  /\ RunOf(e) <= NewestRun /\ NewestRun \in Nat
         /\ RunOf(e) = NewestRun =>
              \/ e[1] = "tx" /\ e = <<"tx", e[2]>> /\ e[2] \in ActiveTxs
              \/ e[1] = "journal" /\ \E m \in ActiveJournals : m[1] = e[2] /\ members[m].run = NewestRun
              \/ e = <<"journal", NewestRun>> /\ Synthetic
<1>1. /\ NewestMember \in ActiveMembers /\ \A n \in ActiveMembers : n.run <= NewestRun
  BY NewestIsLast DEF Quiet
<1>2. NewestRun \in Nat /\ NewestMember.started = NewestRun /\ RunOf(e) \in Nat
  BY <1>1, ActiveTyped, OnHost DEF NewestRun, Quiet
<1>3. CASE e[1] = "tx" /\ e = <<"tx", e[2]>> /\ e[2] \in ActiveTxs /\ RunOf(e) = e[2][1]
  <2>1. Generation(e[2]) \in ActiveMembers /\ Generation(e[2]).run = e[2][1]
    BY <1>3 DEF ActiveMembers, Generation
  <2> QED
    BY <1>1, <1>2, <1>3, <2>1
<1>4. CASE e[1] = "journal" /\ RunOf(e) = e[2] /\ \E m \in ActiveJournals : m[1] = e[2]
  <2>1. PICK m \in ActiveJournals : m[1] = e[2]
    BY <1>4
  <2>2. Legacy(m) \in ActiveMembers /\ Legacy(m).run = members[m].run
    BY DEF ActiveMembers, Legacy
  <2>3. m[1] <= members[m].run /\ members[m].run <= NewestRun /\ members[m].run \in Nat
    BY <1>1, <2>2, ActiveTyped DEF ActiveJournals, OwnersKnown, Quiet
  <2> QED
    BY <1>2, <1>4, <2>1, <2>3
<1>5. CASE /\ e = <<"journal", e[2]>> /\ RunOf(e) = e[2] /\ LatestJournal(e[2])
           /\ ~\E m \in Registered : m[1] = e[2]
  <2>1. PICK j : j = e[2]
    OBVIOUS
  <2>2. ~Consumed(j) /\ LatestJournal(j) /\ j \in Runs /\ j \in Nat /\ RunOf(e) = j /\ e = <<"journal", j>>
        /\ journals[j] # None
    BY <1>2, <1>5, <2>1, UnregisteredIsNotConsumed DEF LatestJournal
  <2>3. CASE j # NewestRun
    <3>1. OtherRun(j)
      BY <2>2, <2>3 DEF OtherRun
    <3>2. journals[j].second = Seconds(j)
      BY <2>2 DEF StartsKnown, Quiet
    <3>3. Seconds(j) # Seconds(NewestRun) /\ ~(Seconds(j) > Seconds(NewestRun))
      BY <1>2, <2>2, <3>1, <3>2 DEF Unorderable, NewerStandalone
    <3>4. Seconds(j) \in Nat /\ Seconds(NewestRun) \in Nat
      BY <1>2, <2>2 DEF Seconds
    <3>5. Seconds(NewestRun) > Seconds(j)
      BY <3>3, <3>4
    <3>6. NewestRun > j
      BY <1>2, <2>2, <3>5, SecondsOrdered
    <3> QED
      BY <1>2, <2>2, <3>6
  <2>4. CASE j = NewestRun
    <3>1. ASSUME NEW a \in ActiveMembers, a.kind = "legacy", a.key[1] = NewestRun PROVE FALSE
      <4>1. PICK m \in ActiveJournals : a = Legacy(m)
        BY <3>1 DEF ActiveMembers, Generation
      <4>2. m \in Registered /\ m[1] = j
        BY <2>4, <3>1, <4>1 DEF Legacy, ActiveJournals
      <4> QED
        BY <1>5, <2>1, <4>2
    <3>2. Synthetic
      BY <2>2, <2>4, <3>1 DEF Synthetic
    <3> QED
      BY <1>2, <2>2, <2>4, <3>2
  <2> QED
    BY <2>3, <2>4
<1> QED
  BY <1>3, <1>4, <1>5 DEF InHistory

\* Where the members of a plan are among the items of a revert.
LEMMA PlacesOfPlan ==
  ASSUME NEW seq \in MembersOf(NewestRun)
  PROVE  \E s \in {0, 1}, n \in Nat :
           /\ (s = 1) <=> Synthetic
           /\ DOMAIN seq = 1..n
           /\ DOMAIN Reverse(RevertMembers(seq)) = 1..(n + s)
           /\ s = 1 => Reverse(RevertMembers(seq))[1] = <<"journal", NewestRun>>
           /\ \A i \in 1..(n + s) : i > s =>
                /\ (n + s + 1) - i \in 1..n
                /\ Reverse(RevertMembers(seq))[i] = Targets(seq[(n + s + 1) - i])
<1> DEFINE own == [i \in DOMAIN seq |-> Targets(seq[i])]
           last == IF Synthetic THEN << <<"journal", NewestRun>> >> ELSE <<>>
           all == RevertMembers(seq)
           S == {Targets(seq[i]) : i \in DOMAIN seq} \cup { <<"journal", NewestRun>> }
<1>1. PICK n \in Nat : n = Len(seq) /\ DOMAIN seq = 1..n
  <2>1. seq \in Seq({m \in ActiveMembers : m.run = NewestRun})
    BY MembersInPlan
  <2> QED
    BY <2>1
<1>2. PICK s \in {0, 1} : (s = 1) <=> Synthetic
  <2>1. CASE Synthetic
    BY <2>1
  <2>2. CASE ~Synthetic
    BY <2>2
  <2> QED
    BY <2>1, <2>2
<1>3. own \in Seq(S) /\ Len(own) = n /\ \A i \in 1..n : own[i] = Targets(seq[i])
  <2>1. own \in [1..n -> S]
    BY <1>1
  <2> QED
    BY <1>1, <2>1, SeqDef
<1>4. /\ last \in Seq(S) /\ Len(last) = s /\ (s = 1 => last[1] = <<"journal", NewestRun>>)
  <2>1. <<"journal", NewestRun>> \in S
    OBVIOUS
  <2> HIDE DEF S
  <2>2. CASE Synthetic
    BY <1>2, <2>1, <2>2
  <2>3. CASE ~Synthetic
    BY <1>2, <2>3
  <2> QED
    BY <2>2, <2>3
<1>5. all = own \o last
  BY DEF RevertMembers
<1> HIDE DEF own, last, all, S
<1>6. /\ all \in Seq(S) /\ Len(all) = n + s
      /\ \A i \in 1..(n + s) : all[i] = IF i <= n THEN own[i] ELSE last[i - n]
  <2>1. /\ own \o last \in Seq(S) /\ Len(own \o last) = Len(own) + Len(last)
        /\ \A i \in 1..(Len(own) + Len(last)) : (own \o last)[i] = IF i <= Len(own) THEN own[i] ELSE last[i - Len(own)]
    BY <1>3, <1>4, ConcatProperties, Zenon
  <2> QED
    BY <1>3, <1>4, <1>5, <2>1
<1>7. Reverse(all) = [i \in 1..(n + s) |-> all[((n + s) - i) + 1]]
  BY <1>6 DEF Reverse
<1>8. DOMAIN Reverse(all) = 1..(n + s)
  BY <1>7
<1>9. s = 1 => Reverse(all)[1] = <<"journal", NewestRun>>
  <2> SUFFICES ASSUME s = 1 PROVE Reverse(all)[1] = <<"journal", NewestRun>>
    OBVIOUS
  <2>1. 1 \in 1..(n + s) /\ ((n + s) - 1) + 1 = n + 1 /\ n + 1 \in 1..(n + s) /\ ~(n + 1 <= n) /\ (n + 1) - n = 1
    OBVIOUS
  <2>2. Reverse(all)[1] = all[((n + s) - 1) + 1]
    BY <1>7, <2>1
  <2>3. all[n + 1] = last[(n + 1) - n]
    BY <1>6, <2>1
  <2> QED
    BY <1>4, <2>1, <2>2, <2>3
<1>10. ASSUME NEW i \in 1..(n + s), i > s
       PROVE  /\ (n + s + 1) - i \in 1..n
              /\ Reverse(all)[i] = Targets(seq[(n + s + 1) - i])
  <2>1. ((n + s) - i) + 1 = (n + s + 1) - i /\ (n + s + 1) - i \in 1..n /\ (n + s + 1) - i \in 1..(n + s)
        /\ (n + s + 1) - i <= n
    BY <1>10
  <2>2. Reverse(all)[i] = all[((n + s) - i) + 1]
    BY <1>7
  <2>3. all[(n + s + 1) - i] = own[(n + s + 1) - i]
    BY <1>6, <2>1
  <2> QED
    BY <1>3, <2>1, <2>2, <2>3
<1> QED
  BY <1>1, <1>2, <1>8, <1>9, <1>10 DEF all

\* The items of a revert of the newest run are in order.
LEMMA SelectedRun ==
  ASSUME Invariant, StartsKnown, OwnersKnown, AdoptedLast, Quiet, Pending = {}, ActiveMembers # {},
         ~Unorderable, ~NewerStandalone, NEW seq \in MembersOf(NewestRun),
         NEW items, items = Reverse(RevertMembers(seq))
  PROVE  /\ \A i \in DOMAIN items : items[i][1] = "journal" => i = 1 /\ LatestJournal(items[i][2])
         /\ \A i \in DOMAIN items : \A e \in Range(applied) : After(e, Effect(items[i])) =>
              Orphan(e) \/ \E h \in 1..(i - 1) : e = Effect(items[h])
<1>1. PICK s \in {0, 1}, n \in Nat :
        /\ (s = 1) <=> Synthetic
        /\ DOMAIN seq = 1..n
        /\ DOMAIN items = 1..(n + s)
        /\ s = 1 => items[1] = <<"journal", NewestRun>>
        /\ \A i \in 1..(n + s) : i > s =>
             (n + s + 1) - i \in 1..n /\ items[i] = Targets(seq[(n + s + 1) - i])
  BY PlacesOfPlan
<1>2. /\ seq \in Seq({m \in ActiveMembers : m.run = NewestRun})
      /\ \A a \in ActiveMembers : a.run = NewestRun => \E i \in DOMAIN seq : seq[i] = a
      /\ \A i, k \in DOMAIN seq : i < k => seq[i].ord < seq[k].ord
  BY MembersInPlan
<1>3. \A k \in 1..n : seq[k] \in ActiveMembers /\ seq[k].run = NewestRun /\ seq[k].ord \in Nat
  <2>1. \A k \in 1..n : seq[k] \in ActiveMembers /\ seq[k].run = NewestRun
    BY <1>1, <1>2
  <2> QED
    BY <2>1, ActiveTyped DEF Quiet
<1>4. \A a \in ActiveMembers : \/ \E t \in ActiveTxs : a = Generation(t) /\ Targets(a) = <<"generation", t>>
                               \/ \E m \in ActiveJournals : a = Legacy(m) /\ Targets(a) = <<"legacy", m>>
  BY DEF ActiveMembers, Generation, Legacy, Targets
<1>5. ASSUME NEW i \in DOMAIN items, items[i][1] = "journal"
      PROVE  i = 1 /\ LatestJournal(items[i][2])
  <2>1. CASE i > s
    <3>1. PICK a \in ActiveMembers : items[i] = Targets(a)
      BY <1>1, <1>3, <2>1
    <3>2. items[i][1] \in {"generation", "legacy"}
      BY <1>4, <3>1
    <3> QED
      BY <1>5, <3>2
  <2>2. CASE ~(i > s)
    <3>1. i = 1 /\ s = 1
      BY <1>1, <2>2
    <3> QED
      BY <1>1, <3>1 DEF Synthetic
  <2> QED
    BY <2>1, <2>2
<1>6. ASSUME NEW i \in DOMAIN items, NEW e \in Range(applied), After(e, Effect(items[i])), ~Orphan(e)
      PROVE  \E h \in 1..(i - 1) : e = Effect(items[h])
  <2>1. InHistory(e)
    BY <1>6, HostInHistory
  <2>2. /\ RunOf(e) <= NewestRun /\ NewestRun \in Nat
        /\ RunOf(e) = NewestRun =>
             \/ e[1] = "tx" /\ e = <<"tx", e[2]>> /\ e[2] \in ActiveTxs
             \/ e[1] = "journal" /\ \E m \in ActiveJournals : m[1] = e[2] /\ members[m].run = NewestRun
             \/ e = <<"journal", NewestRun>> /\ Synthetic
    BY <2>1, NothingLater
  <2>3. /\ RunOf(e) \in Nat
        /\ \/ e[1] = "tx" /\ e = <<"tx", e[2]>> /\ e[2] \in Intended /\ RunOf(e) = e[2][1]
           \/ e[1] = "journal" /\ e = <<"journal", e[2]>> /\ e[2] \in Runs /\ RunOf(e) = e[2]
    BY OnHost
  <2>4. CASE ~(i > s)
    <3>1. items[i] = <<"journal", NewestRun>>
      BY <1>1, <2>4
    <3>2. Effect(items[i]) = <<"journal", NewestRun>>
      BY <3>1 DEF Effect
    <3>3. RunOf(e) > NewestRun
      BY <1>6, <3>2 DEF After, RunOf
    <3> QED
      BY <2>2, <2>3, <3>3
  <2>5. CASE i > s
    <3>1. PICK k \in 1..n : k = (n + s + 1) - i /\ items[i] = Targets(seq[k])
      BY <1>1, <2>5
    <3>2. ASSUME NEW g \in 1..n, g > k, e = Effect(Targets(seq[g]))
          PROVE  \E h \in 1..(i - 1) : e = Effect(items[h])
      <4>1. PICK h \in Nat : h = (n + s + 1) - g
        BY <3>2
      <4>2. h \in 1..(i - 1) /\ h \in 1..(n + s) /\ h > s /\ (n + s + 1) - h = g
        BY <1>1, <3>1, <3>2, <4>1
      <4>3. items[h] = Targets(seq[g])
        BY <1>1, <4>2
      <4> QED
        BY <3>2, <4>2, <4>3
    <3>3. seq[k] \in ActiveMembers /\ seq[k].run = NewestRun /\ seq[k].ord \in Nat
      BY <1>3
    <3>4. ASSUME NEW a \in ActiveMembers, a.run = NewestRun, a.ord > seq[k].ord, e = Effect(Targets(a))
          PROVE  \E h \in 1..(i - 1) : e = Effect(items[h])
      <4>1. PICK g \in 1..n : seq[g] = a
        BY <1>1, <1>2, <3>4
      <4>2. g # k /\ ~(g < k)
        <5>1. seq[g].ord \in Nat
          BY <1>3
        <5>2. g < k => seq[g].ord < seq[k].ord
          BY <1>1, <1>2
        <5> QED
          BY <3>3, <3>4, <4>1, <5>1, <5>2
      <4>3. g > k
        BY <4>2
      <4> QED
        BY <3>2, <3>4, <4>1, <4>3
    <3>5. CASE \E t \in ActiveTxs : seq[k] = Generation(t) /\ Targets(seq[k]) = <<"generation", t>>
      <4>1. PICK t \in ActiveTxs : seq[k] = Generation(t) /\ items[i] = <<"generation", t>>
        BY <3>1, <3>5
      <4>2. t \in Intended /\ t[1] = NewestRun /\ seq[k].ord = tx[t].ord
        BY <3>3, <4>1 DEF Generation, ActiveTxs
      <4>3. Effect(items[i]) = <<"tx", t>>
        BY <4>1 DEF Effect
      <4>4. \/ RunOf(e) > NewestRun
            \/ RunOf(e) = NewestRun /\ (e[1] = "journal" \/ tx[e[2]].ord > tx[t].ord)
        <5>1. After(e, <<"tx", t>>)
          BY <1>6, <4>3
        <5>2. RunOf(<<"tx", t>>) = NewestRun
          BY <4>2 DEF RunOf
        <5> QED
          BY <5>1, <5>2 DEF After
      <4>5. RunOf(e) = NewestRun /\ (e[1] = "journal" \/ tx[e[2]].ord > tx[t].ord)
        BY <2>2, <2>3, <4>4
      <4>6. CASE e[1] = "tx" /\ e = <<"tx", e[2]>> /\ e[2] \in ActiveTxs
        <5>1. PICK u \in ActiveTxs : u = e[2] /\ e = <<"tx", u>>
          BY <4>6
        <5>2. Generation(u) \in ActiveMembers /\ Generation(u).run = NewestRun /\ Generation(u).ord = tx[u].ord
          BY <2>3, <4>5, <4>6, <5>1 DEF ActiveMembers, Generation
        <5>3. tx[u].ord > seq[k].ord
          BY <4>2, <4>5, <4>6, <5>1
        <5>4. e = Effect(Targets(Generation(u)))
          BY <5>1 DEF Effect, Targets, Generation
        <5> QED
          BY <3>4, <5>2, <5>3, <5>4
      <4>7. CASE e[1] = "journal" /\ \E m \in ActiveJournals : m[1] = e[2] /\ members[m].run = NewestRun
        <5>1. PICK m \in ActiveJournals : m[1] = e[2] /\ members[m].run = NewestRun
          BY <4>7
        <5>2. m \in Registered /\ m[1] = NewestRun /\ e = <<"journal", m[1]>>
          BY <2>3, <4>5, <4>7, <5>1 DEF ActiveJournals
        <5>3. Legacy(m) \in ActiveMembers /\ Legacy(m).run = NewestRun /\ Legacy(m).ord = members[m].ord
          BY <5>1 DEF ActiveMembers, Legacy
        <5>4. tx[t].ord < members[m].ord
          BY <4>2, <5>1, <5>2 DEF OwnersKnown
        <5>5. Legacy(m).ord > seq[k].ord
          <6>1. Legacy(m).ord \in Nat
            BY <5>3, ActiveTyped DEF Quiet
          <6> QED
            BY <3>3, <4>2, <5>3, <5>4, <6>1
        <5>6. e = Effect(Targets(Legacy(m)))
          BY <5>2 DEF Effect, Targets, Legacy
        <5> QED
          BY <3>4, <5>3, <5>5, <5>6
      <4>8. CASE e = <<"journal", NewestRun>> /\ Synthetic
        <5>1. s = 1 /\ items[1] = <<"journal", NewestRun>> /\ 1 \in 1..(i - 1)
          BY <1>1, <2>5, <4>8
        <5>2. e = Effect(items[1])
          BY <4>8, <5>1 DEF Effect
        <5> QED
          BY <5>1, <5>2
      <4> QED
        BY <2>2, <4>5, <4>6, <4>7, <4>8
    <3>6. CASE \E m \in ActiveJournals : seq[k] = Legacy(m) /\ Targets(seq[k]) = <<"legacy", m>>
      <4>1. PICK m \in ActiveJournals : seq[k] = Legacy(m) /\ items[i] = <<"legacy", m>>
        BY <3>1, <3>6
      <4>2. m \in Registered /\ members[m].run = NewestRun
        BY <3>3, <4>1 DEF ActiveJournals, Legacy
      <4>3. Effect(items[i]) = <<"journal", m[1]>>
        BY <4>1 DEF Effect
      <4>4. RunOf(e) > m[1]
        BY <1>6, <4>3 DEF After, RunOf
      <4>5. m[1] < RunOf(e) /\ RunOf(e) <= members[m].run
        <5>1. m[1] \in Nat
          BY <4>2 DEF Registered, Members, Runs
        <5> QED
          BY <2>2, <2>3, <4>2, <4>4, <5>1
      <4> QED
        BY <4>2, <4>5 DEF AdoptedLast
    <3> QED
      BY <1>4, <3>3, <3>5, <3>6
  <2> QED
    BY <2>4, <2>5
<1> QED
  BY <1>5, <1>6

\* What is later than the journal that a revert takes alone nobody knows.
LEMMA SelectedJournal ==
  ASSUME Invariant, StartsKnown, OwnersKnown, Quiet, Pending = {},
         ActiveMembers # {} => ~Unorderable /\ NewerStandalone,
         NEW j, LatestJournal(j), NEW e \in Range(applied), After(e, <<"journal", j>>)
  PROVE  Orphan(e)
<1>1. j \in Nat /\ j \in Runs /\ journals[j] # None
  BY LatestUnique DEF Quiet, LatestJournal
<1>2. RunOf(e) > j
  BY DEF After, RunOf
<1>3. RunOf(e) \in Nat
  BY OnHost
<1> SUFFICES ASSUME ~Orphan(e) PROVE FALSE
  OBVIOUS
<1>4. InHistory(e)
  BY HostInHistory
<1>5. ASSUME ActiveMembers # {}
      PROVE  NewestRun \in Nat /\ j > NewestRun /\ \A n \in ActiveMembers : n.run \in Nat /\ n.run <= NewestRun
  <2>1. /\ NewestMember \in ActiveMembers /\ \A n \in ActiveMembers : n.run <= NewestRun
    BY <1>5, NewestIsLast DEF Quiet
  <2>2. NewestRun \in Nat /\ NewestMember.started = NewestRun /\ \A n \in ActiveMembers : n.run \in Nat
    BY <2>1, ActiveTyped DEF NewestRun, Quiet
  <2>3. PICK q \in Runs : LatestJournal(q) /\ journals[q].second > Seconds(NewestMember.started)
    BY <1>5 DEF NewerStandalone, OtherRun
  <2>4. q = j
    BY <2>3, LatestUnique DEF Quiet
  <2>5. journals[j].second = Seconds(j)
    BY <1>1 DEF StartsKnown, Quiet
  <2>6. Seconds(j) > Seconds(NewestRun)
    BY <2>2, <2>3, <2>4, <2>5
  <2>7. j > NewestRun
    BY <1>1, <2>2, <2>6, SecondsOrdered
  <2> QED
    BY <2>1, <2>2, <2>7
<1>6. CASE e[1] = "tx" /\ e = <<"tx", e[2]>> /\ e[2] \in ActiveTxs /\ RunOf(e) = e[2][1]
  <2>1. Generation(e[2]) \in ActiveMembers /\ Generation(e[2]).run = e[2][1]
    BY <1>6 DEF ActiveMembers, Generation
  <2> QED
    BY <1>1, <1>2, <1>3, <1>5, <1>6, <2>1
<1>7. CASE e[1] = "journal" /\ RunOf(e) = e[2] /\ \E m \in ActiveJournals : m[1] = e[2]
  <2>1. PICK m \in ActiveJournals : m[1] = e[2]
    BY <1>7
  <2>2. Legacy(m) \in ActiveMembers /\ Legacy(m).run = members[m].run
    BY DEF ActiveMembers, Legacy
  <2>3. m[1] <= members[m].run
    BY DEF ActiveJournals, OwnersKnown
  <2>4. members[m].run <= NewestRun /\ members[m].run \in Nat /\ NewestRun \in Nat /\ j > NewestRun
    BY <1>5, <2>2
  <2> QED
    BY <1>1, <1>2, <1>3, <1>7, <2>1, <2>3, <2>4
<1>8. CASE LatestJournal(e[2]) /\ RunOf(e) = e[2]
  <2>1. e[2] = j
    BY <1>8, LatestUnique DEF Quiet
  <2> QED
    BY <1>1, <1>2, <1>8, <2>1
<1> QED
  BY <1>4, <1>6, <1>7, <1>8 DEF InHistory

\* A revert begins in order.
LEMMA RevertSelected ==
  ASSUME Invariant, StartsKnown, OwnersKnown, AdoptedLast, Quiet, SelectHistory, pc' = "next"
  PROVE  RevertOrdered'
<1>1. /\ UNCHANGED <<tx, members, journals, applied>> /\ HistoryReadable
      /\ \/ /\ ActiveMembers # {} /\ ~Unorderable /\ ~NewerStandalone
            /\ \E seq \in MembersOf(NewestRun) : todo' = Reverse(RevertMembers(seq))
         \/ /\ ActiveMembers # {} => ~Unorderable /\ NewerStandalone
            /\ \E j \in Runs : LatestJournal(j) /\ todo' = << <<"journal", j>> >>
  BY DEF SelectHistory, Close, Goto
<1>2. Pending = {}
  BY <1>1 DEF HistoryReadable, TransactionsReadable
<1>3. \A r : LatestJournal(r)' <=> LatestJournal(r)
  BY <1>1 DEF LatestJournal
<1>4. \A e, f : After(e, f)' <=> After(e, f)
  BY <1>1 DEF After, RunOf
<1>5. \A e : Orphan(e)' <=> Orphan(e)
  BY <1>1, <1>3 DEF Orphan, Registered
<1>6. PICK items : items = todo'
  OBVIOUS
<1>7. /\ \A i \in DOMAIN items : items[i][1] = "journal" => i = 1 /\ LatestJournal(items[i][2])
      /\ \A i \in DOMAIN items : \A e \in Range(applied) : After(e, Effect(items[i])) =>
           Orphan(e) \/ \E h \in 1..(i - 1) : e = Effect(items[h])
  <2>1. CASE /\ ActiveMembers # {} /\ ~Unorderable /\ ~NewerStandalone
             /\ \E seq \in MembersOf(NewestRun) : todo' = Reverse(RevertMembers(seq))
    <3>1. PICK seq \in MembersOf(NewestRun) : items = Reverse(RevertMembers(seq))
      BY <1>6, <2>1
    <3> QED
      BY <1>2, <2>1, <3>1, SelectedRun
  <2>2. CASE /\ ActiveMembers # {} => ~Unorderable /\ NewerStandalone
             /\ \E j \in Runs : LatestJournal(j) /\ todo' = << <<"journal", j>> >>
    <3>1. PICK j \in Runs : LatestJournal(j) /\ items = << <<"journal", j>> >>
      BY <1>6, <2>2
    <3>2. DOMAIN items = {1} /\ items[1] = <<"journal", j>>
      BY <3>1
    <3>3. Effect(items[1]) = <<"journal", j>>
      BY <3>2 DEF Effect
    <3>4. \A e \in Range(applied) : After(e, <<"journal", j>>) => Orphan(e)
      BY <1>2, <2>2, <3>1, SelectedJournal
    <3> QED
      BY <3>1, <3>2, <3>3, <3>4
  <2> QED
    BY <1>1, <2>1, <2>2
<1>8. \A i \in DOMAIN todo' : todo'[i][1] = "journal" => i = 1 /\ LatestJournal(todo[i][2])'
  <2>1. ASSUME NEW i \in DOMAIN todo', todo'[i][1] = "journal" PROVE i = 1 /\ LatestJournal(todo[i][2])'
    <3>1. PICK r : r = todo'[i][2]
      OBVIOUS
    <3>2. i = 1 /\ LatestJournal(r)
      BY <1>6, <1>7, <2>1, <3>1
    <3>3. LatestJournal(r)'
      BY <1>3, <3>2
    <3>4. LatestJournal(todo[i][2])' <=> LatestJournal(r)'
      BY <3>1 DEF LatestJournal
    <3> QED
      BY <3>2, <3>3, <3>4
  <2> QED
    BY <2>1
<1>9. \A i \in DOMAIN todo' : \A e \in Range(applied') : \A f : f = Effect(todo'[i]) /\ After(e, f)' =>
        Orphan(e)' \/ \E h \in 1..(i - 1) : e = Effect(todo'[h])
  <2>1. Range(applied') = Range(applied)
    BY <1>1
  <2> QED
    BY <1>4, <1>5, <1>6, <1>7, <2>1
<1>10. pc' # "retire"
  OBVIOUS
<1> QED
  BY <1>8, <1>9, <1>10, RevertRest

\* A revert is in order.
LEMMA RevertOrderedStep ==
  ASSUME Invariant, StartsKnown, OwnersKnown, AdoptedLast, RevertOrdered, Next, TxStep, HostStep
  PROVE  RevertOrdered'
<1> SUFFICES ASSUME Quiet', pc' \in Reverting PROVE RevertOrdered'
  BY DEF RevertOrdered
<1>1. Quiet
  BY QuietBefore DEF Quiet
<1>2. RevertMove
  BY RevertMoveLemma
<1>3. CASE SelectHistory
  <2>1. pc' = "next"
    BY <1>3 DEF SelectHistory, Close, Goto, Reverting
  <2> QED
    BY <1>1, <1>3, <2>1, RevertSelected
<1>4. CASE ~SelectHistory
  <2>1. pc \in Reverting
    BY <1>2, <1>4 DEF RevertMove, Registering, Finishing, Reverting
  <2> QED
    BY <1>1, <1>2, <2>1, RevertOrderedGoesOn
<1> QED
  BY <1>3, <1>4

-----------------------------------------------------------------------------
(* The order, and what follows from it *)

\* An empty host and an idle store are in order.
LEMMA OrderedInitially ==
  ASSUME Init
  PROVE  Ordered
<1>1. /\ tx = [t \in Txs |-> None] /\ members = [m \in Members |-> None]
      /\ journals = [r \in Runs |-> None] /\ applied = <<>> /\ pc = "idle" /\ nruns = 0 /\ clock = 0 /\ backs = 0
  BY DEF Init
<1>2. Roots = {} /\ Registered = {} /\ DOMAIN applied = {} /\ Range(applied) = {}
  BY <1>1 DEF Roots, Registered, Range
<1>3. Intended = {} /\ Pending = {}
  BY <1>2 DEF Intended, Pending
<1>4. StartsKnown
  BY <1>1, <1>2 DEF StartsKnown
<1>5. EffectsOrdered /\ PlanOrdered /\ PendingKnown
  BY <1>1, <1>2, <1>3 DEF EffectsOrdered, PlanOrdered, PendingKnown, Planning, Reverting
<1>6. OwnersKnown /\ AdoptedLast /\ RevertOrdered
  BY <1>1, <1>2 DEF OwnersKnown, AdoptedLast, RevertOrdered, Opening, Planning, Reverting
<1> QED
  BY <1>4, <1>5, <1>6 DEF Ordered

\* The order is about the variables alone.
LEMMA OrderedStutters ==
  ASSUME Ordered, UNCHANGED vars
  PROVE  Ordered'
<1>1. UNCHANGED <<tx, members, journals, applied, pc, run, ordinal, todo, nruns, clock, edits, backs>>
  BY DEF vars, disk, store, guard, counts
<1>2. Roots' = Roots /\ Registered' = Registered
  BY <1>1 DEF Roots, Registered
<1>3. Intended' = Intended
  BY <1>1, <1>2 DEF Intended, HasIntent
<1>4. Pending' = Pending /\ Range(applied') = Range(applied)
  BY <1>1, <1>3 DEF Pending
<1>5. \A e, f : After(e, f)' <=> After(e, f)
  BY <1>1 DEF After, RunOf
<1>6. \A r : LatestJournal(r)' <=> LatestJournal(r)
  BY <1>1 DEF LatestJournal
<1>7. \A e : Orphan(e)' <=> Orphan(e)
  BY <1>2, <1>6 DEF Orphan
<1>8. StartsKnown'
  BY <1>1, <1>2 DEF Ordered, StartsKnown
<1>9. EffectsOrdered'
  <2>1. ASSUME NEW i \in DOMAIN applied', NEW k \in DOMAIN applied', i < k
        PROVE  After(applied[k], applied[i])'
    <3>1. PICK e, f : e = applied[k] /\ f = applied[i] /\ e = applied'[k] /\ f = applied'[i]
      BY <1>1
    <3>2. After(e, f)
      BY <1>1, <2>1, <3>1 DEF Ordered, EffectsOrdered
    <3>3. After(e, f)'
      BY <1>5, <3>2
    <3> QED
      BY <3>1, <3>3 DEF After, RunOf
  <2> QED
    BY <2>1 DEF EffectsOrdered
<1>10. PlanOrdered'
  BY <1>1, <1>4 DEF Ordered, PlanOrdered
<1>11. PendingKnown'
  <2>1. ASSUME NEW t \in Pending', NEW e \in Range(applied'), edits = 0 PROVE ~After(e, <<"tx", t>>)'
    <3>1. ~After(e, <<"tx", t>>)
      BY <1>4, <2>1 DEF Ordered, PendingKnown
    <3>2. PICK f : f = <<"tx", t>>
      OBVIOUS
    <3> QED
      BY <1>5, <3>1, <3>2
  <2> QED
    BY <1>1, <1>4, <2>1 DEF Ordered, PendingKnown
<1>12. OwnersKnown'
  BY <1>1, <1>2, <1>3 DEF Ordered, OwnersKnown
<1>13. AdoptedLast'
  BY <1>1, <1>2, <1>4 DEF Ordered, AdoptedLast, Quiet, RunOf
<1>14. RevertOrdered'
  <2>1. SUFFICES ASSUME Quiet', pc' \in Reverting PROVE RevertOrdered'
    BY DEF RevertOrdered
  <2>2. Quiet /\ pc \in Reverting
    BY <1>1, <2>1 DEF Quiet
  <2>3. /\ \A i \in DOMAIN todo : todo[i][1] = "journal" => i = 1 /\ LatestJournal(todo[i][2])
        /\ \A i \in DOMAIN todo : \A e \in Range(applied) : After(e, Effect(todo[i])) =>
             Orphan(e) \/ \E h \in 1..(i - 1) : e = Effect(todo[h])
        /\ pc = "retire" => Effect(todo[1]) \notin Range(applied)
    BY <2>2 DEF Ordered, RevertOrdered
  <2>4. ASSUME NEW i \in DOMAIN todo', todo'[i][1] = "journal" PROVE i = 1 /\ LatestJournal(todo[i][2])'
    <3>1. PICK r : r = todo[i][2] /\ r = todo'[i][2]
      BY <1>1
    <3>2. i = 1 /\ LatestJournal(r)'
      BY <1>1, <1>6, <2>3, <2>4, <3>1
    <3> QED
      BY <3>1, <3>2 DEF LatestJournal
  <2>5. \A i \in DOMAIN todo' : \A e \in Range(applied') : \A f : f = Effect(todo'[i]) /\ After(e, f)' =>
          Orphan(e)' \/ \E h \in 1..(i - 1) : e = Effect(todo'[h])
    BY <1>1, <1>4, <1>5, <1>7, <2>3
  <2>6. pc' = "retire" => Effect(todo'[1]) \notin Range(applied')
    BY <1>1, <1>4, <2>3
  <2> QED
    BY <2>4, <2>5, <2>6, RevertRest
<1> QED
  BY <1>8, <1>9, <1>10, <1>11, <1>12, <1>13, <1>14 DEF Ordered

\* Every step keeps the order.
LEMMA OrderedStep ==
  ASSUME Invariant, Ordered, [Next]_vars
  PROVE  Ordered'
<1>1. CASE Next
  <2>1. TxStep /\ MemberStep /\ HostStep /\ GuardStep /\ KeepStep /\ HostChange /\ PlanMove
    BY <1>1, TxStepLemma, MemberStepLemma, HostStepLemma, GuardStepLemma, KeepStepLemma,
       HostChangeLemma, PlanMoveLemma
  <2>2. PlanKnown'
    BY <1>1, InvariantStep DEF Invariant
  <2>3. StartsKnown'
    BY <1>1, <2>1, StartsKnownStep DEF Ordered
  <2>4. EffectsOrdered' /\ PlanOrdered' /\ PendingKnown'
    BY <1>1, <2>1, <2>2, EffectsOrderedStep, PlanOrderedStep, PendingKnownStep DEF Ordered
  <2>5. OwnersKnown' /\ AdoptedLast' /\ RevertOrdered'
    BY <1>1, <2>1, OwnersKnownStep, AdoptedLastStep, RevertOrderedStep DEF Ordered
  <2> QED
    BY <2>3, <2>4, <2>5 DEF Ordered
<1> QED
  BY <1>1, OrderedStutters

\* What is undone is the last that anybody knows of.
LEMMA UndoneIsLast ==
  ASSUME Invariant, Ordered, Next, Quiet
  PROVE  NewestFirst
<1> SUFFICES ASSUME NEW i \in DOMAIN applied, NEW k \in DOMAIN applied, i < k,
                    applied[i] \notin Range(applied')
             PROVE  Orphan(applied[k])
  BY DEF NewestFirst, Undone
<1>1. PICK x, y : x = applied[i] /\ y = applied[k]
  OBVIOUS
<1>2. applied \in Seq(Effects) /\ Injective(applied)
  BY DEF Invariant, Typed
<1>3. x \in Range(applied) /\ y \in Range(applied) /\ After(y, x) /\ x \notin Range(applied')
  BY <1>1 DEF Range, Ordered, EffectsOrdered
<1>4. HostChange
  BY HostChangeLemma
<1>5. ASSUME NEW z, applied' = Append(applied, z) PROVE FALSE
  <2>1. i \in DOMAIN applied' /\ applied'[i] = applied[i]
    BY <1>2, <1>5
  <2> QED
    BY <1>1, <1>3, <2>1 DEF Range
<1>6. ASSUME NEW z, applied' = Without(applied, z) PROVE x = z
  BY <1>2, <1>3, <1>6, DropEffect
<1>7. ASSUME NEW t \in Pending, applied' = Without(applied, <<"tx", t>>) PROVE FALSE
  <2>1. x = <<"tx", t>>
    BY <1>6, <1>7
  <2> QED
    BY <1>3, <2>1 DEF Ordered, PendingKnown, Quiet
<1>8. CASE pc \in {"undo", "unlegacy"} /\ applied' = Without(applied, Effect(todo[1]))
  <2>1. pc \in Reverting
    BY <1>8 DEF Reverting
  <2>2. 1 \in DOMAIN todo
    BY <1>8, <2>1 DEF Invariant, RevertKnown
  <2>3. x = Effect(todo[1])
    BY <1>6, <1>8
  <2> QED
    BY <1>1, <1>3, <2>1, <2>2, <2>3 DEF Ordered, RevertOrdered
<1> QED
  BY <1>3, <1>4, <1>5, <1>7, <1>8 DEF HostChange

\* While nobody edits the store and the clock is not set back, effects are
\* undone in the reverse of the order they were made, by recovery and by every
\* revert, whatever dies or fails between.
THEOREM RevertsNewestFirstCorrect == Spec => RevertsNewestFirst
<1>1. Init => Invariant /\ Ordered
  BY InvariantInitially, OrderedInitially
<1>2. Invariant /\ Ordered /\ [Next]_vars => (Invariant /\ Ordered)'
  BY InvariantStep, OrderedStep
<1>3. Invariant /\ Ordered /\ [Next]_vars => [backs = 0 /\ edits = 0 => NewestFirst]_vars
  BY UndoneIsLast DEF Quiet
<1> QED
  BY <1>1, <1>2, <1>3, PTL DEF Spec, RevertsNewestFirst
=============================================================================
