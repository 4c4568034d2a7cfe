---------------------- MODULE ConfigTransactionProofs ----------------------
(***************************************************************************)
(* Proofs about ConfigTransaction, for every number of sets, actions,      *)
(* entries, transactions and faults.                                       *)
(*                                                                         *)
(* TypeOK and SessionInvariant are inductive together: SessionInvariant    *)
(* says which transaction is pending, and whose root exists, at each step  *)
(* of the process that holds the lease.  EntriesKnown adds what the two    *)
(* loops over entries know of the entries they have not reached.           *)
(*                                                                         *)
(* JournalInvariant is inductive relative to these: which records exist,   *)
(* which actions are begun and what the targets hold at each step.  It     *)
(* gives RecordsTellTheTruth and CommitRecoverable.  HistoryKnown rests on *)
(* it: the transactions in force explain every recorded prior state and    *)
(* every set at rest, which implies HistoryExplainsContent.                *)
(*                                                                         *)
(* The refinement of AtomicRestore follows: an intent begins the abstract  *)
(* transaction, a terminal record commits or aborts it, and every other    *)
(* step leaves the mapped state alone.                                     *)
(*                                                                         *)
(* The module closes with the publication of a terminal record, the step   *)
(* that ConfigTransaction takes as a whole (JournalPublication).           *)
(***************************************************************************)
EXTENDS ConfigAtomicity, JournalPublication, WellFoundedInduction, TLAPS

(* A non-empty set of naturals has a least element; Newest and Oldest rest on it. *)
LEMMA Least ==
  ASSUME NEW S \in SUBSET Nat, S # {}
  PROVE  \E x \in S : \A y \in S : x <= y
<1> DEFINE R == {ss \in Nat \X Nat : ss[1] < ss[2]}
<1>1. IsWellFoundedOn(R, Nat)
  BY NatLessThanWellFounded, Zenon DEF OpToRel
<1>2. PICK x \in S : \A y \in S : ~(<<y, x>> \in R)
  <2> HIDE DEF R
  <2> QED BY <1>1, WFMin, Zenon
<1>3. \A y \in S : ~(y < x)
  BY <1>2
<1> QED
  BY <1>3

(* The newest of a bounded, non-empty set of transaction numbers is one of them *)
(* and none is later (the head of the list that scanPending sorts).             *)
LEMMA NewestIn ==
  ASSUME NEW n \in Nat, NEW S \in SUBSET (1..n), S # {}
  PROVE  Newest(S) \in S /\ \A u \in S : u <= Newest(S)
<1> DEFINE D == {k \in Nat : n - k \in S}
<1>1. D # {}
  <2>1. PICK u \in S : TRUE
    OBVIOUS
  <2>2. n - u \in Nat /\ n - (n - u) = u
    OBVIOUS
  <2> QED
    BY <2>1, <2>2
<1>2. PICK x \in D : \A y \in D : x <= y
  BY <1>1, Least
<1>3. \A u \in S : n - u \in D
  OBVIOUS
<1>4. n - x \in S /\ \A u \in S : u <= n - x
  BY <1>2, <1>3
<1> QED
  BY <1>4 DEF Newest

(* The oldest of a non-empty set of numbers is one of them and none is earlier. *)
LEMMA OldestIn ==
  ASSUME NEW S \in SUBSET Nat, S # {}
  PROVE  Oldest(S) \in S /\ \A u \in S : Oldest(S) <= u
BY Least DEF Oldest

(* NewestIn for transactions, whose number MaxTx bounds.                        *)
LEMMA NewestTx ==
  ASSUME NEW S \in SUBSET TxIds, S # {}
  PROVE  Newest(S) \in S /\ \A u \in S : u <= Newest(S)
BY NewestIn, SizesAreNaturals DEF TxIds

(* OldestIn for transactions.                                                   *)
LEMMA OldestTx ==
  ASSUME NEW S \in SUBSET TxIds, S # {}
  PROVE  Oldest(S) \in S
BY OldestIn DEF TxIds

(* Writing one entry of the current transaction keeps the targets typed. *)
LEMMA SetSlotType ==
  ASSUME TypeOK, NEW e, NEW ref \in Contents, SetSlot(e, ref)
  PROVE  tgt' \in [Sets -> Contents]
BY DEF SetSlot, TypeOK, StoreTyped, Contents

(* An empty store with no session is typed.                                     *)
LEMMA TypeInit == Init => TypeOK
<1> SUFFICES ASSUME Init PROVE TypeOK
  OBVIOUS
<1> USE SizesAreNaturals, ContentsAreTyped DEF Init
<1>1. StoreTyped
  BY DEF StoreTyped, TxIds, Markers
<1>2. SessionTyped
  BY DEF SessionTyped, PCs, Modes, Wants
<1>3. OutcomeTyped
  BY DEF OutcomeTyped, Reports
<1> QED
  BY <1>1, <1>2, <1>3 DEF TypeOK

(* No operation, fault or edit leads out of the typed states: one step for each action. *)
LEMMA TypeStep ==
  ASSUME TypeOK, SessionInvariant, [Next]_vars
  PROVE  TypeOK'
<1> USE SizesAreNaturals, ContentsAreTyped DEF TypeOK
<1>1. CASE AcquireLease
  <2>1. StoreTyped'
    BY <1>1 DEF AcquireLease, StoreTyped, store
  <2>2. SessionTyped'
    BY <1>1 DEF AcquireLease, SessionTyped, PCs, Modes, Wants, session, Goto
  <2>3. OutcomeTyped'
    BY <1>1 DEF AcquireLease, OutcomeTyped, Reports, NoFault, IOError, faults
  <2> QED
    BY <2>1, <2>2, <2>3
<1>2. CASE ScanPending
  <2>1. StoreTyped'
    BY <1>2 DEF ScanPending, StoreTyped, store
  <2>2. SessionTyped'
    BY <1>2 DEF ScanPending, Release, SessionTyped, PCs, Modes, Wants, session, Goto
  <2>3. OutcomeTyped'
    BY <1>2 DEF ScanPending, Release, OutcomeTyped, Reports, NoFault, IOError, faults
  <2> QED
    BY <2>1, <2>2, <2>3
<1>3. CASE RecoverNext
  <2>1. StoreTyped'
    BY <1>3 DEF RecoverNext, StoreTyped, store
  <2>2. SessionTyped'
    <3>1. PendingTx # {} => Newest(PendingTx) \in TxIds
      BY NewestTx DEF PendingTx
    <3> QED
      BY <1>3, <3>1 DEF RecoverNext, BeginUndo, SessionTyped, PCs, Modes, Wants, session, Goto
  <2>3. OutcomeTyped'
    BY <1>3 DEF RecoverNext, BeginUndo, OutcomeTyped, Reports, NoFault, IOError, faults
  <2> QED
    BY <2>1, <2>2, <2>3
<1>4. CASE PlanRun
  <2>1. StoreTyped'
    <3>1. PICK n \in 0..NumSets :
            /\ nextTx + n <= MaxTx + 1
            /\ \E order \in [nextTx..(nextTx + n - 1) -> Sets] :
                 /\ roots' = roots \cup (nextTx..(nextTx + n - 1))
                 /\ cfgSet' = [t \in TxIds |-> IF t \in nextTx..(nextTx + n - 1)
                                               THEN order[t] ELSE cfgSet[t]]
                 /\ run' = [t \in TxIds |-> IF t \in nextTx..(nextTx + n - 1)
                                            THEN nextTx ELSE run[t]]
                 /\ nextTx' = nextTx + n
      BY <1>4 DEF PlanRun
    <3>2. roots' \subseteq TxIds /\ nextTx' \in 1..(MaxTx + 1)
      BY <3>1 DEF StoreTyped, TxIds
    <3>3. cfgSet' \in [TxIds -> Sets \cup {0}]
      BY <3>1 DEF StoreTyped
    <3>4. run' \in [TxIds -> TxIds \cup {0}]
      BY <3>1 DEF StoreTyped, TxIds
    <3> QED
      BY <1>4, <3>2, <3>3, <3>4 DEF PlanRun, StoreTyped
  <2>2. SessionTyped'
    <3>1. mine' \subseteq TxIds /\ todo' \subseteq TxIds
      BY <1>4 DEF PlanRun, StoreTyped, TxIds
    <3> QED
      BY <1>4, <3>1 DEF PlanRun, SessionTyped, PCs, Modes, Wants, session, Goto
  <2>3. OutcomeTyped'
    BY <1>4 DEF PlanRun, OutcomeTyped, Reports, NoFault, IOError, faults
  <2> QED
    BY <2>1, <2>2, <2>3
<1>5. CASE PrepareSet
  <2>1. StoreTyped'
    <3>1. Oldest(todo) \in TxIds /\ tgt[cfgSet[Oldest(todo)]] \in Contents
      BY <1>5, OldestTx DEF PrepareSet, StoreTyped, SessionTyped, SessionInvariant, RootsKnown
    <3> QED
      BY <1>5, <3>1 DEF PrepareSet, StoreTyped
  <2>2. SessionTyped'
    <3>1. Oldest(todo) \in TxIds
      BY <1>5, OldestTx DEF PrepareSet, SessionTyped
    <3> QED
      BY <1>5, <3>1 DEF PrepareSet, Finish, AfterSet, SessionTyped, PCs, Modes, Wants,
         session, Goto
  <2>3. OutcomeTyped'
    BY <1>5 DEF PrepareSet, Finish, AfterSet, OutcomeTyped, Reports, NoFault, IOError, faults
  <2> QED
    BY <2>1, <2>2, <2>3
<1>6. CASE SkipRemaining
  <2>1. StoreTyped'
    BY <1>6 DEF SkipRemaining, StoreTyped, store
  <2>2. SessionTyped'
    BY <1>6 DEF SkipRemaining, SessionTyped, PCs, Modes, Wants, session, Goto
  <2>3. OutcomeTyped'
    BY <1>6 DEF SkipRemaining, OutcomeTyped, Reports, NoFault, IOError, faults
  <2> QED
    BY <2>1, <2>2, <2>3
<1>7. CASE CloseRun
  <2>1. StoreTyped'
    BY <1>7 DEF CloseRun, StoreTyped, store
  <2>2. SessionTyped'
    BY <1>7 DEF CloseRun, Release, SessionTyped, PCs, Modes, Wants, session, Goto
  <2>3. OutcomeTyped'
    BY <1>7 DEF CloseRun, Release, OutcomeTyped, Reports, NoFault, IOError, faults
  <2> QED
    BY <2>1, <2>2, <2>3
<1>8. CASE PersistIntent
  <2>1. StoreTyped'
    <3>1. cur \in TxIds
      BY <1>8 DEF PersistIntent, SessionInvariant, RootsKnown, StoreTyped
    <3> QED
      BY <1>8, <3>1 DEF PersistIntent, StoreTyped
  <2>2. SessionTyped'
    BY <1>8 DEF PersistIntent, SessionTyped, PCs, Modes, Wants, session, Goto
  <2>3. OutcomeTyped'
    BY <1>8 DEF PersistIntent, OutcomeTyped, Reports, NoFault, IOError, faults
  <2> QED
    BY <2>1, <2>2, <2>3
<1>9. CASE BeginExecute
  <2>1. StoreTyped'
    BY <1>9 DEF BeginExecute, StoreTyped, store
  <2>2. SessionTyped'
    BY <1>9 DEF BeginExecute, FailTransaction, BeginUndo, Finish, AfterSet, SessionTyped, PCs,
       Modes, Wants, session, Goto
  <2>3. OutcomeTyped'
    BY <1>9 DEF BeginExecute, FailTransaction, BeginUndo, Finish, AfterSet, OutcomeTyped,
       Reports, NoFault, IOError, faults
  <2> QED
    BY <2>1, <2>2, <2>3
<1>10. CASE CommitAction
  <2>1. StoreTyped'
    BY <1>10 DEF CommitAction, StoreTyped, store
  <2>2. SessionTyped'
    BY <1>10 DEF CommitAction, FailTransaction, BeginUndo, SessionTyped, PCs, Modes, Wants,
       session, Goto
  <2>3. OutcomeTyped'
    BY <1>10 DEF CommitAction, FailTransaction, BeginUndo, OutcomeTyped, Reports, NoFault,
       IOError, Checked, faults
  <2> QED
    BY <2>1, <2>2, <2>3
<1>11. CASE WriteEntry
  <2>1. StoreTyped'
    <3>1. tgt' \in [Sets -> Contents]
      <4>1. desired[cur] \in Contents
        BY <1>11 DEF WriteEntry, SessionInvariant, RootsKnown, Working, StoreTyped
      <4> QED
        BY <1>11, <4>1, SetSlotType DEF WriteEntry, StoreTyped
    <3> QED
      BY <1>11, <3>1 DEF WriteEntry, StoreTyped, store
  <2>2. SessionTyped'
    <3>1. act \in Actions
      BY <1>11 DEF WriteEntry, SessionInvariant, IndexKnown
    <3>2. touched' \subseteq Actions /\ left' \subseteq Entries
      BY <1>11, <3>1 DEF WriteEntry, FailTransaction, SessionTyped
    <3>3. pc' \in PCs /\ mode' \in Modes /\ want' \in Wants
      BY <1>11 DEF WriteEntry, FailTransaction, BeginUndo, SessionTyped, PCs, Modes, Wants, Goto
    <3>4. act' \in 0..(NumActions + 1) /\ cur' \in TxIds \cup {0}
      BY <1>11 DEF WriteEntry, FailTransaction, BeginUndo, SessionTyped
    <3>5. errs' \subseteq Actions
      BY <1>11 DEF WriteEntry, FailTransaction, BeginUndo, SessionTyped
    <3>6. UNCHANGED <<cmd, mine, todo>>
      BY <1>11 DEF WriteEntry, FailTransaction
    <3> QED
      BY <3>2, <3>3, <3>4, <3>5, <3>6 DEF SessionTyped
  <2>3. OutcomeTyped'
    BY <1>11 DEF WriteEntry, FailTransaction, BeginUndo, OutcomeTyped, Reports, NoFault,
       IOError, faults
  <2> QED
    BY <2>1, <2>2, <2>3
<1>12. CASE VerifyAction
  <2>1. StoreTyped'
    BY <1>12 DEF VerifyAction, StoreTyped, store
  <2>2. SessionTyped'
    <3>1. act + 1 \in 0..(NumActions + 1)
      BY <1>12 DEF VerifyAction, SessionInvariant, IndexKnown, Actions
    <3> QED
      BY <1>12, <3>1 DEF VerifyAction, FailTransaction, BeginUndo, SessionTyped, PCs, Modes,
         Wants, session, Goto
  <2>3. OutcomeTyped'
    BY <1>12 DEF VerifyAction, FailTransaction, BeginUndo, OutcomeTyped, Reports, NoFault,
       IOError, faults
  <2> QED
    BY <2>1, <2>2, <2>3
<1>13. CASE Validate
  <2>1. StoreTyped'
    BY <1>13 DEF Validate, StoreTyped, store
  <2>2. SessionTyped'
    BY <1>13 DEF Validate, FailTransaction, BeginUndo, SessionTyped, PCs, Modes, Wants,
       session, Goto
  <2>3. OutcomeTyped'
    BY <1>13 DEF Validate, FailTransaction, BeginUndo, OutcomeTyped, Reports, NoFault,
       IOError, faults
  <2> QED
    BY <2>1, <2>2, <2>3
<1>14. CASE MarkDurable
  <2>1. StoreTyped'
    <3>1. Terminal \in Markers
      BY DEF Terminal, Markers
    <3> QED
      BY <1>14, <3>1 DEF MarkDurable, StoreTyped
  <2>2. SessionTyped'
    BY <1>14 DEF MarkDurable, Finish, AfterSet, SessionTyped, PCs, Modes, Wants, session, Goto
  <2>3. OutcomeTyped'
    BY <1>14 DEF MarkDurable, Finish, AfterSet, OutcomeTyped, Reports, NoFault, IOError, faults
  <2> QED
    BY <2>1, <2>2, <2>3
<1>15. CASE MarkFails
  <2>1. StoreTyped'
    BY <1>15 DEF MarkFails, StoreTyped, store
  <2>2. SessionTyped'
    BY <1>15 DEF MarkFails, AfterMarkFailure, FailTransaction, BeginUndo, Finish, AfterSet,
       Release, SessionTyped, PCs, Modes, Wants, session, Goto
  <2>3. OutcomeTyped'
    BY <1>15 DEF MarkFails, AfterMarkFailure, FailTransaction, BeginUndo, Finish, AfterSet,
       Release, OutcomeTyped, Reports, NoFault, IOError, faults
  <2> QED
    BY <2>1, <2>2, <2>3
<1>16. CASE MarkAmbiguous
  <2>1. StoreTyped'
    <3>1. Terminal \in Markers
      BY DEF Terminal, Markers
    <3> QED
      BY <1>16, <3>1 DEF MarkAmbiguous, StoreTyped
  <2>2. SessionTyped'
    BY <1>16 DEF MarkAmbiguous, AfterMarkFailure, FailTransaction, BeginUndo, Finish,
       AfterSet, Release, SessionTyped, PCs, Modes, Wants, session, Goto
  <2>3. OutcomeTyped'
    BY <1>16 DEF MarkAmbiguous, AfterMarkFailure, FailTransaction, BeginUndo, Finish,
       AfterSet, Release, OutcomeTyped, Reports, NoFault, IOError, faults
  <2> QED
    BY <2>1, <2>2, <2>3
<1>17. CASE UndoAction
  <2>1. StoreTyped'
    BY <1>17 DEF UndoAction, StoreTyped, store
  <2>2. SessionTyped'
    <3>1. act \in Actions /\ act - 1 \in 0..(NumActions + 1)
      BY <1>17 DEF UndoAction, SessionInvariant, IndexKnown, SessionTyped, Actions
    <3> QED
      BY <1>17, <3>1 DEF UndoAction, SessionTyped, PCs, Modes, Wants, session, Goto
  <2>3. OutcomeTyped'
    BY <1>17 DEF UndoAction, OutcomeTyped, Reports, NoFault, IOError, Checked, faults
  <2> QED
    BY <2>1, <2>2, <2>3
<1>18. CASE RestoreEntry
  <2>1. StoreTyped'
    <3>1. tgt' \in [Sets -> Contents]
      <4>1. prior[cur] \in Contents
        BY <1>18 DEF RestoreEntry, SessionInvariant, RootsKnown, Working, StoreTyped
      <4> QED
        BY <1>18, <4>1, SetSlotType DEF RestoreEntry, StoreTyped
    <3> QED
      BY <1>18, <3>1 DEF RestoreEntry, StoreTyped, store
  <2>2. SessionTyped'
    <3>1. act \in Actions /\ act - 1 \in 0..(NumActions + 1)
      BY <1>18 DEF RestoreEntry, SessionInvariant, IndexKnown, Actions
    <3> QED
      BY <1>18, <3>1 DEF RestoreEntry, SessionTyped, PCs, Modes, Wants, session, Goto
  <2>3. OutcomeTyped'
    BY <1>18 DEF RestoreEntry, OutcomeTyped, Reports, NoFault, IOError, faults
  <2> QED
    BY <2>1, <2>2, <2>3
<1>19. CASE FinishUndo
  <2>1. StoreTyped'
    BY <1>19 DEF FinishUndo, StoreTyped, store
  <2>2. SessionTyped'
    BY <1>19 DEF FinishUndo, Finish, AfterSet, Release, SessionTyped, PCs, Modes, Wants,
       session, Goto
  <2>3. OutcomeTyped'
    BY <1>19 DEF FinishUndo, Finish, AfterSet, Release, OutcomeTyped, Reports, NoFault,
       IOError, faults
  <2> QED
    BY <2>1, <2>2, <2>3
<1>20. CASE SelectRevert
  <2>1. StoreTyped'
    BY <1>20 DEF SelectRevert, StoreTyped, store
  <2>2. SessionTyped'
    <3>1. {t \in ActiveTx : run[t] = run[RevertFirst(ActiveTx)]} \subseteq TxIds
      BY DEF ActiveTx
    <3> QED
      BY <1>20, <3>1 DEF SelectRevert, Release, SessionTyped, PCs, Modes, Wants, session, Goto
  <2>3. OutcomeTyped'
    BY <1>20 DEF SelectRevert, Release, ActiveTx, OutcomeTyped, Reports, NoFault, IOError,
       faults
  <2> QED
    BY <2>1, <2>2, <2>3
<1>21. CASE RevertNext
  <2>1. StoreTyped'
    BY <1>21 DEF RevertNext, StoreTyped, store
  <2>2. SessionTyped'
    <3>1. todo # {} => RevertFirst(todo) \in TxIds
      BY NewestTx DEF RevertFirst, SessionTyped
    <3> QED
      BY <1>21, <3>1 DEF RevertNext, BeginUndo, Release, SessionTyped, PCs, Modes, Wants,
         session, Goto
  <2>3. OutcomeTyped'
    BY <1>21 DEF RevertNext, BeginUndo, Release, OutcomeTyped, Reports, NoFault, IOError, faults
  <2> QED
    BY <2>1, <2>2, <2>3
<1>22. CASE MarkReverted
  <2>1. StoreTyped'
    <3>1. cur \in TxIds
      BY <1>22 DEF MarkReverted, SessionInvariant, RootsKnown, StoreTyped
    <3> QED
      BY <1>22, <3>1 DEF MarkReverted, StoreTyped
  <2>2. SessionTyped'
    BY <1>22 DEF MarkReverted, Release, SessionTyped, PCs, Modes, Wants, session, Goto
  <2>3. OutcomeTyped'
    BY <1>22 DEF MarkReverted, Release, OutcomeTyped, Reports, NoFault, IOError, faults
  <2> QED
    BY <2>1, <2>2, <2>3
<1>23. CASE Crash
  <2>1. StoreTyped'
    BY <1>23 DEF Crash, StoreTyped, store
  <2>2. SessionTyped'
    BY <1>23 DEF Crash, Release, SessionTyped, PCs, Modes, Wants, session, Goto
  <2>3. OutcomeTyped'
    BY <1>23 DEF Crash, Release, OutcomeTyped, Reports, NoFault, IOError, faults
  <2> QED
    BY <2>1, <2>2, <2>3
<1>24. CASE EditTarget
  <2>1. StoreTyped'
    <3>1. PICK s \in Sets, a \in Actions, e \in Entries :
            tgt' = [tgt EXCEPT ![s][<<a, e>>] = UserEdit]
      BY <1>24 DEF EditTarget
    <3>2. tgt' \in [Sets -> Contents]
      BY <3>1, ContentsAreTyped DEF TypeOK, StoreTyped, Contents
    <3> QED
      BY <1>24, <3>2 DEF EditTarget, StoreTyped, store
  <2>2. SessionTyped'
    BY <1>24 DEF EditTarget, SessionTyped, PCs, Modes, Wants, session, Goto
  <2>3. OutcomeTyped'
    BY <1>24 DEF EditTarget, OutcomeTyped, Reports, NoFault, IOError, faults
  <2> QED
    BY <2>1, <2>2, <2>3
<1>25. CASE UNCHANGED vars
  BY <1>25 DEF vars, StoreTyped, SessionTyped, OutcomeTyped, store, session, faults
<1> QED
  BY <1>1, <1>2, <1>3, <1>4, <1>5, <1>6, <1>7, <1>8, <1>9, <1>10, <1>11, <1>12, <1>13, <1>14,
     <1>15, <1>16, <1>17, <1>18, <1>19, <1>20, <1>21, <1>22, <1>23, <1>24, <1>25 DEF Next,
     Engine

(* Which transactions are pending depends on the journal only. *)
LEMMA PendingUnchanged ==
  ASSUME UNCHANGED <<intent, marker>>
  PROVE  PendingTx' = PendingTx /\ (SinglePending' <=> SinglePending)
BY DEF PendingTx, SinglePending, Pending

(* Before the first run nothing is pending and there is no root.                *)
LEMMA SessionInit == Init => SessionInvariant
BY DEF Init, SessionInvariant, PendingKnown, RootsKnown, IndexKnown, SinglePending,
       NothingPending, Reverting, Working, JournalKept, PendingTx, Pending

(* If no transaction becomes pending, at most one still is.                     *)
LEMMA PendingShrinks ==
  ASSUME SinglePending, PendingTx' \subseteq PendingTx
  PROVE  SinglePending'
BY DEF PendingTx, SinglePending, Pending

(* A terminal record takes its transaction, and no other, out of the pending ones. *)
LEMMA MarkCloses ==
  ASSUME TypeOK, cur \in TxIds, UNCHANGED intent,
         marker' = [marker EXCEPT ![cur] = Terminal]
  PROVE  PendingTx' = PendingTx \ {cur}
BY DEF TypeOK, StoreTyped, PendingTx, Pending, Terminal

(* What the holder of the lease knows at each of its steps is still known after *)
(* the next one: one step for each action, and in it one for each part that the *)
(* action can disturb.                                                          *)
LEMMA SessionStep ==
  ASSUME TypeOK, SessionInvariant, [Next]_vars
  PROVE  SessionInvariant'
<1> USE SizesAreNaturals DEF SessionInvariant
<1>1. CASE AcquireLease
  <2>1. PendingKnown'
    BY PendingUnchanged, <1>1 DEF AcquireLease, PendingKnown, NothingPending, Reverting,
       Working, store, session, Goto
  <2>2. RootsKnown'
    BY <1>1 DEF AcquireLease, RootsKnown, JournalKept, Working, store, session, Goto
  <2>3. IndexKnown'
    BY <1>1 DEF AcquireLease, TypeOK, SessionTyped, IndexKnown, Actions, session, Goto
  <2> QED
    BY <2>1, <2>2, <2>3
<1>2. CASE ScanPending
  <2>1. PendingKnown'
    BY PendingUnchanged, <1>2 DEF ScanPending, Release, PendingKnown, NothingPending,
       Reverting, Working, store, session, Goto
  <2>2. RootsKnown'
    BY <1>2 DEF ScanPending, Release, RootsKnown, JournalKept, Working, store, session, Goto
  <2>3. IndexKnown'
    BY <1>2 DEF ScanPending, Release, TypeOK, SessionTyped, IndexKnown, Actions, session, Goto
  <2> QED
    BY <2>1, <2>2, <2>3
<1>3. CASE RecoverNext
  <2>1. PendingKnown'
    <3>1. UNCHANGED <<intent, marker>>
      BY <1>3 DEF RecoverNext, store
    <3>2. CASE PendingTx = {}
      BY <1>3, <3>1, <3>2, PendingUnchanged
         DEF RecoverNext, PendingKnown, NothingPending, Reverting, Working, Goto
    <3>3. CASE PendingTx # {}
      <4>1. Newest(PendingTx) \in PendingTx
        BY <3>3, NewestTx DEF PendingTx
      <4>2. Newest(PendingTx) \in intent /\ PendingTx \subseteq {Newest(PendingTx)}
        BY <4>1 DEF PendingKnown, SinglePending, PendingTx, Pending
      <4> QED
        BY <1>3, <3>1, <3>3, <4>2, PendingUnchanged
           DEF RecoverNext, BeginUndo, PendingKnown, NothingPending, Reverting, Goto
    <3> QED
      BY <3>2, <3>3
  <2>2. RootsKnown'
    <3>1. PendingTx # {} => Newest(PendingTx) \in roots
      BY NewestTx DEF PendingTx, Pending, RootsKnown, JournalKept
    <3> QED
      BY <1>3, <3>1 DEF RecoverNext, BeginUndo, RootsKnown, JournalKept, Working, store, Goto
  <2>3. IndexKnown'
    BY <1>3 DEF RecoverNext, BeginUndo, TypeOK, SessionTyped, IndexKnown, Actions, session, Goto
  <2> QED
    BY <2>1, <2>2, <2>3
<1>4. CASE PlanRun
  <2>1. PendingKnown'
    BY PendingUnchanged, <1>4 DEF PlanRun, PendingKnown, NothingPending, Reverting, Working,
       store, session, Goto
  <2>2. RootsKnown'
    <3>1. PICK n \in 0..NumSets :
            \E order \in [nextTx..(nextTx + n - 1) -> Sets] :
              /\ roots' = roots \cup (nextTx..(nextTx + n - 1))
              /\ cfgSet' = [t \in TxIds |-> IF t \in nextTx..(nextTx + n - 1)
                                            THEN order[t] ELSE cfgSet[t]]
              /\ todo' \subseteq nextTx..(nextTx + n - 1)
      BY <1>4 DEF PlanRun
    <3>2. \A t \in roots' : cfgSet'[t] \in Sets
      <4>1. roots' \subseteq TxIds
        BY TypeStep DEF TypeOK, StoreTyped
      <4> QED
        BY <3>1, <4>1 DEF RootsKnown
    <3> QED
      BY <1>4, <3>1, <3>2 DEF PlanRun, RootsKnown, JournalKept, Working, Goto
  <2>3. IndexKnown'
    BY <1>4 DEF PlanRun, TypeOK, SessionTyped, IndexKnown, Actions, session, Goto
  <2> QED
    BY <2>1, <2>2, <2>3
<1>5. CASE PrepareSet
  <2>1. PendingKnown'
    BY PendingUnchanged, <1>5 DEF PrepareSet, Finish, AfterSet, PendingKnown, NothingPending,
       Reverting, Working, store, session, Goto
  <2>2. RootsKnown'
    <3>1. Oldest(todo) \in todo
      BY <1>5, OldestTx DEF PrepareSet, TypeOK, SessionTyped
    <3> QED
      BY <1>5, <3>1 DEF PrepareSet, Finish, AfterSet, RootsKnown, JournalKept, Working, Goto
  <2>3. IndexKnown'
    BY <1>5 DEF PrepareSet, Finish, AfterSet, TypeOK, SessionTyped, IndexKnown, Actions,
       session, Goto
  <2> QED
    BY <2>1, <2>2, <2>3
<1>6. CASE SkipRemaining
  <2>1. PendingKnown'
    BY PendingUnchanged, <1>6 DEF SkipRemaining, PendingKnown, NothingPending, Reverting,
       Working, store, session, Goto
  <2>2. RootsKnown'
    BY <1>6 DEF SkipRemaining, RootsKnown, JournalKept, Working, store, session, Goto
  <2>3. IndexKnown'
    BY <1>6 DEF SkipRemaining, TypeOK, SessionTyped, IndexKnown, Actions, session, Goto
  <2> QED
    BY <2>1, <2>2, <2>3
<1>7. CASE CloseRun
  <2>1. PendingKnown'
    BY PendingUnchanged, <1>7 DEF CloseRun, Release, PendingKnown, NothingPending, Reverting,
       Working, store, session, Goto
  <2>2. RootsKnown'
    <3>1. intent \subseteq roots' /\ roots' \subseteq roots
      BY <1>7 DEF CloseRun, Discardable, RootsKnown, JournalKept
    <3> QED
      BY <1>7, <3>1 DEF CloseRun, Release, RootsKnown, JournalKept, Working
  <2>3. IndexKnown'
    BY <1>7 DEF CloseRun, Release, TypeOK, SessionTyped, IndexKnown, Actions, session, Goto
  <2> QED
    BY <2>1, <2>2, <2>3
<1>8. CASE PersistIntent
  <2>1. PendingKnown'
    <3>1. PendingTx' \subseteq {cur}
      BY <1>8 DEF PersistIntent, PendingKnown, NothingPending, PendingTx, Pending
    <3>2. SinglePending'
      BY <3>1 DEF SinglePending, PendingTx
    <3> QED
      BY <1>8, <3>1, <3>2 DEF PersistIntent, PendingKnown, NothingPending, Reverting, Working,
         Goto
  <2>2. RootsKnown'
    BY <1>8 DEF PersistIntent, RootsKnown, JournalKept, Working, store, session, Goto
  <2>3. IndexKnown'
    BY <1>8 DEF PersistIntent, TypeOK, SessionTyped, IndexKnown, Actions, session, Goto
  <2> QED
    BY <2>1, <2>2, <2>3
<1>9. CASE BeginExecute
  <2>1. PendingKnown'
    BY PendingUnchanged, <1>9 DEF BeginExecute, FailTransaction, BeginUndo, Finish, AfterSet,
       PendingKnown, NothingPending, Reverting, Working, store, session, Goto
  <2>2. RootsKnown'
    BY <1>9 DEF BeginExecute, FailTransaction, BeginUndo, Finish, AfterSet, RootsKnown,
       JournalKept, Working, store, session, Goto
  <2>3. IndexKnown'
    BY <1>9 DEF BeginExecute, FailTransaction, BeginUndo, Finish, AfterSet, TypeOK,
       SessionTyped, IndexKnown, Actions, session, Goto
  <2> QED
    BY <2>1, <2>2, <2>3
<1>10. CASE CommitAction
  <2>1. PendingKnown'
    BY PendingUnchanged, <1>10 DEF CommitAction, FailTransaction, BeginUndo, PendingKnown,
       NothingPending, Reverting, Working, store, session, Goto
  <2>2. RootsKnown'
    BY <1>10 DEF CommitAction, FailTransaction, BeginUndo, RootsKnown, JournalKept, Working,
       store, session, Goto
  <2>3. IndexKnown'
    BY <1>10 DEF CommitAction, FailTransaction, BeginUndo, TypeOK, SessionTyped, IndexKnown,
       Actions, session, Goto
  <2> QED
    BY <2>1, <2>2, <2>3
<1>11. CASE WriteEntry
  <2>1. PendingKnown'
    BY PendingUnchanged, <1>11 DEF WriteEntry, FailTransaction, BeginUndo, PendingKnown,
       NothingPending, Reverting, Working, store, session, Goto
  <2>2. RootsKnown'
    BY <1>11 DEF WriteEntry, FailTransaction, BeginUndo, RootsKnown, JournalKept, Working,
       store, session, Goto
  <2>3. IndexKnown'
    BY <1>11 DEF WriteEntry, FailTransaction, BeginUndo, TypeOK, SessionTyped, IndexKnown,
       Actions, session, Goto
  <2> QED
    BY <2>1, <2>2, <2>3
<1>12. CASE VerifyAction
  <2>1. PendingKnown'
    BY PendingUnchanged, <1>12 DEF VerifyAction, FailTransaction, BeginUndo, PendingKnown,
       NothingPending, Reverting, Working, store, session, Goto
  <2>2. RootsKnown'
    BY <1>12 DEF VerifyAction, FailTransaction, BeginUndo, RootsKnown, JournalKept, Working,
       store, session, Goto
  <2>3. IndexKnown'
    BY <1>12 DEF VerifyAction, FailTransaction, BeginUndo, TypeOK, SessionTyped, IndexKnown,
       Actions, session, Goto
  <2> QED
    BY <2>1, <2>2, <2>3
<1>13. CASE Validate
  <2>1. PendingKnown'
    BY PendingUnchanged, <1>13 DEF Validate, FailTransaction, BeginUndo, PendingKnown,
       NothingPending, Reverting, Working, store, session, Goto
  <2>2. RootsKnown'
    BY <1>13 DEF Validate, FailTransaction, BeginUndo, RootsKnown, JournalKept, Working,
       store, session, Goto
  <2>3. IndexKnown'
    BY <1>13 DEF Validate, FailTransaction, BeginUndo, TypeOK, SessionTyped, IndexKnown,
       Actions, session, Goto
  <2> QED
    BY <2>1, <2>2, <2>3
<1>14. CASE MarkDurable
  <2>1. PendingKnown'
    <3>1. cur \in TxIds /\ PendingTx \subseteq {cur}
      BY <1>14 DEF MarkDurable, TypeOK, StoreTyped, RootsKnown, PendingKnown, Working
    <3>2. PendingTx' = {}
      BY <1>14, <3>1, MarkCloses DEF MarkDurable
    <3>3. SinglePending'
      BY <3>2, PendingShrinks DEF PendingKnown
    <3> QED
      BY <1>14, <3>2, <3>3
         DEF MarkDurable, Finish, AfterSet, PendingKnown, Reverting, Working, Goto
  <2>2. RootsKnown'
    BY <1>14 DEF MarkDurable, Finish, AfterSet, RootsKnown, JournalKept, Working, store,
       session, Goto
  <2>3. IndexKnown'
    BY <1>14 DEF MarkDurable, Finish, AfterSet, TypeOK, SessionTyped, IndexKnown, Actions,
       session, Goto
  <2> QED
    BY <2>1, <2>2, <2>3
<1>15. CASE MarkFails
  <2>1. PendingKnown'
    BY PendingUnchanged, <1>15 DEF MarkFails, AfterMarkFailure, FailTransaction, BeginUndo,
       Finish, AfterSet, Release, PendingKnown, NothingPending, Reverting, Working, store,
       session, Goto
  <2>2. RootsKnown'
    BY <1>15 DEF MarkFails, AfterMarkFailure, FailTransaction, BeginUndo, Finish, AfterSet,
       Release, RootsKnown, JournalKept, Working, store, session, Goto
  <2>3. IndexKnown'
    BY <1>15 DEF MarkFails, AfterMarkFailure, FailTransaction, BeginUndo, Finish, AfterSet,
       Release, TypeOK, SessionTyped, IndexKnown, Actions, session, Goto
  <2> QED
    BY <2>1, <2>2, <2>3
<1>16. CASE MarkAmbiguous
  <2>1. PendingKnown'
    <3>1. cur \in TxIds /\ PendingTx \subseteq {cur} /\ cur \in intent
      BY <1>16 DEF MarkAmbiguous, TypeOK, StoreTyped, RootsKnown, PendingKnown, Working
    <3>2. PendingTx' \subseteq PendingTx
      BY <1>16, <3>1, MarkCloses, PendingUnchanged DEF MarkAmbiguous
    <3>3. SinglePending'
      BY <3>2, PendingShrinks DEF PendingKnown
    <3> QED
      BY <1>16, <3>1, <3>2, <3>3
         DEF MarkAmbiguous, AfterMarkFailure, FailTransaction, BeginUndo, Finish, AfterSet,
             Release, PendingKnown, NothingPending, Reverting, Working, Goto
  <2>2. RootsKnown'
    BY <1>16 DEF MarkAmbiguous, AfterMarkFailure, FailTransaction, BeginUndo, Finish,
       AfterSet, Release, RootsKnown, JournalKept, Working, store, session, Goto
  <2>3. IndexKnown'
    BY <1>16 DEF MarkAmbiguous, AfterMarkFailure, FailTransaction, BeginUndo, Finish,
       AfterSet, Release, TypeOK, SessionTyped, IndexKnown, Actions, session, Goto
  <2> QED
    BY <2>1, <2>2, <2>3
<1>17. CASE UndoAction
  <2>1. PendingKnown'
    BY PendingUnchanged, <1>17 DEF UndoAction, PendingKnown, NothingPending, Reverting,
       Working, store, session, Goto
  <2>2. RootsKnown'
    BY <1>17 DEF UndoAction, RootsKnown, JournalKept, Working, store, session, Goto
  <2>3. IndexKnown'
    BY <1>17 DEF UndoAction, TypeOK, SessionTyped, IndexKnown, Actions, session, Goto
  <2> QED
    BY <2>1, <2>2, <2>3
<1>18. CASE RestoreEntry
  <2>1. PendingKnown'
    BY PendingUnchanged, <1>18 DEF RestoreEntry, PendingKnown, NothingPending, Reverting,
       Working, store, session, Goto
  <2>2. RootsKnown'
    BY <1>18 DEF RestoreEntry, RootsKnown, JournalKept, Working, store, session, Goto
  <2>3. IndexKnown'
    BY <1>18 DEF RestoreEntry, TypeOK, SessionTyped, IndexKnown, Actions, session, Goto
  <2> QED
    BY <2>1, <2>2, <2>3
<1>19. CASE FinishUndo
  <2>1. PendingKnown'
    BY PendingUnchanged, <1>19 DEF FinishUndo, Finish, AfterSet, Release, PendingKnown,
       NothingPending, Reverting, Working, store, session, Goto
  <2>2. RootsKnown'
    BY <1>19 DEF FinishUndo, Finish, AfterSet, Release, RootsKnown, JournalKept, Working,
       store, session, Goto
  <2>3. IndexKnown'
    BY <1>19 DEF FinishUndo, Finish, AfterSet, Release, TypeOK, SessionTyped, IndexKnown,
       Actions, session, Goto
  <2> QED
    BY <2>1, <2>2, <2>3
<1>20. CASE SelectRevert
  <2>1. PendingKnown'
    <3>1. ActiveTx \subseteq intent
      BY DEF ActiveTx, Active
    <3> QED
      BY <1>20, <3>1, PendingUnchanged
         DEF SelectRevert, Release, PendingKnown, NothingPending, Reverting, Working, store,
         Goto
  <2>2. RootsKnown'
    <3>1. ActiveTx \subseteq roots
      BY DEF ActiveTx, Active, RootsKnown, JournalKept
    <3> QED
      BY <1>20, <3>1 DEF SelectRevert, Release, RootsKnown, JournalKept, Working, store, Goto
  <2>3. IndexKnown'
    BY <1>20 DEF SelectRevert, Release, ActiveTx, TypeOK, SessionTyped, IndexKnown, Actions,
       session, Goto
  <2> QED
    BY <2>1, <2>2, <2>3
<1>21. CASE RevertNext
  <2>1. PendingKnown'
    <3>1. todo # {} => RevertFirst(todo) \in intent
      BY <1>21, NewestTx DEF RevertNext, RevertFirst, PendingKnown, Reverting, TypeOK,
         SessionTyped
    <3> QED
      BY <1>21, <3>1, PendingUnchanged
         DEF RevertNext, BeginUndo, Release, PendingKnown, NothingPending, Reverting, Working,
         store, Goto
  <2>2. RootsKnown'
    <3>1. todo # {} => RevertFirst(todo) \in roots
      BY NewestTx DEF RevertFirst, RootsKnown, TypeOK, SessionTyped
    <3> QED
      BY <1>21, <3>1 DEF RevertNext, BeginUndo, Release, RootsKnown, JournalKept, Working,
         store, Goto
  <2>3. IndexKnown'
    BY <1>21 DEF RevertNext, BeginUndo, Release, TypeOK, SessionTyped, IndexKnown, Actions,
       session, Goto
  <2> QED
    BY <2>1, <2>2, <2>3
<1>22. CASE MarkReverted
  <2>1. PendingKnown'
    BY PendingUnchanged, <1>22 DEF MarkReverted, Release, PendingKnown, NothingPending,
       Reverting, Working, store, session, Goto
  <2>2. RootsKnown'
    BY <1>22 DEF MarkReverted, Release, RootsKnown, JournalKept, Working, store, session, Goto
  <2>3. IndexKnown'
    BY <1>22 DEF MarkReverted, Release, TypeOK, SessionTyped, IndexKnown, Actions, session, Goto
  <2> QED
    BY <2>1, <2>2, <2>3
<1>23. CASE Crash
  <2>1. PendingKnown'
    BY PendingUnchanged, <1>23 DEF Crash, Release, PendingKnown, NothingPending, Reverting,
       Working, store, session, Goto
  <2>2. RootsKnown'
    BY <1>23 DEF Crash, Release, RootsKnown, JournalKept, Working, store, session, Goto
  <2>3. IndexKnown'
    BY <1>23 DEF Crash, Release, TypeOK, SessionTyped, IndexKnown, Actions, session, Goto
  <2> QED
    BY <2>1, <2>2, <2>3
<1>24. CASE EditTarget
  <2>1. PendingKnown'
    BY PendingUnchanged, <1>24 DEF EditTarget, PendingKnown, NothingPending, Reverting,
       Working, store, session, Goto
  <2>2. RootsKnown'
    BY <1>24 DEF EditTarget, RootsKnown, JournalKept, Working, store, session, Goto
  <2>3. IndexKnown'
    BY <1>24 DEF EditTarget, TypeOK, SessionTyped, IndexKnown, Actions, session, Goto
  <2> QED
    BY <2>1, <2>2, <2>3
<1>25. CASE UNCHANGED vars
  BY PendingUnchanged, <1>25 DEF vars, PendingKnown, NothingPending, Reverting, RootsKnown,
     JournalKept, IndexKnown,
       store, session
<1> QED
  BY <1>1, <1>2, <1>3, <1>4, <1>5, <1>6, <1>7, <1>8, <1>9, <1>10, <1>11, <1>12, <1>13, <1>14,
     <1>15, <1>16, <1>17, <1>18, <1>19, <1>20, <1>21, <1>22, <1>23, <1>24, <1>25 DEF Next,
     Engine

(* TypeOK and SessionInvariant are inductive together. *)
THEOREM SessionCorrect == Spec => [](TypeOK /\ SessionInvariant)
<1>1. Init => TypeOK /\ SessionInvariant
  BY TypeInit, SessionInit
<1>2. TypeOK /\ SessionInvariant /\ [Next]_vars => (TypeOK /\ SessionInvariant)'
  BY TypeStep, SessionStep
<1> QED
  BY <1>1, <1>2, PTL DEF Spec

(* The targets, the store, the session and the reports stay within their types, *)
(* for every number of sets, actions, entries, transactions and faults.         *)
THEOREM TypeCorrect == Spec => []TypeOK
BY SessionCorrect, PTL

(* At most one intent is without a terminal record: recoverPending before each  *)
(* run, the fail-stop of a set that could not be closed and the end of the run  *)
(* after a failed PersistIntent leave room for no second one.                   *)
THEOREM SinglePendingCorrect == Spec => []SinglePending
<1>1. SessionInvariant => SinglePending
  BY DEF SessionInvariant, PendingKnown
<1> QED
  BY <1>1, SessionCorrect, PTL

(* Neither the reaping of scanPending nor DiscardTransactionRoot removes the    *)
(* directory of a transaction whose intent may be on disk.                      *)
THEOREM JournalKeptCorrect == Spec => []JournalKept
<1>1. SessionInvariant => JournalKept
  BY DEF SessionInvariant, RootsKnown
<1> QED
  BY <1>1, SessionCorrect, PTL

(* The steps that are not writes, restores or edits leave every target alone. *)
LEMMA TargetsOnlyWritten ==
  ASSUME [Next]_vars, ~WriteEntry, ~RestoreEntry, ~EditTarget
  PROVE  UNCHANGED tgt
BY DEF Next, Engine, vars, AcquireLease, ScanPending, RecoverNext, PlanRun, PrepareSet,
   SkipRemaining, CloseRun, PersistIntent, BeginExecute, CommitAction, VerifyAction, Validate,
   MarkDurable, MarkFails, MarkAmbiguous, UndoAction, FinishUndo, SelectRevert, RevertNext,
   MarkReverted, Crash

(* Execute, recoverOne and RevertGenerationMember write targets only under an   *)
(* intent of the set they write, with nothing else pending.                     *)
THEOREM RecoveryBeforeMutationCorrect == Spec => RecoveryBeforeMutation
<1>1. ASSUME TypeOK, SessionInvariant, [Next]_vars,
             NEW s \in Sets, tgt'[s] # tgt[s], edits' = edits
      PROVE  \E t \in TxIds : cfgSet[t] = s /\ t \in intent /\ PendingTx \subseteq {t}
  <2>1. ~EditTarget
    BY <1>1 DEF EditTarget, TypeOK, OutcomeTyped
  <2>2. WriteEntry \/ RestoreEntry
    BY <1>1, <2>1, TargetsOnlyWritten
  <2>3. pc \in {"write", "restoreEntry"}
    BY <2>2 DEF WriteEntry, RestoreEntry
  <2>4. cfgSet[cur] = s
    BY <1>1, <2>2 DEF WriteEntry, RestoreEntry, SetSlot, TypeOK, StoreTyped
  <2>5. cur \in TxIds /\ cur \in intent /\ PendingTx \subseteq {cur}
    BY <1>1, <2>3 DEF SessionInvariant, PendingKnown, Working, TypeOK, StoreTyped
  <2> QED
    BY <2>4, <2>5
<1>2. TypeOK /\ SessionInvariant /\ [Next]_vars =>
        [\A s \in Sets : tgt'[s] # tgt[s] /\ edits' = edits =>
           \E t \in TxIds : cfgSet[t] = s /\ t \in intent /\ PendingTx \subseteq {t}]_vars
  BY <1>1
<1> QED
  BY <1>2, SessionCorrect, PTL DEF Spec, RecoveryBeforeMutation

(* Only the check before a loop enters it, and only its own step keeps it running. *)
LEMMA LoopsEnteredByCheck ==
  ASSUME [Next]_vars, ~CommitAction, ~WriteEntry, ~UndoAction, ~RestoreEntry, ~EditTarget
  PROVE  UNCHANGED vars \/ pc' \notin {"write", "restoreEntry"}
<1> USE DEF Goto, Release, BeginUndo, FailTransaction, Finish, AfterSet
<1>1. CASE AcquireLease
  BY <1>1 DEF AcquireLease
<1>2. CASE ScanPending
  BY <1>2 DEF ScanPending
<1>3. CASE RecoverNext
  BY <1>3 DEF RecoverNext
<1>4. CASE PlanRun
  BY <1>4 DEF PlanRun
<1>5. CASE PrepareSet
  BY <1>5 DEF PrepareSet
<1>6. CASE SkipRemaining
  BY <1>6 DEF SkipRemaining
<1>7. CASE CloseRun
  BY <1>7 DEF CloseRun
<1>8. CASE PersistIntent
  BY <1>8 DEF PersistIntent
<1>9. CASE BeginExecute
  BY <1>9 DEF BeginExecute
<1>10. CASE VerifyAction
  BY <1>10 DEF VerifyAction
<1>11. CASE Validate
  BY <1>11 DEF Validate
<1>12. CASE MarkDurable
  BY <1>12 DEF MarkDurable
<1>13. CASE MarkFails
  BY <1>13 DEF MarkFails, AfterMarkFailure
<1>14. CASE MarkAmbiguous
  BY <1>14 DEF MarkAmbiguous, AfterMarkFailure
<1>15. CASE FinishUndo
  BY <1>15 DEF FinishUndo
<1>16. CASE SelectRevert
  BY <1>16 DEF SelectRevert
<1>17. CASE RevertNext
  BY <1>17 DEF RevertNext
<1>18. CASE MarkReverted
  BY <1>18 DEF MarkReverted
<1>19. CASE Crash
  BY <1>19 DEF Crash
<1> QED
  BY <1>1, <1>2, <1>3, <1>4, <1>5, <1>6, <1>7, <1>8, <1>9, <1>10, <1>11, <1>12, <1>13, <1>14,
     <1>15, <1>16, <1>17, <1>18, <1>19 DEF Next, Engine

(* Writing one entry changes no other entry of the set and no other set.        *)
LEMMA SetSlotOthers ==
  ASSUME TypeOK, cfgSet[cur] \in Sets, act \in Actions,
         NEW e, NEW ref, SetSlot(e, ref), NEW f \in Entries, f # e
  PROVE  tgt'[cfgSet[cur]][<<act, f>>] = tgt[cfgSet[cur]][<<act, f>>]
<1>1. <<act, f>> \in Slots /\ <<act, f>> # <<act, e>>
  BY DEF Slots
<1>2. tgt'[cfgSet[cur]] = [tgt[cfgSet[cur]] EXCEPT ![<<act, e>>] = ref[<<act, e>>]]
  BY DEF SetSlot, TypeOK, StoreTyped
<1> QED
  BY <1>1, <1>2 DEF TypeOK, StoreTyped, Contents

(* The entries that a write or restore loop has not reached yet stay as the check *)
(* before the loop found them.                                                  *)
LEMMA EntriesStep ==
  ASSUME TypeOK, SessionInvariant, EntriesKnown, [Next]_vars
  PROVE  EntriesKnown'
<1> DEFINE At(e) == tgt[cfgSet[cur]][<<act, e>>]
<1>1. CASE CommitAction
  <2>1. pc' = "write" => AtPrior(cur, act) /\ left' = Entries
    BY <1>1 DEF CommitAction, FailTransaction, BeginUndo, Goto
  <2>2. pc' # "restoreEntry"
    BY <1>1 DEF CommitAction, FailTransaction, BeginUndo, Goto
  <2>3. pc' = "write" => UNCHANGED <<tgt, cfgSet, cur, act, prior>>
    BY <1>1 DEF CommitAction, FailTransaction, BeginUndo, Goto, store
  <2>4. Entries # {}
    BY SizesAreNaturals DEF Entries
  <2> QED
    BY <2>1, <2>2, <2>3, <2>4 DEF EntriesKnown, AtPrior, AtState
<1>2. CASE WriteEntry
  <2>1. pc' = "write" => LET e == Oldest(left) IN SetSlot(e, desired[cur]) /\ left' = left \ {e}
    BY <1>2 DEF WriteEntry, FailTransaction, BeginUndo, Goto
  <2>2. pc' = "write" => left' # {}
    BY <1>2 DEF WriteEntry, FailTransaction, BeginUndo, Goto
  <2>3. pc' # "restoreEntry"
    BY <1>2 DEF WriteEntry, FailTransaction, BeginUndo, Goto
  <2>4. pc' = "write" => pc = "write" /\ UNCHANGED <<cfgSet, cur, act, prior, raced>>
    BY <1>2 DEF WriteEntry, FailTransaction, BeginUndo, Goto, store, NoFault, IOError, faults
  <2>5. pc' = "write" => \A e \in left' : tgt'[cfgSet[cur]][<<act, e>>] = At(e)
    <3>1. act \in Actions /\ cfgSet[cur] \in Sets /\ left \subseteq Entries
      BY <1>2 DEF WriteEntry, SessionInvariant, IndexKnown, RootsKnown, Working, TypeOK,
         SessionTyped
    <3> QED
      BY <2>1, <3>1, SetSlotOthers
  <2> QED
    BY <2>1, <2>2, <2>3, <2>4, <2>5 DEF EntriesKnown
<1>3. CASE UndoAction
  <2>1. pc' # "write" /\ UNCHANGED <<tgt, cfgSet, cur, prior, desired>>
    BY <1>3 DEF UndoAction, Goto, store
  <2>2. pc' = "restoreEntry" => Classifiable(cur, act) /\ left' = Entries /\ act' = act
    BY <1>3 DEF UndoAction, Goto
  <2>3. Classifiable(cur, act) =>
          \A e \in Entries : At(e) \in {prior[cur][<<act, e>>], desired[cur][<<act, e>>]}
    BY DEF Classifiable, ProvablePartial, AtPrior, AtDesired, AtState
  <2>4. Entries # {}
    BY SizesAreNaturals DEF Entries
  <2> QED
    BY <2>1, <2>2, <2>3, <2>4 DEF EntriesKnown
<1>4. CASE RestoreEntry
  <2>1. /\ pc = "restoreEntry" /\ pc' # "write"
        /\ UNCHANGED <<cfgSet, cur, prior, desired, raced>>
    BY <1>4 DEF RestoreEntry, Goto, store, NoFault, IOError, faults
  <2>2. pc' = "restoreEntry" =>
          LET e == RestoreOrder(left) IN SetSlot(e, prior[cur]) /\ left' = left \ {e}
    BY <1>4 DEF RestoreEntry, Goto
  <2>3. pc' = "restoreEntry" => left' # {} /\ act' = act
    BY <1>4 DEF RestoreEntry, Goto
  <2>4. pc' = "restoreEntry" => \A e \in left' : tgt'[cfgSet[cur]][<<act, e>>] = At(e)
    <3>1. act \in Actions /\ cfgSet[cur] \in Sets /\ left \subseteq Entries
      BY <1>4 DEF RestoreEntry, SessionInvariant, IndexKnown, RootsKnown, Working, TypeOK,
         SessionTyped
    <3> QED
      BY <2>2, <3>1, SetSlotOthers
  <2> QED
    BY <2>1, <2>2, <2>3, <2>4 DEF EntriesKnown
<1>5. CASE EditTarget
  <2>1. PICK s \in Sets, a \in Actions, e \in Entries :
          /\ tgt' = [tgt EXCEPT ![s][<<a, e>>] = UserEdit]
          /\ raced' = IF pc \in {"write", "restoreEntry"} /\ s = cfgSet[cur] /\ a = act
                      THEN raced \cup {e} ELSE raced
    BY <1>5 DEF EditTarget
  <2>2. UNCHANGED <<pc, left, cfgSet, cur, act, prior, desired>>
    BY <1>5 DEF EditTarget, store, session
  <2>3. ASSUME pc \in {"write", "restoreEntry"}, NEW f \in left \ raced'
        PROVE  f \notin raced /\ tgt'[cfgSet[cur]][<<act, f>>] = At(f)
    <3>1. act \in Actions /\ cfgSet[cur] \in Sets /\ f \in Entries
      BY <2>3 DEF SessionInvariant, IndexKnown, RootsKnown, Working, TypeOK, SessionTyped
    <3>2. f \notin raced /\ ~(s = cfgSet[cur] /\ a = act /\ e = f)
      BY <2>1, <2>3
    <3>3. tgt'[cfgSet[cur]][<<act, f>>] = At(f)
      BY <2>1, <3>1, <3>2 DEF TypeOK, StoreTyped, Contents, Slots
    <3> QED
      BY <3>2, <3>3
  <2> QED
    BY <2>2, <2>3 DEF EntriesKnown
<1>6. CASE ~(CommitAction \/ WriteEntry \/ UndoAction \/ RestoreEntry \/ EditTarget)
  <2>1. UNCHANGED vars \/ pc' \notin {"write", "restoreEntry"}
    BY <1>6, LoopsEnteredByCheck
  <2>2. CASE UNCHANGED vars
    BY <2>2 DEF vars, store, session, faults, EntriesKnown
  <2>3. CASE pc' \notin {"write", "restoreEntry"}
    BY <2>3 DEF EntriesKnown
  <2> QED
    BY <2>1, <2>2, <2>3
<1> QED
  BY <1>1, <1>2, <1>3, <1>4, <1>5, <1>6

(* The next entry of a copy is one that is still to be written.                 *)
LEMMA OldestEntry ==
  ASSUME NEW S \in SUBSET Entries, S # {}
  PROVE  Oldest(S) \in S
BY OldestIn DEF Entries

(* The next entry of a restore is one that is still to be put back.             *)
LEMMA RestoreOrderIn ==
  ASSUME NEW S \in SUBSET Entries, S # {}
  PROVE  RestoreOrder(S) \in S
BY OldestEntry DEF RestoreOrder

(* Every write of commit, rollback, recovery and revert replaces the recorded   *)
(* prior value of an entry by its desired value or the other way round, because *)
(* verifyTransactionActionState or classifyFilesystemRollbackState has looked at *)
(* the entry before, unless it was edited since.                                *)
THEOREM NoForeignOverwriteCorrect == Spec => NoForeignOverwrite
<1>1. Spec => []EntriesKnown
  <2>1. Init => EntriesKnown
    BY DEF Init, EntriesKnown
  <2>2. TypeOK /\ SessionInvariant /\ EntriesKnown /\ [Next]_vars => EntriesKnown'
    BY EntriesStep
  <2> QED
    BY <2>1, <2>2, SessionCorrect, PTL DEF Spec
<1>2. ASSUME TypeOK, SessionInvariant, EntriesKnown, [Next]_vars,
             NEW s \in Sets, NEW a \in Actions, NEW e \in Entries,
             tgt'[s][<<a, e>>] # tgt[s][<<a, e>>], edits' = edits
      PROVE  \E t \in TxIds :
               LET recorded == {prior[t][<<a, e>>], desired[t][<<a, e>>]} IN
               /\ cfgSet[t] = s
               /\ tgt'[s][<<a, e>>] \in recorded
               /\ tgt[s][<<a, e>>] \in recorded \/ (t = cur /\ a = act /\ e \in raced)
  <2>1. ~EditTarget
    BY <1>2 DEF EditTarget, TypeOK, OutcomeTyped
  <2>2. WriteEntry \/ RestoreEntry
    BY <1>2, <2>1, TargetsOnlyWritten
  <2>3. cur \in TxIds
    BY <1>2, <2>2 DEF WriteEntry, RestoreEntry, SessionInvariant, RootsKnown, Working, TypeOK,
       StoreTyped
  <2>4. CASE WriteEntry
    <3>1. Oldest(left) \in left
      BY <1>2, <2>4, OldestEntry DEF WriteEntry, EntriesKnown, TypeOK, SessionTyped
    <3>2. SetSlot(Oldest(left), desired[cur])
      BY <1>2, <2>4 DEF WriteEntry
    <3>3. /\ cfgSet[cur] = s /\ a = act /\ e = Oldest(left)
          /\ tgt'[s][<<a, e>>] = desired[cur][<<a, e>>]
      BY <1>2, <3>2 DEF SetSlot, TypeOK, StoreTyped, Contents, Slots
    <3>4. tgt[s][<<a, e>>] = prior[cur][<<a, e>>] \/ e \in raced
      BY <1>2, <2>4, <3>1, <3>3 DEF WriteEntry, EntriesKnown
    <3> QED
      BY <2>3, <3>3, <3>4
  <2>5. CASE RestoreEntry
    <3>1. RestoreOrder(left) \in left
      BY <1>2, <2>5, RestoreOrderIn DEF RestoreEntry, EntriesKnown, TypeOK, SessionTyped
    <3>2. SetSlot(RestoreOrder(left), prior[cur])
      BY <1>2, <2>5 DEF RestoreEntry
    <3>3. /\ cfgSet[cur] = s /\ a = act /\ e = RestoreOrder(left)
          /\ tgt'[s][<<a, e>>] = prior[cur][<<a, e>>]
      BY <1>2, <3>2 DEF SetSlot, TypeOK, StoreTyped, Contents, Slots
    <3>4. tgt[s][<<a, e>>] \in {prior[cur][<<a, e>>], desired[cur][<<a, e>>]} \/ e \in raced
      BY <1>2, <2>5, <3>1, <3>3 DEF RestoreEntry, EntriesKnown
    <3> QED
      BY <1>2, <2>3, <3>3, <3>4
  <2> QED
    BY <2>2, <2>4, <2>5
<1>3. TypeOK /\ SessionInvariant /\ EntriesKnown /\ [Next]_vars =>
        [\A s \in Sets, a \in Actions, e \in Entries :
           tgt'[s][<<a, e>>] # tgt[s][<<a, e>>] /\ edits' = edits =>
             \E t \in TxIds :
               LET recorded == {prior[t][<<a, e>>], desired[t][<<a, e>>]} IN
               /\ cfgSet[t] = s
               /\ tgt'[s][<<a, e>>] \in recorded
               /\ tgt[s][<<a, e>>] \in recorded
                    \/ (t = cur /\ a = act /\ e \in raced)]_vars
  BY <1>2
<1> QED
  BY <1>1, <1>3, SessionCorrect, PTL DEF Spec, NoForeignOverwrite

-----------------------------------------------------------------------------
(* Which transactions are in force depends on the journal only.                 *)
LEMMA ActiveUnchanged ==
  ASSUME UNCHANGED <<intent, marker, reverted>>
  PROVE  ActiveTx' = ActiveTx
BY DEF ActiveTx, Active


(* A terminal record is only ever added to an open transaction. *)
LEMMA MarkersStep ==
  ASSUME TypeOK, SessionInvariant, JournalInvariant, [Next]_vars
  PROVE  MarkersKnown'
<1> USE DEF SessionInvariant, JournalInvariant
<1>1. CASE AcquireLease
  BY <1>1, ActiveUnchanged DEF AcquireLease, Goto, store, MarkersKnown, Reverting, Working
<1>2. CASE ScanPending
  BY <1>2, ActiveUnchanged DEF ScanPending, Release, session, Goto, MarkersKnown, Reverting,
     Working
<1>3. CASE RecoverNext
  <2>1. PendingTx # {} => marker[Newest(PendingTx)] = "none"
    BY NewestTx DEF PendingTx, Pending
  <2> QED
    BY <1>3, <2>1 DEF RecoverNext, BeginUndo, Goto, store, MarkersKnown, Reverting, Working
<1>4. CASE PlanRun
  BY <1>4, ActiveUnchanged DEF PlanRun, Goto, MarkersKnown, Reverting, Working
<1>5. CASE PrepareSet
  BY <1>5, ActiveUnchanged DEF PrepareSet, Finish, AfterSet, Goto, MarkersKnown, Reverting,
     Working
<1>6. CASE SkipRemaining
  BY <1>6, ActiveUnchanged DEF SkipRemaining, store, MarkersKnown, Reverting, Working
<1>7. CASE CloseRun
  BY <1>7, ActiveUnchanged DEF CloseRun, Release, MarkersKnown, Reverting, Working
<1>8. CASE PersistIntent
  <2>1. cur \in TxIds \ intent
    <3>1. cur \in TxIds /\ \A u \in intent : u < cur
      BY <1>8 DEF PersistIntent, OrderKnown, RootsKnown, TypeOK, StoreTyped
    <3> QED
      BY <3>1, SizesAreNaturals DEF TxIds
  <2> QED
    BY <1>8, <2>1 DEF PersistIntent, Goto, MarkersKnown, Reverting, Working
<1>9. CASE BeginExecute
  BY <1>9, ActiveUnchanged DEF BeginExecute, FailTransaction, BeginUndo, Finish, AfterSet,
     Goto, store, MarkersKnown, Reverting, Working
<1>10. CASE CommitAction
  BY <1>10, ActiveUnchanged DEF CommitAction, FailTransaction, BeginUndo, Goto, store,
     MarkersKnown, Reverting, Working
<1>11. CASE WriteEntry
  BY <1>11, ActiveUnchanged DEF WriteEntry, FailTransaction, BeginUndo, Goto, store,
     MarkersKnown, Reverting, Working
<1>12. CASE VerifyAction
  BY <1>12, ActiveUnchanged DEF VerifyAction, FailTransaction, BeginUndo, Goto, store,
     MarkersKnown, Reverting, Working
<1>13. CASE Validate
  BY <1>13, ActiveUnchanged DEF Validate, FailTransaction, BeginUndo, Goto, store,
     MarkersKnown, Reverting, Working
<1>14. CASE MarkDurable
  <2>1. /\ cur \in intent /\ marker[cur] = "none" /\ reverted \subseteq TxIds
        /\ \A t \in TxIds \ {cur} : marker'[t] = marker[t]
    BY <1>14 DEF MarkDurable, PendingKnown, MarkersKnown, Working, Reverting, TypeOK, StoreTyped
  <2>2. pc' \in {"nextSet", "recover"} /\ UNCHANGED <<intent, reverted>>
    BY <1>14 DEF MarkDurable, Finish, AfterSet, Goto
  <2> QED
    BY <2>1, <2>2 DEF MarkersKnown, Reverting, Working
<1>15. CASE MarkFails
  BY <1>15, ActiveUnchanged DEF MarkFails, AfterMarkFailure, FailTransaction, BeginUndo,
     Finish, AfterSet, Release, Goto, store, MarkersKnown, Reverting, Working
<1>16. CASE MarkAmbiguous
  <2>1. /\ cur \in intent /\ marker[cur] = "none" /\ reverted \subseteq TxIds
        /\ \A t \in TxIds \ {cur} : marker'[t] = marker[t]
    BY <1>16 DEF MarkAmbiguous, PendingKnown, MarkersKnown, Working, Reverting, TypeOK, StoreTyped
  <2>2. pc' \in {"stopped", "idle"} /\ UNCHANGED <<intent, reverted>>
    BY <1>16 DEF MarkAmbiguous, AfterMarkFailure, Finish, AfterSet, Release, Goto, TouchedKnown
  <2> QED
    BY <2>1, <2>2 DEF MarkersKnown, Reverting, Working
<1>17. CASE UndoAction
  BY <1>17, ActiveUnchanged DEF UndoAction, Goto, store, MarkersKnown, Reverting, Working
<1>18. CASE RestoreEntry
  BY <1>18, ActiveUnchanged DEF RestoreEntry, Goto, store, MarkersKnown, Reverting, Working
<1>19. CASE FinishUndo
  BY <1>19, ActiveUnchanged DEF FinishUndo, Finish, AfterSet, Release, Goto, store,
     MarkersKnown, Reverting, Working
<1>20. CASE SelectRevert
  BY <1>20, ActiveUnchanged DEF SelectRevert, Release, Goto, store, MarkersKnown, Reverting,
     Working
<1>21. CASE RevertNext
  <2>1. todo # {} => RevertFirst(todo) \in todo
    BY NewestTx DEF RevertFirst, TypeOK, SessionTyped
  <2>2. Reverting /\ todo \subseteq ActiveTx /\ UNCHANGED <<intent, marker, reverted>>
    BY <1>21 DEF RevertNext, Reverting, MarkersKnown, store
  <2> QED
    BY <1>21, <2>1, <2>2, ActiveUnchanged
       DEF RevertNext, BeginUndo, Release, Goto, MarkersKnown, Reverting, Working
<1>22. CASE MarkReverted
  <2>1. pc' = "revertNext" => ActiveTx' = ActiveTx \ {cur} /\ todo' = todo \ {cur}
    BY <1>22 DEF MarkReverted, Release, Goto, ActiveTx, Active
  <2>2. todo \subseteq ActiveTx
    BY <1>22 DEF MarkReverted, Reverting, MarkersKnown
  <2>3. /\ pc' \in {"revertNext", "idle"} /\ UNCHANGED <<intent, marker>>
        /\ reverted' \subseteq reverted \cup {cur}
    BY <1>22 DEF MarkReverted, Release, Goto
  <2>4. marker[cur] = "committed"
    BY <1>22, <2>2 DEF MarkReverted, Reverting, MarkersKnown, ActiveTx, Active
  <2> QED
    BY <2>1, <2>2, <2>3, <2>4 DEF MarkersKnown, Reverting, Working
<1>23. CASE Crash
  BY <1>23, ActiveUnchanged DEF Crash, Release, store, MarkersKnown, Reverting, Working
<1>24. CASE EditTarget
  BY <1>24, ActiveUnchanged DEF EditTarget, session, store, MarkersKnown, Reverting, Working
<1>25. CASE UNCHANGED vars
  BY <1>25, ActiveUnchanged DEF vars, store, session, faults, MarkersKnown, Reverting, Working
<1> QED
  BY <1>1, <1>2, <1>3, <1>4, <1>5, <1>6, <1>7, <1>8, <1>9, <1>10, <1>11, <1>12, <1>13, <1>14,
     <1>15, <1>16, <1>17, <1>18, <1>19, <1>20, <1>21, <1>22, <1>23, <1>24, <1>25 DEF Next,
     Engine

(* Which actions a commit has begun to mutate. *)
LEMMA TouchedStep ==
  ASSUME TypeOK, SessionInvariant, JournalInvariant, [Next]_vars
  PROVE  TouchedKnown'
<1> USE SizesAreNaturals DEF JournalInvariant
<1>1. CASE AcquireLease
  BY <1>1 DEF AcquireLease, Goto, store, TouchedKnown, Committing, Working
<1>2. CASE ScanPending
  BY <1>2 DEF ScanPending, Release, session, Goto, TouchedKnown, Committing, Working
<1>3. CASE RecoverNext
  BY <1>3 DEF RecoverNext, BeginUndo, Goto, store, TouchedKnown, Committing, Working
<1>4. CASE PlanRun
  BY <1>4 DEF PlanRun, Goto, TouchedKnown, Committing, Working
<1>5. CASE PrepareSet
  BY <1>5 DEF PrepareSet, Finish, AfterSet, Goto, TouchedKnown, Committing, Working
<1>6. CASE SkipRemaining
  BY <1>6 DEF SkipRemaining, store, TouchedKnown, Committing, Working
<1>7. CASE CloseRun
  BY <1>7 DEF CloseRun, Release, TouchedKnown, Committing, Working
<1>8. CASE PersistIntent
  BY <1>8 DEF PersistIntent, Goto, TouchedKnown, Committing, Working
<1>9. CASE BeginExecute
  BY <1>9 DEF BeginExecute, FailTransaction, BeginUndo, Finish, AfterSet, Goto, store,
     TouchedKnown, Committing, Working
<1>10. CASE CommitAction
  BY <1>10 DEF CommitAction, FailTransaction, BeginUndo, Goto, store, TouchedKnown,
     Committing, Working
<1>11. CASE WriteEntry
  <2>1. act \in Actions /\ left \subseteq Entries /\ touched \subseteq Actions
    BY <1>11 DEF WriteEntry, SessionInvariant, IndexKnown, TypeOK, SessionTyped
  <2>2. CASE pc' = "write"
    <3>1. /\ touched' = touched \cup {act} /\ left' = left \ {Oldest(left)}
          /\ UNCHANGED <<act, mode, want>> /\ pc = "write"
      BY <1>11, <2>2 DEF WriteEntry, FailTransaction, BeginUndo, Goto
    <3>2. \A e \in left : Oldest(left) <= e
      <4>1. left # {} => \A e \in left : Oldest(left) <= e
        BY <2>1, OldestIn DEF Entries
      <4> QED
        BY <4>1
    <3>3. \A e \in left', f \in Entries : f > e => f \in left'
      <4> SUFFICES ASSUME NEW e \in left', NEW f \in Entries, f > e
                   PROVE  f \in left'
        OBVIOUS
      <4>1. f \in left /\ e \in left /\ e \in Entries
        BY <2>1, <3>1 DEF TouchedKnown
      <4>2. Oldest(left) \in Entries
        BY <4>1, <2>1, OldestEntry
      <4>3. Oldest(left) <= e
        BY <3>2, <4>1
      <4>4. f # Oldest(left)
        BY <4>1, <4>2, <4>3 DEF Entries
      <4> QED
        BY <3>1, <4>1, <4>4
    <3>4. touched' \subseteq 1..act /\ act \in touched'
      BY <2>1, <3>1 DEF TouchedKnown, Committing, Actions
    <3> QED
      BY <2>2, <3>1, <3>3, <3>4 DEF TouchedKnown, Committing, Working
  <2>3. CASE pc' = "verify"
    <3>1. touched' = touched \cup {act} /\ UNCHANGED <<act, mode, want>> /\ pc = "write"
      BY <1>11, <2>3 DEF WriteEntry, FailTransaction, BeginUndo, Goto
    <3>2. touched' \subseteq 1..act /\ act \in touched'
      BY <2>1, <3>1 DEF TouchedKnown, Committing, Actions
    <3> QED
      BY <2>3, <3>1, <3>2 DEF TouchedKnown, Committing, Working
  <2>4. CASE pc' \notin {"write", "verify"}
    BY <1>11, <2>4 DEF WriteEntry, FailTransaction, BeginUndo, Goto, TouchedKnown, Committing,
       Working
  <2> QED
    BY <2>2, <2>3, <2>4
<1>12. CASE VerifyAction
  BY <1>12 DEF VerifyAction, FailTransaction, BeginUndo, Goto, store, TouchedKnown,
     Committing, Working
<1>13. CASE Validate
  BY <1>13 DEF Validate, FailTransaction, BeginUndo, Goto, store, TouchedKnown, Committing,
     Working
<1>14. CASE MarkDurable
  BY <1>14 DEF MarkDurable, Finish, AfterSet, Goto, TouchedKnown, Committing, Working
<1>15. CASE MarkFails
  BY <1>15 DEF MarkFails, AfterMarkFailure, FailTransaction, BeginUndo, Finish, AfterSet,
     Release, Goto, store, TouchedKnown, Committing, Working
<1>16. CASE MarkAmbiguous
  BY <1>16 DEF MarkAmbiguous, AfterMarkFailure, FailTransaction, BeginUndo, Finish, AfterSet,
     Release, Goto, TouchedKnown, Committing, Working
<1>17. CASE UndoAction
  BY <1>17 DEF UndoAction, Goto, store, TouchedKnown, Committing, Working
<1>18. CASE RestoreEntry
  BY <1>18 DEF RestoreEntry, Goto, store, TouchedKnown, Committing, Working
<1>19. CASE FinishUndo
  BY <1>19 DEF FinishUndo, Finish, AfterSet, Release, Goto, store, TouchedKnown, Committing,
     Working
<1>20. CASE SelectRevert
  BY <1>20 DEF SelectRevert, Release, Goto, store, TouchedKnown, Committing, Working
<1>21. CASE RevertNext
  BY <1>21 DEF RevertNext, BeginUndo, Release, Goto, store, TouchedKnown, Committing, Working
<1>22. CASE MarkReverted
  BY <1>22 DEF MarkReverted, Release, Goto, TouchedKnown, Committing, Working
<1>23. CASE Crash
  BY <1>23 DEF Crash, Release, store, TouchedKnown, Committing, Working
<1>24. CASE EditTarget
  BY <1>24 DEF EditTarget, session, store, TouchedKnown, Committing, Working
<1>25. CASE UNCHANGED vars
  BY <1>25 DEF vars, store, session, faults, TouchedKnown, Committing, Working
<1> QED
  BY <1>1, <1>2, <1>3, <1>4, <1>5, <1>6, <1>7, <1>8, <1>9, <1>10, <1>11, <1>12, <1>13, <1>14,
     <1>15, <1>16, <1>17, <1>18, <1>19, <1>20, <1>21, <1>22, <1>23, <1>24, <1>25 DEF Next,
     Engine


(* An edit leaves every entry as it was or holding the content of the editor.   *)
LEMMA EditKeeps ==
  ASSUME TypeOK, EditTarget, NEW t, cfgSet[t] \in Sets, NEW a \in Actions, NEW e \in Entries,
         NEW ref, SlotHolds(t, a, e, ref)
  PROVE  SlotHolds(t, a, e, ref)'
<1>1. PICK s \in Sets, b \in Actions, f \in Entries :
        tgt' = [tgt EXCEPT ![s][<<b, f>>] = UserEdit]
  BY DEF EditTarget
<1>2. Foreign' = {UserEdit} /\ cfgSet' = cfgSet
  BY DEF EditTarget, Foreign, TypeOK, OutcomeTyped, store
<1>3. tgt'[cfgSet[t]][<<a, e>>] \in {tgt[cfgSet[t]][<<a, e>>], UserEdit}
  BY <1>1 DEF TypeOK, StoreTyped, Contents, Slots
<1> QED
  BY <1>2, <1>3 DEF SlotHolds, Foreign


(* What the targets hold at each step of a commit, and before a terminal record. *)
LEMMA TargetsStep ==
  ASSUME TypeOK, SessionInvariant, EntriesKnown, JournalInvariant, [Next]_vars
  PROVE  TargetsKnown'
<1> USE DEF SessionInvariant, JournalInvariant
<1>1. CASE AcquireLease
  BY <1>1 DEF AcquireLease, Goto, store, NoFault, IOError, faults, TargetsKnown, SlotHolds,
     Foreign, Committing, Written
<1>2. CASE ScanPending
  BY <1>2 DEF ScanPending, Release, session, Goto, NoFault, IOError, faults, TargetsKnown,
     SlotHolds, Foreign, Committing, Written
<1>3. CASE RecoverNext
  BY <1>3 DEF RecoverNext, BeginUndo, Goto, store, NoFault, IOError, faults, TargetsKnown,
     SlotHolds, Foreign, Committing, Written
<1>4. CASE PlanRun
  BY <1>4 DEF PlanRun, Goto, NoFault, IOError, faults, TargetsKnown, SlotHolds, Foreign,
     Committing, Written
<1>5. CASE PrepareSet
  <2>1. CASE pc' = "intent"
    <3> DEFINE t == Oldest(todo)
    <3>1. t \in TxIds /\ tgt[cfgSet[t]] \in Contents
      BY <1>5, OldestTx DEF PrepareSet, TypeOK, StoreTyped, SessionTyped, RootsKnown
    <3>2. prior' = [prior EXCEPT ![t] = tgt[cfgSet[t]]] /\ cur' = t
      BY <1>5, <2>1 DEF PrepareSet, Finish, AfterSet, Goto
    <3>3. UNCHANGED <<tgt, cfgSet, edits, raced>>
      BY <1>5, <2>1 DEF PrepareSet, Finish, AfterSet, Goto, NoFault, faults
    <3>4. tgt'[cfgSet'[cur']] = prior'[cur']
      BY <3>1, <3>2, <3>3 DEF TypeOK, StoreTyped
    <3> QED
      BY <2>1, <3>3, <3>4 DEF TargetsKnown, SlotHolds, Committing
  <2>2. CASE pc' # "intent"
    BY <1>5, <2>2 DEF PrepareSet, Finish, AfterSet, Goto, NoFault, IOError, faults, TargetsKnown,
       Committing
  <2> QED
    BY <2>1, <2>2
<1>6. CASE SkipRemaining
  BY <1>6 DEF SkipRemaining, store, NoFault, IOError, faults, TargetsKnown, SlotHolds,
     Foreign, Committing, Written
<1>7. CASE CloseRun
  BY <1>7 DEF CloseRun, Release, NoFault, IOError, faults, TargetsKnown, SlotHolds, Foreign,
     Committing, Written
<1>8. CASE PersistIntent
  BY <1>8 DEF PersistIntent, Goto, NoFault, IOError, faults, TargetsKnown, SlotHolds, Foreign,
     Committing, Written
<1>9. CASE BeginExecute
  <2>1. touched = {} /\ touched' = {} /\ UNCHANGED <<tgt, cfgSet, prior, desired, edits, raced>>
    BY <1>9 DEF BeginExecute, FailTransaction, Finish, TouchedKnown, store, NoFault, IOError, faults
  <2>2. \/ pc' = "commit" /\ act' = 1 /\ cur' = cur
        \/ pc' = "mark" /\ want' = "aborted" /\ cur' = cur
        \/ pc' = "stopped"
    BY <1>9 DEF BeginExecute, FailTransaction, BeginUndo, Finish, AfterSet, Goto
  <2>3. \A a \in Actions : ~(a < 1)
    BY DEF Actions
  <2> QED
    BY <1>9, <2>1, <2>2, <2>3 DEF BeginExecute, TargetsKnown, SlotHolds, Foreign, Committing,
       Written
<1>10. CASE CommitAction
  <2>1. UNCHANGED <<tgt, cfgSet, prior, desired, edits, cur, touched>>
    BY <1>10 DEF CommitAction, FailTransaction, BeginUndo, store, NoFault, IOError, Checked, faults
  <2>2. edits = 0 => raced' = {}
    BY <1>10 DEF CommitAction, NoFault, IOError, Checked, faults, TargetsKnown
  <2>3. \/ pc' = "write" /\ left' = Entries /\ act' = act
        \/ pc' = "mark" /\ want' = "aborted"
        \/ pc' = "undo"
    BY <1>10 DEF CommitAction, FailTransaction, BeginUndo, Goto
  <2> QED
    BY <1>10, <2>1, <2>2, <2>3 DEF CommitAction, TargetsKnown, SlotHolds, Foreign, Committing,
       Written
<1>11. CASE WriteEntry
  <2> DEFINE e == Oldest(left)
  <2>1. /\ act \in Actions /\ cfgSet[cur] \in Sets /\ left \subseteq Entries /\ e \in left
        /\ touched \subseteq 1..act /\ touched \subseteq Actions
    BY <1>11, OldestEntry DEF WriteEntry, IndexKnown, RootsKnown, Working, TypeOK, SessionTyped,
       EntriesKnown, TouchedKnown, Committing
  <2>2. /\ pc = "write"
        /\ UNCHANGED <<cfgSet, prior, desired, edits, raced, cur>>
    BY <1>11 DEF WriteEntry, FailTransaction, BeginUndo, store, NoFault, IOError, faults
  <2>3. CASE pc' \in {"write", "verify"}
    <3>1. /\ SetSlot(e, desired[cur]) /\ left' = left \ {e} /\ act' = act
          /\ touched' = touched \cup {act}
          /\ pc' = "verify" => left' = {}
      BY <1>11, <2>3 DEF WriteEntry, FailTransaction, BeginUndo, Goto
    <3>2. ASSUME NEW a \in Actions, NEW f \in Entries, ~(a = act /\ f = e)
          PROVE  tgt'[cfgSet[cur]][<<a, f>>] = tgt[cfgSet[cur]][<<a, f>>]
      BY <2>1, <3>1, <3>2 DEF SetSlot, TypeOK, StoreTyped, Contents, Slots
    <3>3. tgt'[cfgSet[cur]][<<act, e>>] = desired[cur][<<act, e>>]
      BY <2>1, <3>1 DEF SetSlot, TypeOK, StoreTyped, Contents, Slots
    <3>4. ASSUME NEW a \in Actions \ touched', NEW f \in Entries
          PROVE  SlotHolds(cur, a, f, prior[cur])'
      BY <2>2, <3>1, <3>2, <3>4 DEF TargetsKnown, Committing, SlotHolds, Foreign
    <3>5. ASSUME NEW a \in Actions, NEW f \in Entries, Written(a, f)'
          PROVE  SlotHolds(cur, a, f, desired[cur])'
      <4>1. CASE a = act /\ f = e
        BY <2>2, <3>3, <4>1 DEF SlotHolds
      <4>2. CASE ~(a = act /\ f = e)
        <5>1. Written(a, f)
          BY <2>2, <2>3, <3>1, <3>5, <4>2 DEF Written
        <5>2. SlotHolds(cur, a, f, desired[cur])
          BY <2>2, <5>1 DEF TargetsKnown, Committing
        <5> QED
          BY <2>2, <3>2, <4>2, <5>2 DEF SlotHolds, Foreign
      <4> QED
        BY <4>1, <4>2
    <3> QED
      BY <2>2, <2>3, <3>4, <3>5 DEF TargetsKnown, Committing
  <2>4. CASE pc' = "mark"
    <3>1. want' = "aborted" /\ touched' = {} /\ UNCHANGED tgt /\ touched = {}
      BY <1>11, <2>4 DEF WriteEntry, FailTransaction, BeginUndo, Goto
    <3> QED
      BY <2>2, <2>4, <3>1 DEF TargetsKnown, Committing, SlotHolds, Foreign
  <2>5. CASE pc' = "undo"
    BY <2>2, <2>5 DEF TargetsKnown, Committing
  <2> QED
    BY <1>11, <2>3, <2>4, <2>5 DEF WriteEntry, FailTransaction, BeginUndo, Goto
<1>12. CASE VerifyAction
  <2>1. UNCHANGED <<tgt, cfgSet, prior, desired, edits, raced, cur, touched>> /\ touched # {}
    BY <1>12 DEF VerifyAction, FailTransaction, BeginUndo, store, NoFault, IOError, faults,
       TouchedKnown
  <2>2. \/ pc' = "commit" /\ act' = act + 1
        \/ pc' = "undo"
    BY <1>12, <2>1 DEF VerifyAction, FailTransaction, BeginUndo, Goto
  <2>3. \A a \in Actions : a < act + 1 => a < act \/ a = act
    BY DEF Actions, TypeOK, SessionTyped
  <2> QED
    BY <1>12, <2>1, <2>2, <2>3 DEF VerifyAction, TargetsKnown, SlotHolds, Foreign, Committing,
       Written
<1>13. CASE Validate
  BY <1>13 DEF Validate, FailTransaction, BeginUndo, Goto, store, NoFault, IOError, faults,
     TargetsKnown, SlotHolds, Foreign, Committing, Written
<1>14. CASE MarkDurable
  BY <1>14 DEF MarkDurable, Finish, AfterSet, Goto, NoFault, IOError, faults, TargetsKnown,
     SlotHolds, Foreign, Committing, Written
<1>15. CASE MarkFails
  <2>1. /\ UNCHANGED <<tgt, cfgSet, prior, desired, edits, raced>>
        /\ want = "committed" => touched # {}
    BY <1>15 DEF MarkFails, store, IOError, TouchedKnown
  <2>2. pc' \in {"stopped", "undo", "idle"}
    BY <1>15, <2>1 DEF MarkFails, AfterMarkFailure, FailTransaction, BeginUndo, Finish, AfterSet,
       Release, Goto
  <2> QED
    BY <2>1, <2>2 DEF TargetsKnown, Committing
<1>16. CASE MarkAmbiguous
  <2>1. /\ UNCHANGED <<tgt, cfgSet, prior, desired, edits, raced>>
        /\ want = "committed" => touched # {}
    BY <1>16 DEF MarkAmbiguous, IOError, TouchedKnown
  <2>2. pc' \in {"stopped", "idle"}
    BY <1>16, <2>1 DEF MarkAmbiguous, AfterMarkFailure, Finish, AfterSet, Release, Goto
  <2> QED
    BY <2>1, <2>2 DEF TargetsKnown, Committing
<1>17. CASE UndoAction
  <2>1. pc' \in {"undo", "restoreEntry"} /\ (edits' = 0 => edits = 0 /\ raced' \subseteq raced)
    BY <1>17 DEF UndoAction, Goto, NoFault, IOError, Checked, faults
  <2> QED
    BY <2>1 DEF TargetsKnown, Committing
<1>18. CASE RestoreEntry
  BY <1>18 DEF RestoreEntry, Goto, store, NoFault, IOError, faults, TargetsKnown, SlotHolds,
     Foreign, Committing, Written
<1>19. CASE FinishUndo
  <2>1. UNCHANGED <<tgt, cfgSet, prior, edits, raced>>
    BY <1>19 DEF FinishUndo, store, NoFault, IOError, faults
  <2>2. \/ UndoComplete /\ cur' = cur
        \/ pc' \in {"stopped", "idle"}
    BY <1>19 DEF FinishUndo, Finish, AfterSet, Release, Goto
  <2>3. pc' = "mark" => want' = "rolled_back"
    BY <1>19 DEF FinishUndo, Finish, AfterSet, Release, Goto
  <2>4. pc' \in {"mark", "markReverted", "stopped", "idle"}
    BY <1>19 DEF FinishUndo, Finish, AfterSet, Release, Goto
  <2> QED
    BY <2>1, <2>2, <2>3, <2>4 DEF UndoComplete, AllPrior, AtPrior, AtState, TargetsKnown,
       SlotHolds, Committing
<1>20. CASE SelectRevert
  BY <1>20 DEF SelectRevert, Release, Goto, store, NoFault, IOError, faults, TargetsKnown,
     SlotHolds, Foreign, Committing, Written
<1>21. CASE RevertNext
  BY <1>21 DEF RevertNext, BeginUndo, Release, Goto, store, NoFault, IOError, faults,
     TargetsKnown, SlotHolds, Foreign, Committing, Written
<1>22. CASE MarkReverted
  BY <1>22 DEF MarkReverted, Release, Goto, NoFault, IOError, faults, TargetsKnown, SlotHolds,
     Foreign, Committing, Written
<1>23. CASE Crash
  BY <1>23 DEF Crash, Release, store, TargetsKnown, SlotHolds, Foreign, Committing, Written
<1>24. CASE EditTarget
  <2>1. /\ UNCHANGED <<pc, cur, act, left, want, touched, cfgSet, prior, desired>>
        /\ edits' # 0
    BY <1>24 DEF EditTarget, session, store, TypeOK, OutcomeTyped
  <2>2. pc \in Working \cup {"intent", "markReverted"} => cfgSet[cur] \in Sets
    BY DEF RootsKnown
  <2>3. ASSUME NEW a \in Actions, NEW e \in Entries, NEW ref, cfgSet[cur] \in Sets,
               SlotHolds(cur, a, e, ref)
        PROVE  tgt'[cfgSet[cur]][<<a, e>>] \in {ref[<<a, e>>]} \cup Foreign'
    BY <1>24, <2>1, <2>3, EditKeeps DEF SlotHolds
  <2> QED
    BY <2>1, <2>2, <2>3 DEF TargetsKnown, SlotHolds, Committing, Working, Written
<1>25. CASE UNCHANGED vars
  BY <1>25 DEF vars, store, session, faults, TargetsKnown, SlotHolds, Foreign, Committing,
     Written
<1> QED
  BY <1>1, <1>2, <1>3, <1>4, <1>5, <1>6, <1>7, <1>8, <1>9, <1>10, <1>11, <1>12, <1>13, <1>14,
     <1>15, <1>16, <1>17, <1>18, <1>19, <1>20, <1>21, <1>22, <1>23, <1>24, <1>25 DEF Next,
     Engine

(* Transactions and runs are numbered in the order in which they are begun. *)
LEMMA OrderStep ==
  ASSUME TypeOK, SessionInvariant, JournalInvariant, [Next]_vars
  PROVE  OrderKnown'
<1> USE DEF SessionInvariant, JournalInvariant
<1>1. CASE AcquireLease
  BY <1>1, ActiveUnchanged, PendingUnchanged DEF AcquireLease, Goto, store, OrderKnown,
     Reverting, Working
<1>2. CASE ScanPending
  BY <1>2, ActiveUnchanged, PendingUnchanged DEF ScanPending, Release, session, Goto,
     OrderKnown, Reverting, Working
<1>3. CASE RecoverNext
  BY <1>3, ActiveUnchanged, PendingUnchanged DEF RecoverNext, BeginUndo, Goto, store,
     OrderKnown, Reverting, Working
<1>4. CASE PlanRun
  <2>1. PICK n \in 0..NumSets :
          /\ nextTx + n <= MaxTx + 1 /\ nextTx' = nextTx + n
          /\ roots' = roots \cup (nextTx..(nextTx + n - 1))
          /\ run' = [t \in TxIds |-> IF t \in nextTx..(nextTx + n - 1) THEN nextTx ELSE run[t]]
          /\ todo' \subseteq nextTx..(nextTx + n - 1)
    BY <1>4 DEF PlanRun
  <2>2. nextTx \in Nat \ {0} /\ \A t \in TxIds : run[t] \in Nat
    BY SizesAreNaturals DEF TypeOK, StoreTyped, TxIds
  <2>3. roots' \subseteq 1..(nextTx' - 1)
    BY <2>1, <2>2 DEF OrderKnown
  <2>4. \A t \in 1..(nextTx' - 1) : t \in TxIds
    BY <2>1, <2>2, SizesAreNaturals DEF TxIds
  <2>5. \A t \in 1..(nextTx' - 1) :
          run'[t] = IF t >= nextTx THEN nextTx ELSE run[t]
    BY <2>1, <2>2, <2>4
  <2>6. \A t \in 1..(nextTx' - 1) : run'[t] < nextTx'
    BY <2>1, <2>2, <2>4, <2>5 DEF OrderKnown
  <2>7. \A t, u \in 1..(nextTx' - 1) : t < u => run'[t] <= run'[u]
    BY <2>1, <2>2, <2>4, <2>5 DEF OrderKnown
  <2>8. \A u \in intent', t \in todo' : u < t
    BY <1>4, <2>1, <2>2 DEF PlanRun, OrderKnown, RootsKnown, JournalKept
  <2>9. pc' = "nextSet" /\ cur' = cur /\ mode' = mode /\ UNCHANGED <<intent, marker, reverted>>
    BY <1>4 DEF PlanRun, Goto
  <2>10. cur = 0 /\ mode = "none"
    BY <1>4 DEF PlanRun, OrderKnown, TouchedKnown, Working
  <2> QED
    BY <2>3, <2>6, <2>7, <2>8, <2>9, <2>10, ActiveUnchanged, PendingUnchanged DEF OrderKnown,
       Reverting
<1>5. CASE PrepareSet
  <2>1. /\ cur = 0 /\ mode = "none" /\ todo \subseteq TxIds /\ 0 \notin TxIds
        /\ \A u \in intent, t \in todo : u < t
    BY <1>5 DEF PrepareSet, OrderKnown, TouchedKnown, Working, Reverting, TypeOK, SessionTyped,
       TxIds
  <2>2. Oldest(todo) \in todo /\ \A t \in todo : Oldest(todo) <= t
    BY <1>5, <2>1, OldestIn DEF PrepareSet, TxIds
  <2>3. \A t \in todo \ {Oldest(todo)} : Oldest(todo) < t
    <3>1. \A t \in todo : t \in Nat
      BY <2>1 DEF TxIds
    <3> QED
      BY <2>2, <3>1
  <2>4. /\ UNCHANGED <<roots, run, nextTx, intent, marker, reverted>>
        /\ mode' = "none"
    BY <1>5, <2>1 DEF PrepareSet, Finish
  <2>5. \/ pc' = "intent" /\ cur' = Oldest(todo) /\ todo' = todo
        \/ pc' = "nextSet" /\ cur' = 0 /\ todo' \subseteq todo
    BY <1>5 DEF PrepareSet, Finish, AfterSet, Goto
  <2> QED
    BY <2>1, <2>2, <2>3, <2>4, <2>5, ActiveUnchanged, PendingUnchanged DEF OrderKnown, Reverting
<1>6. CASE SkipRemaining
  BY <1>6, ActiveUnchanged, PendingUnchanged DEF SkipRemaining, store, OrderKnown, Reverting,
     Working
<1>7. CASE CloseRun
  BY <1>7, ActiveUnchanged, PendingUnchanged DEF CloseRun, Release, OrderKnown, Reverting,
     Working
<1>8. CASE PersistIntent
  <2>1. /\ \A u \in intent : u < cur
        /\ \A t \in todo \ {cur} : cur < t
        /\ \A u \in intent, t \in todo \ {cur} : u < t
        /\ PendingTx = {}
    BY <1>8 DEF PersistIntent, OrderKnown, Reverting, PendingKnown, NothingPending
  <2>2. intent' \subseteq intent \cup {cur} /\ UNCHANGED <<roots, run, nextTx, marker, reverted>>
    BY <1>8 DEF PersistIntent
  <2>3. PendingTx' \subseteq {cur}
    BY <2>1, <2>2 DEF PendingTx, Pending
  <2>4. ActiveTx' = ActiveTx /\ ActiveTx \subseteq intent
    <3>1. cur \in TxIds \ intent
      <4>1. cur \in TxIds
        BY <1>8 DEF PersistIntent, RootsKnown, TypeOK, StoreTyped
      <4> QED
        BY <4>1, <2>1, SizesAreNaturals DEF TxIds
    <3>2. marker[cur] = "none" /\ intent \subseteq intent'
      BY <1>8, <3>1 DEF PersistIntent, MarkersKnown
    <3> QED
      BY <2>2, <3>2 DEF ActiveTx, Active
  <2>5. \/ pc' = "execute" /\ cur' = cur /\ todo' = todo
        \/ pc' = "nextSet" /\ cur' = 0 /\ todo' = {}
    BY <1>8 DEF PersistIntent, Goto
  <2>6. mode = "none" /\ mode' = mode
    BY <1>8 DEF PersistIntent, TouchedKnown
  <2> QED
    BY <2>1, <2>2, <2>3, <2>4, <2>5, <2>6 DEF OrderKnown, Reverting, Working
<1>9. CASE BeginExecute
  BY <1>9, ActiveUnchanged, PendingUnchanged DEF BeginExecute, FailTransaction, BeginUndo,
     Finish, AfterSet, Goto, store, OrderKnown, Reverting, Working
<1>10. CASE CommitAction
  BY <1>10, ActiveUnchanged, PendingUnchanged DEF CommitAction, FailTransaction, BeginUndo,
     Goto, store, OrderKnown, Reverting, Working
<1>11. CASE WriteEntry
  BY <1>11, ActiveUnchanged, PendingUnchanged DEF WriteEntry, FailTransaction, BeginUndo,
     Goto, store, OrderKnown, Reverting, Working
<1>12. CASE VerifyAction
  BY <1>12, ActiveUnchanged, PendingUnchanged DEF VerifyAction, FailTransaction, BeginUndo,
     Goto, store, OrderKnown, Reverting, Working
<1>13. CASE Validate
  BY <1>13, ActiveUnchanged, PendingUnchanged DEF Validate, FailTransaction, BeginUndo, Goto,
     store, OrderKnown, Reverting, Working
<1>14. CASE MarkDurable
  <2>1. cur \in TxIds /\ PendingTx \subseteq {cur}
    BY <1>14 DEF MarkDurable, RootsKnown, PendingKnown, Working, TypeOK, StoreTyped
  <2>2. PendingTx' = {}
    BY <1>14, <2>1, MarkCloses DEF MarkDurable
  <2>3. \A u \in intent, t \in todo \ {cur} : u < t
    BY <1>14 DEF MarkDurable, OrderKnown, Reverting
  <2>4. /\ UNCHANGED <<roots, run, nextTx, intent>> /\ mode' = "none" /\ cur' = 0
        /\ \/ pc' = "nextSet" /\ todo' = todo \ {cur}
           \/ pc' = "recover" /\ mode = "recover" /\ todo' = todo
    BY <1>14 DEF MarkDurable, Finish, AfterSet, Goto
  <2> QED
    BY <2>2, <2>3, <2>4 DEF OrderKnown, Reverting
<1>15. CASE MarkFails
  BY <1>15, ActiveUnchanged, PendingUnchanged DEF MarkFails, AfterMarkFailure,
     FailTransaction, BeginUndo, Finish, AfterSet, Release, Goto, store, OrderKnown,
     Reverting, Working
<1>16. CASE MarkAmbiguous
  <2>1. cur \in TxIds /\ PendingTx \subseteq {cur}
    BY <1>16 DEF MarkAmbiguous, RootsKnown, PendingKnown, Working, TypeOK, StoreTyped
  <2>2. PendingTx' = {} \/ (PendingTx' = PendingTx /\ ActiveTx' = ActiveTx)
    BY <1>16, <2>1, MarkCloses, PendingUnchanged, ActiveUnchanged DEF MarkAmbiguous
  <2>3. \A u \in intent, t \in todo \ {cur} : u < t
    BY <1>16 DEF MarkAmbiguous, OrderKnown, Reverting
  <2>4. /\ UNCHANGED <<roots, run, nextTx, intent>> /\ mode' = "none" /\ cur' = 0
        /\ \/ pc' = "stopped" /\ todo' = todo \ {cur}
           \/ pc' = "idle" /\ todo' = {}
    BY <1>16 DEF MarkAmbiguous, AfterMarkFailure, Finish, AfterSet, Release, Goto, TouchedKnown
  <2> QED
    BY <2>2, <2>3, <2>4 DEF OrderKnown, Reverting
<1>17. CASE UndoAction
  BY <1>17, ActiveUnchanged, PendingUnchanged DEF UndoAction, Goto, store, OrderKnown,
     Reverting, Working
<1>18. CASE RestoreEntry
  BY <1>18, ActiveUnchanged, PendingUnchanged DEF RestoreEntry, Goto, store, OrderKnown,
     Reverting, Working
<1>19. CASE FinishUndo
  BY <1>19, ActiveUnchanged, PendingUnchanged DEF FinishUndo, Finish, AfterSet, Release, Goto,
     store, OrderKnown, Reverting, Working
<1>20. CASE SelectRevert
  <2>1. UNCHANGED <<roots, run, nextTx, intent, marker, reverted>>
    BY <1>20 DEF SelectRevert, store
  <2>2. CASE pc' = "revertNext"
    <3> DEFINE last == Newest(ActiveTx)
    <3>1. /\ ActiveTx # {} /\ todo' = {t \in ActiveTx : run[t] = run[last]}
          /\ cur' = cur /\ mode' = mode
      BY <1>20, <2>2 DEF SelectRevert, Release, Goto, RevertFirst
    <3>2. last \in ActiveTx /\ \A t \in ActiveTx : t <= last
      BY <3>1, NewestTx DEF ActiveTx
    <3>3. /\ ActiveTx \subseteq 1..(nextTx - 1)
          /\ \A t \in ActiveTx : t \in Nat /\ run[t] \in Nat
      BY SizesAreNaturals DEF ActiveTx, Active, OrderKnown, RootsKnown, JournalKept, TypeOK,
         StoreTyped, TxIds
    <3>4. ASSUME NEW t \in ActiveTx \ todo', NEW u \in todo'
          PROVE  t < u
      <4>1. run[u] = run[last] /\ run[t] # run[last] /\ t # last
        BY <3>1, <3>4
      <4>2. run[t] <= run[last]
        <5>1. t < last /\ t \in 1..(nextTx - 1) /\ last \in 1..(nextTx - 1)
          <6>1. t \in ActiveTx /\ last \in ActiveTx /\ t <= last /\ t # last
            BY <3>2, <3>4, <4>1
          <6>2. t \in Nat /\ last \in Nat
            BY <3>3, <6>1
          <6> HIDE DEF last
          <6>3. t < last
            BY <6>1, <6>2
          <6> QED
            BY <3>3, <6>1, <6>3
        <5> QED
          BY <5>1 DEF OrderKnown
      <4>3. u < t => run[u] <= run[t]
        BY <3>1, <3>3, <3>4 DEF OrderKnown
      <4> QED
        BY <3>1, <3>2, <3>3, <4>1, <4>2, <4>3
    <3>5. cur = 0 /\ mode = "none"
      BY <1>20 DEF SelectRevert, OrderKnown, TouchedKnown, Working
    <3> QED
      BY <2>1, <2>2, <3>1, <3>4, <3>5, ActiveUnchanged, PendingUnchanged DEF OrderKnown, Reverting
  <2>3. CASE pc' # "revertNext"
    BY <1>20, <2>1, <2>3, ActiveUnchanged, PendingUnchanged DEF SelectRevert, Release, Goto,
       OrderKnown, Reverting
  <2> QED
    BY <2>2, <2>3
<1>21. CASE RevertNext
  <2>1. todo # {} => RevertFirst(todo) \in todo /\ \A u \in todo : u <= RevertFirst(todo)
    BY NewestTx DEF RevertFirst, TypeOK, SessionTyped
  <2>2. /\ UNCHANGED <<roots, run, nextTx, intent, marker, reverted>>
        /\ Reverting
    BY <1>21 DEF RevertNext, Reverting, store
  <2>3. \/ pc' = "idle" /\ todo' = {} /\ cur' = 0 /\ mode' = "none"
        \/ /\ pc' = "undo" /\ todo' = todo /\ todo # {}
           /\ cur' = RevertFirst(todo) /\ mode' = "revert"
    BY <1>21 DEF RevertNext, BeginUndo, Release, Goto
  <2> QED
    BY <2>1, <2>2, <2>3, ActiveUnchanged, PendingUnchanged DEF OrderKnown, Reverting, Working
<1>22. CASE MarkReverted
  <2>1. /\ UNCHANGED <<roots, run, nextTx, intent, marker>>
        /\ reverted' = reverted \/ reverted' = reverted \cup {cur}
    BY <1>22 DEF MarkReverted
  <2>2. PendingTx' = PendingTx /\ ActiveTx' \subseteq ActiveTx
    BY <2>1, PendingUnchanged DEF ActiveTx, Active
  <2>3. \/ pc' = "revertNext" /\ todo' = todo \ {cur} /\ reverted' = reverted \cup {cur}
        \/ pc' = "idle" /\ todo' = {}
    BY <1>22 DEF MarkReverted, Release, Goto
  <2>4. cur' = 0 /\ mode' = "none"
    BY <1>22 DEF MarkReverted, Release
  <2>5. reverted' = reverted \cup {cur} => cur \notin ActiveTx'
    BY DEF ActiveTx, Active
  <2>6. \A t \in ActiveTx \ todo, u \in todo : t < u
    BY <1>22 DEF MarkReverted, OrderKnown, Reverting
  <2> QED
    BY <2>1, <2>2, <2>3, <2>4, <2>5, <2>6 DEF OrderKnown, Reverting
<1>23. CASE Crash
  BY <1>23, ActiveUnchanged, PendingUnchanged DEF Crash, Release, store, OrderKnown,
     Reverting, Working
<1>24. CASE EditTarget
  BY <1>24, ActiveUnchanged, PendingUnchanged DEF EditTarget, session, store, OrderKnown,
     Reverting, Working
<1>25. CASE UNCHANGED vars
  BY <1>25, ActiveUnchanged, PendingUnchanged DEF vars, store, session, faults, OrderKnown,
     Reverting, Working
<1> QED
  BY <1>1, <1>2, <1>3, <1>4, <1>5, <1>6, <1>7, <1>8, <1>9, <1>10, <1>11, <1>12, <1>13, <1>14,
     <1>15, <1>16, <1>17, <1>18, <1>19, <1>20, <1>21, <1>22, <1>23, <1>24, <1>25 DEF Next,
     Engine


(* Before the first run there is no record to be wrong about.                   *)
LEMMA JournalInit == Init => JournalInvariant
BY DEF Init, JournalInvariant, MarkersKnown, TouchedKnown, TargetsKnown, OrderKnown, Working,
   Reverting, Committing, PendingTx, Pending, ActiveTx, Active

(* EntriesKnown and JournalInvariant are inductive beside SessionInvariant.     *)
THEOREM JournalCorrect == Spec => [](EntriesKnown /\ JournalInvariant)
<1>1. Init => EntriesKnown /\ JournalInvariant
  BY JournalInit DEF Init, EntriesKnown
<1>2. TypeOK /\ SessionInvariant /\ EntriesKnown /\ JournalInvariant /\ [Next]_vars
        => EntriesKnown' /\ JournalInvariant'
  BY EntriesStep, MarkersStep, TouchedStep, TargetsStep, OrderStep DEF JournalInvariant
<1> QED
  BY <1>1, <1>2, SessionCorrect, PTL DEF Spec


(* The steps that publish no terminal record leave the records alone.           *)
LEMMA RecordsOnlyMarked ==
  ASSUME [Next]_vars, ~MarkDurable, ~MarkAmbiguous, ~MarkReverted
  PROVE  UNCHANGED <<marker, reverted>>
BY DEF Next, Engine, vars, store, AcquireLease, ScanPending, RecoverNext, PlanRun, PrepareSet,
   SkipRemaining, CloseRun, PersistIntent, BeginExecute, CommitAction, WriteEntry, VerifyAction,
   Validate, MarkFails, UndoAction, RestoreEntry, FinishUndo, SelectRevert, RevertNext, Crash,
   EditTarget

(* A set whose entries all hold a state, but for what somebody else wrote, holds it. *)
LEMMA SlotsHold ==
  ASSUME NEW t, NEW ref, \A a \in Actions, e \in Entries : SlotHolds(t, a, e, ref)
  PROVE  Holds(t, ref)
BY DEF SlotHolds, Foreign, Holds, Slots

(* When the record of a transaction is published its set holds what the record  *)
(* says: every action has been written and verified, or none has been touched,  *)
(* or the undo has compared all of them with the prior state.                   *)
LEMMA ReadyForRecord ==
  ASSUME TypeOK, SessionInvariant, JournalInvariant, pc = "mark", want # "none"
  PROVE  Holds(cur, IF Terminal = "committed" THEN desired[cur] ELSE prior[cur])
<1> USE DEF JournalInvariant
<1>1. CASE want = "committed"
  <2>1. \A a \in Actions : a < act
    BY <1>1, SizesAreNaturals DEF TouchedKnown, Actions
  <2> QED
    BY <1>1, <2>1, SlotsHold DEF TargetsKnown, Written, Terminal
<1>2. CASE want = "aborted"
  BY <1>2, SlotsHold DEF TouchedKnown, TargetsKnown, Terminal
<1>3. CASE want = "rolled_back"
  BY <1>3, SlotsHold DEF TargetsKnown, Terminal
<1> QED
  BY <1>1, <1>2, <1>3 DEF TypeOK, SessionTyped, Wants

(* A terminal record (writeTerminal, markReverted) is only ever added to an open *)
(* transaction, or to a committed one that is reverted, and the targets hold    *)
(* what it says but for edits by somebody else.                                 *)
THEOREM RecordsTellTheTruthCorrect == Spec => RecordsTellTheTruth
<1>1. ASSUME TypeOK, SessionInvariant, JournalInvariant, [Next]_vars,
             NEW t \in TxIds, marker'[t] # marker[t]
      PROVE  /\ marker[t] = "none"
             /\ Holds(t, IF marker'[t] = "committed" THEN desired[t] ELSE prior[t])
  <2>1. MarkDurable \/ MarkAmbiguous
    <3>1. CASE MarkReverted
      BY <1>1, <3>1 DEF MarkReverted
    <3> QED
      BY <1>1, <3>1, RecordsOnlyMarked
  <2>2. pc = "mark" /\ want # "none" /\ marker' = [marker EXCEPT ![cur] = Terminal]
    BY <1>1, <2>1 DEF MarkDurable, MarkAmbiguous, AfterMarkFailure
  <2>3. t = cur /\ marker'[t] = Terminal
    BY <1>1, <2>2 DEF TypeOK, StoreTyped
  <2>4. marker[t] = "none"
    BY <1>1, <2>2, <2>3 DEF JournalInvariant, MarkersKnown, Working, Reverting
  <2> QED
    BY <1>1, <2>2, <2>3, <2>4, ReadyForRecord
<1>2. ASSUME TypeOK, SessionInvariant, JournalInvariant, [Next]_vars,
             NEW t \in TxIds, t \in reverted' \ reverted
      PROVE  marker[t] = "committed" /\ Holds(t, prior[t])
  <2>1. MarkReverted
    <3>1. CASE MarkDurable \/ MarkAmbiguous
      BY <1>2, <3>1 DEF MarkDurable, MarkAmbiguous
    <3> QED
      BY <1>2, <3>1, RecordsOnlyMarked
  <2>2. pc = "markReverted" /\ t = cur
    BY <1>2, <2>1 DEF MarkReverted
  <2>3. cur \in ActiveTx
    BY <1>2, <2>2 DEF JournalInvariant, MarkersKnown, Reverting
  <2>4. Holds(cur, prior[cur])
    BY <1>2, <2>2, SlotsHold DEF JournalInvariant, TargetsKnown
  <2> QED
    BY <2>2, <2>3, <2>4 DEF ActiveTx, Active
<1>3. TypeOK /\ SessionInvariant /\ JournalInvariant /\ [Next]_vars =>
        [\A t \in TxIds :
           /\ marker'[t] # marker[t] =>
                /\ marker[t] = "none"
                /\ Holds(t, IF marker'[t] = "committed" THEN desired[t] ELSE prior[t])
           /\ t \in reverted' \ reverted => marker[t] = "committed" /\ Holds(t, prior[t])]_vars
  BY <1>1, <1>2
<1> QED
  BY <1>3, SessionCorrect, JournalCorrect, PTL DEF Spec, RecordsTellTheTruth

(* A death at any point of a commit leaves each action at its prior state, at   *)
(* its desired state, or with a leading part of its entries written, which is   *)
(* what classifyFilesystemRollbackState accepts.                                *)
THEOREM CommitRecoverableCorrect == Spec => []CommitRecoverable
<1>1. ASSUME TypeOK, SessionInvariant, EntriesKnown, JournalInvariant,
             pc \in {"execute", "commit", "write", "verify"}, edits = 0,
             NEW a \in Actions
      PROVE  Classifiable(cur, a)
  <2> USE DEF JournalInvariant
  <2>1. Foreign = {} /\ raced = {}
    BY <1>1 DEF Foreign, TargetsKnown
  <2>2. CASE a \notin touched
    <3>1. \A e \in Entries : SlotHolds(cur, a, e, prior[cur])
      BY <1>1, <2>2 DEF TargetsKnown, Committing
    <3> QED
      BY <2>1, <3>1 DEF SlotHolds, Classifiable, AtPrior, AtState
  <2>3. CASE a \in touched /\ \A e \in Entries : Written(a, e)
    <3>1. pc \in Committing
      BY <1>1, <2>3 DEF TouchedKnown, Committing
    <3>2. \A e \in Entries : SlotHolds(cur, a, e, desired[cur])
      BY <1>1, <2>3, <3>1 DEF TargetsKnown
    <3> QED
      BY <2>1, <3>2 DEF SlotHolds, Classifiable, AtDesired, AtState
  <2>4. CASE a \in touched /\ ~\A e \in Entries : Written(a, e)
    <3>1. pc \in Committing /\ a \in 1..act
      BY <1>1, <2>4 DEF TouchedKnown, Committing
    <3>2. act \in Nat /\ a \in Nat
      BY <1>1, <3>1 DEF TypeOK, SessionTyped
    <3>3. a = act
      BY <2>4, <3>1, <3>2 DEF Written
    <3>4. pc = "write"
      BY <1>1, <2>4, <3>1, <3>3 DEF TouchedKnown, Committing, Written
    <3>5. left \subseteq Entries /\ left # {}
      BY <1>1, <3>4 DEF TypeOK, SessionTyped, EntriesKnown
    <3> DEFINE k == Oldest(left) - 1
    <3>6. Oldest(left) \in left /\ \A e \in left : Oldest(left) <= e
      BY <3>5, OldestIn DEF Entries
    <3>7. Oldest(left) \in 1..NumEntries
      BY <3>5, <3>6 DEF Entries
    <3>8. k \in 0..NumEntries
      BY <3>7, SizesAreNaturals
    <3>9. \A e \in Entries : e \in left <=> ~(e <= k)
      <4>1. \A e \in Entries : e > Oldest(left) => e \in left
        BY <1>1, <3>4, <3>6 DEF TouchedKnown
      <4> QED
        BY <3>6, <3>7, <4>1 DEF Entries
    <3>10. \A e \in left : tgt[cfgSet[cur]][<<a, e>>] = prior[cur][<<a, e>>]
      BY <1>1, <2>1, <3>3, <3>4 DEF EntriesKnown
    <3>11. \A e \in Entries \ left : tgt[cfgSet[cur]][<<a, e>>] = desired[cur][<<a, e>>]
      BY <1>1, <2>1, <3>1, <3>3, <3>4 DEF TargetsKnown, Written, SlotHolds
    <3>12. \A e \in Entries : tgt[cfgSet[cur]][<<a, e>>] =
             IF e <= k THEN desired[cur][<<a, e>>] ELSE prior[cur][<<a, e>>]
      BY <3>9, <3>10, <3>11
    <3> QED
      BY <3>8, <3>12 DEF Classifiable, ProvablePartial
  <2> QED
    BY <2>2, <2>3, <2>4
<1>2. TypeOK /\ SessionInvariant /\ EntriesKnown /\ JournalInvariant => CommitRecoverable
  BY <1>1 DEF CommitRecoverable
<1> QED
  BY <1>2, SessionCorrect, JournalCorrect, PTL

-----------------------------------------------------------------------------
(* The latest of a set of transactions is the newest.                           *)
LEMMA NewestIs ==
  ASSUME NEW S \in SUBSET TxIds, NEW t \in S, \A u \in S : u <= t
  PROVE  Newest(S) = t
<1>1. Newest(S) \in S /\ t <= Newest(S) /\ Newest(S) <= t
  BY NewestTx
<1>2. \A u \in S : u \in Int
  BY SizesAreNaturals DEF TxIds
<1> QED
  BY <1>1, <1>2

(* If nobody else writes, entries that hold a state make up exactly that state. *)
LEMMA ExactContent ==
  ASSUME TypeOK, edits = 0, NEW t, cfgSet[t] \in Sets, NEW ref \in Contents,
         \A a \in Actions, e \in Entries : SlotHolds(t, a, e, ref)
  PROVE  tgt[cfgSet[t]] = ref
<1>1. \A sl \in Slots : tgt[cfgSet[t]][sl] = ref[sl]
  BY DEF SlotHolds, Foreign, Slots
<1>2. tgt[cfgSet[t]] \in Contents
  BY DEF TypeOK, StoreTyped
<1> QED
  BY <1>1, <1>2 DEF Contents

(* A write of one entry leaves all other sets, and all other entries, alone.    *)
LEMMA SetSlotEffect ==
  ASSUME TypeOK, cfgSet[cur] \in Sets, act \in Actions, NEW e \in Entries, NEW ref,
         SetSlot(e, ref)
  PROVE  /\ \A s \in Sets : s # cfgSet[cur] => tgt'[s] = tgt[s]
         /\ \A sl \in Slots :
              \/ tgt'[cfgSet[cur]][sl] = tgt[cfgSet[cur]][sl]
              \/ tgt'[cfgSet[cur]][sl] = ref[sl]
BY DEF SetSlot, TypeOK, StoreTyped, Contents, Slots

(* What a set of transactions explains does not change while their records do not. *)
LEMMA ExplainedSame ==
  ASSUME NEW S \in SUBSET TxIds, NEW c, Explained(S, c),
         \A t \in S : prior'[t] = prior[t] /\ desired'[t] = desired[t]
  PROVE  IF S = {} THEN c = Initial
         ELSE \A sl \in Slots : c[sl] \in {prior'[Newest(S)][sl], desired'[Newest(S)][sl]}
BY NewestTx DEF Explained

(* A step that touches neither the targets nor a record keeps the history true. *)
LEMMA HistoryFrame ==
  ASSUME TypeOK, HistoryKnown, UNCHANGED tgt, edits' = 0 => edits = 0,
         PendingTx' = PendingTx, ActiveTx' = ActiveTx,
         \A t \in intent : /\ cfgSet'[t] = cfgSet[t]
                           /\ prior'[t] = prior[t] /\ desired'[t] = desired[t]
  PROVE  HistoryKnown'
<1> SUFFICES ASSUME edits' = 0
             PROVE  /\ \A t \in ActiveTx' \cup PendingTx' : Explained(ActiveBefore(t), prior[t])'
                    /\ \A t \in PendingTx', sl \in Slots :
                         tgt'[cfgSet'[t]][sl] \in {prior'[t][sl], desired'[t][sl]}
                    /\ \A s \in Sets : (\A t \in PendingTx' : cfgSet'[t] # s)
                         => Explained(ActiveOn(s), tgt[s])'
  BY DEF HistoryKnown
<1>1. ActiveTx \subseteq intent /\ PendingTx \subseteq intent /\ ActiveTx \subseteq TxIds
  BY DEF ActiveTx, Active, PendingTx, Pending
<1>2. \A t \in ActiveTx \cup PendingTx :
        ActiveBefore(t)' = ActiveBefore(t) /\ ActiveBefore(t) \subseteq ActiveTx
  BY <1>1 DEF ActiveBefore
<1>3. \A s \in Sets : ActiveOn(s)' = ActiveOn(s) /\ ActiveOn(s) \subseteq ActiveTx
  BY <1>1 DEF ActiveOn
<1>4. \A t \in ActiveTx \cup PendingTx : Explained(ActiveBefore(t), prior[t])'
  <2> SUFFICES ASSUME NEW t \in ActiveTx \cup PendingTx
               PROVE  Explained(ActiveBefore(t), prior[t])'
    OBVIOUS
  <2>1. Explained(ActiveBefore(t), prior[t]) /\ prior'[t] = prior[t]
    BY <1>1 DEF HistoryKnown
  <2> QED
    BY <1>1, <1>2, <2>1, ExplainedSame DEF Explained
<1>5. \A s \in Sets : (\A t \in PendingTx : cfgSet[t] # s) => Explained(ActiveOn(s), tgt[s])'
  <2> SUFFICES ASSUME NEW s \in Sets, \A t \in PendingTx : cfgSet[t] # s
               PROVE  Explained(ActiveOn(s), tgt[s])'
    OBVIOUS
  <2>1. Explained(ActiveOn(s), tgt[s])
    BY DEF HistoryKnown
  <2> QED
    BY <1>1, <1>3, <2>1, ExplainedSame DEF Explained
<1> QED
  BY <1>1, <1>4, <1>5 DEF HistoryKnown


(* A published intent opens its transaction and changes what no other one says. *)
LEMMA IntentOpens ==
  ASSUME TypeOK, SessionInvariant, JournalInvariant, PersistIntent
  PROVE  /\ cur \in TxIds \ intent /\ cfgSet[cur] \in Sets
         /\ PendingTx = {} /\ PendingTx' \subseteq {cur}
         /\ ActiveTx' = ActiveTx /\ \A u \in ActiveTx : u < cur
<1> USE DEF SessionInvariant, JournalInvariant
<1>1. pc = "intent" /\ UNCHANGED <<marker, reverted>> /\ intent' \in {intent, intent \cup {cur}}
  BY DEF PersistIntent
<1>2. cur \in TxIds /\ cfgSet[cur] \in Sets /\ \A u \in intent : u < cur
  BY <1>1 DEF RootsKnown, OrderKnown, TypeOK, StoreTyped
<1>3. cur \notin intent
  BY <1>2, SizesAreNaturals DEF TxIds
<1>4. PendingTx = {}
  BY <1>1 DEF PendingKnown, NothingPending
<1>5. marker[cur] = "none"
  BY <1>2, <1>3 DEF MarkersKnown
<1>6. PendingTx' \subseteq {cur}
  BY <1>1, <1>4 DEF PendingTx, Pending
<1>7. ActiveTx' = ActiveTx /\ ActiveTx \subseteq intent
  BY <1>1, <1>5 DEF ActiveTx, Active
<1> QED
  BY <1>2, <1>3, <1>4, <1>6, <1>7

(* The prior state of a new transaction is what its set holds, and the history  *)
(* explains that.                                                               *)
LEMMA HistoryIntent ==
  ASSUME TypeOK, SessionInvariant, JournalInvariant, HistoryKnown, PersistIntent
  PROVE  HistoryKnown'
<1>1. /\ UNCHANGED <<tgt, cfgSet, prior, desired, edits>>
      /\ pc = "intent"
  BY DEF PersistIntent, NoFault, IOError, faults
<1> SUFFICES ASSUME edits = 0
             PROVE  /\ \A t \in ActiveTx' \cup PendingTx' : Explained(ActiveBefore(t), prior[t])'
                    /\ \A t \in PendingTx', sl \in Slots :
                         tgt'[cfgSet'[t]][sl] \in {prior'[t][sl], desired'[t][sl]}
                    /\ \A s \in Sets : (\A t \in PendingTx' : cfgSet'[t] # s)
                         => Explained(ActiveOn(s), tgt[s])'
  BY <1>1 DEF HistoryKnown
<1>2. tgt[cfgSet[cur]] = prior[cur]
  <2>1. \A a \in Actions, e \in Entries : SlotHolds(cur, a, e, prior[cur])
    BY <1>1 DEF JournalInvariant, TargetsKnown, TouchedKnown, Working
  <2> QED
    BY <2>1, IntentOpens, ExactContent DEF TypeOK, StoreTyped
<1>3. ActiveBefore(cur) = ActiveOn(cfgSet[cur])
  BY IntentOpens DEF ActiveBefore, ActiveOn
<1>4. \A t : ActiveBefore(t)' = ActiveBefore(t)
  BY <1>1, IntentOpens DEF ActiveBefore
<1>5. \A s : ActiveOn(s)' = ActiveOn(s)
  BY <1>1, IntentOpens DEF ActiveOn
<1>6. Explained(ActiveBefore(cur), prior[cur])
  BY <1>2, <1>3, IntentOpens DEF HistoryKnown
<1>7. \A t \in ActiveTx \cup {cur} : Explained(ActiveBefore(t), prior[t])
  BY <1>6 DEF HistoryKnown
<1>8. \A s \in Sets : Explained(ActiveOn(s), tgt[s])
  BY IntentOpens DEF HistoryKnown
<1> QED
  BY <1>1, <1>2, <1>4, <1>5, <1>7, <1>8, IntentOpens DEF Explained

(* A terminal record puts its transaction in force, with its set holding what   *)
(* it recorded, or takes it out of the way, with its set as it was before.       *)
LEMMA HistoryMark ==
  ASSUME TypeOK, SessionInvariant, JournalInvariant, HistoryKnown,
         pc = "mark", want # "none", marker' = [marker EXCEPT ![cur] = Terminal],
         UNCHANGED <<tgt, cfgSet, prior, desired, intent, reverted, edits>>
  PROVE  HistoryKnown'
<1> USE DEF SessionInvariant, JournalInvariant
<1> SUFFICES ASSUME edits = 0
             PROVE  /\ \A t \in ActiveTx' \cup PendingTx' : Explained(ActiveBefore(t), prior[t])'
                    /\ \A t \in PendingTx', sl \in Slots :
                         tgt'[cfgSet'[t]][sl] \in {prior'[t][sl], desired'[t][sl]}
                    /\ \A s \in Sets : (\A t \in PendingTx' : cfgSet'[t] # s)
                         => Explained(ActiveOn(s), tgt[s])'
  BY DEF HistoryKnown
<1>1. /\ cur \in TxIds /\ cur \in intent /\ cfgSet[cur] \in Sets
      /\ marker[cur] = "none" /\ cur \notin reverted
  BY DEF RootsKnown, PendingKnown, MarkersKnown, Working, Reverting, TypeOK, StoreTyped
<1>2. PendingTx = {cur} /\ PendingTx' = {}
  BY <1>1, MarkCloses DEF PendingKnown, PendingTx, Pending, Working
<1>3. ActiveTx \subseteq TxIds /\ \A u \in ActiveTx : u \in Nat /\ u < cur
  BY <1>2, SizesAreNaturals DEF OrderKnown, ActiveTx, TxIds
<1>4. cur \in Nat
  BY <1>1, SizesAreNaturals DEF TxIds
<1>5. /\ \A t \in ActiveTx \cup {cur} : Explained(ActiveBefore(t), prior[t])
      /\ \A sl \in Slots : tgt[cfgSet[cur]][sl] \in {prior[cur][sl], desired[cur][sl]}
      /\ \A s \in Sets \ {cfgSet[cur]} : Explained(ActiveOn(s), tgt[s])
  BY <1>2 DEF HistoryKnown
<1>6. ActiveBefore(cur) = ActiveOn(cfgSet[cur])
  BY <1>3 DEF ActiveBefore, ActiveOn
<1>7. CASE want = "committed"
  <2>1. ActiveTx' = ActiveTx \cup {cur}
    BY <1>1, <1>7 DEF ActiveTx, Active, Terminal, TypeOK, StoreTyped
  <2>2. \A t \in ActiveTx \cup {cur} : ActiveBefore(t)' = ActiveBefore(t)
    BY <2>1, <1>3, <1>4 DEF ActiveBefore
  <2>3. \A s \in Sets \ {cfgSet[cur]} : ActiveOn(s)' = ActiveOn(s)
    BY <2>1 DEF ActiveOn
  <2>4. PICK r \in Sets : r = cfgSet[cur]
    BY <1>1
  <2>5. ActiveOn(r)' = ActiveOn(r) \cup {cur}
    BY <2>1, <2>4 DEF ActiveOn
  <2>6. Newest(ActiveOn(r) \cup {cur}) = cur
    BY <1>1, <1>3, <1>4, NewestIs DEF ActiveOn
  <2>7. Explained(ActiveOn(r), tgt[r])'
    BY <1>5, <2>4, <2>5, <2>6 DEF Explained
  <2> QED
    BY <1>2, <1>5, <2>1, <2>2, <2>3, <2>4, <2>7 DEF Explained
<1>8. CASE want # "committed"
  <2>1. ActiveTx' = ActiveTx
    BY <1>1, <1>8 DEF ActiveTx, Active, Terminal, TypeOK, StoreTyped
  <2>2. tgt[cfgSet[cur]] = prior[cur]
    <3>1. \A a \in Actions, e \in Entries : SlotHolds(cur, a, e, prior[cur])
      BY <1>8 DEF TargetsKnown, TouchedKnown, TypeOK, SessionTyped, Wants
    <3> QED
      BY <1>1, <3>1, ExactContent DEF TypeOK, StoreTyped
  <2>3. \A t : ActiveBefore(t)' = ActiveBefore(t)
    BY <2>1 DEF ActiveBefore
  <2>4. \A s : ActiveOn(s)' = ActiveOn(s)
    BY <2>1 DEF ActiveOn
  <2>5. Explained(ActiveOn(cfgSet[cur]), tgt[cfgSet[cur]])
    BY <1>5, <1>6, <2>2
  <2> QED
    BY <1>2, <1>5, <2>1, <2>3, <2>4, <2>5 DEF Explained
<1> QED
  BY <1>7, <1>8

(* A reverted transaction was the newest in force, and its set is as it found it. *)
LEMMA HistoryReverted ==
  ASSUME TypeOK, SessionInvariant, JournalInvariant, HistoryKnown,
         pc = "markReverted", reverted' = reverted \cup {cur},
         UNCHANGED <<tgt, cfgSet, prior, desired, intent, marker, edits>>
  PROVE  HistoryKnown'
<1> USE DEF SessionInvariant, JournalInvariant
<1> SUFFICES ASSUME edits = 0
             PROVE  /\ \A t \in ActiveTx' \cup PendingTx' : Explained(ActiveBefore(t), prior[t])'
                    /\ \A t \in PendingTx', sl \in Slots :
                         tgt'[cfgSet'[t]][sl] \in {prior'[t][sl], desired'[t][sl]}
                    /\ \A s \in Sets : (\A t \in PendingTx' : cfgSet'[t] # s)
                         => Explained(ActiveOn(s), tgt[s])'
  BY DEF HistoryKnown
<1>1. Reverting /\ cur \in todo /\ todo \subseteq ActiveTx /\ cfgSet[cur] \in Sets
  BY DEF Reverting, MarkersKnown, RootsKnown
<1>2. PendingTx = {} /\ PendingTx' = {}
  BY <1>1, PendingUnchanged DEF PendingKnown, NothingPending
<1>3. ActiveTx' = ActiveTx \ {cur}
  BY DEF ActiveTx, Active
<1>4. \A u \in ActiveTx : u \in Nat /\ cur \in Nat /\ u <= cur
  <2>1. \A u \in ActiveTx : u \in Nat
    BY SizesAreNaturals DEF ActiveTx, TxIds
  <2>2. \A u \in todo : u <= cur
    BY <1>1 DEF OrderKnown
  <2>3. \A t \in ActiveTx \ todo : t < cur
    BY <1>1 DEF OrderKnown
  <2> QED
    BY <1>1, <2>1, <2>2, <2>3
<1>5. /\ \A t \in ActiveTx : Explained(ActiveBefore(t), prior[t])
      /\ \A s \in Sets : Explained(ActiveOn(s), tgt[s])
  BY <1>2 DEF HistoryKnown
<1>6. tgt[cfgSet[cur]] = prior[cur]
  <2>1. \A a \in Actions, e \in Entries : SlotHolds(cur, a, e, prior[cur])
    BY DEF TargetsKnown
  <2> QED
    BY <1>1, <2>1, ExactContent DEF ActiveTx, TypeOK, StoreTyped
<1>7. \A t \in ActiveTx \ {cur} : ActiveBefore(t)' = ActiveBefore(t)
  BY <1>3, <1>4 DEF ActiveBefore
<1>8. PICK r \in Sets : r = cfgSet[cur]
  BY <1>1
<1>9. ActiveOn(r)' = ActiveBefore(cur)
  BY <1>3, <1>4, <1>8 DEF ActiveBefore, ActiveOn
<1>10. \A s \in Sets \ {r} : ActiveOn(s)' = ActiveOn(s)
  BY <1>3, <1>8 DEF ActiveOn
<1>11. Explained(ActiveOn(r), tgt[r])'
  BY <1>1, <1>5, <1>6, <1>8, <1>9 DEF Explained
<1> QED
  BY <1>2, <1>3, <1>5, <1>7, <1>10, <1>11 DEF Explained

(* Writing an entry of the pending transaction leaves it at one of its two      *)
(* recorded values, and so does restoring one of the newest transaction in force. *)
LEMMA HistoryWrite ==
  ASSUME TypeOK, SessionInvariant, JournalInvariant, HistoryKnown,
         pc \in {"write", "restoreEntry"}, NEW e \in Entries, NEW ref,
         ref = prior[cur] \/ (ref = desired[cur] /\ pc = "write"), SetSlot(e, ref),
         UNCHANGED <<cfgSet, prior, desired, intent, marker, reverted, edits>>
  PROVE  HistoryKnown'
<1> USE DEF SessionInvariant, JournalInvariant
<1> SUFFICES ASSUME edits = 0
             PROVE  /\ \A t \in ActiveTx' \cup PendingTx' : Explained(ActiveBefore(t), prior[t])'
                    /\ \A t \in PendingTx', sl \in Slots :
                         tgt'[cfgSet'[t]][sl] \in {prior'[t][sl], desired'[t][sl]}
                    /\ \A s \in Sets : (\A t \in PendingTx' : cfgSet'[t] # s)
                         => Explained(ActiveOn(s), tgt[s])'
  BY DEF HistoryKnown
<1>1. PendingTx' = PendingTx /\ ActiveTx' = ActiveTx
  BY PendingUnchanged, ActiveUnchanged
<1>2. /\ cur \in TxIds /\ cur \in intent /\ cfgSet[cur] \in Sets /\ act \in Actions
      /\ PendingTx \subseteq {cur}
  BY DEF RootsKnown, PendingKnown, IndexKnown, Working, TypeOK, StoreTyped
<1>3. /\ \A s \in Sets : s # cfgSet[cur] => tgt'[s] = tgt[s]
      /\ \A sl \in Slots : \/ tgt'[cfgSet[cur]][sl] = tgt[cfgSet[cur]][sl]
                           \/ tgt'[cfgSet[cur]][sl] = ref[sl]
  BY <1>2, SetSlotEffect
<1>4. \A t \in ActiveTx \cup PendingTx : Explained(ActiveBefore(t), prior[t])'
  <2>1. \A t : ActiveBefore(t)' = ActiveBefore(t)
    BY <1>1 DEF ActiveBefore
  <2> QED
    BY <2>1 DEF HistoryKnown, Explained
<1>5. \A s : ActiveOn(s)' = ActiveOn(s)
  BY <1>1 DEF ActiveOn
<1>6. CASE ~Reverting
  <2>1. PendingTx = {cur}
    BY <1>2, <1>6 DEF MarkersKnown, PendingTx, Pending, Working
  <2>2. \A sl \in Slots : tgt'[cfgSet[cur]][sl] \in {prior[cur][sl], desired[cur][sl]}
    BY <1>3, <2>1 DEF HistoryKnown
  <2>3. \A s \in Sets \ {cfgSet[cur]} : Explained(ActiveOn(s), tgt[s])'
    BY <1>3, <1>5, <2>1 DEF HistoryKnown, Explained
  <2> QED
    BY <1>1, <1>4, <2>1, <2>2, <2>3
<1>7. CASE Reverting
  <2>1. PendingTx = {} /\ pc = "restoreEntry" /\ cur \in todo /\ todo \subseteq ActiveTx
    BY <1>7 DEF PendingKnown, NothingPending, Reverting, MarkersKnown
  <2>2. \A u \in ActiveTx : u \in Nat /\ u <= cur
    <3>1. \A u \in ActiveTx : u \in Nat
      BY SizesAreNaturals DEF ActiveTx, TxIds
    <3>2. \A u \in todo : u <= cur
      BY <1>7, <2>1 DEF OrderKnown
    <3>3. \A t \in ActiveTx \ todo : t < cur
      BY <1>7, <2>1 DEF OrderKnown
    <3> QED
      BY <2>1, <3>1, <3>2, <3>3
  <2>3. cur \in ActiveOn(cfgSet[cur]) /\ Newest(ActiveOn(cfgSet[cur])) = cur
    <3>1. cur \in ActiveOn(cfgSet[cur]) /\ ActiveOn(cfgSet[cur]) \subseteq TxIds
      BY <2>1 DEF ActiveOn, ActiveTx
    <3>2. \A u \in ActiveOn(cfgSet[cur]) : u <= cur
      BY <2>2 DEF ActiveOn
    <3> QED
      BY <3>1, <3>2, NewestIs
  <2>4. \A s \in Sets : Explained(ActiveOn(s), tgt[s])
    BY <2>1 DEF HistoryKnown
  <2>5. \A sl \in Slots : tgt'[cfgSet[cur]][sl] \in {prior[cur][sl], desired[cur][sl]}
    BY <1>2, <1>3, <2>1, <2>3, <2>4 DEF Explained
  <2>6. PICK r \in Sets : r = cfgSet[cur]
    BY <1>2
  <2>7. Explained(ActiveOn(r), tgt[r])'
    BY <1>5, <2>3, <2>5, <2>6 DEF Explained
  <2>8. \A s \in Sets \ {r} : Explained(ActiveOn(s), tgt[s])'
    BY <1>3, <1>5, <2>4, <2>6 DEF Explained
  <2> QED
    BY <1>1, <1>4, <2>1, <2>7, <2>8
<1> QED
  BY <1>6, <1>7


(* The history stays true: only an intent, a record or a write can disturb it.  *)
LEMMA HistoryStep ==
  ASSUME TypeOK, SessionInvariant, EntriesKnown, JournalInvariant, HistoryKnown, [Next]_vars
  PROVE  HistoryKnown'
<1>1. CASE PersistIntent
  BY <1>1, HistoryIntent
<1>2. CASE MarkDurable
  <2>1. /\ pc = "mark" /\ want # "none" /\ marker' = [marker EXCEPT ![cur] = Terminal]
        /\ UNCHANGED <<tgt, cfgSet, prior, desired, intent, reverted, edits>>
    BY <1>2 DEF MarkDurable, NoFault, faults
  <2> QED
    BY <2>1, HistoryMark
<1>3. CASE MarkAmbiguous
  <2>1. /\ pc = "mark" /\ want # "none" /\ marker' \in {marker, [marker EXCEPT ![cur] = Terminal]}
        /\ UNCHANGED <<tgt, cfgSet, prior, desired, intent, reverted, edits>>
    BY <1>3 DEF MarkAmbiguous, AfterMarkFailure, IOError
  <2>2. CASE marker' = marker
    BY <2>1, <2>2, PendingUnchanged, ActiveUnchanged, HistoryFrame
  <2> QED
    BY <2>1, <2>2, HistoryMark
<1>4. CASE MarkReverted
  <2>1. /\ pc = "markReverted" /\ reverted' \in {reverted, reverted \cup {cur}}
        /\ UNCHANGED <<tgt, cfgSet, prior, desired, intent, marker, edits>>
    BY <1>4 DEF MarkReverted, NoFault, IOError, faults
  <2>2. CASE reverted' = reverted
    BY <2>1, <2>2, PendingUnchanged, ActiveUnchanged, HistoryFrame
  <2> QED
    BY <2>1, <2>2, HistoryReverted
<1>5. CASE WriteEntry
  <2>1. /\ pc = "write" /\ UNCHANGED <<cfgSet, prior, desired, intent, marker, reverted, edits>>
        /\ UNCHANGED tgt \/ SetSlot(Oldest(left), desired[cur])
    BY <1>5 DEF WriteEntry, store, NoFault, IOError, faults
  <2>2. Oldest(left) \in Entries
    BY <2>1, OldestEntry DEF EntriesKnown, TypeOK, SessionTyped
  <2>3. CASE UNCHANGED tgt
    BY <2>1, <2>3, PendingUnchanged, ActiveUnchanged, HistoryFrame
  <2> QED
    BY <2>1, <2>2, <2>3, HistoryWrite
<1>6. CASE RestoreEntry
  <2>1. /\ pc = "restoreEntry"
        /\ UNCHANGED <<cfgSet, prior, desired, intent, marker, reverted, edits>>
        /\ UNCHANGED tgt \/ SetSlot(RestoreOrder(left), prior[cur])
    BY <1>6 DEF RestoreEntry, store, NoFault, IOError, faults
  <2>2. RestoreOrder(left) \in Entries
    BY <2>1, RestoreOrderIn DEF EntriesKnown, TypeOK, SessionTyped
  <2>3. CASE UNCHANGED tgt
    BY <2>1, <2>3, PendingUnchanged, ActiveUnchanged, HistoryFrame
  <2> QED
    BY <2>1, <2>2, <2>3, HistoryWrite
<1>7. CASE EditTarget
  BY <1>7 DEF EditTarget, HistoryKnown, TypeOK, OutcomeTyped
<1>8. CASE PlanRun
  <2>1. /\ UNCHANGED <<tgt, prior, desired, intent, marker, reverted, edits>>
        /\ \A t \in TxIds : t < nextTx => cfgSet'[t] = cfgSet[t]
    BY <1>8, SizesAreNaturals DEF PlanRun, NoFault, IOError, faults, TypeOK, StoreTyped, TxIds
  <2>2. \A t \in intent : t \in TxIds /\ t < nextTx
    BY SizesAreNaturals DEF SessionInvariant, RootsKnown, JournalKept, JournalInvariant, OrderKnown,
       TypeOK, StoreTyped
  <2> QED
    BY <2>1, <2>2, PendingUnchanged, ActiveUnchanged, HistoryFrame
<1>9. CASE PrepareSet
  <2>1. Oldest(todo) \in todo /\ \A u \in intent, t \in todo : u < t
    BY <1>9, OldestTx DEF PrepareSet, JournalInvariant, OrderKnown, Working, Reverting, TypeOK,
       SessionTyped, TxIds
  <2>2. Oldest(todo) \notin intent
    <3>1. \A t \in todo : t \in Int
      BY SizesAreNaturals DEF TypeOK, SessionTyped, TxIds
    <3> QED
      BY <2>1, <3>1
  <2>3. UNCHANGED <<tgt, cfgSet, intent, marker, reverted, edits>>
    BY <1>9 DEF PrepareSet, NoFault, IOError, faults
  <2>4. \A t \in intent : prior'[t] = prior[t] /\ desired'[t] = desired[t]
    BY <1>9, <2>2 DEF PrepareSet, TypeOK, StoreTyped
  <2> QED
    BY <2>3, <2>4, PendingUnchanged, ActiveUnchanged, HistoryFrame
<1>10. CASE ~(PersistIntent \/ MarkDurable \/ MarkAmbiguous \/ MarkReverted \/ WriteEntry
              \/ RestoreEntry \/ EditTarget \/ PlanRun \/ PrepareSet)
  <2>1. UNCHANGED <<tgt, cfgSet, prior, desired, intent, marker, reverted, edits>>
    BY <1>10 DEF Next, Engine, vars, store, faults, NoFault, IOError, Checked, AcquireLease,
       ScanPending, RecoverNext, SkipRemaining, CloseRun, BeginExecute, CommitAction,
       VerifyAction, Validate, MarkFails, UndoAction, FinishUndo, SelectRevert, RevertNext, Crash
  <2> QED
    BY <2>1, PendingUnchanged, ActiveUnchanged, HistoryFrame
<1> QED
  BY <1>1, <1>2, <1>3, <1>4, <1>5, <1>6, <1>7, <1>8, <1>9, <1>10

(* As long as nobody else writes, every set at rest is explained by the newest  *)
(* transaction in force on it, or is as it was before the first run, through    *)
(* any number of restores, rollbacks, recoveries and reverts.                   *)
THEOREM HistoryExplainsContentCorrect == Spec => []HistoryExplainsContent
<1>1. Init => HistoryKnown
  BY DEF Init, HistoryKnown, Explained, ActiveOn, ActiveTx, Active, PendingTx, Pending
<1>2. TypeOK /\ SessionInvariant /\ EntriesKnown /\ JournalInvariant /\ HistoryKnown
        /\ [Next]_vars => HistoryKnown'
  BY HistoryStep
<1>3. HistoryKnown => HistoryExplainsContent
  BY DEF HistoryKnown, Explained, HistoryExplainsContent
<1> QED
  BY <1>1, <1>2, <1>3, SessionCorrect, JournalCorrect, PTL DEF Spec

-----------------------------------------------------------------------------
(* A step that leaves the journal alone is invisible to a reader who honours it, *)
(* if every set that is not pending keeps its content.                          *)
LEMMA InvisibleStep ==
  ASSUME TypeOK, UNCHANGED <<intent, marker>>,
         \A t \in intent : cfgSet'[t] = cfgSet[t] /\ prior'[t] = prior[t],
         \A s \in Sets : PendingOn(s) = {} => tgt'[s] = tgt[s]
  PROVE  UNCHANGED Atomic!vars
<1>1. \A s \in Sets : PendingOn(s)' = PendingOn(s) /\ PendingOn(s) \subseteq intent
  BY PendingUnchanged DEF PendingOn, PendingTx, Pending
<1>2. \A s \in Sets : PendingOn(s) # {} => (CHOOSE t \in PendingOn(s) : TRUE) \in intent
  BY <1>1
<1>3. \A s \in Sets : ConfigOf(s)' = ConfigOf(s)
  BY <1>1, <1>2 DEF ConfigOf
<1>4. \A t \in TxIds : OutcomeOf(t)' = OutcomeOf(t)
  BY DEF OutcomeOf
<1> QED
  BY <1>3, <1>4 DEF Atomic!vars

(* Publishing an intent begins the abstract transaction.                        *)
LEMMA IntentBegins ==
  ASSUME TypeOK, SessionInvariant, JournalInvariant, edits = 0, PersistIntent,
         intent' = intent \cup {cur}
  PROVE  Atomic!Begin(cur, cfgSet[cur])
<1>1. /\ cur \in TxIds \ intent /\ cfgSet[cur] \in Sets /\ PendingTx = {}
      /\ UNCHANGED <<tgt, cfgSet, prior, marker>> /\ pc = "intent" /\ marker[cur] = "none"
  BY IntentOpens DEF PersistIntent, JournalInvariant, MarkersKnown
<1>2. tgt[cfgSet[cur]] = prior[cur]
  <2>1. \A a \in Actions, e \in Entries : SlotHolds(cur, a, e, prior[cur])
    BY <1>1 DEF JournalInvariant, TargetsKnown, TouchedKnown, Working
  <2> QED
    BY <1>1, <2>1, ExactContent DEF TypeOK, StoreTyped
<1>3. PendingTx' = {cur}
  BY <1>1 DEF PendingTx, Pending
<1>4. \A u \in TxIds : OutcomeOf(u) # "open"
  BY <1>1 DEF OutcomeOf, PendingTx, Pending, TypeOK, StoreTyped, Markers
<1>5. OutcomeOf(cur) = "none"
  BY <1>1 DEF OutcomeOf
<1>6. [t \in TxIds |-> OutcomeOf(t)]' =
        [[t \in TxIds |-> OutcomeOf(t)] EXCEPT ![cur] = "open"]
  BY <1>1 DEF OutcomeOf
<1>7. [t \in TxIds |-> IF t \in intent THEN cfgSet[t] ELSE 0]' =
        [[t \in TxIds |-> IF t \in intent THEN cfgSet[t] ELSE 0] EXCEPT ![cur] = cfgSet[cur]]
  BY <1>1
<1>8. \A s \in Sets : ConfigOf(s)' = ConfigOf(s)
  <2>1. \A s \in Sets : PendingOn(s) = {}
    BY <1>1 DEF PendingOn
  <2>2. \A s \in Sets : PendingOn(s)' = IF s = cfgSet[cur] THEN {cur} ELSE {}
    BY <1>1, <1>3 DEF PendingOn
  <2> QED
    BY <1>1, <1>2, <2>1, <2>2 DEF ConfigOf
<1> QED
  BY <1>1, <1>4, <1>5, <1>6, <1>7, <1>8 DEF Atomic!Begin

(* Publishing a terminal record ends the abstract transaction: the set becomes  *)
(* what was captured, or has never changed.                                     *)
LEMMA RecordEnds ==
  ASSUME TypeOK, SessionInvariant, JournalInvariant, RestoreOnly, edits = 0,
         pc = "mark", want # "none", marker' = [marker EXCEPT ![cur] = Terminal],
         UNCHANGED <<tgt, cfgSet, prior, desired, intent>>
  PROVE  /\ cur \in TxIds
         /\ \/ desired[cur] \in Payloads /\ Atomic!Commit(cur, desired[cur])
            \/ Atomic!Abort(cur)
<1> USE DEF SessionInvariant, JournalInvariant
<1>1. /\ cur \in TxIds /\ cur \in intent /\ cfgSet[cur] \in Sets /\ marker[cur] = "none"
  BY DEF RootsKnown, PendingKnown, MarkersKnown, Working, Reverting, TypeOK, StoreTyped
<1>2. PendingTx = {cur} /\ PendingTx' = {}
  BY <1>1, MarkCloses DEF PendingKnown, PendingTx, Pending, Working
<1>3. \A s \in Sets : PendingOn(s) = IF s = cfgSet[cur] THEN {cur} ELSE {}
  BY <1>2 DEF PendingOn
<1>4. \A s \in Sets : PendingOn(s)' = {}
  BY <1>2 DEF PendingOn
<1>5. \A s \in Sets : ConfigOf(s) = IF s = cfgSet[cur] THEN prior[cur] ELSE tgt[s]
  BY <1>3 DEF ConfigOf
<1>6. \A s \in Sets : ConfigOf(s)' = tgt[s]
  BY <1>4 DEF ConfigOf
<1>7. [t \in TxIds |-> OutcomeOf(t)]' = [[t \in TxIds |-> OutcomeOf(t)] EXCEPT ![cur] = Terminal]
  BY <1>1 DEF OutcomeOf, Terminal, TypeOK, StoreTyped
<1>8. OutcomeOf(cur) = "open"
  BY <1>1 DEF OutcomeOf
<1>9. tgt[cfgSet[cur]] = IF want = "committed" THEN desired[cur] ELSE prior[cur]
  <2>1. CASE want = "committed"
    <3>1. \A a \in Actions : a < act
      BY <2>1, SizesAreNaturals DEF TouchedKnown, Actions
    <3>2. \A a \in Actions, e \in Entries : SlotHolds(cur, a, e, desired[cur])
      BY <2>1, <3>1 DEF TargetsKnown, Written
    <3> QED
      BY <1>1, <2>1, <3>2, ExactContent DEF TypeOK, StoreTyped
  <2>2. CASE want # "committed"
    <3>1. \A a \in Actions, e \in Entries : SlotHolds(cur, a, e, prior[cur])
      BY <2>2 DEF TargetsKnown, TouchedKnown, TypeOK, SessionTyped, Wants
    <3> QED
      BY <1>1, <2>2, <3>1, ExactContent DEF TypeOK, StoreTyped
  <2> QED
    BY <2>1, <2>2
<1>10. CASE want = "committed"
  <2>1. [s \in Sets |-> ConfigOf(s)]' =
          [[s \in Sets |-> ConfigOf(s)] EXCEPT ![cfgSet[cur]] = desired[cur]]
    BY <1>1, <1>5, <1>6, <1>9, <1>10
  <2>2. Atomic!Commit(cur, desired[cur])
    BY <1>1, <1>7, <1>8, <1>10, <2>1 DEF Atomic!Commit, Terminal
  <2> QED
    BY <1>1, <2>2 DEF RestoreOnly
<1>11. CASE want # "committed"
  <2>1. \A s \in Sets : ConfigOf(s)' = ConfigOf(s)
    BY <1>5, <1>6, <1>9, <1>11
  <2> QED
    BY <1>1, <1>7, <1>8, <1>11, <2>1 DEF Atomic!Abort, Terminal
<1> QED
  BY <1>10, <1>11


(* Without the revert command no session reverts. *)
LEMMA RestoreOnlyStep ==
  ASSUME TypeOK, SessionInvariant, RestoreOnly, [Next]_vars, "revert" \notin Commands
  PROVE  RestoreOnly'
<1>1. CASE AcquireLease
  BY <1>1 DEF AcquireLease, Goto, store, RestoreOnly, TypeOK, SessionTyped
<1>2. CASE ScanPending
  BY <1>2 DEF ScanPending, Release, session, Goto, RestoreOnly, TypeOK, SessionTyped
<1>3. CASE RecoverNext
  BY <1>3 DEF RecoverNext, BeginUndo, Goto, store, RestoreOnly, TypeOK, SessionTyped
<1>4. CASE PlanRun
  BY <1>4 DEF PlanRun, Goto, RestoreOnly, TypeOK, SessionTyped
<1>5. CASE PrepareSet
  <2>1. Oldest(todo) \in TxIds
    BY <1>5, OldestTx DEF PrepareSet, TypeOK, SessionTyped
  <2>2. \A t \in TxIds : desired'[t] = desired[t] \/ desired'[t] \in Payloads
    BY <1>5, <2>1 DEF PrepareSet, TypeOK, StoreTyped
  <2>3. pc' = "intent" => desired'[cur'] \in Payloads
    BY <1>5, <2>1 DEF PrepareSet, Finish, AfterSet, Goto, TypeOK, StoreTyped
  <2>4. intent' = intent /\ intent \subseteq TxIds
    BY <1>5 DEF PrepareSet, TypeOK, StoreTyped
  <2>5. pc' \notin {"revertNext", "markReverted"} /\ mode' # "revert"
    BY <1>5 DEF PrepareSet, Finish, AfterSet, Goto, RestoreOnly
  <2> QED
    BY <2>2, <2>3, <2>4, <2>5 DEF RestoreOnly
<1>6. CASE SkipRemaining
  BY <1>6 DEF SkipRemaining, store, RestoreOnly, TypeOK, SessionTyped
<1>7. CASE CloseRun
  BY <1>7 DEF CloseRun, Release, RestoreOnly, TypeOK, SessionTyped
<1>8. CASE PersistIntent
  BY <1>8 DEF PersistIntent, Goto, RestoreOnly, TypeOK, SessionTyped
<1>9. CASE BeginExecute
  BY <1>9 DEF BeginExecute, FailTransaction, BeginUndo, Finish, AfterSet, Goto, store,
     RestoreOnly, TypeOK, SessionTyped
<1>10. CASE CommitAction
  BY <1>10 DEF CommitAction, FailTransaction, BeginUndo, Goto, store, RestoreOnly, TypeOK,
     SessionTyped
<1>11. CASE WriteEntry
  BY <1>11 DEF WriteEntry, FailTransaction, BeginUndo, Goto, store, RestoreOnly, TypeOK,
     SessionTyped
<1>12. CASE VerifyAction
  BY <1>12 DEF VerifyAction, FailTransaction, BeginUndo, Goto, store, RestoreOnly, TypeOK,
     SessionTyped
<1>13. CASE Validate
  BY <1>13 DEF Validate, FailTransaction, BeginUndo, Goto, store, RestoreOnly, TypeOK,
     SessionTyped
<1>14. CASE MarkDurable
  BY <1>14 DEF MarkDurable, Finish, AfterSet, Goto, RestoreOnly, TypeOK, SessionTyped
<1>15. CASE MarkFails
  BY <1>15 DEF MarkFails, AfterMarkFailure, FailTransaction, BeginUndo, Finish, AfterSet,
     Release, Goto, store, RestoreOnly, TypeOK, SessionTyped
<1>16. CASE MarkAmbiguous
  BY <1>16 DEF MarkAmbiguous, AfterMarkFailure, FailTransaction, BeginUndo, Finish, AfterSet,
     Release, Goto, RestoreOnly, TypeOK, SessionTyped
<1>17. CASE UndoAction
  BY <1>17 DEF UndoAction, Goto, store, RestoreOnly, TypeOK, SessionTyped
<1>18. CASE RestoreEntry
  BY <1>18 DEF RestoreEntry, Goto, store, RestoreOnly, TypeOK, SessionTyped
<1>19. CASE FinishUndo
  BY <1>19 DEF FinishUndo, Finish, AfterSet, Release, Goto, store, RestoreOnly, TypeOK,
     SessionTyped
<1>20. CASE SelectRevert
  BY <1>20 DEF SelectRevert, Release, Goto, store, RestoreOnly, TypeOK, SessionTyped
<1>21. CASE RevertNext
  BY <1>21 DEF RevertNext, BeginUndo, Release, Goto, store, RestoreOnly, TypeOK, SessionTyped
<1>22. CASE MarkReverted
  BY <1>22 DEF MarkReverted, Release, Goto, RestoreOnly, TypeOK, SessionTyped
<1>23. CASE Crash
  BY <1>23 DEF Crash, Release, store, RestoreOnly, TypeOK, SessionTyped
<1>24. CASE EditTarget
  BY <1>24 DEF EditTarget, session, store, RestoreOnly, TypeOK, SessionTyped
<1>25. CASE UNCHANGED vars
  BY <1>25 DEF vars, store, session, faults, RestoreOnly, TypeOK, SessionTyped
<1> QED
  BY <1>1, <1>2, <1>3, <1>4, <1>5, <1>6, <1>7, <1>8, <1>9, <1>10, <1>11, <1>12, <1>13, <1>14,
     <1>15, <1>16, <1>17, <1>18, <1>19, <1>20, <1>21, <1>22, <1>23, <1>24, <1>25 DEF Next,
     Engine

(* If nobody else writes to the targets and nothing is reverted, the engine     *)
(* implements AtomicRestore: every transaction replaces its set in one step or  *)
(* not at all, for a reader who takes the recorded prior state of a set while   *)
(* its transaction is open (loadTransactionState, recoverOne), through any      *)
(* number of deaths, failing calls and ambiguous publications.                  *)
THEOREM AtomicRestoreImplemented ==
  ASSUME MaxEdits = 0, "revert" \notin Commands
  PROVE  Spec => ImplementsAtomicRestore
<1>1. Init => Atomic!Init
  <2> SUFFICES ASSUME Init PROVE Atomic!Init
    OBVIOUS
  <2>1. \A s \in Sets : ConfigOf(s) = Initial
    BY DEF Init, ConfigOf, PendingOn, PendingTx, Pending
  <2>2. \A t \in TxIds : OutcomeOf(t) = "none"
    BY DEF Init, OutcomeOf
  <2> QED
    BY <2>1, <2>2 DEF Init, Atomic!Init
<1>2. Init => RestoreOnly
  BY DEF Init, RestoreOnly
<1>3. TypeOK /\ SessionInvariant /\ RestoreOnly /\ [Next]_vars => RestoreOnly'
  BY RestoreOnlyStep
<1>4. ASSUME TypeOK, SessionInvariant, EntriesKnown, JournalInvariant, RestoreOnly, [Next]_vars
      PROVE  [Atomic!Next]_(Atomic!vars)
  <2>1. edits = 0 /\ ~EditTarget
    BY <1>4 DEF TypeOK, OutcomeTyped, EditTarget
  <2>2. CASE PersistIntent
    <3>1. CASE intent' = intent
      BY <1>4, <2>2, <3>1, InvisibleStep DEF PersistIntent
    <3>2. CASE intent' = intent \cup {cur}
      <4>1. cur \in TxIds /\ cfgSet[cur] \in Sets
        BY <1>4, <2>2, IntentOpens
      <4>2. Atomic!Begin(cur, cfgSet[cur])
        BY <1>4, <2>1, <2>2, <3>2, IntentBegins
      <4>3. \E t \in TxIds, s \in Sets : Atomic!Begin(t, s)
        BY <4>1, <4>2 DEF Atomic!Begin
      <4> QED
        BY <4>3 DEF Atomic!Next
    <3> QED
      BY <2>2, <3>1, <3>2 DEF PersistIntent
  <2>3. CASE MarkDurable
    <3>1. /\ pc = "mark" /\ want # "none" /\ marker' = [marker EXCEPT ![cur] = Terminal]
          /\ UNCHANGED <<tgt, cfgSet, prior, desired, intent>>
      BY <2>3 DEF MarkDurable
    <3> QED
      BY <1>4, <2>1, <3>1, RecordEnds DEF Atomic!Next
  <2>4. CASE MarkAmbiguous
    <3>1. /\ pc = "mark" /\ want # "none"
          /\ marker' \in {marker, [marker EXCEPT ![cur] = Terminal]}
          /\ UNCHANGED <<tgt, cfgSet, prior, desired, intent>>
      BY <2>4 DEF MarkAmbiguous, AfterMarkFailure
    <3>2. CASE marker' = marker
      BY <1>4, <3>1, <3>2, InvisibleStep
    <3>3. CASE marker' = [marker EXCEPT ![cur] = Terminal]
      BY <1>4, <2>1, <3>1, <3>3, RecordEnds DEF Atomic!Next
    <3> QED
      BY <3>1, <3>2, <3>3
  <2>5. CASE WriteEntry \/ RestoreEntry
    <3>1. /\ UNCHANGED <<intent, marker, cfgSet, prior>>
          /\ pc \in {"write", "restoreEntry"}
          /\ \/ UNCHANGED tgt
             \/ SetSlot(Oldest(left), desired[cur])
             \/ SetSlot(RestoreOrder(left), prior[cur])
      BY <2>5 DEF WriteEntry, RestoreEntry, store
    <3>2. Oldest(left) \in Entries /\ RestoreOrder(left) \in Entries
      BY <1>4, <3>1, OldestEntry, RestoreOrderIn DEF EntriesKnown, TypeOK, SessionTyped
    <3>3. cfgSet[cur] \in Sets /\ act \in Actions
      BY <1>4, <3>1 DEF SessionInvariant, RootsKnown, IndexKnown, Working
    <3>4. \A s \in Sets : s # cfgSet[cur] => tgt'[s] = tgt[s]
      BY <1>4, <3>1, <3>2, <3>3, SetSlotEffect
    <3>5. cur \in PendingOn(cfgSet[cur])
      BY <1>4, <3>1 DEF PendingOn, PendingTx, Pending, RestoreOnly, Reverting, SessionInvariant,
         PendingKnown, JournalInvariant, MarkersKnown, Working, TypeOK, StoreTyped
    <3> QED
      BY <1>4, <3>1, <3>4, <3>5, InvisibleStep
  <2>6. CASE PlanRun
    <3>1. /\ UNCHANGED <<tgt, prior, intent, marker>>
          /\ \A t \in TxIds : t < nextTx => cfgSet'[t] = cfgSet[t]
      BY <1>4, <2>6, SizesAreNaturals DEF PlanRun, TypeOK, StoreTyped, TxIds
    <3>2. \A t \in intent : t \in TxIds /\ t < nextTx
      BY <1>4, SizesAreNaturals DEF SessionInvariant, RootsKnown, JournalKept, JournalInvariant,
         OrderKnown, TypeOK, StoreTyped
    <3> QED
      BY <1>4, <3>1, <3>2, InvisibleStep
  <2>7. CASE PrepareSet
    <3>1. Oldest(todo) \in todo /\ \A u \in intent, t \in todo : u < t
      BY <1>4, <2>7, OldestTx DEF PrepareSet, JournalInvariant, OrderKnown, Working, Reverting,
         TypeOK, SessionTyped, TxIds
    <3>2. \A t \in todo : t \in Int
      BY <1>4, SizesAreNaturals DEF TypeOK, SessionTyped, TxIds
    <3>3. Oldest(todo) \notin intent
      BY <3>1, <3>2
    <3>4. UNCHANGED <<tgt, cfgSet, intent, marker>> /\ \A t \in intent : prior'[t] = prior[t]
      BY <1>4, <2>7, <3>3 DEF PrepareSet, TypeOK, StoreTyped
    <3> QED
      BY <1>4, <3>4, InvisibleStep
  <2>8. CASE ~(PersistIntent \/ MarkDurable \/ MarkAmbiguous \/ WriteEntry \/ RestoreEntry
               \/ PlanRun \/ PrepareSet)
    <3>1. ~MarkReverted
      BY <1>4 DEF MarkReverted, RestoreOnly
    <3>2. UNCHANGED <<tgt, cfgSet, prior, intent, marker>>
      BY <1>4, <2>1, <2>8, <3>1 DEF Next, Engine, vars, store, AcquireLease, ScanPending,
         RecoverNext, SkipRemaining, CloseRun, BeginExecute, CommitAction, VerifyAction, Validate,
         MarkFails, UndoAction, FinishUndo, SelectRevert, RevertNext, Crash
    <3> QED
      BY <1>4, <3>2, InvisibleStep
  <2> QED
    BY <2>2, <2>3, <2>4, <2>5, <2>6, <2>7, <2>8
<1>5. TypeOK /\ SessionInvariant /\ EntriesKnown /\ JournalInvariant /\ RestoreOnly /\ [Next]_vars
        => [Atomic!Next]_(Atomic!vars)
  BY <1>4
<1> QED
  BY <1>1, <1>2, <1>3, <1>5, SessionCorrect, JournalCorrect, PTL
     DEF Spec, ImplementsAtomicRestore, Atomic!Spec

-----------------------------------------------------------------------------
(* The publication of a terminal record (JournalPublication), for any number *)
(* of failing calls and deaths.                                              *)

(* A publication starts typed.                                                  *)
LEMMA PublicationTypeInit == PublicationInit => PublicationTypeOK
BY BoundsAreNaturals DEF PublicationInit, PublicationTypeOK, Records, PublicationSteps

(* No link, sync, removal, death or recovery leads out of the typed states.     *)
LEMMA PublicationTypeStep ==
  ASSUME PublicationTypeOK, [PublicationNext]_publication
  PROVE  PublicationTypeOK'
<1> USE BoundsAreNaturals DEF PublicationTypeOK, Records, PublicationSteps, CallFails, CallWorks
<1>1. CASE ReadExisting
  BY <1>1 DEF ReadExisting, FailClean, ReportOutcome
<1>2. CASE LinkRecord
  BY <1>2 DEF LinkRecord
<1>3. CASE SyncRecord
  BY <1>3 DEF SyncRecord, SyncOk, SyncFails, Succeed, ReportOutcome
<1>4. CASE RemoveRecord
  BY <1>4 DEF RemoveRecord
<1>5. CASE SyncRemoval
  BY <1>5 DEF SyncRemoval, SyncOk, SyncFails, AfterRemove
<1>6. CASE MoveRecord
  BY <1>6 DEF MoveRecord, Succeed, ReportOutcome
<1>7. CASE CheckRecord
  BY <1>7 DEF CheckRecord, FailClean, FailAmbiguous, ReportOutcome
<1>8. CASE ReconcileRecord
  BY <1>8 DEF ReconcileRecord, SyncOk, SyncFails, Succeed, FailAmbiguous, ReportOutcome
<1>9. CASE RecoverRecord
  BY <1>9 DEF RecoverRecord
<1>10. CASE WriteBack
  BY <1>10 DEF WriteBack
<1>11. CASE \E kind \in {"kill", "power"} : PublisherDies(kind)
  BY <1>11 DEF PublisherDies
<1>12. CASE UNCHANGED publication
  BY <1>12 DEF publication
<1> QED
  BY <1>1, <1>2, <1>3, <1>4, <1>5, <1>6, <1>7, <1>8, <1>9, <1>10, <1>11, <1>12 DEF PublicationNext

(* The state of a publication is always one of the enumerated ones. *)
THEOREM PublicationTypeCorrect == PublicationSpec => []PublicationTypeOK
BY PublicationTypeInit, PublicationTypeStep, PTL DEF PublicationSpec

(* Nothing is published at first.                                               *)
LEMMA KnownInit == PublicationInit => PublicationKnown /\ NoCommitLeft
BY DEF PublicationInit, PublicationKnown, NoCommitLeft, Records

(* What persistMarker knows of the record at each of its steps is preserved.    *)
LEMMA KnownStep ==
  ASSUME PublicationTypeOK, PublicationKnown, [PublicationNext]_publication
  PROVE  PublicationKnown'
<1> USE DEF PublicationTypeOK, PublicationKnown, ToldIsDurable, Records, PublicationSteps
<1>1. CASE ReadExisting
  BY <1>1 DEF ReadExisting, FailClean, ReportOutcome
<1>2. CASE LinkRecord
  BY <1>2 DEF LinkRecord
<1>3. CASE SyncRecord
  BY <1>3 DEF SyncRecord, SyncOk, SyncFails, Succeed, ReportOutcome
<1>4. CASE RemoveRecord
  BY <1>4 DEF RemoveRecord
<1>5. CASE SyncRemoval
  BY <1>5 DEF SyncRemoval, SyncOk, SyncFails, AfterRemove
<1>6. CASE MoveRecord
  BY <1>6 DEF MoveRecord, Succeed, ReportOutcome
<1>7. CASE CheckRecord
  BY <1>7 DEF CheckRecord, FailClean, FailAmbiguous, ReportOutcome
<1>8. CASE ReconcileRecord
  BY <1>8 DEF ReconcileRecord, SyncOk, SyncFails, Succeed, FailAmbiguous, ReportOutcome
<1>9. CASE RecoverRecord
  BY <1>9 DEF RecoverRecord
<1>10. CASE WriteBack
  BY <1>10 DEF WriteBack
<1>11. CASE \E kind \in {"kill", "power"} : PublisherDies(kind)
  BY <1>11 DEF PublisherDies
<1>12. CASE UNCHANGED publication
  BY <1>12 DEF publication
<1> QED
  BY <1>1, <1>2, <1>3, <1>4, <1>5, <1>6, <1>7, <1>8, <1>9, <1>10, <1>11, <1>12 DEF PublicationNext

(* Once the run has been told that nothing was published, no committed record   *)
(* comes back.                                                                  *)
LEMMA NoCommitStep ==
  ASSUME PublicationTypeOK, PublicationKnown, NoCommitLeft, [PublicationNext]_publication
  PROVE  NoCommitLeft'
<1> USE DEF PublicationTypeOK, PublicationKnown, NoCommitLeft, Records, PublicationSteps
<1>1. CASE ReadExisting
  BY <1>1 DEF ReadExisting, FailClean, ReportOutcome
<1>2. CASE LinkRecord
  BY <1>2 DEF LinkRecord
<1>3. CASE SyncRecord
  BY <1>3 DEF SyncRecord, SyncOk, SyncFails, Succeed, ReportOutcome
<1>4. CASE RemoveRecord
  BY <1>4 DEF RemoveRecord
<1>5. CASE SyncRemoval
  BY <1>5 DEF SyncRemoval, SyncOk, SyncFails, AfterRemove
<1>6. CASE MoveRecord
  BY <1>6 DEF MoveRecord, Succeed, ReportOutcome
<1>7. CASE CheckRecord
  BY <1>7 DEF CheckRecord, FailClean, FailAmbiguous, ReportOutcome
<1>8. CASE ReconcileRecord
  BY <1>8 DEF ReconcileRecord, SyncOk, SyncFails, Succeed, FailAmbiguous, ReportOutcome
<1>9. CASE RecoverRecord
  BY <1>9 DEF RecoverRecord
<1>10. CASE WriteBack
  BY <1>10 DEF WriteBack
<1>11. CASE \E kind \in {"kill", "power"} : PublisherDies(kind)
  BY <1>11 DEF PublisherDies
<1>12. CASE UNCHANGED publication
  BY <1>12 DEF publication
<1> QED
  BY <1>1, <1>2, <1>3, <1>4, <1>5, <1>6, <1>7, <1>8, <1>9, <1>10, <1>11, <1>12 DEF PublicationNext

(* The two strengthenings hold in every reachable state.                        *)
LEMMA KnownCorrect == PublicationSpec => [](PublicationTypeOK /\ PublicationKnown /\ NoCommitLeft)
BY PublicationTypeInit, PublicationTypeStep, KnownInit, KnownStep, NoCommitStep, PTL
   DEF PublicationSpec

(* What persistMarker reports as recorded is on disk and survives every death. *)
THEOREM ToldIsDurableCorrect == PublicationSpec => []ToldIsDurable
<1>1. PublicationKnown => ToldIsDurable
  BY DEF PublicationKnown, ToldIsDurable
<1> QED
  BY <1>1, KnownCorrect, PTL

(* finishFailure puts targets back only when no committed record is left,      *)
(* neither in the directory nor on disk.                                       *)
THEOREM RollbackOnlyWithoutCommitCorrect == PublicationSpec => RollbackOnlyWithoutCommit
<1>1. ASSUME PublicationTypeOK, PublicationKnown, NoCommitLeft, [PublicationNext]_publication,
             target = "desired", target' = "prior", pubStep # "idle"
      PROVE  seen' # "committed" /\ disk' # "committed"
  <2>1. CASE ReadExisting
    BY <1>1, <2>1 DEF ReadExisting, FailClean, ReportOutcome, NoCommitLeft, PublicationKnown,
       Records, PublicationTypeOK
  <2>2. CASE CheckRecord
    BY <1>1, <2>2 DEF CheckRecord, FailClean, FailAmbiguous, ReportOutcome, NoCommitLeft,
       PublicationKnown, Records
  <2>3. CASE ~ReadExisting /\ ~CheckRecord
    BY <1>1, <2>3 DEF PublicationNext, LinkRecord, SyncRecord, RemoveRecord, SyncRemoval, MoveRecord,
       ReconcileRecord,
       Succeed, FailAmbiguous, ReportOutcome, RecoverRecord, WriteBack, PublisherDies, publication
  <2> QED
    BY <2>1, <2>2, <2>3
<1>2. PublicationTypeOK /\ PublicationKnown /\ NoCommitLeft /\ [PublicationNext]_publication =>
        [target = "desired" /\ target' = "prior" /\ pubStep # "idle" =>
           seen' # "committed" /\ disk' # "committed"]_publication
  BY <1>1
<1> QED
  BY <1>2, KnownCorrect, PTL DEF PublicationSpec, RollbackOnlyWithoutCommit

(* Without a loss of power, the record that is seen and the one being published *)
(* keep agreeing with the targets.                                              *)
LEMMA RecordMatchStep ==
  ASSUME "power" \notin PubDeaths, PublicationTypeOK, PublicationKnown, NoCommitLeft,
         RecordMatchesTarget, WantMatchesTarget, [PublicationNext]_publication
  PROVE  RecordMatchesTarget' /\ WantMatchesTarget'
<1> USE DEF PublicationTypeOK, PublicationKnown, NoCommitLeft, RecordMatchesTarget, WantMatchesTarget,
Records, PublicationSteps
<1>1. CASE ReadExisting
  BY <1>1 DEF ReadExisting, FailClean, ReportOutcome
<1>2. CASE LinkRecord
  BY <1>2 DEF LinkRecord
<1>3. CASE SyncRecord
  BY <1>3 DEF SyncRecord, SyncOk, SyncFails, Succeed, ReportOutcome
<1>4. CASE RemoveRecord
  BY <1>4 DEF RemoveRecord
<1>5. CASE SyncRemoval
  BY <1>5 DEF SyncRemoval, SyncOk, SyncFails, AfterRemove
<1>6. CASE MoveRecord
  BY <1>6 DEF MoveRecord, Succeed, ReportOutcome
<1>7. CASE CheckRecord
  BY <1>7 DEF CheckRecord, FailClean, FailAmbiguous, ReportOutcome
<1>8. CASE ReconcileRecord
  BY <1>8 DEF ReconcileRecord, SyncOk, SyncFails, Succeed, FailAmbiguous, ReportOutcome
<1>9. CASE RecoverRecord
  BY <1>9 DEF RecoverRecord
<1>10. CASE WriteBack
  BY <1>10 DEF WriteBack
<1>11. CASE \E kind \in {"kill", "power"} : PublisherDies(kind)
  BY <1>11 DEF PublisherDies
<1>12. CASE UNCHANGED publication
  BY <1>12 DEF publication
<1> QED
  BY <1>1, <1>2, <1>3, <1>4, <1>5, <1>6, <1>7, <1>8, <1>9, <1>10, <1>11, <1>12 DEF PublicationNext

(* As long as only processes die, the record that is seen describes the targets. *)
THEOREM RecordMatchesTargetCorrect ==
  ASSUME "power" \notin PubDeaths
  PROVE  PublicationSpec => []RecordMatchesTarget
<1>1. PublicationInit => RecordMatchesTarget /\ WantMatchesTarget
  BY DEF PublicationInit, RecordMatchesTarget, WantMatchesTarget
<1>2. PublicationTypeOK /\ PublicationKnown /\ NoCommitLeft /\ RecordMatchesTarget
        /\ WantMatchesTarget /\ [PublicationNext]_publication
        => RecordMatchesTarget' /\ WantMatchesTarget'
  BY RecordMatchStep
<1> QED
  BY <1>1, <1>2, KnownCorrect, PTL DEF PublicationSpec
=============================================================================
