------------------------ MODULE LegacyRestoreProofs ------------------------
(***************************************************************************)
(* Proofs about the restore of legacy entries and its durable revert, for  *)
(* every set of profiles, content of the targets, number of runs, deaths,  *)
(* failing calls and edits.                                                *)
(*                                                                         *)
(* Invariant has one section for each of its parts.  BackupsKnown and      *)
(* SessionKnown say that the backups a journal names are there and where a *)
(* command is; PlansKnown that all plans are made before anything is       *)
(* undone, and entries are undone from the last to the first; SwapKnown    *)
(* what each step of a swap leaves in place for the next.  NothingLost     *)
(* rests on the last two.  ForeignKnown says that an entry whose plan does *)
(* not know what somebody wrote stands before the target, from which       *)
(* ForeignEditKept follows.  ChangesReported gives SuccessIsRevertible.    *)
(*                                                                         *)
(* The last section adds what RevertRestoresOriginal needs: the backups    *)
(* of a run are kept apart (PathsKnown), the first change of a run to a    *)
(* target keeps what the target held before it (RunningPriors and          *)
(* JournalPriors), it is the last to be undone (DoneUpward, PlanDesired),  *)
(* what is reverted is the newest run that can be (RevertsTop), and what   *)
(* one run gives back is what the next one below found (StackKnown).       *)
(***************************************************************************)
EXTENDS LegacyRestore, FiniteSetTheorems, WellFoundedInduction, TLAPS

-----------------------------------------------------------------------------
(* The operators. *)

\* The entry a restore is at is one of the profile.
LEMMA EntryTyped ==
  ASSUME TypeOK, NEW i \in Index
  PROVE  /\ Entries[i] \in Profile /\ Entries[i].target \in Targets /\ Entries[i].kind \in Kinds
         /\ Entries[i].items \in SUBSET Items /\ Entries[i].backup \in BOOLEAN
<1>1. profile \in Seq(Profile) /\ Len(profile) \in Nat
  BY EntriesAreTyped DEF TypeOK
<1>2. Entries[i] \in Profile
  BY <1>1 DEF Index, Entries
<1>3. Entries[i].items \in SUBSET Items
  BY <1>2 DEF Items
<1> QED
  BY <1>2, <1>3, EntriesAreTyped

\* Content stays content when pairs are laid over it.
LEMMA OverlayTyped ==
  ASSUME NEW c \in SUBSET Items, NEW d \in SUBSET Items
  PROVE  Overlay(c, d) \in SUBSET Items
BY DEF Overlay

\* The members of a target are items.
LEMMA MembersTyped ==
  ASSUME NEW c \in Contents
  PROVE  Members(c) \in SUBSET Items
BY DEF Members, Contents

\* Every strategy writes content.
LEMMA DesiredTyped ==
  ASSUME NEW e \in Profile, NEW c \in Contents
  PROVE  Desired(e, c) \in Contents
<1>1. e.items \in SUBSET Items /\ e.kind \in Kinds
  BY EntriesAreTyped DEF Items
<1>2. Members(c) \in SUBSET Items
  BY MembersTyped
<1>3. Overlay(Members(c), e.items) \in SUBSET Items
  BY <1>1, <1>2, OverlayTyped
<1>4. Members(c) \cup e.items \in SUBSET Items
  BY <1>1, <1>2
<1> QED
  BY <1>1, <1>3, <1>4 DEF Desired, DeepMerge, MergeIni, AppendMissing, CopyInto, ImportInto,
                          Kinds, Contents

\* A new backup has a path of its own kind.
LEMMA BackupPathTyped ==
  ASSUME TypeOK, run \in Runs, NEW e, e.target \in Targets
  PROVE  BackupPath(e) \in Runs \X Targets \X Nat /\ BackupPath(e) # NoBackup
<1>1. IsFiniteSet({p \in DOMAIN backups : p[1] = run /\ p[2] = e.target})
  BY FS_Subset DEF TypeOK, DiskTyped
<1>2. Cardinality({p \in DOMAIN backups : p[1] = run /\ p[2] = e.target}) \in Nat
  BY <1>1, FS_CardinalityType
<1>3. FreshBackup(e.target) \in Runs \X Targets \X Nat
  BY <1>2 DEF FreshBackup
<1>4. RegistrySetBackup(e.target) \in Runs \X Targets \X Nat
  BY DEF RegistrySetBackup
<1>5. FreshBackup(e.target) # NoBackup /\ RegistrySetBackup(e.target) # NoBackup
  BY DEF FreshBackup, RegistrySetBackup, NoBackup
<1> QED
  BY <1>3, <1>4, <1>5 DEF BackupPath

\* The values that stand for nothing are typed, and what somebody writes is
\* content.
LEMMA Constants == NoWork \in Works /\ NoPlan \in Plans /\ UserItems \in SUBSET Items
<1>1. UserItems \in SUBSET Items
  BY DEF Items
<1>2. NoWork \in Works
  BY DEF NoWork, Works, Paths, Contents
<1>3. NoPlan \in Plans
  BY DEF NoPlan, Plans, Paths, Contents
<1> QED
  BY <1>1, <1>2, <1>3

\* The newest of a non-empty set of runs is one of them and none is later.
LEMMA NewestIn ==
  ASSUME NEW S \in SUBSET Runs, S # {}
  PROVE  Newest(S) \in S /\ \A r \in S : r <= Newest(S)
<1> DEFINE D == {k \in Nat : MaxRuns - k \in S}
           R == {ss \in Nat \X Nat : ss[1] < ss[2]}
<1>1. IsWellFoundedOn(R, Nat)
  BY NatLessThanWellFounded, Zenon DEF OpToRel
<1>2. D # {}
  <2>1. PICK u \in S : TRUE
    OBVIOUS
  <2>2. MaxRuns - u \in Nat /\ MaxRuns - (MaxRuns - u) = u
    BY EntriesAreTyped DEF Runs
  <2> QED
    BY <2>1, <2>2
<1>3. PICK x \in D : \A y \in D : ~(<<y, x>> \in R)
  <2>1. D \in SUBSET Nat
    OBVIOUS
  <2> HIDE DEF R, D
  <2> QED
    BY <1>1, <1>2, <2>1, WFMin, Zenon
<1>4. \A y \in D : ~(y < x)
  BY <1>3
<1>5. ASSUME NEW u \in S
      PROVE  u \in Nat /\ MaxRuns - u \in D
  <2>1. u \in Nat /\ MaxRuns - u \in Nat /\ MaxRuns - (MaxRuns - u) = u
    BY EntriesAreTyped DEF Runs
  <2> QED
    BY <2>1
<1>6. MaxRuns - x \in S /\ \A u \in S : u <= MaxRuns - x
  <2>1. MaxRuns - x \in S /\ x \in Nat /\ MaxRuns \in Nat
    BY EntriesAreTyped
  <2>2. ASSUME NEW u \in S
        PROVE  u <= MaxRuns - x
    <3>1. u \in Nat /\ MaxRuns - u \in Nat /\ ~(MaxRuns - u < x)
      BY <1>4, <1>5
    <3> QED
      BY <2>1, <3>1
  <2> QED
    BY <2>1, <2>2
<1> QED
  BY <1>6 DEF Newest
-----------------------------------------------------------------------------
(* Types. *)

\* The end of an entry adds one result and goes on.
LEMMA EndEntryEffect ==
  ASSUME TypeOK, idx \in Index, UNCHANGED profile, Len(results) < idx,
         NEW s \in Statuses, EndEntry(s)
  PROVE  /\ SessionTyped'
         /\ Result(s) \in Results /\ results' = Append(results, Result(s))
         /\ Len(results') = Len(results) + 1
         /\ idx' \in 1..(Len(Entries) + 1) /\ idx' = idx + 1
         /\ pc' = "entry" /\ run' = run /\ nextRun' = nextRun /\ cur' = NoWork
<1>1. profile \in Seq(Profile) /\ Len(profile) \in Nat
  BY EntriesAreTyped DEF TypeOK
<1>2. Result(s) \in Results
  <2>1. Entry.target \in Targets /\ Entry.kind \in Kinds
    BY EntryTyped DEF Entry
  <2>2. cur.existed \in BOOLEAN /\ cur.backup \in Paths
    BY DEF TypeOK, SessionTyped, Works
  <2> QED
    BY <2>1, <2>2 DEF Result, Results
<1>3. results' \in Seq(Results) /\ Len(results') = Len(results) + 1
  BY <1>2 DEF EndEntry, TypeOK, SessionTyped
<1>4. idx' \in 1..(Len(Entries) + 1) /\ idx' = idx + 1
  BY <1>1 DEF EndEntry, Index, Entries
<1>5. Len(results') <= Len(Entries)
  BY <1>1, <1>3, <1>4 DEF Index, Entries, TypeOK, SessionTyped
<1> QED
  BY <1>1, <1>2, <1>3, <1>4, <1>5, Constants
  DEF EndEntry, TypeOK, SessionTyped, Entries, RestorePhases

\* Back at the prompt the session is empty.
LEMMA IdleTyped ==
  ASSUME TypeOK, ToIdle, nextRun' \in 1..(MaxRuns + 1), UNCHANGED profile
  PROVE  SessionTyped'
<1>1. profile \in Seq(Profile) /\ Len(profile) \in Nat
  BY EntriesAreTyped DEF TypeOK
<1>2. results' \in Seq(Results) /\ Len(results') = 0
  BY DEF ToIdle
<1> QED
  BY <1>1, <1>2, Constants, EntriesAreTyped DEF ToIdle, SessionTyped, Entries

\* The restore steps between the begin of a run and its journal.
RestoreWork ==
  \/ SkipBlocked \/ SourceMissing \/ EntryRefused \/ SkipUpToDate \/ TakeBackup
  \/ BackupFails \/ WriteTarget \/ WriteLocked \/ WriteFails \/ MakeDirectory
  \/ CopyMember \/ MemberLocked \/ CopyEnds \/ EndRestore

\* They leave the store of journals and the scratch files of reverts alone.
LEMMA RestoreWorkFrame ==
  ASSUME RestoreWork
  PROVE  /\ UNCHANGED <<journal, member, reverted, plan, done, stage, held, nextRun, crashes, edits, origin, foreign>>
         /\ pc \in {"entry", "write", "copying"}
         /\ (pc' \in {"entry", "write", "copying"} /\ run' = run) \/ pc' = "idle"
BY DEF RestoreWork, SkipBlocked, SourceMissing, EntryRefused, SkipUpToDate, TakeBackup,
       BackupFails, WriteTarget, WriteLocked, WriteFails, MakeDirectory, CopyMember, MemberLocked,
       CopyEnds, EndRestore, Runnable, EndEntry, ToIdle, SetLive, Goto, Err, disk, session, faults, ghosts
\* The counters only count.
LEMMA CounterStep ==
  ASSUME TypeOK, Next
  PROVE  crashes' \in Nat /\ errors' \in Nat /\ edits' \in Nat /\ edits' >= edits
<1>1. crashes \in Nat /\ errors \in Nat /\ edits \in Nat
  BY DEF TypeOK
<1>2. CASE RestoreNext
  <2>1. UNCHANGED <<crashes, edits>> /\ (UNCHANGED errors \/ errors' = errors + 1)
    BY <1>2 DEF RestoreNext, BeginRestore, SkipBlocked, SourceMissing, EntryRefused, SkipUpToDate, TakeBackup,
     BackupFails, WriteTarget, WriteLocked, WriteFails, MakeDirectory, CopyMember, MemberLocked,
     CopyEnds, EndRestore, PublishJournal, RegisterJournal, Err, faults
  <2> QED
    BY <1>1, <2>1
<1>3. CASE RevertNext
  BY <1>1, <1>3 DEF RevertNext, BeginRevert, RevertFails, PrepareEntry, PrepareEnds, PassOver,
     AlreadyUndone, UndoInPlace, BeginSwap, Refuses, StageFile, StageDirectory, StageMember,
     StageEnds, HoldTarget, ReplaceTarget, VerifyTarget, RemoveScratch, CompleteEntry,
     MarkReverted, RetireReverted, Err, faults
<1>4. CASE Crash \/ EditTarget
  BY <1>1, <1>4 DEF Crash, EditTarget
<1> QED
  BY <1>2, <1>3, <1>4 DEF Next

\* What is remembered of a run is set when the run begins and ends.
LEMMA GhostStep ==
  ASSUME Invariant, Next
  PROVE  /\ origin' \in [Runs -> [Targets -> Contents]]
         /\ told' \in [Runs -> {"none", "ok", "failed"}]
         /\ foreign' \subseteq Runs \X Targets
<1>1. /\ origin \in [Runs -> [Targets -> Contents]] /\ live \in [Targets -> Contents]
      /\ told \in [Runs -> {"none", "ok", "failed"}]
      /\ foreign \subseteq Runs \X Targets
  BY DEF Invariant, TypeOK, DiskTyped
<1>2. CASE UNCHANGED ghosts
  BY <1>1, <1>2 DEF ghosts
<1>3. CASE BeginRestore
  <2>1. origin' \in [Runs -> [Targets -> Contents]]
    BY <1>1, <1>3 DEF BeginRestore
  <2> QED
    BY <1>1, <1>3, <2>1 DEF BeginRestore
<1>4. CASE EndRestore \/ PublishJournal \/ RegisterJournal
  BY <1>1, <1>4 DEF EndRestore, PublishJournal, RegisterJournal, Tell
<1>5. CASE BeginRevert
  BY <1>1, <1>5 DEF BeginRevert
<1>6. CASE EditTarget
  <2>1. UNCHANGED <<origin, told>>
    BY <1>6 DEF EditTarget
  <2>2. foreign' \subseteq Runs \X Targets
    BY <1>1, <1>6 DEF EditTarget
  <2> QED
    BY <1>1, <2>1, <2>2
<1> QED
  BY <1>2, <1>3, <1>4, <1>5, <1>6
  DEF Next, RestoreNext, SkipBlocked, SourceMissing, EntryRefused, SkipUpToDate, TakeBackup,
     BackupFails, WriteTarget, WriteLocked, WriteFails, MakeDirectory, CopyMember, MemberLocked,
     CopyEnds, RevertNext, RevertFails, PrepareEntry, PrepareEnds, PassOver,
     AlreadyUndone, UndoInPlace, BeginSwap, Refuses, StageFile, StageDirectory, StageMember,
     StageEnds, HoldTarget, ReplaceTarget, VerifyTarget, RemoveScratch, CompleteEntry,
     MarkReverted, RetireReverted, Crash

\* Where a restore is in its profile.
LEMMA RestoreAt ==
  ASSUME Invariant, pc \in RestorePhases
  PROVE  /\ run \in Runs /\ run = nextRun - 1 /\ run \notin member
         /\ Len(results) < idx /\ Len(results) \in Nat /\ idx \in Nat
         /\ idx \in 1..(Len(Entries) + 1) /\ Len(Entries) \in Nat
         /\ pc # "register" => journal[run] = <<>>
         /\ pc \in {"write", "copying"} => idx \in Index
<1>1. profile \in Seq(Profile) /\ Len(profile) \in Nat /\ results \in Seq(Results)
  BY EntriesAreTyped DEF Invariant, TypeOK, SessionTyped
<1> QED
  BY <1>1 DEF Invariant, SessionKnown, RestorePhases, Entries

\* Where a revert is in its journal.
LEMMA RevertAt ==
  ASSUME Invariant, pc \in RevertPhases
  PROVE  /\ run \in Runs /\ run \in member /\ run \notin reverted
         /\ idx \in 0..Len(journal[run]) /\ Len(journal[run]) \in Nat
         /\ Len(journal[run]) <= MaxLen
         /\ idx > 0 => J \in Results /\ Job \in Jobs /\ idx \in DOMAIN journal[run]
<1>1. run \in Runs /\ run \in member /\ run \notin reverted /\ idx \in 0..Len(journal[run])
  BY DEF Invariant, SessionKnown, ActiveRuns, TypeOK, DiskTyped
<1>2. journal[run] \in Seq(Results) /\ Len(journal[run]) <= Len(profile)
  BY <1>1 DEF Invariant, TypeOK, DiskTyped, Entries
<1>3. profile \in Seq(Profile) /\ Len(profile) \in Nat /\ Len(profile) <= MaxLen /\ MaxLen \in Nat
  BY EntriesAreTyped DEF Invariant, TypeOK
<1>4. Len(journal[run]) \in Nat /\ Len(journal[run]) <= MaxLen
  BY <1>2, <1>3
<1>5. ASSUME idx > 0
      PROVE  J \in Results /\ Job \in Jobs /\ idx \in DOMAIN journal[run]
  <2>1. idx \in 1..Len(journal[run])
    BY <1>1, <1>4, <1>5
  <2> QED
    BY <1>1, <1>2, <1>3, <1>4, <2>1 DEF J, Job, Jobs
<1> QED
  BY <1>1, <1>4, <1>5

\* What is known while one entry is being swapped.
LEMMA SwapAt ==
  ASSUME Invariant, pc \in SwapPhases
  PROVE  /\ J \in Results /\ Job \in Jobs /\ idx \in DOMAIN journal[run] /\ idx > 0
         /\ Mutates(J) /\ Job \notin done /\ Prior \in Plans
         /\ J.target \in Targets /\ Now \in Contents
<1>1. idx > 0 /\ Mutates(J) /\ Job \notin done
  BY DEF Invariant, SessionKnown
<1>2. J \in Results /\ Job \in Jobs /\ idx \in DOMAIN journal[run]
  BY <1>1, RevertAt DEF RevertPhases, UndoPhases
<1>3. Prior \in Plans /\ J.target \in Targets
  BY <1>2 DEF Prior, Invariant, TypeOK, DiskTyped, Results
<1>4. Now \in Contents
  BY <1>3 DEF Now, Invariant, TypeOK, DiskTyped
<1> QED
  BY <1>1, <1>2, <1>3, <1>4
\* Writing a target keeps the disk typed.
LEMMA SetLiveTyped ==
  ASSUME TypeOK, UNCHANGED profile, NEW u, NEW c \in Contents, SetLive(u, c)
  PROVE  DiskTyped'
BY DEF TypeOK, DiskTyped, SetLive, Entries

\* A step of the session alone keeps the disk typed.
LEMMA DiskSame ==
  ASSUME TypeOK, UNCHANGED profile, UNCHANGED disk
  PROVE  DiskTyped'
BY DEF TypeOK, DiskTyped, disk, Entries

\* Retiring the work of runs keeps the rest of it.
LEMMA RetireTyped ==
  ASSUME TypeOK, NEW R, RetireWork(R)
  PROVE  plan' \in [Jobs -> Plans] /\ done' \subseteq Jobs
BY Constants DEF TypeOK, DiskTyped, RetireWork

\* A restore step keeps the disk and the session typed.
LEMMA RestoreTypeStep ==
  ASSUME Invariant, RestoreNext, UNCHANGED profile
  PROVE  DiskTyped' /\ SessionTyped'
<1>1. TypeOK /\ DiskTyped /\ SessionTyped /\ Len(Entries) \in Nat /\ UNCHANGED Entries
  <2>1. profile \in Seq(Profile) /\ Len(profile) \in Nat
    BY EntriesAreTyped DEF Invariant, TypeOK
  <2> QED
    BY <2>1 DEF Invariant, TypeOK, Entries
<1>2. CASE BeginRestore
  <2>1. plan' \in [Jobs -> Plans] /\ done' \subseteq Jobs
    BY <1>1, <1>2, RetireTyped DEF BeginRestore
  <2>2. DiskTyped'
    BY <1>1, <1>2, <2>1 DEF BeginRestore, DiskTyped
  <2>3. results' \in Seq(Results) /\ Len(results') = 0
    BY <1>2 DEF BeginRestore
  <2>4. SessionTyped'
    BY <1>1, <1>2, <2>3, Constants, EntriesAreTyped DEF BeginRestore, SessionTyped, RestorePhases
  <2> QED
    BY <2>2, <2>4
<1>3. CASE SkipBlocked
  <2>1. DiskTyped'
    BY <1>1, <1>3, DiskSame DEF SkipBlocked
  <2>2. Len(results) < idx /\ idx \in Index
    BY <1>3, RestoreAt DEF SkipBlocked, RestorePhases
  <2>3. CASE EndEntry("failed")
    BY <1>1, <2>1, <2>2, <2>3, EndEntryEffect DEF Statuses
  <2>4. CASE ~EndEntry("failed")
    <3>1. idx' = idx + 1 /\ UNCHANGED <<pc, run, cur, results, nextRun>>
      BY <1>3, <2>4 DEF SkipBlocked
    <3> QED
      BY <1>1, <2>1, <2>2, <3>1 DEF SessionTyped, Index
  <2> QED
    BY <2>3, <2>4
<1>4. ASSUME SourceMissing \/ EntryRefused \/ SkipUpToDate \/ BackupFails
      PROVE  DiskTyped' /\ SessionTyped'
  <2>1. UNCHANGED disk /\ Runnable /\ \E s \in Statuses : EndEntry(s)
    BY <1>4 DEF SourceMissing, EntryRefused, SkipUpToDate, BackupFails, Statuses
  <2>2. Len(results) < idx /\ idx \in Index
    BY <2>1, RestoreAt DEF Runnable, RestorePhases
  <2> QED
    BY <1>1, <2>1, <2>2, DiskSame, EndEntryEffect
<1>5. CASE TakeBackup
  <2> DEFINE c == live[Entry.target]
             path == IF WantsBackup(Entry, c) THEN BackupPath(Entry) ELSE NoBackup
  <2>1. run \in Runs /\ idx \in Index
    BY <1>5, RestoreAt DEF TakeBackup, Runnable, RestorePhases
  <2>2. Entry \in Profile /\ Entry.target \in Targets
    BY <1>1, <2>1, EntryTyped DEF Entry
  <2>3. c \in Contents /\ Desired(Entry, c) \in Contents
    BY <1>1, <2>2, DesiredTyped DEF DiskTyped
  <2>4. path = NoBackup \/ path \in Runs \X Targets \X Nat
    BY <1>1, <2>1, <2>2, BackupPathTyped
  <2>5. /\ cur' = [NoWork EXCEPT !.existed = (c # Absent), !.backup = path, !.want = Desired(Entry, c)]
        /\ backups' = IF path = NoBackup THEN backups
                      ELSE [p \in DOMAIN backups \cup {path} |-> IF p = path THEN c ELSE backups[p]]
        /\ pc' = "write"
        /\ UNCHANGED <<live, journal, member, reverted, plan, done, stage, held, run, idx, results, nextRun>>
    BY <1>5 DEF TakeBackup
  <2> HIDE DEF c, path
  <2>6. cur' \in Works
    BY <2>3, <2>4, <2>5 DEF NoWork, Works, Paths, Contents
  <2>7. /\ backups' \in [DOMAIN backups' -> Contents] /\ IsFiniteSet(DOMAIN backups')
        /\ DOMAIN backups' \subseteq Runs \X Targets \X Nat
    <3>1. CASE path = NoBackup
      BY <1>1, <2>5, <3>1 DEF DiskTyped
    <3>2. CASE path # NoBackup
      <4>1. DOMAIN backups' = DOMAIN backups \cup {path}
        BY <2>5, <3>2
      <4>2. IsFiniteSet(DOMAIN backups \cup {path})
        BY <1>1, FS_AddElement DEF DiskTyped
      <4>3. backups' \in [DOMAIN backups \cup {path} -> Contents]
        BY <1>1, <2>3, <2>5, <3>2 DEF DiskTyped
      <4> QED
        BY <1>1, <2>4, <3>2, <4>1, <4>2, <4>3 DEF DiskTyped
    <3> QED
      BY <3>1, <3>2
  <2>8. DiskTyped'
    BY <1>1, <2>5, <2>7 DEF DiskTyped
  <2>9. SessionTyped'
    BY <1>1, <2>5, <2>6 DEF SessionTyped, RestorePhases
  <2> QED
    BY <2>8, <2>9
<1>6. ASSUME WriteTarget \/ WriteLocked \/ WriteFails
      PROVE  DiskTyped' /\ SessionTyped'
  <2>1. pc = "write" /\ \E s \in Statuses : EndEntry(s)
    BY <1>6 DEF WriteTarget, WriteLocked, WriteFails, Statuses
  <2>2. Len(results) < idx /\ idx \in Index
    BY <2>1, RestoreAt DEF RestorePhases
  <2>3. Entry.target \in Targets /\ live[Entry.target] \in Contents /\ cur.want \in Contents
    BY <1>1, <2>2, EntryTyped DEF Entry, DiskTyped, SessionTyped, Works
  <2>4. UNCHANGED disk \/ \E c \in Contents : SetLive(Entry.target, c)
    BY <1>6, <2>3 DEF WriteTarget, WriteLocked, WriteFails
  <2> QED
    BY <1>1, <2>1, <2>2, <2>4, DiskSame, SetLiveTyped, EndEntryEffect
<1>7. ASSUME MakeDirectory \/ CopyMember
      PROVE  DiskTyped' /\ SessionTyped'
  <2>1. idx \in Index
    BY <1>7, RestoreAt DEF MakeDirectory, CopyMember, RestorePhases
  <2>2. Entry.target \in Targets /\ Entry.items \in SUBSET Items /\ live[Entry.target] \in Contents
    BY <1>1, <2>1, EntryTyped DEF Entry, DiskTyped
  <2>3. Members(live[Entry.target]) \in SUBSET Items
    BY <2>2, MembersTyped
  <2>4. /\ \E c \in Contents : SetLive(Entry.target, c)
        /\ \E l \in SUBSET Items : cur' = [cur EXCEPT !.left = l]
    <3>1. CASE MakeDirectory
      BY <2>2, <2>3, <3>1 DEF MakeDirectory, Contents
    <3>2. CASE CopyMember
      <4>1. PICK m \in cur.left : /\ SetLive(Entry.target, Overlay(Members(live[Entry.target]), {m}))
                                  /\ cur' = [cur EXCEPT !.left = @ \ {m}]
        BY <3>2 DEF CopyMember
      <4>2. cur.left \in SUBSET Items
        BY <1>1 DEF SessionTyped, Works
      <4>3. Overlay(Members(live[Entry.target]), {m}) \in SUBSET Items
        BY <2>3, <4>2, OverlayTyped
      <4> QED
        BY <4>1, <4>2, <4>3 DEF Contents
    <3> QED
      BY <1>7, <3>1, <3>2
  <2>5. DiskTyped'
    BY <1>1, <2>4, SetLiveTyped
  <2>6. cur' \in Works
    BY <1>1, <2>4 DEF SessionTyped, Works
  <2> QED
    BY <1>1, <1>7, <2>5, <2>6 DEF MakeDirectory, CopyMember, SessionTyped, RestorePhases
<1>8. CASE MemberLocked
  <2>1. DiskTyped'
    BY <1>1, <1>8, DiskSame DEF MemberLocked
  <2>2. cur' \in Works
    BY <1>1, <1>8 DEF MemberLocked, SessionTyped, Works
  <2> QED
    BY <1>1, <1>8, <2>1, <2>2 DEF MemberLocked, SessionTyped
<1>9. CASE CopyEnds
  <2>1. UNCHANGED disk /\ pc = "copying" /\ \E s \in Statuses : EndEntry(s)
    BY <1>9 DEF CopyEnds, Statuses
  <2>2. Len(results) < idx /\ idx \in Index
    BY <2>1, RestoreAt DEF RestorePhases
  <2> QED
    BY <1>1, <2>1, <2>2, DiskSame, EndEntryEffect
<1>10. CASE EndRestore
  BY <1>1, <1>10, DiskSame, IdleTyped DEF EndRestore, SessionTyped
<1>11. CASE PublishJournal
  <2>1. journal' \in {journal, [journal EXCEPT ![run] = results]}
    BY <1>11 DEF PublishJournal
  <2>2. journal' \in [Runs -> Seq(Results)] /\ \A r \in Runs : Len(journal'[r]) <= Len(Entries)
    BY <1>1, <2>1 DEF DiskTyped, SessionTyped
  <2>3. DiskTyped'
    BY <1>1, <1>11, <2>2 DEF PublishJournal, DiskTyped
  <2>4. nextRun' = nextRun /\ ((pc' = "register" /\ UNCHANGED <<run, idx, cur, results>>) \/ ToIdle)
    BY <1>11 DEF PublishJournal
  <2>5. CASE pc' = "register" /\ UNCHANGED <<run, idx, cur, results>>
    BY <1>1, <2>3, <2>4, <2>5 DEF SessionTyped, RestorePhases
  <2>6. CASE ToIdle
    BY <1>1, <2>3, <2>4, <2>6, IdleTyped DEF SessionTyped
  <2> QED
    BY <2>4, <2>5, <2>6
<1>12. CASE RegisterJournal
  <2>1. run \in Runs
    BY <1>12, RestoreAt DEF RegisterJournal, RestorePhases
  <2>2. member' \subseteq Runs /\ reverted \subseteq member'
    BY <1>1, <1>12, <2>1 DEF RegisterJournal, DiskTyped
  <2>3. DiskTyped'
    BY <1>1, <1>12, <2>2 DEF RegisterJournal, DiskTyped
  <2> QED
    BY <1>1, <1>12, <2>3, IdleTyped DEF RegisterJournal, SessionTyped
<1> QED
  BY <1>2, <1>3, <1>4, <1>5, <1>6, <1>7, <1>8, <1>9, <1>10, <1>11, <1>12 DEF RestoreNext
\* Every entry of a journal is a job of its revert.
LEMMA JobOfEntry ==
  ASSUME TypeOK, NEW r \in Runs
  PROVE  /\ journal[r] \in Seq(Results) /\ Len(journal[r]) \in Nat
         /\ DOMAIN journal[r] = 1..Len(journal[r])
         /\ \A k \in DOMAIN journal[r] : k \in Nat /\ <<r, k>> \in Jobs /\ journal[r][k] \in Results
<1>1. journal[r] \in Seq(Results) /\ Len(journal[r]) <= Len(profile)
  BY DEF TypeOK, DiskTyped, Entries
<1>2. profile \in Seq(Profile) /\ Len(profile) \in Nat /\ Len(profile) <= MaxLen /\ MaxLen \in Nat
  BY EntriesAreTyped DEF TypeOK
<1>3. Len(journal[r]) \in Nat /\ Len(journal[r]) <= MaxLen /\ DOMAIN journal[r] = 1..Len(journal[r])
  BY <1>1, <1>2
<1> QED
  BY <1>1, <1>2, <1>3 DEF Jobs

\* The first of the later entries on a target is one of them.
LEMMA LaterHasFirst ==
  ASSUME TypeOK, NEW r \in Runs, NEW i \in DOMAIN journal[r], Later(r, i) # {}
  PROVE  First(Later(r, i)) \in Later(r, i)
<1>1. Later(r, i) \in SUBSET Nat
  BY JobOfEntry DEF Later
<1> DEFINE R == {ss \in Nat \X Nat : ss[1] < ss[2]}
           S == Later(r, i)
<1>2. IsWellFoundedOn(R, Nat)
  BY NatLessThanWellFounded, Zenon DEF OpToRel
<1>3. PICK x \in S : \A y \in S : ~(<<y, x>> \in R)
  <2> HIDE DEF R
  <2> QED
    BY <1>1, <1>2, WFMin, Zenon
<1>4. ASSUME NEW y \in S
      PROVE  x <= y
  <2>1. x \in Nat /\ y \in Nat
    BY <1>1
  <2>2. ~(y < x)
    BY <1>3, <2>1
  <2> QED
    BY <2>1, <2>2
<1> QED
  BY <1>4 DEF First

\* The prior content a plan names is content.
LEMMA PlanOfTyped ==
  ASSUME Invariant, NEW r \in Runs, NEW i \in DOMAIN journal[r], Mutates(journal[r][i]),
         \A k \in DOMAIN journal[r] : k > i => Planned(r, k)
  PROVE  PlanOf(r, i) \in Plans
<1>1. TypeOK /\ journal[r] \in Seq(Results) /\ journal[r][i] \in Results /\ Len(journal[r]) \in Nat
  BY DEF Invariant, TypeOK, DiskTyped
<1>2. PriorState(journal[r][i]) \in Contents
  BY <1>1 DEF PriorState, Invariant, BackupsKnown, TypeOK, DiskTyped, Contents
<1>3. Before(r, i) \in Contents
  <2>1. CASE Later(r, i) = {}
    BY <1>1, <2>1 DEF Before, Invariant, TypeOK, DiskTyped, Results
  <2>2. CASE Later(r, i) # {}
    <3>1. First(Later(r, i)) \in Later(r, i)
      BY <1>1, <2>2, LaterHasFirst
    <3>2. First(Later(r, i)) \in DOMAIN journal[r]
      <4>1. DOMAIN journal[r] = 1..Len(journal[r]) /\ i \in Nat
        BY <1>1, JobOfEntry
      <4> QED
        BY <1>1, <3>1, <4>1 DEF Later
    <3>3. <<r, First(Later(r, i))>> \in Jobs
      BY <1>1, <3>2, JobOfEntry
    <3> QED
      BY <2>2, <3>3 DEF Before, Invariant, TypeOK, DiskTyped, Plans
  <2> QED
    BY <2>1, <2>2
<1>4. journal[r][i].backup \in Paths
  BY <1>1 DEF Results
<1> QED
  BY <1>2, <1>3, <1>4 DEF PlanOf, Plans
\* A revert works on a published run that is not reverted, and on no older one
\* while the newest can be reverted.
LEMMA CandidateKnown ==
  ASSUME Invariant, ~NothingToRevert
  PROVE  /\ RevertCandidate \in Runs /\ RevertCandidate \notin reverted
         /\ journal[RevertCandidate] # <<>>
         /\ RevertCandidate = nextRun - 1 \/ nextRun - 1 \notin ActiveRuns
<1>1. Published # {} /\ RevertCandidate \notin reverted
  BY DEF NothingToRevert
<1>2. Newest(Published) \in Published /\ \A r \in Published : r <= Newest(Published)
  BY <1>1, NewestIn DEF Published
<1>3. ActiveRuns \subseteq Published
  BY DEF ActiveRuns, Published, Invariant, TypeOK, DiskTyped, SessionKnown
<1>4. ASSUME ActiveRuns # {}
      PROVE  Newest(ActiveRuns) \in ActiveRuns /\ \A r \in ActiveRuns : r <= Newest(ActiveRuns)
  BY <1>3, <1>4, NewestIn DEF Published
<1>5. RevertCandidate \in Published
  BY <1>2, <1>3, <1>4 DEF RevertCandidate
<1>6. ASSUME nextRun - 1 \in ActiveRuns
      PROVE  RevertCandidate = nextRun - 1
  <2>1. \A r \in Published : r \in Nat /\ r < nextRun
    BY EntriesAreTyped DEF Published, Runs, Invariant, SessionKnown, TypeOK, SessionTyped
  <2>2. nextRun \in Nat
    BY EntriesAreTyped DEF Invariant, TypeOK, SessionTyped
  <2>3. Newest(ActiveRuns) = nextRun - 1
    BY <1>3, <1>4, <1>6, <2>1, <2>2
  <2>4. ~(Newest(Published) > Newest(ActiveRuns))
    BY <1>2, <2>1, <2>2, <2>3
  <2> QED
    BY <1>6, <2>3, <2>4 DEF RevertCandidate
<1> QED
  BY <1>1, <1>5, <1>6 DEF Published

\* A revert step keeps the disk and the session typed.
LEMMA RevertTypeStep ==
  ASSUME Invariant, RevertNext, UNCHANGED profile
  PROVE  DiskTyped' /\ SessionTyped'
<1>1. TypeOK /\ DiskTyped /\ SessionTyped /\ Len(Entries) \in Nat /\ UNCHANGED Entries
  <2>1. profile \in Seq(Profile) /\ Len(profile) \in Nat
    BY EntriesAreTyped DEF Invariant, TypeOK
  <2> QED
    BY <2>1 DEF Invariant, TypeOK, Entries
<1>2. CASE BeginRevert
  <2>1. RevertCandidate \in Runs
    BY <1>2, CandidateKnown DEF BeginRevert
  <2>2. plan' \in [Jobs -> Plans] /\ done' \subseteq Jobs
    BY <1>1, <1>2, RetireTyped DEF BeginRevert
  <2>3. DiskTyped'
    BY <1>1, <1>2, <2>1, <2>2 DEF BeginRevert, AdoptJournal, DiskTyped
  <2>4. idx' \in 0..(Len(Entries) + 1)
    <3>1. /\ Len(journal[RevertCandidate]) <= Len(Entries) /\ Len(journal[RevertCandidate]) \in Nat
      BY <1>1, <2>1, JobOfEntry DEF DiskTyped
    <3> QED
      BY <1>1, <1>2, <3>1 DEF BeginRevert
  <2>5. SessionTyped'
    BY <1>1, <1>2, <2>1, <2>4, EntriesAreTyped DEF BeginRevert, SessionTyped, RevertPhases, Runs
  <2> QED
    BY <2>3, <2>5
<1>3. CASE RevertFails
  <2>1. stage' \in [Jobs -> Contents]
    BY <1>1, <1>3 DEF RevertFails, DiskTyped, Contents
  <2>2. DiskTyped'
    BY <1>1, <1>3, <2>1 DEF RevertFails, DiskTyped
  <2> QED
    BY <1>1, <1>3, <2>2, IdleTyped DEF RevertFails, SessionTyped
<1>4. CASE Refuses
  BY <1>1, <1>4, DiskSame, IdleTyped DEF Refuses, SessionTyped
<1>5. CASE PrepareEntry
  <2>1. run \in Runs /\ idx > 0 /\ idx \in DOMAIN journal[run]
    BY <1>5, RevertAt DEF PrepareEntry, RevertPhases
  <2>2. plan' = plan \/ (Mutates(J) /\ plan' = [plan EXCEPT ![Job] = PlanOf(run, idx)])
    BY <1>5 DEF PrepareEntry
  <2>3. ASSUME Mutates(J)
        PROVE  PlanOf(run, idx) \in Plans
    <3>1. \A k \in DOMAIN journal[run] : k > idx => Planned(run, k)
      BY <1>5 DEF PrepareEntry, Invariant, PlansKnown
    <3> QED
      BY <2>1, <2>3, <3>1, PlanOfTyped DEF J
  <2>4. plan' \in [Jobs -> Plans]
    BY <1>1, <2>2, <2>3 DEF DiskTyped
  <2>5. DiskTyped'
    BY <1>1, <1>5, <2>4 DEF PrepareEntry, DiskTyped
  <2> QED
    BY <1>1, <1>5, <2>1, <2>5 DEF PrepareEntry, SessionTyped
<1>6. CASE PrepareEnds
  <2>1. Len(journal[run]) \in Nat /\ Len(journal[run]) <= Len(Entries)
    BY <1>1, <1>6, RevertAt DEF PrepareEnds, RevertPhases, DiskTyped
  <2> QED
    BY <1>1, <1>6, <2>1, DiskSame DEF PrepareEnds, SessionTyped, RevertPhases, UndoPhases
<1>7. CASE PassOver
  BY <1>1, <1>7, DiskSame, Constants DEF PassOver, NextEntry, SessionTyped, RevertPhases, UndoPhases
<1>8. ASSUME AlreadyUndone \/ StageEnds \/ VerifyTarget
      PROVE  DiskTyped' /\ SessionTyped'
  BY <1>1, <1>8, DiskSame
  DEF AlreadyUndone, StageEnds, VerifyTarget, Goto, SessionTyped, RevertPhases, UndoPhases, SwapPhases
<1>9. CASE UndoInPlace
  <2>1. Job \in Jobs
    BY <1>9, RevertAt DEF UndoInPlace, RevertPhases, UndoPhases
  <2>2. Prior.desired \in Contents
    BY <1>1, <2>1 DEF Prior, DiskTyped, Plans
  <2> QED
    BY <1>1, <1>9, <2>2, SetLiveTyped
    DEF UndoInPlace, Goto, SessionTyped, RevertPhases, UndoPhases, SwapPhases
<1>10. CASE BeginSwap
  <2>1. cur' \in Works
    BY <1>1, <1>10 DEF BeginSwap, SessionTyped, Works
  <2> QED
    BY <1>1, <1>10, <2>1, DiskSame DEF BeginSwap, Goto, SessionTyped, RevertPhases, UndoPhases, SwapPhases
<1>11. ASSUME StageFile \/ StageDirectory \/ StageMember
       PROVE  DiskTyped' /\ SessionTyped'
  <2>1. Prior \in Plans /\ Job \in Jobs
    BY <1>11, SwapAt DEF StageFile, StageDirectory, StageMember, SwapPhases
  <2>2. UNCHANGED disk \/ \E c \in Contents : SetStage(c)
    <3>1. CASE StageFile
      BY <2>1, <3>1 DEF StageFile, Plans
    <3>2. CASE StageDirectory
      BY <3>2 DEF StageDirectory, Contents
    <3>3. CASE StageMember
      <4>1. PICK m \in Prior.desired \ stage[Job] : SetStage(stage[Job] \cup {m})
        BY <3>3 DEF StageMember
      <4>2. Prior.desired # Absent /\ stage[Job] # Absent
        BY <3>3 DEF StageMember, Invariant, SwapKnown
      <4>3. Prior.desired \in SUBSET Items /\ stage[Job] \in SUBSET Items
        BY <1>1, <2>1, <4>2 DEF DiskTyped, Plans, Contents
      <4> QED
        BY <4>1, <4>3 DEF Contents
    <3> QED
      BY <1>11, <3>1, <3>2, <3>3
  <2>3. DiskTyped'
    BY <1>1, <2>2, DiskSame DEF SetStage, DiskTyped
  <2> QED
    BY <1>1, <1>11, <2>3
    DEF StageFile, StageDirectory, StageMember, session, Goto, SessionTyped, RevertPhases, UndoPhases, SwapPhases
<1>12. CASE HoldTarget
  <2>1. Now \in Contents
    BY <1>12, SwapAt DEF HoldTarget, SwapPhases
  <2>2. held' \in [Jobs -> Contents] /\ live' \in [Targets -> Contents]
    BY <1>1, <1>12, <2>1 DEF HoldTarget, MoveAside, DiskTyped, Contents
  <2>3. DiskTyped'
    BY <1>1, <1>12, <2>2 DEF HoldTarget, DiskTyped
  <2>4. cur' \in Works
    BY <1>1, <1>12 DEF HoldTarget, SessionTyped, Works
  <2> QED
    BY <1>1, <1>12, <2>3, <2>4 DEF HoldTarget, Goto, SessionTyped, RevertPhases, UndoPhases, SwapPhases
<1>13. CASE ReplaceTarget
  <2>1. Job \in Jobs
    BY <1>13, SwapAt DEF ReplaceTarget, SwapPhases
  <2>2. stage[Job] \in Contents
    BY <1>1, <2>1 DEF DiskTyped
  <2>3. stage' \in [Jobs -> Contents] /\ live' \in [Targets -> Contents]
    BY <1>1, <1>13, <2>2 DEF ReplaceTarget, DiskTyped, Contents
  <2>4. DiskTyped'
    BY <1>1, <1>13, <2>3 DEF ReplaceTarget, DiskTyped
  <2> QED
    BY <1>1, <1>13, <2>4 DEF ReplaceTarget, Goto, SessionTyped, RevertPhases, UndoPhases, SwapPhases
<1>14. CASE RemoveScratch
  <2>1. Job \in Jobs
    BY <1>14, SwapAt DEF RemoveScratch, SwapPhases
  <2>2. ASSUME NEW c \in Contents, c # Absent, NEW d \in Smaller(c)
        PROVE  d \in Contents
    BY <2>2 DEF Smaller, Contents
  <2>3. stage' \in [Jobs -> Contents] /\ held' \in [Jobs -> Contents]
    <3>1. stage[Job] \in Contents /\ held[Job] \in Contents
      BY <1>1, <2>1 DEF DiskTyped
    <3>2. CASE stage[Job] # Absent /\ RemoveStep(stage) /\ UNCHANGED held
      <4>1. \E d \in Contents : stage' = [stage EXCEPT ![Job] = d]
        BY <2>2, <3>1, <3>2 DEF RemoveStep, Contents
      <4> QED
        BY <1>1, <3>2, <4>1 DEF DiskTyped
    <3>3. CASE held[Job] # Absent /\ RemoveStep(held) /\ UNCHANGED stage
      <4>1. \E d \in Contents : held' = [held EXCEPT ![Job] = d]
        BY <2>2, <3>1, <3>3 DEF RemoveStep, Contents
      <4> QED
        BY <1>1, <3>3, <4>1 DEF DiskTyped
    <3> QED
      BY <1>14, <3>2, <3>3 DEF RemoveScratch
  <2>4. DiskTyped'
    BY <1>1, <1>14, <2>3 DEF RemoveScratch, DiskTyped
  <2> QED
    BY <1>1, <1>14, <2>4 DEF RemoveScratch, session, SessionTyped
<1>15. CASE CompleteEntry
  <2>1. Job \in Jobs /\ idx > 0
    BY <1>15, SwapAt DEF CompleteEntry, SwapPhases
  <2>2. DiskTyped'
    BY <1>1, <1>15, <2>1 DEF CompleteEntry, DiskTyped
  <2> QED
    BY <1>1, <1>15, <2>1, <2>2, Constants DEF CompleteEntry, NextEntry, SessionTyped, RevertPhases, UndoPhases
<1>16. CASE MarkReverted
  <2>1. run \in member
    BY <1>16, RevertAt DEF MarkReverted, RevertPhases, UndoPhases
  <2> QED
    BY <1>1, <1>16, <2>1 DEF MarkReverted, DiskTyped, SessionTyped
<1>17. CASE RetireReverted
  <2>1. plan' \in [Jobs -> Plans] /\ done' \subseteq Jobs
    BY <1>1, <1>17, RetireTyped DEF RetireReverted
  <2>2. DiskTyped'
    BY <1>1, <1>17, <2>1 DEF RetireReverted, DiskTyped
  <2> QED
    BY <1>1, <1>17, <2>2, IdleTyped DEF RetireReverted, SessionTyped
<1> QED
  BY <1>2, <1>3, <1>4, <1>5, <1>6, <1>7, <1>8, <1>9, <1>10, <1>11, <1>12, <1>13, <1>14, <1>15, <1>16, <1>17
  DEF RevertNext

\* Every step keeps the types.
LEMMA TypeStep ==
  ASSUME Invariant, [Next]_vars
  PROVE  TypeOK'
<1>1. TypeOK /\ SessionTyped /\ profile \in Profiles
  BY DEF Invariant, TypeOK
<1>2. CASE UNCHANGED vars
  BY <1>1, <1>2 DEF vars, disk, session, faults, ghosts, TypeOK, DiskTyped, SessionTyped, Entries
<1>3. CASE Next
  <2>1. UNCHANGED profile
    BY <1>3 DEF Next
  <2>2. DiskTyped' /\ SessionTyped'
    <3>1. CASE Crash
      BY <1>1, <2>1, <3>1, DiskSame, IdleTyped DEF Crash, SessionTyped
    <3>2. CASE EditTarget
      <4>1. PICK u \in Targets : SetLive(u, UserItems) /\ UNCHANGED session
        BY <3>2 DEF EditTarget
      <4>2. DiskTyped'
        BY <1>1, <2>1, <4>1, SetLiveTyped, Constants DEF Contents
      <4> QED
        BY <1>1, <2>1, <4>1, <4>2 DEF session, SessionTyped, Entries
    <3> QED
      BY <1>3, <2>1, <3>1, <3>2, RestoreTypeStep, RevertTypeStep DEF Next
  <2> QED
    BY <1>1, <1>3, <2>1, <2>2, CounterStep, GhostStep DEF TypeOK
<1> QED
  BY <1>2, <1>3
-----------------------------------------------------------------------------
(* Backups. *)

\* What a step does to the backups and to what names them.
LEMMA BackupStep ==
  ASSUME Invariant, Next
  PROVE  /\ DOMAIN backups \subseteq DOMAIN backups'
         /\ UNCHANGED journal \/ journal' = [journal EXCEPT ![run] = results]
         /\ \/ results' = results \/ results' = <<>>
            \/ \E s \in Statuses : Result(s) \in Results /\ results' = Append(results, Result(s))
         /\ cur'.backup \in {NoBackup, cur.backup} \cup DOMAIN backups'
<1>1. TypeOK /\ cur \in Works /\ NoWork \in Works /\ UNCHANGED profile
  BY Constants DEF Invariant, TypeOK, SessionTyped, Next
<1>2. CASE TakeBackup
  <2> DEFINE c == live[Entry.target]
             path == IF WantsBackup(Entry, c) THEN BackupPath(Entry) ELSE NoBackup
  <2>1. /\ cur' = [NoWork EXCEPT !.existed = (c # Absent), !.backup = path, !.want = Desired(Entry, c)]
        /\ backups' = IF path = NoBackup THEN backups
                      ELSE [p \in DOMAIN backups \cup {path} |-> IF p = path THEN c ELSE backups[p]]
        /\ UNCHANGED <<journal, results>>
    BY <1>2 DEF TakeBackup
  <2> HIDE DEF c, path
  <2>2. cur'.backup = path
    BY <2>1 DEF NoWork
  <2>3. DOMAIN backups \subseteq DOMAIN backups' /\ path \in {NoBackup} \cup DOMAIN backups'
    BY <2>1
  <2> QED
    BY <2>1, <2>2, <2>3
<1>3. ASSUME UNCHANGED <<backups, journal>>, NEW s \in Statuses, EndEntry(s), Len(results) < idx, idx \in Index
      PROVE  /\ DOMAIN backups \subseteq DOMAIN backups'
             /\ UNCHANGED journal
             /\ Result(s) \in Results /\ results' = Append(results, Result(s))
             /\ cur'.backup = NoBackup
  BY <1>1, <1>3, EndEntryEffect DEF NoWork
<1>4. ASSUME SourceMissing \/ EntryRefused \/ SkipUpToDate \/ BackupFails \/ WriteTarget \/ WriteLocked
             \/ WriteFails \/ CopyEnds
      PROVE  UNCHANGED <<backups, journal>> /\ (\E s \in Statuses : EndEntry(s)) /\ Len(results) < idx /\ idx \in Index
  <2>1. UNCHANGED <<backups, journal>> /\ (\E s \in Statuses : EndEntry(s))
    BY <1>4 DEF SourceMissing, EntryRefused, SkipUpToDate, BackupFails, WriteTarget, WriteLocked,
                WriteFails, CopyEnds, Statuses, disk, SetLive
  <2>2. pc \in {"entry", "write", "copying"} /\ (pc = "entry" => idx \in Index)
    BY <1>4 DEF SourceMissing, EntryRefused, SkipUpToDate, BackupFails, WriteTarget, WriteLocked,
                WriteFails, CopyEnds, Runnable
  <2> QED
    BY <2>1, <2>2, RestoreAt DEF RestorePhases
<1>5. CASE SkipBlocked
  <2>1. UNCHANGED <<backups, journal>> /\ Len(results) < idx /\ idx \in Index
    BY <1>5, RestoreAt DEF SkipBlocked, disk, RestorePhases
  <2>2. EndEntry("failed") \/ UNCHANGED <<cur, results>>
    BY <1>5 DEF SkipBlocked
  <2> QED
    BY <1>3, <2>1, <2>2 DEF Statuses
<1>6. ASSUME BeginRestore \/ MakeDirectory \/ CopyMember \/ MemberLocked \/ EndRestore \/ RegisterJournal
             \/ RevertNext \/ Crash \/ EditTarget
      PROVE  /\ UNCHANGED <<backups, journal>> /\ (results' = results \/ results' = <<>>)
             /\ cur'.backup \in {NoBackup, cur.backup}
  <2>1. UNCHANGED <<backups, journal>> /\ (results' = results \/ results' = <<>>)
    BY <1>6 DEF BeginRestore, MakeDirectory, CopyMember, MemberLocked, EndRestore, RegisterJournal,
     RevertNext, BeginRevert, RevertFails, PrepareEntry, PrepareEnds, PassOver,
     AlreadyUndone, UndoInPlace, BeginSwap, Refuses, StageFile, StageDirectory, StageMember,
     StageEnds, HoldTarget, ReplaceTarget, VerifyTarget, RemoveScratch, CompleteEntry,
     MarkReverted, RetireReverted, Crash, EditTarget, SetLive, SetStage, ToIdle, Goto, NextEntry, disk, session
  <2>2. cur' = cur \/ cur' = NoWork \/ (\E l : cur' = [cur EXCEPT !.left = l])
        \/ (\E h : cur' = [cur EXCEPT !.holding = h]) \/ (\E h, e : cur' = [cur EXCEPT !.holding = h, !.existed = e])
    BY <1>6 DEF BeginRestore, MakeDirectory, CopyMember, MemberLocked, EndRestore, RegisterJournal,
     RevertNext, BeginRevert, RevertFails, PrepareEntry, PrepareEnds, PassOver,
     AlreadyUndone, UndoInPlace, BeginSwap, Refuses, StageFile, StageDirectory, StageMember,
     StageEnds, HoldTarget, ReplaceTarget, VerifyTarget, RemoveScratch, CompleteEntry,
     MarkReverted, RetireReverted, Crash, EditTarget, ToIdle, NextEntry, session
  <2>3. NoWork.backup = NoBackup
    BY DEF NoWork
  <2>4. cur'.backup \in {NoBackup, cur.backup}
    <3>1. CASE cur' = cur \/ cur' = NoWork
      BY <2>3, <3>1
    <3>2. ASSUME NEW l, cur' = [cur EXCEPT !.left = l]
          PROVE  cur'.backup = cur.backup
      BY <1>1, <3>2 DEF Works
    <3>3. ASSUME NEW h, cur' = [cur EXCEPT !.holding = h]
          PROVE  cur'.backup = cur.backup
      BY <1>1, <3>3 DEF Works
    <3>4. ASSUME NEW h, NEW e, cur' = [cur EXCEPT !.holding = h, !.existed = e]
          PROVE  cur'.backup = cur.backup
      BY <1>1, <3>4 DEF Works
    <3> QED
      BY <2>2, <3>1, <3>2, <3>3, <3>4
  <2> QED
    BY <2>1, <2>4
<1>7. CASE PublishJournal
  <2>1. UNCHANGED backups /\ (UNCHANGED journal \/ journal' = [journal EXCEPT ![run] = results])
        /\ (results' = results \/ results' = <<>>) /\ (cur' = cur \/ cur' = NoWork)
    BY <1>7 DEF PublishJournal, ToIdle
  <2> QED
    BY <2>1 DEF NoWork
<1> QED
  <2>1. CASE SourceMissing \/ EntryRefused \/ SkipUpToDate \/ BackupFails \/ WriteTarget \/ WriteLocked
             \/ WriteFails \/ CopyEnds
    BY <1>3, <1>4, <2>1
  <2>2. CASE BeginRestore \/ MakeDirectory \/ CopyMember \/ MemberLocked \/ EndRestore \/ RegisterJournal
             \/ RevertNext \/ Crash \/ EditTarget
    BY <1>6, <2>2
  <2> QED
    BY <1>2, <1>5, <1>7, <2>1, <2>2 DEF Next, RestoreNext

\* Every step keeps the backups that journals and results name.
LEMMA BackupsKnownStep ==
  ASSUME Invariant, [Next]_vars
  PROVE  BackupsKnown'
<1>1. /\ BackupsKnown /\ results \in Seq(Results) /\ journal \in [Runs -> Seq(Results)]
  BY DEF Invariant, TypeOK, DiskTyped, SessionTyped
<1>2. CASE UNCHANGED vars
  BY <1>1, <1>2 DEF vars, disk, session, BackupsKnown
<1>3. CASE Next
  <2>1. cur'.backup \in {NoBackup} \cup DOMAIN backups'
    BY <1>1, <1>3, BackupStep DEF BackupsKnown
  <2>2. ASSUME NEW i \in DOMAIN results'
        PROVE  results'[i].backup \in {NoBackup} \cup DOMAIN backups'
    <3>1. CASE results' = results
      BY <1>1, <1>3, <3>1, BackupStep DEF BackupsKnown
    <3>2. CASE results' = <<>>
      BY <3>2
    <3>3. ASSUME NEW s \in Statuses, Result(s) \in Results, results' = Append(results, Result(s))
          PROVE  results'[i].backup \in {NoBackup} \cup DOMAIN backups'
      <4>1. Result(s).backup = cur.backup
        BY DEF Result
      <4>2. (i \in DOMAIN results /\ results'[i] = results[i]) \/ results'[i] = Result(s)
        BY <1>1, <3>3
      <4> QED
        BY <1>1, <1>3, <4>1, <4>2, BackupStep DEF BackupsKnown
    <3> QED
      BY <1>3, <3>1, <3>2, <3>3, BackupStep
  <2>3. ASSUME NEW r \in Runs, NEW i \in DOMAIN journal'[r]
        PROVE  journal'[r][i].backup \in {NoBackup} \cup DOMAIN backups'
    <3>1. journal'[r] = journal[r] \/ journal'[r] = results
      BY <1>1, <1>3, BackupStep
    <3> QED
      BY <1>1, <1>3, <3>1, BackupStep DEF BackupsKnown
  <2> QED
    BY <2>1, <2>2, <2>3 DEF BackupsKnown
<1> QED
  BY <1>2, <1>3
-----------------------------------------------------------------------------
(* The run a command works on. *)

\* The revert steps that change neither the store nor the records of the work.
RevertWork ==
  \/ RevertFails \/ Refuses \/ PrepareEnds \/ PassOver \/ AlreadyUndone \/ UndoInPlace
  \/ BeginSwap \/ StageFile \/ StageDirectory \/ StageMember \/ StageEnds \/ HoldTarget
  \/ ReplaceTarget \/ VerifyTarget \/ RemoveScratch

\* They stay in the revert of the same run or end the command.
LEMMA RevertWorkFrame ==
  ASSUME RevertWork
  PROVE  /\ UNCHANGED <<backups, journal, member, reverted, plan, done, nextRun, crashes, edits, origin, told, foreign>>
         /\ pc \in RevertPhases
         /\ pc' = "idle" \/ (pc' \in UndoPhases /\ run' = run)
<1>1. CASE RevertFails \/ Refuses
  BY <1>1 DEF RevertFails, Refuses, ToIdle, disk, faults, ghosts, RevertPhases, UndoPhases, SwapPhases
<1>2. CASE PrepareEnds \/ PassOver
  BY <1>2 DEF PrepareEnds, PassOver, NextEntry, disk, faults, ghosts, RevertPhases, UndoPhases
<1>3. CASE AlreadyUndone \/ UndoInPlace \/ BeginSwap \/ StageFile \/ StageDirectory
  BY <1>3 DEF AlreadyUndone, UndoInPlace, BeginSwap, StageFile, StageDirectory, Goto, SetLive, SetStage,
              disk, faults, ghosts, RevertPhases, UndoPhases, SwapPhases
<1>4. CASE StageMember \/ StageEnds \/ HoldTarget \/ ReplaceTarget \/ VerifyTarget \/ RemoveScratch
  BY <1>4 DEF StageMember, StageEnds, HoldTarget, ReplaceTarget, VerifyTarget, RemoveScratch, Goto, SetStage,
              session, disk, faults, ghosts, RevertPhases, UndoPhases, SwapPhases
<1> QED
  BY <1>1, <1>2, <1>3, <1>4 DEF RevertWork

\* Where such a step goes in the journal.
LEMMA RevertWorkMove ==
  ASSUME RevertWork
  PROVE  /\ pc' \in SwapPhases =>
              /\ idx' = idx
              /\ pc \in SwapPhases \/ (pc = "undo" /\ idx > 0 /\ Mutates(J) /\ Job \notin done)
         /\ pc' = "undo" => \/ pc = "prepare" /\ idx = 0 /\ idx' = Len(journal[run])
                            \/ pc = "undo" /\ idx > 0 /\ idx' = idx - 1 /\ (~Mutates(J) \/ Job \in done)
<1>1. CASE RevertFails \/ Refuses
  BY <1>1 DEF RevertFails, Refuses, ToIdle, SwapPhases
<1>2. CASE PrepareEnds \/ PassOver
  BY <1>2 DEF PrepareEnds, PassOver, NextEntry, SwapPhases
<1>3. CASE AlreadyUndone \/ UndoInPlace \/ BeginSwap \/ StageFile \/ StageDirectory
  BY <1>3 DEF AlreadyUndone, UndoInPlace, BeginSwap, StageFile, StageDirectory, Goto, SwapPhases
<1>4. CASE StageMember \/ StageEnds \/ HoldTarget \/ ReplaceTarget \/ VerifyTarget \/ RemoveScratch
  BY <1>4 DEF StageMember, StageEnds, HoldTarget, ReplaceTarget, VerifyTarget, RemoveScratch, Goto, session, SwapPhases
<1> QED
  BY <1>1, <1>2, <1>3, <1>4 DEF RevertWork

\* How far a restore step gets in the profile.
LEMMA RestoreWorkMove ==
  ASSUME Invariant, RestoreWork, UNCHANGED profile, pc' # "idle"
  PROVE  /\ idx' \in 1..(Len(Entries) + 1) /\ Len(results') < idx'
         /\ pc' \in {"write", "copying"} => idx' \in Index
<1>1. /\ Len(results) < idx /\ Len(results) \in Nat /\ idx \in Nat /\ Len(Entries) \in Nat
      /\ idx \in 1..(Len(Entries) + 1) /\ (pc \in {"write", "copying"} => idx \in Index)
  BY RestoreWorkFrame, RestoreAt DEF RestorePhases
<1>2. TypeOK
  BY DEF Invariant
<1>3. CASE SkipBlocked
  <2>1. idx \in Index /\ pc = "entry"
    BY <1>3 DEF SkipBlocked
  <2>2. EndEntry("failed") \/ (idx' = idx + 1 /\ UNCHANGED <<pc, run, cur, results, nextRun>>)
    BY <1>3 DEF SkipBlocked
  <2>3. CASE EndEntry("failed")
    BY <1>1, <1>2, <2>1, <2>3, EndEntryEffect DEF Statuses
  <2>4. CASE idx' = idx + 1 /\ UNCHANGED <<pc, run, cur, results, nextRun>>
    BY <1>1, <2>1, <2>4 DEF Index
  <2> QED
    BY <2>2, <2>3, <2>4
<1>4. CASE SourceMissing \/ EntryRefused \/ SkipUpToDate \/ BackupFails \/ WriteTarget \/ WriteLocked
             \/ WriteFails \/ CopyEnds
  <2>1. idx \in Index /\ \E s \in Statuses : EndEntry(s)
    BY <1>1, <1>4 DEF SourceMissing, EntryRefused, SkipUpToDate, BackupFails, WriteTarget, WriteLocked,
                WriteFails, CopyEnds, Runnable, Statuses
  <2> QED
    BY <1>1, <1>2, <2>1, EndEntryEffect
<1>5. CASE TakeBackup \/ MakeDirectory \/ CopyMember \/ MemberLocked
  <2>1. idx \in Index /\ UNCHANGED <<idx, results>>
    BY <1>1, <1>5 DEF TakeBackup, MakeDirectory, CopyMember, MemberLocked, Runnable
  <2> QED
    BY <1>1, <2>1
<1>6. CASE EndRestore
  BY <1>6 DEF EndRestore, ToIdle
<1> QED
  BY <1>3, <1>4, <1>5, <1>6 DEF RestoreWork

\* Every step keeps what is known of the run a command works on.
LEMMA SessionKnownStep ==
  ASSUME Invariant, [Next]_vars
  PROVE  SessionKnown'
<1>1. /\ SessionKnown /\ nextRun \in Nat /\ nextRun <= MaxRuns + 1 /\ nextRun >= 1
      /\ reverted \subseteq member /\ member \subseteq Runs /\ TypeOK
      /\ journal \in [Runs -> Seq(Results)]
  <2>1. TypeOK /\ SessionKnown /\ MaxRuns \in Nat
    BY EntriesAreTyped DEF Invariant
  <2>2. nextRun \in 1..(MaxRuns + 1)
    BY <2>1 DEF TypeOK, SessionTyped
  <2> QED
    BY <2>1, <2>2 DEF TypeOK, DiskTyped
<1>2. CASE UNCHANGED vars
  BY <1>1, <1>2 DEF vars, disk, session, SessionKnown, Entries, Index, Job, J, ActiveRuns, Journaled
<1>3. CASE BeginRestore /\ UNCHANGED profile
  <2>1. pc' = "entry" /\ run' = nextRun /\ nextRun' = nextRun + 1 /\ idx' = 1 /\ results' = <<>>
        /\ nextRun <= MaxRuns /\ UNCHANGED <<journal, member, reverted>>
    BY <1>3 DEF BeginRestore
  <2>2. nextRun \in Runs /\ journal[nextRun] = <<>> /\ nextRun \notin member
    BY <1>1, <2>1, EntriesAreTyped DEF Runs, SessionKnown
  <2>3. Len(results') = 0 /\ Len(Entries) \in Nat /\ UNCHANGED Entries
    BY <1>1, <1>3, <2>1, EntriesAreTyped DEF TypeOK, Entries
  <2>4. \A r \in Runs : r >= nextRun' => journal'[r] = <<>>
    BY <1>1, <2>1, EntriesAreTyped DEF SessionKnown, Runs
  <2>5. run' = nextRun' - 1
    BY <1>1, <2>1
  <2> QED
    BY <1>1, <2>1, <2>2, <2>3, <2>4, <2>5 DEF SessionKnown, RestorePhases, RevertPhases, UndoPhases, SwapPhases
<1>4. CASE RestoreWork /\ UNCHANGED profile
  <2>1. /\ UNCHANGED <<journal, member, reverted, nextRun, Entries>>
        /\ pc \in {"entry", "write", "copying"}
        /\ (pc' \in {"entry", "write", "copying"} /\ run' = run) \/ pc' = "idle"
    BY <1>4, RestoreWorkFrame DEF Entries
  <2>2. /\ \A r \in Runs : r >= nextRun' => journal'[r] = <<>>
        /\ \A r \in member' : journal'[r] # <<>>
    BY <1>1, <2>1 DEF SessionKnown
  <2>3. CASE pc' = "idle"
    BY <2>2, <2>3 DEF SessionKnown, RestorePhases, RevertPhases, UndoPhases, SwapPhases
  <2>4. CASE pc' # "idle"
    <3>1. /\ idx' \in 1..(Len(Entries) + 1) /\ Len(results') < idx'
          /\ pc' \in {"write", "copying"} => idx' \in Index'
      BY <1>4, <2>1, <2>4, RestoreWorkMove DEF Index
    <3>2. run \in Runs /\ run = nextRun - 1 /\ run \notin member /\ journal[run] = <<>>
      BY <2>1, RestoreAt DEF RestorePhases
    <3> QED
      BY <2>1, <2>2, <2>4, <3>1, <3>2 DEF SessionKnown, RestorePhases, RevertPhases, UndoPhases, SwapPhases
  <2> QED
    BY <2>3, <2>4
<1>5. CASE PublishJournal /\ UNCHANGED profile
  <2>1. run \in Runs /\ run = nextRun - 1 /\ run \notin member /\ Len(results) < idx
        /\ idx \in 1..(Len(Entries) + 1)
    BY <1>5, RestoreAt DEF PublishJournal, RestorePhases
  <2>2. UNCHANGED <<member, reverted, nextRun, Entries>>
        /\ (UNCHANGED journal \/ journal' = [journal EXCEPT ![run] = results])
    BY <1>5 DEF PublishJournal, Entries
  <2>3. /\ \A r \in Runs : r >= nextRun' => journal'[r] = <<>>
        /\ \A r \in member' : journal'[r] # <<>>
    <3>1. \A r \in Runs : r # run => journal'[r] = journal[r]
      BY <1>1, <2>1, <2>2
    <3>2. ~(run >= nextRun)
      BY <1>1, <2>1
    <3> QED
      BY <1>1, <2>1, <2>2, <3>1, <3>2 DEF SessionKnown
  <2>4. CASE pc' = "idle"
    BY <2>3, <2>4 DEF SessionKnown, RestorePhases, RevertPhases, UndoPhases, SwapPhases
  <2>5. CASE pc' # "idle"
    <3>1. /\ journal' = [journal EXCEPT ![run] = results] /\ pc' = "register" /\ Journaled
          /\ UNCHANGED <<run, idx, results>>
      BY <1>5, <2>5 DEF PublishJournal, ToIdle
    <3>2. journal'[run] = results /\ Journaled'
      BY <1>1, <2>1, <3>1 DEF Journaled
    <3> QED
      BY <2>1, <2>2, <2>3, <3>1, <3>2 DEF SessionKnown, RestorePhases, RevertPhases, UndoPhases, SwapPhases
  <2> QED
    BY <2>4, <2>5
<1>6. CASE RegisterJournal
  <2>1. journal[run] = results /\ Journaled /\ run \in Runs
    BY <1>6 DEF RegisterJournal, Invariant, SessionKnown, RestorePhases
  <2>2. journal[run] # <<>>
    BY <2>1 DEF Journaled
  <2> QED
    BY <1>1, <1>6, <2>1, <2>2
    DEF RegisterJournal, ToIdle, SessionKnown, RestorePhases, RevertPhases, UndoPhases, SwapPhases
<1>7. CASE BeginRevert
  <2>1. /\ RevertCandidate \in Runs /\ RevertCandidate \notin reverted
        /\ journal[RevertCandidate] # <<>>
        /\ RevertCandidate = nextRun - 1 \/ nextRun - 1 \notin ActiveRuns
    BY <1>7, CandidateKnown DEF BeginRevert
  <2>2. /\ pc' = "prepare" /\ run' = RevertCandidate /\ idx' = Len(journal[RevertCandidate])
        /\ member' = member \cup {RevertCandidate} /\ UNCHANGED <<journal, reverted, nextRun>>
    BY <1>7 DEF BeginRevert, AdoptJournal
  <2> HIDE DEF RevertCandidate
  <2>3. idx' \in 0..Len(journal[RevertCandidate])
    BY <1>1, <2>1, <2>2, JobOfEntry
  <2>4. run' \in ActiveRuns' /\ (run' = nextRun' - 1 \/ nextRun' - 1 \notin ActiveRuns')
    BY <2>1, <2>2 DEF ActiveRuns
  <2>5. /\ \A r \in Runs : r >= nextRun' => journal'[r] = <<>>
        /\ \A r \in member' : journal'[r] # <<>>
    BY <1>1, <2>1, <2>2 DEF SessionKnown
  <2> QED
    BY <2>2, <2>3, <2>4, <2>5 DEF SessionKnown, RestorePhases, RevertPhases, UndoPhases, SwapPhases
<1>8. CASE RevertWork
  <2>1. /\ UNCHANGED <<journal, member, reverted, done, nextRun>>
        /\ pc' = "idle" \/ (pc' \in UndoPhases /\ run' = run)
    BY <1>8, RevertWorkFrame
  <2>2. pc \in RevertPhases
    BY <1>8, RevertWorkFrame DEF Invariant, TypeOK, SessionTyped, RestorePhases, RevertPhases, UndoPhases, SwapPhases
  <2>3. /\ \A r \in Runs : r >= nextRun' => journal'[r] = <<>>
        /\ \A r \in member' : journal'[r] # <<>>
    BY <1>1, <2>1 DEF SessionKnown
  <2>4. CASE pc' = "idle"
    BY <2>3, <2>4 DEF SessionKnown, RestorePhases, RevertPhases, UndoPhases, SwapPhases
  <2>5. CASE pc' # "idle"
    <3>1. run \in ActiveRuns /\ (run = nextRun - 1 \/ nextRun - 1 \notin ActiveRuns)
      BY <1>1, <2>2 DEF SessionKnown
    <3>2. idx \in 0..Len(journal[run]) /\ Len(journal[run]) \in Nat
      BY <2>2, RevertAt
    <3>3. CASE pc' \in SwapPhases
      <4>1. idx' = idx /\ idx > 0 /\ Mutates(J) /\ Job \notin done
        BY <1>1, <1>8, <3>3, RevertWorkMove DEF SessionKnown
      <4>2. J' = J /\ Job' = Job /\ ActiveRuns' = ActiveRuns
        BY <2>1, <2>5, <4>1 DEF J, Job, ActiveRuns
      <4>3. Mutates(J)' = Mutates(J)
        BY <4>2 DEF Mutates
      <4> QED
        BY <2>1, <2>3, <2>5, <3>1, <3>2, <3>3, <4>1, <4>2, <4>3 DEF SessionKnown, RestorePhases, RevertPhases, UndoPhases, SwapPhases
    <3>4. CASE pc' = "undo"
      <4>1. idx' \in 0..Len(journal[run])
        BY <1>8, <3>2, <3>4, RevertWorkMove
      <4>2. ActiveRuns' = ActiveRuns
        BY <2>1 DEF ActiveRuns
      <4> QED
        BY <2>1, <2>3, <2>5, <3>1, <3>4, <4>1, <4>2 DEF SessionKnown, RestorePhases, RevertPhases, UndoPhases, SwapPhases
    <3> QED
      BY <2>1, <2>5, <3>3, <3>4 DEF UndoPhases
  <2> QED
    BY <2>4, <2>5
<1>9. CASE PrepareEntry \/ CompleteEntry
  <2>1. /\ UNCHANGED <<journal, member, reverted, nextRun, run>> /\ idx' = idx - 1 /\ idx > 0
        /\ pc \in RevertPhases /\ pc' \in {"prepare", "undo"}
    <3>1. CASE PrepareEntry
      BY <3>1 DEF PrepareEntry, RevertPhases
    <3>2. CASE CompleteEntry
      BY <3>2, SwapAt DEF CompleteEntry, NextEntry, RevertPhases, UndoPhases, SwapPhases
    <3> QED
      BY <1>9, <3>1, <3>2
  <2>2. run \in ActiveRuns /\ (run = nextRun - 1 \/ nextRun - 1 \notin ActiveRuns)
    BY <1>1, <2>1 DEF SessionKnown
  <2>3. idx' \in 0..Len(journal[run])
    BY <2>1, RevertAt
  <2> QED
    BY <1>1, <2>1, <2>2, <2>3 DEF SessionKnown, ActiveRuns, RestorePhases, RevertPhases, UndoPhases, SwapPhases
<1>10. CASE MarkReverted
  BY <1>1, <1>10 DEF MarkReverted, SessionKnown, RestorePhases, RevertPhases, UndoPhases, SwapPhases
<1>11. CASE RetireReverted \/ Crash
  BY <1>1, <1>11 DEF RetireReverted, Crash, disk, ToIdle, SessionKnown, RestorePhases, RevertPhases, UndoPhases, SwapPhases
<1>12. CASE EditTarget /\ UNCHANGED profile
  <2>1. UNCHANGED <<journal, member, reverted, done, session, profile>>
    BY <1>12 DEF EditTarget, SetLive
  <2> QED
    BY <1>1, <2>1 DEF session, SessionKnown, Entries, Index, Job, J, ActiveRuns, Journaled
<1> QED
  BY <1>2, <1>3, <1>4, <1>5, <1>6, <1>7, <1>8, <1>9, <1>10, <1>11, <1>12
  DEF Next, RestoreNext, RestoreWork, RevertNext, RevertWork
-----------------------------------------------------------------------------
(* The plans of a revert. *)

\* Whoever changes neither plans nor journals and is not in a revert keeps the facts on plans.
LEMMA PlansFrame ==
  ASSUME Invariant, UNCHANGED <<journal, plan, done>>, member \subseteq member',
         pc' \notin RevertPhases
  PROVE  PlansKnown'
<1>1. PlansKnown
  BY DEF Invariant
<1> QED
  BY <1>1 DEF PlansKnown, Planned, Mutates, RevertPhases, UndoPhases

\* Retired work belongs to whole runs.
LEMMA PlansRetired ==
  ASSUME Invariant, NEW R, RetireWork(R), UNCHANGED journal, member \subseteq member'
  PROVE  /\ \A j \in Jobs : plan'[j].made =>
              /\ j[1] \in member' /\ j[2] \in DOMAIN journal'[j[1]] /\ Mutates(journal'[j[1]][j[2]])
              /\ \A k \in DOMAIN journal'[j[1]] : k > j[2] => Planned(j[1], k)'
         /\ \A j \in done' : plan'[j].made /\ \A k \in DOMAIN journal'[j[1]] : Planned(j[1], k)'
<1>1. PlansKnown /\ TypeOK /\ done \subseteq Jobs /\ member \subseteq Runs
  BY DEF Invariant, TypeOK, DiskTyped
<1>2. \A j \in Jobs : j[1] \in R => ~plan'[j].made
  BY DEF RetireWork, NoPlan
<1>3. \A j \in Jobs : j[1] \notin R => plan'[j] = plan[j]
  BY DEF RetireWork
<1>4. ASSUME NEW r \in Runs, r \notin R, NEW k \in DOMAIN journal[r], Planned(r, k)
      PROVE  Planned(r, k)'
  <2>1. <<r, k>> \in Jobs
    BY <1>1, JobOfEntry
  <2> QED
    BY <1>3, <1>4, <2>1 DEF Planned, Mutates
<1>5. ASSUME NEW j \in Jobs, plan'[j].made
      PROVE  /\ j[1] \in member' /\ j[2] \in DOMAIN journal'[j[1]] /\ Mutates(journal'[j[1]][j[2]])
             /\ \A k \in DOMAIN journal'[j[1]] : k > j[2] => Planned(j[1], k)'
  <2>1. j[1] \notin R /\ plan[j].made /\ j[1] \in Runs
    BY <1>2, <1>3, <1>5 DEF Jobs
  <2> QED
    BY <1>1, <1>4, <2>1 DEF PlansKnown
<1>6. ASSUME NEW j \in done'
      PROVE  plan'[j].made /\ \A k \in DOMAIN journal'[j[1]] : Planned(j[1], k)'
  <2>1. j[1] \notin R /\ j \in done
    BY <1>6 DEF RetireWork
  <2>2. j \in Jobs /\ j[1] \in Runs
    BY <1>1, <2>1 DEF Jobs
  <2> QED
    BY <1>1, <1>3, <1>4, <2>1, <2>2 DEF PlansKnown
<1> QED
  BY <1>5, <1>6

\* Every step keeps the order in which plans are made and entries undone.
LEMMA PlansKnownStep ==
  ASSUME Invariant, [Next]_vars
  PROVE  PlansKnown'
<1>1. PlansKnown /\ TypeOK /\ done \subseteq Jobs /\ member \subseteq Runs /\ SessionKnown
      /\ plan \in [Jobs -> Plans] /\ journal \in [Runs -> Seq(Results)]
  BY DEF Invariant, TypeOK, DiskTyped
<1>2. CASE UNCHANGED vars
  BY <1>1, <1>2 DEF vars, disk, session, PlansKnown, Planned, Mutates
<1>3. CASE BeginRestore
  <2>1. RetireWork(reverted) /\ UNCHANGED <<journal, member>> /\ pc' = "entry"
    BY <1>3 DEF BeginRestore
  <2> QED
    BY <2>1, PlansRetired DEF PlansKnown, UndoPhases, SwapPhases
<1>4. CASE RetireReverted
  <2>1. RetireWork({run}) /\ UNCHANGED <<journal, member>> /\ pc' = "idle"
    BY <1>4 DEF RetireReverted, ToIdle
  <2> QED
    BY <2>1, PlansRetired DEF PlansKnown, UndoPhases, SwapPhases
<1>5. CASE BeginRevert
  <2>1. RetireWork(reverted) /\ UNCHANGED journal /\ member \subseteq member' /\ pc' = "prepare"
        /\ run' = RevertCandidate /\ idx' = Len(journal[RevertCandidate])
    BY <1>5 DEF BeginRevert, AdoptJournal
  <2>2. RevertCandidate \in Runs
    BY <1>5, CandidateKnown DEF BeginRevert
  <2>3. \A k \in DOMAIN journal'[run'] : ~(k > idx')
    BY <1>1, <2>1, <2>2, JobOfEntry
  <2> QED
    BY <2>1, <2>3, PlansRetired DEF PlansKnown, UndoPhases, SwapPhases
<1>6. CASE RestoreWork \/ RegisterJournal \/ MarkReverted \/ Crash
  <2>1. UNCHANGED <<journal, plan, done>> /\ member \subseteq member' /\ pc' \notin RevertPhases
    BY <1>6, RestoreWorkFrame
    DEF RegisterJournal, MarkReverted, Crash, ToIdle, disk, RevertPhases, UndoPhases, SwapPhases
  <2> QED
    BY <2>1, PlansFrame
<1>7. CASE PublishJournal
  <2>1. run \in Runs /\ run \notin member
    BY <1>7, RestoreAt DEF PublishJournal, RestorePhases
  <2>2. UNCHANGED <<plan, done, member>> /\ pc' \in {"idle", "register"}
        /\ (UNCHANGED journal \/ journal' = [journal EXCEPT ![run] = results])
    BY <1>7 DEF PublishJournal, ToIdle
  <2>3. \A r \in member : journal'[r] = journal[r]
    BY <1>1, <2>1, <2>2
  <2>4. \A j \in Jobs : plan[j].made => j[1] \in member
    BY <1>1 DEF PlansKnown
  <2>5. \A j \in done : j \in Jobs /\ j[1] \in member
    BY <1>1, <2>4 DEF PlansKnown
  <2> QED
    BY <1>1, <2>2, <2>3, <2>4, <2>5 DEF PlansKnown, Planned, Mutates, UndoPhases, SwapPhases
<1>8. CASE PrepareEntry
  <2>1. run \in Runs /\ run \in member /\ idx > 0 /\ Job \in Jobs /\ idx \in DOMAIN journal[run] /\ pc = "prepare"
    BY <1>8, RevertAt DEF PrepareEntry, RevertPhases
  <2>2. /\ UNCHANGED <<journal, member, done, pc, run>> /\ idx' = idx - 1
        /\ \/ UNCHANGED plan /\ (~Mutates(J) \/ plan[Job].made)
           \/ Mutates(J) /\ plan' = [plan EXCEPT ![Job] = PlanOf(run, idx)]
    BY <1>8 DEF PrepareEntry
  <2>3. \A k \in DOMAIN journal[run] : k \in Nat /\ (k > idx => Planned(run, k))
    BY <1>1, <2>1, JobOfEntry DEF PlansKnown
  <2>4. idx \in Nat
    BY <1>1, <2>1, JobOfEntry
  <2>5. CASE UNCHANGED plan /\ (~Mutates(J) \/ plan[Job].made)
    <3>1. Planned(run, idx)
      BY <2>5 DEF Planned, J, Job
    <3>2. \A k \in DOMAIN journal[run] : k > idx - 1 => Planned(run, k)
      BY <2>3, <2>4, <3>1
    <3> QED
      BY <1>1, <2>1, <2>2, <2>5, <3>2 DEF PlansKnown, Planned, Mutates, UndoPhases, SwapPhases
  <2>6. CASE Mutates(J) /\ plan' = [plan EXCEPT ![Job] = PlanOf(run, idx)]
    <3> DEFINE Kept(r, k) == Mutates(journal[r][k]) => plan'[<<r, k>>].made
    <3>1. plan'[Job].made /\ \A j \in Jobs : j # Job => plan'[j] = plan[j]
      BY <1>1, <2>1, <2>6 DEF PlanOf
    <3>2. ASSUME NEW r \in Runs, NEW k \in DOMAIN journal[r], Planned(r, k)
          PROVE  Kept(r, k)
      <4>1. <<r, k>> \in Jobs
        BY <1>1, JobOfEntry
      <4> QED
        BY <2>2, <3>1, <3>2, <4>1 DEF Planned, Mutates
    <3>3. Kept(run, idx)
      BY <2>2, <3>1 DEF Planned, Job
    <3>4. \A k \in DOMAIN journal[run] : k > idx - 1 => Kept(run, k)
      BY <2>1, <2>3, <2>4, <3>2, <3>3
    <3>5. ASSUME NEW j \in Jobs, plan'[j].made
          PROVE  /\ j[1] \in member /\ j[2] \in DOMAIN journal[j[1]] /\ Mutates(journal[j[1]][j[2]])
                 /\ \A k \in DOMAIN journal[j[1]] : k > j[2] => Kept(j[1], k)
      <4>1. CASE j = Job
        BY <2>1, <2>4, <2>6, <3>4, <2>3, <4>1 DEF Job, J
      <4>2. CASE j # Job
        BY <1>1, <3>1, <3>2, <3>5, <4>2 DEF PlansKnown, Jobs
      <4> QED
        BY <4>1, <4>2
    <3>6. ASSUME NEW j \in done
          PROVE  plan'[j].made /\ \A k \in DOMAIN journal[j[1]] : Kept(j[1], k)
      <4>1. j \in Jobs /\ j[1] \in Runs
        BY <1>1 DEF Jobs
      <4> QED
        BY <1>1, <3>1, <3>2, <4>1 DEF PlansKnown
    <3> QED
      BY <2>1, <2>2, <3>4, <3>5, <3>6 DEF PlansKnown, Planned, Mutates, UndoPhases, SwapPhases
  <2> QED
    BY <2>2, <2>5, <2>6
<1>9. CASE RevertWork
  <2>1. /\ UNCHANGED <<journal, member, plan, done>>
        /\ pc' = "idle" \/ (pc' \in UndoPhases /\ run' = run)
    BY <1>9, RevertWorkFrame
  <2>2. pc \in RevertPhases
    BY <1>9, RevertWorkFrame DEF Invariant, TypeOK, SessionTyped, RestorePhases, RevertPhases, UndoPhases, SwapPhases
  <2>3. CASE pc' = "idle"
    BY <2>1, <2>3, PlansFrame DEF RevertPhases, UndoPhases, SwapPhases
  <2>4. CASE pc' \in UndoPhases /\ run' = run
    <3>1. run \in Runs /\ DOMAIN journal[run] = 1..Len(journal[run]) /\ Len(journal[run]) \in Nat
          /\ idx \in 0..Len(journal[run])
      BY <1>1, <2>2, RevertAt, JobOfEntry
    <3>2. ASSUME NEW k \in DOMAIN journal[run]
          PROVE  Planned(run, k) /\ (k > idx' /\ Mutates(journal[run][k]) => <<run, k>> \in done)
      <4>1. CASE pc' \in SwapPhases
        <5>1. idx' = idx /\ pc \in UndoPhases
          BY <1>9, <4>1, RevertWorkMove DEF UndoPhases
        <5> QED
          BY <1>1, <5>1 DEF PlansKnown
      <4>2. CASE pc' = "undo" /\ pc = "prepare" /\ idx = 0 /\ idx' = Len(journal[run])
        BY <1>1, <3>1, <4>2 DEF PlansKnown
      <4>3. CASE pc' = "undo" /\ pc = "undo" /\ idx > 0 /\ idx' = idx - 1 /\ (~Mutates(J) \/ Job \in done)
        <5>1. pc \in UndoPhases
          BY <4>3 DEF UndoPhases
        <5>2. k > idx' => k > idx \/ k = idx
          BY <3>1, <4>3
        <5> QED
          BY <1>1, <4>3, <5>1, <5>2 DEF PlansKnown, J, Job
      <4> QED
        BY <1>9, <2>4, <4>1, <4>2, <4>3, RevertWorkMove DEF UndoPhases
    <3> QED
      BY <1>1, <2>1, <2>4, <3>2 DEF PlansKnown, Planned, Mutates, UndoPhases, SwapPhases
  <2> QED
    BY <2>1, <2>3, <2>4
<1>10. CASE CompleteEntry
  <2>1. idx \in DOMAIN journal[run] /\ Mutates(J) /\ Job \in Jobs /\ run \in Runs /\ pc \in UndoPhases
    BY <1>10, SwapAt, RevertAt DEF CompleteEntry, SwapPhases, UndoPhases, RevertPhases
  <2>2. /\ done' = done \cup {Job} /\ UNCHANGED <<journal, member, plan, run>>
        /\ pc' = "undo" /\ idx' = idx - 1
    BY <1>10 DEF CompleteEntry, NextEntry
  <2>3. /\ \A k \in DOMAIN journal[run] : k \in Nat /\ Planned(run, k)
        /\ \A k \in DOMAIN journal[run] : k > idx /\ Mutates(journal[run][k]) => <<run, k>> \in done
    BY <1>1, <2>1, JobOfEntry DEF PlansKnown
  <2>4. plan[Job].made
    BY <2>1, <2>3 DEF Planned, J, Job
  <2>5. \A k \in DOMAIN journal[run] : k > idx - 1 /\ Mutates(journal[run][k]) => <<run, k>> \in done'
    BY <2>1, <2>2, <2>3 DEF Job
  <2>6. \A j \in done' : plan[j].made /\ \A k \in DOMAIN journal[j[1]] : Planned(j[1], k)
    <3>1. Job[1] = run
      BY DEF Job
    <3> QED
      BY <1>1, <2>2, <2>3, <2>4, <3>1 DEF PlansKnown
  <2> QED
    BY <1>1, <2>2, <2>3, <2>5, <2>6 DEF PlansKnown, Planned, Mutates, UndoPhases, SwapPhases
<1>11. CASE EditTarget
  <2>1. UNCHANGED <<journal, member, plan, done, session>>
    BY <1>11 DEF EditTarget, SetLive
  <2> QED
    BY <1>1, <2>1 DEF session, PlansKnown, Planned, Mutates
<1> QED
  BY <1>2, <1>3, <1>4, <1>5, <1>6, <1>7, <1>8, <1>9, <1>10, <1>11
  DEF Next, RestoreNext, RestoreWork, RevertNext, RevertWork
-----------------------------------------------------------------------------
(* The swap of one target. *)

\* Within an entry the job and its plan stay what they are.
LEMMA SwapFrame ==
  ASSUME Invariant, RevertWork, pc' \in SwapPhases
  PROVE  /\ J' = J /\ Job' = Job /\ Prior' = Prior /\ edits' = edits
         /\ J.target \in Targets /\ Job \in Jobs /\ Prior \in Plans /\ Prior.desired \in Contents
         /\ Now' = live'[J.target] /\ pc \in UndoPhases /\ idx > 0
         /\ stage[Job] \in Contents /\ held[Job] \in Contents
<1>1. idx' = idx /\ run' = run /\ UNCHANGED <<journal, plan, edits>> /\ pc \in UndoPhases
  BY RevertWorkFrame, RevertWorkMove DEF UndoPhases, SwapPhases
<1>2. J' = J /\ Job' = Job /\ Prior' = Prior
  BY <1>1 DEF J, Job, Prior
<1>3. Now' = live'[J.target]
  BY <1>2 DEF Now
<1>4. idx > 0
  BY RevertWorkMove DEF Invariant, SessionKnown
<1>5. J \in Results /\ Job \in Jobs
  BY <1>1, <1>4, RevertAt DEF RevertPhases
<1>6. Prior \in Plans /\ stage[Job] \in Contents /\ held[Job] \in Contents
  BY <1>5 DEF Prior, Invariant, TypeOK, DiskTyped
<1> QED
  BY <1>1, <1>2, <1>3, <1>4, <1>5, <1>6 DEF Results, Plans

\* Every step keeps what the next step of a swap relies on.
LEMMA SwapKnownStep ==
  ASSUME Invariant, [Next]_vars
  PROVE  SwapKnown'
<1>1. SwapKnown /\ TypeOK /\ live \in [Targets -> Contents] /\ stage \in [Jobs -> Contents]
      /\ held \in [Jobs -> Contents] /\ cur \in Works
  BY DEF Invariant, TypeOK, DiskTyped, SessionTyped
<1>2. CASE UNCHANGED vars
  BY <1>1, <1>2 DEF vars, disk, session, faults, SwapKnown, Prior, Job, J, Now, Swappable, HeldBefore
<1>3. CASE pc' \notin SwapPhases
  BY <1>3 DEF SwapKnown, SwapPhases
<1>4. CASE EditTarget
  <2>1. UNCHANGED <<journal, plan, stage, held, session>> /\ edits' = edits + 1 /\ edits \in Nat
    BY <1>1, <1>4 DEF EditTarget, SetLive, TypeOK
  <2>2. edits' # 0
    BY <2>1
  <2> QED
    BY <1>1, <2>1, <2>2 DEF session, SwapKnown, Prior, Job, J
<1>5. CASE RevertWork /\ pc' \in SwapPhases
  <2>1. /\ J' = J /\ Job' = Job /\ Prior' = Prior /\ edits' = edits
        /\ J.target \in Targets /\ Job \in Jobs /\ Prior \in Plans /\ Prior.desired \in Contents
        /\ Now' = live'[J.target]
    BY <1>5, SwapFrame
  <2>2. CASE AlreadyUndone
    BY <2>1, <2>2 DEF AlreadyUndone, Goto, disk, SwapKnown, Now
  <2>3. CASE UndoInPlace
    BY <2>1, <2>3 DEF UndoInPlace, Goto, SwapKnown
  <2>4. CASE BeginSwap
    <3>1. pc' = (IF Prior.desired = Absent THEN "hold" ELSE "stage") /\ UNCHANGED <<live, stage, held>> /\ Swappable
      BY <2>4 DEF BeginSwap, Goto, disk
    <3>2. cur'.existed = (Now # Absent) /\ cur'.holding = (held[Job] # Absent)
      BY <1>1, <2>4 DEF BeginSwap, Works
    <3>3. Now' = Now /\ held'[Job'] = held[Job] /\ Swappable'
      BY <2>1, <3>1 DEF Now, Swappable, HeldBefore
    <3> QED
      BY <2>1, <3>1, <3>2, <3>3 DEF SwapKnown
  <2>5. CASE StageFile \/ StageEnds \/ StageDirectory \/ StageMember
    <3>1. UNCHANGED <<live, held, cur>> /\ pc \in {"stage", "staging"} /\ pc' \in {"staging", "hold"}
      BY <2>5 DEF StageFile, StageEnds, StageDirectory, StageMember, Goto, SetStage, disk, session
    <3>2. Now' = Now /\ held'[Job'] = held[Job] /\ Swappable' = Swappable
      BY <2>1, <3>1 DEF Now, Swappable, HeldBefore
    <3>3. Prior.desired # Absent
      BY <1>1, <3>1 DEF SwapKnown
    <3>4. /\ pc' = "staging" => stage'[Job] # Absent
          /\ pc' = "hold" => stage'[Job] = Prior.desired
      <4>1. CASE StageFile
        BY <1>1, <2>1, <4>1 DEF StageFile, SetStage, Goto
      <4>2. CASE StageEnds
        BY <4>2 DEF StageEnds, Goto, disk
      <4>3. CASE StageDirectory
        <5>1. CASE stage[Job] = Absent
          <6>1. stage'[Job] = {} /\ pc' = "staging"
            BY <1>1, <2>1, <4>3, <5>1 DEF StageDirectory, SetStage, Goto
          <6>2. {} # Absent
            BY AbsentIsNoContent
          <6> QED
            BY <6>1, <6>2
        <5>2. CASE stage[Job] # Absent
          BY <4>3, <5>2 DEF StageDirectory, disk, Goto
        <5> QED
          BY <5>1, <5>2
      <4>4. CASE StageMember
        <5>1. PICK m \in Prior.desired \ stage[Job] : SetStage(stage[Job] \cup {m})
          BY <4>4 DEF StageMember
        <5>2. stage[Job] # Absent /\ pc' = "staging"
          BY <1>1, <4>4 DEF StageMember, SwapKnown, session
        <5>3. stage[Job] \in SUBSET Items /\ Prior.desired \in SUBSET Items
          BY <1>1, <2>1, <3>3, <5>2 DEF Contents
        <5>4. stage[Job] \cup {m} # Absent
          BY <5>3, AbsentIsNoContent
        <5> QED
          BY <1>1, <2>1, <5>1, <5>2, <5>4 DEF SetStage
      <4> QED
        BY <2>5, <4>1, <4>2, <4>3, <4>4
    <3>5. edits = 0 => Swappable /\ cur.existed = (Now # Absent) /\ cur.holding = (held[Job] # Absent)
      BY <1>1, <3>1 DEF SwapKnown
    <3> QED
      BY <2>1, <3>1, <3>2, <3>3, <3>4, <3>5 DEF SwapKnown
  <2>6. CASE HoldTarget
    <3>1. pc = "hold" /\ pc' = "replace" /\ UNCHANGED stage
      BY <2>6 DEF HoldTarget, Goto
    <3> QED
      BY <1>1, <2>1, <3>1 DEF SwapKnown
  <2>7. CASE ReplaceTarget
    BY <2>7 DEF ReplaceTarget, Goto, SwapKnown
  <2>8. CASE VerifyTarget
    BY <2>1, <2>8 DEF VerifyTarget, Goto, disk, SwapKnown, Now
  <2>9. CASE RemoveScratch
    <3>1. pc = "clean" /\ pc' = "clean" /\ UNCHANGED live
      BY <2>9 DEF RemoveScratch, session
    <3> QED
      BY <1>1, <2>1, <3>1 DEF SwapKnown, Now
  <2>10. ~RevertFails /\ ~Refuses /\ ~PrepareEnds /\ ~PassOver
    BY <1>5 DEF RevertFails, Refuses, PrepareEnds, PassOver, NextEntry, ToIdle, SwapPhases
  <2> QED
    BY <1>5, <2>2, <2>3, <2>4, <2>5, <2>6, <2>7, <2>8, <2>9, <2>10 DEF RevertWork
<1>6. CASE Next /\ pc' \in SwapPhases
  <2>1. ~RestoreNext /\ ~BeginRevert /\ ~PrepareEntry /\ ~CompleteEntry /\ ~MarkReverted /\ ~RetireReverted /\ ~Crash
    <3>1. ~RestoreWork
      BY <1>6, RestoreWorkFrame DEF SwapPhases
    <3>2. ~BeginRestore /\ ~PublishJournal /\ ~RegisterJournal
      BY <1>6 DEF BeginRestore, PublishJournal, RegisterJournal, ToIdle, SwapPhases
    <3>3. ~BeginRevert /\ ~PrepareEntry /\ ~CompleteEntry /\ ~MarkReverted /\ ~RetireReverted /\ ~Crash
      BY <1>6 DEF BeginRevert, PrepareEntry, CompleteEntry, MarkReverted, RetireReverted, Crash, NextEntry, ToIdle, SwapPhases
    <3> QED
      BY <3>1, <3>2, <3>3 DEF RestoreNext, RestoreWork
  <2> QED
    BY <1>4, <1>5, <1>6, <2>1 DEF Next, RevertNext, RevertWork
<1> QED
  BY <1>2, <1>3, <1>6
-----------------------------------------------------------------------------
(* Nothing is lost. *)

\* An entry of the newest run that is still to be undone and whose target no
\* later entry shares.
Pending(j) ==
  /\ j[1] = nextRun - 1 /\ plan[j].made /\ j \notin done /\ j[1] \notin reverted
  /\ Later(j[1], j[2]) = {}

\* The content such an entry found is somewhere, or the prior content is in place.
Safe(j) ==
  LET t == journal[j[1]][j[2]].target
  IN  live[t] = plan[j].before \/ held[j] = plan[j].before \/ live[t] = plan[j].desired

\* Its target is not the one that the revert is at, unless it is its own entry.
LEMMA OtherTarget ==
  ASSUME Invariant, pc \in UndoPhases, idx > 0, Mutates(J), Job \notin done,
         NEW j \in Jobs, j # Job, Pending(j)
  PROVE  journal[j[1]][j[2]].target # J.target
<1>1. j[1] \in member /\ j[2] \in DOMAIN journal[j[1]] /\ Mutates(journal[j[1]][j[2]]) /\ j[1] \in Runs
  BY DEF Pending, Invariant, PlansKnown, TypeOK, DiskTyped
<1>2. run = nextRun - 1
  BY <1>1 DEF Pending, Invariant, SessionKnown, ActiveRuns, RevertPhases
<1>3. run = j[1] /\ run \in Runs
  BY <1>1, <1>2 DEF Pending
<1>4. idx \in DOMAIN journal[run] /\ DOMAIN journal[run] = 1..Len(journal[run]) /\ Len(journal[run]) \in Nat
  BY <1>3, RevertAt, JobOfEntry DEF RevertPhases, Invariant
<1>5. j = <<j[1], j[2]>>
  BY DEF Jobs
<1>6. j[2] # idx
  BY <1>3, <1>5 DEF Job
<1>7. ~(j[2] > idx)
  BY <1>1, <1>3, <1>5 DEF Pending, Invariant, PlansKnown
<1>8. idx \in (j[2] + 1)..Len(journal[run])
  BY <1>1, <1>3, <1>4, <1>6, <1>7
<1> QED
  BY <1>3, <1>8 DEF Pending, Later, J

\* Every step keeps the content that a revert found.
LEMMA NothingLostStep ==
  ASSUME Invariant, [Next]_vars
  PROVE  NothingLost'
<1>1. TypeOK /\ edits \in Nat /\ nextRun \in Nat /\ live \in [Targets -> Contents] /\ held \in [Jobs -> Contents]
      /\ plan \in [Jobs -> Plans] /\ done \subseteq Jobs
  <2>1. TypeOK /\ MaxRuns \in Nat
    BY EntriesAreTyped DEF Invariant
  <2>2. nextRun \in 1..(MaxRuns + 1)
    BY <2>1 DEF TypeOK, SessionTyped
  <2> QED
    BY <2>1, <2>2 DEF TypeOK, DiskTyped
<1>2. edits' >= edits
  BY <1>1, CounterStep DEF vars, faults
<1>3. SUFFICES ASSUME edits' = 0, NEW j \in Jobs, Pending(j)'
               PROVE  Safe(j)'
  BY DEF NothingLost, Pending, Safe
<1>4. edits = 0
  BY <1>1, <1>2, <1>3
<1>5. Pending(j) => Safe(j)
  BY <1>4 DEF Invariant, NothingLost, Pending, Safe
<1>6. plan[j].made => j[1] \in member /\ j[1] \in Runs /\ j[1] < nextRun /\ j[1] \in Nat
  <2>1. ASSUME plan[j].made
        PROVE  j[1] \in member /\ j[1] \in Runs
    BY <1>1, <2>1 DEF Invariant, PlansKnown, TypeOK, DiskTyped
  <2>2. ASSUME plan[j].made
        PROVE  ~(j[1] >= nextRun)
    BY <2>1, <2>2 DEF Invariant, SessionKnown
  <2>3. j[1] \in Nat
    BY EntriesAreTyped DEF Jobs, Runs
  <2> QED
    BY <1>1, <2>1, <2>2, <2>3
<1>7. CASE UNCHANGED vars
  BY <1>3, <1>5, <1>7 DEF vars, disk, session, Pending, Safe, Later, Mutates
<1>8. CASE BeginRestore
  <2>1. nextRun' = nextRun + 1 /\ plan'[j].made
    BY <1>3, <1>8 DEF BeginRestore, Pending
  <2>2. plan[j].made
    BY <1>8, <2>1 DEF BeginRestore, RetireWork, NoPlan
  <2> QED
    BY <1>1, <1>3, <1>6, <2>1, <2>2 DEF Pending
<1>9. CASE RestoreWork \/ PublishJournal \/ RegisterJournal
  <2>1. UNCHANGED <<plan, nextRun>> /\ pc \in RestorePhases
    BY <1>9, RestoreWorkFrame DEF PublishJournal, RegisterJournal, RestorePhases
  <2>2. run = nextRun - 1 /\ run \notin member
    BY <2>1, RestoreAt
  <2> QED
    BY <1>3, <1>6, <2>1, <2>2 DEF Pending
<1>10. ASSUME NEW R, RetireWork(R), UNCHANGED <<live, held, journal, reverted, nextRun>>
       PROVE  Safe(j)'
  <2>1. plan'[j].made /\ j[1] = nextRun - 1 /\ j[1] \notin reverted /\ Later(j[1], j[2]) = {}
    BY <1>3, <1>10 DEF Pending, Later, Mutates
  <2>2. plan'[j] = plan[j] /\ j[1] \notin R
    BY <1>10, <2>1 DEF RetireWork, NoPlan
  <2>3. j \notin done
    BY <1>3, <1>10, <2>2 DEF RetireWork, Pending
  <2> QED
    BY <1>5, <1>10, <2>1, <2>2, <2>3 DEF Pending, Safe
<1>11. CASE BeginRevert \/ RetireReverted
  BY <1>10, <1>11 DEF BeginRevert, RetireReverted
<1>12. CASE PrepareEntry
  <2>1. UNCHANGED <<live, held, journal, reverted, nextRun, done>>
    BY <1>12 DEF PrepareEntry
  <2>2. plan' = plan \/ plan' = [plan EXCEPT ![Job] = PlanOf(run, idx)]
    BY <1>12 DEF PrepareEntry
  <2>3. /\ j[1] = nextRun - 1 /\ j[1] \notin reverted /\ j \notin done /\ Later(j[1], j[2]) = {}
        /\ plan'[j].made
    BY <1>3, <2>1 DEF Pending, Later, Mutates
  <2>4. CASE plan'[j] = plan[j]
    BY <1>5, <2>1, <2>3, <2>4 DEF Pending, Safe
  <2>5. CASE plan'[j] # plan[j]
    <3>1. j = Job /\ plan'[j] = PlanOf(run, idx)
      BY <1>1, <2>2, <2>5
    <3>2. j[1] = run /\ j[2] = idx
      BY <3>1 DEF Job
    <3>3. plan'[j].before = live[journal[run][idx].target]
      BY <2>3, <3>1, <3>2 DEF PlanOf, Before
    <3> QED
      BY <2>1, <3>2, <3>3 DEF Safe
  <2> QED
    BY <2>4, <2>5
<1>13. ASSUME UNCHANGED <<live, held, journal, plan, nextRun>>, done \subseteq done', reverted \subseteq reverted'
       PROVE  Safe(j)'
  BY <1>3, <1>5, <1>13 DEF Pending, Safe, Later, Mutates
<1>14. CASE CompleteEntry \/ MarkReverted \/ Crash
  BY <1>13, <1>14 DEF CompleteEntry, NextEntry, MarkReverted, Crash, disk
<1>15. CASE RevertWork
  <2>1. /\ UNCHANGED <<journal, plan, nextRun, done, reverted>> /\ pc \in RevertPhases
    BY <1>15, RevertWorkFrame
  <2>2. Pending(j)
    BY <1>3, <2>1 DEF Pending, Later, Mutates
  <2>3. CASE UNCHANGED <<live, held>>
    BY <1>13, <2>1, <2>3
  <2>4. CASE ~UNCHANGED <<live, held>>
    <3>1. UndoInPlace \/ HoldTarget \/ ReplaceTarget \/ RemoveScratch
      BY <1>15, <2>4 DEF RevertWork, RevertFails, Refuses, PrepareEnds, PassOver, AlreadyUndone, BeginSwap,
         StageFile, StageDirectory, StageMember, StageEnds, VerifyTarget, SetStage, disk
    <3>2. pc \in UndoPhases /\ idx > 0 /\ Mutates(J) /\ Job \notin done /\ Job \in Jobs
      <4>1. CASE UndoInPlace
        BY <2>1, <4>1, RevertAt DEF UndoInPlace, UndoPhases
      <4>2. CASE HoldTarget \/ ReplaceTarget \/ RemoveScratch
        BY <4>2, SwapAt DEF HoldTarget, ReplaceTarget, RemoveScratch, UndoPhases, SwapPhases
      <4> QED
        BY <3>1, <4>1, <4>2
    <3>3. /\ \A u \in Targets : u # J.target => live'[u] = live[u]
          /\ \A k \in Jobs : k # Job => held'[k] = held[k]
      BY <1>1, <3>1 DEF UndoInPlace, SetLive, HoldTarget, MoveAside, ReplaceTarget, RemoveScratch, RemoveStep
    <3>4. CASE j # Job
      <4>1. journal[j[1]][j[2]].target # J.target
        BY <2>2, <3>2, <3>4, OtherTarget
      <4>2. journal[j[1]][j[2]].target \in Targets
        <5>1. j[1] \in Runs /\ j[2] \in DOMAIN journal[j[1]]
          BY <1>6, <2>2 DEF Pending, Invariant, PlansKnown
        <5> QED
          BY <1>1, <5>1, JobOfEntry DEF Results
      <4> QED
        BY <1>5, <2>1, <2>2, <3>3, <3>4, <4>1, <4>2 DEF Safe
    <3>5. CASE j = Job
      <4>1. j[1] = run /\ j[2] = idx /\ journal[j[1]][j[2]] = J /\ Prior = plan[j]
        BY <3>5 DEF Job, J, Prior
      <4>2. J.target \in Targets
        BY <2>1, <3>2, RevertAt DEF Results
      <4>3. live[J.target] = Prior.before \/ held[Job] = Prior.before \/ live[J.target] = Prior.desired
        BY <1>5, <2>2, <3>5, <4>1 DEF Safe
      <4>4. live'[J.target] = Prior.before \/ held'[Job] = Prior.before \/ live'[J.target] = Prior.desired
        <5>1. CASE UndoInPlace
          BY <1>1, <4>2, <5>1 DEF UndoInPlace, SetLive
        <5>2. CASE HoldTarget
          <6>1. CASE cur.existed /\ ~cur.holding
            <7>1. held'[Job] = Now
              BY <1>1, <3>2, <5>2, <6>1 DEF HoldTarget, MoveAside
            <7>2. Swappable /\ Now # Absent
              BY <1>4, <5>2, <6>1 DEF HoldTarget, Invariant, SwapKnown
            <7> QED
              BY <7>1, <7>2 DEF Swappable, HeldBefore
          <6>2. CASE ~(cur.existed /\ ~cur.holding)
            BY <4>3, <5>2, <6>2 DEF HoldTarget
          <6> QED
            BY <6>1, <6>2
        <5>3. CASE ReplaceTarget
          <6>1. CASE Prior.desired # Absent /\ Now = Absent
            <7>1. live'[J.target] = stage[Job]
              BY <1>1, <4>2, <5>3, <6>1 DEF ReplaceTarget
            <7>2. stage[Job] = Prior.desired
              BY <5>3, <6>1 DEF ReplaceTarget, Invariant, SwapKnown
            <7> QED
              BY <7>1, <7>2
          <6>2. CASE ~(Prior.desired # Absent /\ Now = Absent)
            BY <4>3, <5>3, <6>2 DEF ReplaceTarget
          <6> QED
            BY <6>1, <6>2
        <5>4. CASE RemoveScratch
          BY <1>4, <5>4 DEF RemoveScratch, Invariant, SwapKnown, Now
        <5> QED
          BY <3>1, <5>1, <5>2, <5>3, <5>4
      <4> QED
        BY <2>1, <3>5, <4>1, <4>4 DEF Safe
    <3> QED
      BY <3>4, <3>5
  <2> QED
    BY <2>3, <2>4
<1>16. CASE EditTarget
  BY <1>1, <1>3, <1>16 DEF EditTarget
<1> QED
  BY <1>7, <1>8, <1>9, <1>11, <1>12, <1>14, <1>15, <1>16
  DEF Next, RestoreNext, RestoreWork, RevertNext, RevertWork
-----------------------------------------------------------------------------
(* Foreign edits. *)

\* What is open on a target is a matter of journals, plans and records.
LEMMA OpenJobsSame ==
  ASSUME UNCHANGED <<journal, plan, done, reverted>>
  PROVE  \A r, u : Blocked(r, u)' = Blocked(r, u)
BY DEF Blocked, OpenJobs

\* An open job is a mutating entry of a registered run.
LEMMA OpenJobKnown ==
  ASSUME Invariant, NEW u, NEW k \in OpenJobs(u)
  PROVE  /\ k \in Jobs /\ k = <<k[1], k[2]>> /\ k[1] \in Runs /\ k[1] \in member /\ k[2] \in Nat \ {0}
         /\ plan[k].made /\ k \notin done /\ k[1] \notin reverted
         /\ k[2] \in DOMAIN journal[k[1]] /\ Mutates(journal[k[1]][k[2]])
         /\ journal[k[1]][k[2]].target = u
         /\ \A i \in DOMAIN journal[k[1]] : i > k[2] => Planned(k[1], i)
<1>1. k \in Jobs /\ plan[k].made /\ k \notin done /\ k[1] \notin reverted /\ journal[k[1]][k[2]].target = u
  BY DEF OpenJobs
<1>2. k = <<k[1], k[2]>> /\ k[1] \in Runs /\ k[2] \in Nat \ {0}
  BY <1>1, EntriesAreTyped DEF Jobs
<1> QED
  BY <1>1, <1>2 DEF Invariant, PlansKnown

\* At a target somebody edited the revert sees neither of the contents it expects.
LEMMA UndoBlocked ==
  ASSUME Invariant, pc \in UndoPhases, idx > 0, Mutates(J), Job \notin done,
         NEW f \in foreign, J.target = f[2]
  PROVE  Now = UserItems /\ Now # Prior.before /\ Now # Prior.desired /\ Now # Absent
<1>1. live[f[2]] = UserItems /\ Blocked(f[1], f[2]) /\ run = f[1]
  BY DEF Invariant, ForeignKnown, RevertPhases, UndoPhases, SwapPhases
<1>2. PICK k \in OpenJobs(f[2]) : k[1] = run /\ \A j \in OpenJobs(f[2]) :
              j[1] = run /\ j[2] >= k[2] => UserItems \notin {plan[j].before, plan[j].desired}
  BY <1>1 DEF Blocked
<1>3. Job \in Jobs /\ idx \in DOMAIN journal[run] /\ run \notin reverted /\ run \in Runs
  BY RevertAt DEF RevertPhases
<1>4. plan[Job].made
  BY <1>3 DEF Invariant, PlansKnown, Planned, J, Job
<1>5. Job \in OpenJobs(f[2]) /\ Job[1] = run /\ Job[2] = idx
  BY <1>3, <1>4 DEF OpenJobs, Job, J
<1>6. idx \in Nat /\ k[2] \in Nat
  BY <1>3, OpenJobKnown, JobOfEntry DEF Invariant
<1>7. ~(k[2] > idx)
  BY <1>2, OpenJobKnown DEF Invariant, PlansKnown
<1>8. UserItems \notin {Prior.before, Prior.desired}
  BY <1>2, <1>5, <1>6, <1>7 DEF Prior
<1>9. UserItems # Absent
  BY Constants, AbsentIsNoContent
<1> QED
  BY <1>1, <1>8, <1>9 DEF Now

\* The revert neither touches it nor starts on it.
LEMMA ForeignUntouched ==
  ASSUME Invariant, RevertWork, NEW f \in foreign
  PROVE  live'[f[2]] = live[f[2]] /\ (pc' \in SwapPhases => J'.target # f[2])
<1>1. f \in Runs \X Targets /\ live \in [Targets -> Contents]
  BY DEF Invariant, TypeOK, DiskTyped
<1>2. pc \in SwapPhases => J.target # f[2]
  BY DEF Invariant, ForeignKnown
<1>3. pc' \in SwapPhases => J' = J
  BY SwapFrame
<1>4. CASE pc = "undo"
  <2>1. ASSUME AlreadyUndone \/ UndoInPlace \/ BeginSwap
        PROVE  J.target # f[2]
    <3>1. idx > 0 /\ Mutates(J) /\ Job \notin done /\ (Now = Prior.desired \/ Now = Prior.before \/ Now = Absent)
      BY <2>1 DEF AlreadyUndone, UndoInPlace, BeginSwap, Swappable, HeldBefore
    <3> QED
      BY <1>4, <3>1, UndoBlocked DEF UndoPhases
  <2>2. CASE AlreadyUndone \/ UndoInPlace \/ BeginSwap
    <3>1. live' = live \/ live' = [live EXCEPT ![J.target] = Prior.desired]
      BY <2>2 DEF AlreadyUndone, UndoInPlace, BeginSwap, SetLive, disk
    <3> QED
      BY <1>1, <1>3, <2>1, <2>2, <3>1
  <2>3. CASE ~(AlreadyUndone \/ UndoInPlace \/ BeginSwap)
    <3>1. RevertFails \/ Refuses \/ PassOver
      BY <1>4, <2>3 DEF RevertWork, PrepareEnds, StageFile, StageDirectory, StageMember, StageEnds,
         HoldTarget, ReplaceTarget, VerifyTarget, RemoveScratch
    <3> QED
      BY <3>1 DEF RevertFails, Refuses, PassOver, ToIdle, NextEntry, disk, SwapPhases
  <2> QED
    BY <2>2, <2>3
<1>5. CASE pc = "prepare"
  <2>1. RevertFails \/ Refuses \/ PrepareEnds
    BY <1>5 DEF RevertWork, PassOver, AlreadyUndone, UndoInPlace, BeginSwap, StageFile, StageDirectory,
       StageMember, StageEnds, HoldTarget, ReplaceTarget, VerifyTarget, RemoveScratch
  <2> QED
    BY <2>1 DEF RevertFails, Refuses, PrepareEnds, ToIdle, disk, SwapPhases
<1>6. CASE pc \in SwapPhases
  <2>1. \A u \in Targets : u # J.target => live'[u] = live[u]
    BY <1>1, <1>6 DEF SwapPhases, RevertWork, RevertFails, Refuses, PrepareEnds, PassOver, AlreadyUndone, UndoInPlace, BeginSwap,
       StageFile, StageDirectory, StageMember, StageEnds, HoldTarget, ReplaceTarget, VerifyTarget, RemoveScratch,
       SetLive, SetStage, disk
  <2> QED
    BY <1>1, <1>2, <1>3, <1>6, <2>1
<1> QED
  BY <1>4, <1>5, <1>6, RevertWorkFrame DEF RevertPhases, UndoPhases

\* Every step keeps a revert in front of a target that somebody edited.
LEMMA ForeignKnownStep ==
  ASSUME Invariant, [Next]_vars
  PROVE  ForeignKnown'
<1>1. TypeOK /\ ForeignKnown /\ foreign \subseteq Runs \X Targets /\ live \in [Targets -> Contents]
      /\ plan \in [Jobs -> Plans]
  BY DEF Invariant, TypeOK, DiskTyped
<1>2. CASE UNCHANGED vars
  <2>1. UNCHANGED <<journal, plan, done, reverted, live, pc, run, idx, foreign>>
    BY <1>2 DEF vars, disk, session, ghosts
  <2> QED
    BY <1>1, <2>1, OpenJobsSame DEF ForeignKnown, J
<1>3. CASE BeginRestore
  BY <1>3 DEF BeginRestore, ForeignKnown
<1>4. CASE RestoreWork \/ PublishJournal \/ RegisterJournal \/ RetireReverted
  <2>1. foreign' = foreign /\ pc \in RestorePhases \cup {"retire"}
    BY <1>4, RestoreWorkFrame DEF PublishJournal, RegisterJournal, RetireReverted, ghosts, RestorePhases
  <2>2. foreign = {}
    BY <1>1, <2>1 DEF ForeignKnown, RestorePhases, RevertPhases, UndoPhases, SwapPhases
  <2> QED
    BY <2>1, <2>2 DEF ForeignKnown
<1>5. CASE BeginRevert
  <2>1. /\ RetireWork(reverted) /\ UNCHANGED <<live, journal, reverted>>
        /\ foreign' = {f \in foreign : f[1] = RevertCandidate} /\ run' = RevertCandidate /\ pc' = "prepare"
    BY <1>5 DEF BeginRevert
  <2>2. \A u : /\ OpenJobs(u)' = OpenJobs(u)
               /\ \A j \in OpenJobs(u) : plan'[j] = plan[j]
    BY <2>1 DEF OpenJobs, RetireWork, NoPlan
  <2>3. ASSUME NEW f \in foreign'
        PROVE  live'[f[2]] = UserItems /\ Blocked(f[1], f[2])'
    <3>1. f \in foreign
      BY <2>1
    <3>2. live[f[2]] = UserItems /\ Blocked(f[1], f[2])
      BY <1>1, <3>1 DEF ForeignKnown
    <3> QED
      BY <2>1, <2>2, <3>2 DEF Blocked
  <2> QED
    BY <2>1, <2>3 DEF ForeignKnown, RevertPhases, SwapPhases
<1>6. CASE PrepareEntry
  <2>1. run \in Runs /\ idx > 0 /\ Job \in Jobs /\ idx \in DOMAIN journal[run] /\ pc = "prepare"
    BY <1>6, RevertAt DEF PrepareEntry, RevertPhases
  <2>2. /\ UNCHANGED <<live, journal, done, reverted, pc, run, foreign>>
        /\ UNCHANGED plan \/ (Mutates(J) /\ ~plan[Job].made /\ plan' = [plan EXCEPT ![Job] = PlanOf(run, idx)])
    BY <1>6 DEF PrepareEntry, ghosts
  <2>3. ASSUME NEW f \in foreign
        PROVE  Blocked(f[1], f[2])'
    <3>1. Blocked(f[1], f[2]) /\ run = f[1]
      BY <1>1, <2>1 DEF ForeignKnown
    <3>2. CASE UNCHANGED plan
      BY <2>2, <3>1, <3>2, OpenJobsSame
    <3>3. CASE Mutates(J) /\ ~plan[Job].made /\ plan' = [plan EXCEPT ![Job] = PlanOf(run, idx)]
      <4>1. PICK k \in OpenJobs(f[2]) : k[1] = f[1] /\ \A j \in OpenJobs(f[2]) :
                j[1] = f[1] /\ j[2] >= k[2] => UserItems \notin {plan[j].before, plan[j].desired}
        BY <3>1 DEF Blocked
      <4>2. \A j \in Jobs : j # Job => plan'[j] = plan[j]
        BY <1>1, <2>1, <3>3
      <4>3. k \in Jobs /\ k # Job /\ k \in OpenJobs(f[2])'
        BY <2>2, <3>3, <4>2, OpenJobKnown DEF OpenJobs
      <4>4. ASSUME NEW j \in OpenJobs(f[2])', j[1] = f[1], j[2] >= k[2]
            PROVE  UserItems \notin {plan'[j].before, plan'[j].desired}
        <5>1. j \in Jobs
          BY DEF OpenJobs
        <5>2. j # Job
          <6>1. SUFFICES ASSUME j = Job
                         PROVE  FALSE
            OBVIOUS
          <6>2. idx >= k[2] /\ k[2] \in Nat /\ idx \in Nat
            BY <1>1, <2>1, <4>4, <6>1, OpenJobKnown, JobOfEntry DEF Job
          <6>3. CASE idx = k[2]
            BY <3>1, <4>1, <4>3, <6>3, OpenJobKnown DEF Job
          <6>4. CASE idx > k[2]
            <7>1. Planned(run, idx)
              BY <2>1, <3>1, <4>1, <6>4, OpenJobKnown
            <7> QED
              BY <3>3, <7>1 DEF Planned, J, Job
          <6> QED
            BY <6>2, <6>3, <6>4
        <5>3. j \in OpenJobs(f[2]) /\ plan'[j] = plan[j]
          BY <2>2, <4>2, <5>1, <5>2 DEF OpenJobs
        <5> QED
          BY <4>1, <4>4, <5>3
      <4> QED
        BY <4>1, <4>3, <4>4 DEF Blocked
    <3> QED
      BY <2>2, <3>2, <3>3
  <2> QED
    BY <1>1, <2>1, <2>2, <2>3 DEF ForeignKnown, SwapPhases
<1>7. CASE RevertWork
  <2>1. UNCHANGED <<journal, plan, done, reverted, foreign>> /\ pc \in RevertPhases
        /\ (pc' = "idle" \/ (pc' \in UndoPhases /\ run' = run))
    BY <1>7, RevertWorkFrame
  <2>2. pc # "idle"
    BY <2>1 DEF RevertPhases, UndoPhases, SwapPhases
  <2>3. ASSUME NEW f \in foreign
        PROVE  /\ live'[f[2]] = UserItems /\ Blocked(f[1], f[2])'
               /\ pc' # "idle" => pc' \in RevertPhases /\ run' = f[1]
               /\ pc' \in SwapPhases => J'.target # f[2]
    BY <1>1, <1>7, <2>1, <2>2, ForeignUntouched, OpenJobsSame DEF ForeignKnown, RevertPhases
  <2> QED
    BY <2>1, <2>3 DEF ForeignKnown
<1>8. CASE CompleteEntry
  <2>1. /\ done' = done \cup {Job} /\ UNCHANGED <<journal, plan, reverted, live, run, foreign>>
        /\ pc' = "undo" /\ pc = "clean"
    BY <1>8 DEF CompleteEntry, NextEntry, ghosts
  <2>2. ASSUME NEW f \in foreign
        PROVE  Blocked(f[1], f[2])'
    <3>1. J.target # f[2] /\ Blocked(f[1], f[2])
      BY <1>1, <2>1 DEF ForeignKnown, SwapPhases
    <3>2. journal[Job[1]][Job[2]] = J
      BY DEF J, Job
    <3>3. OpenJobs(f[2])' = OpenJobs(f[2])
      BY <2>1, <3>1, <3>2 DEF OpenJobs
    <3> QED
      BY <2>1, <3>1, <3>3 DEF Blocked
  <2> QED
    BY <1>1, <2>1, <2>2 DEF ForeignKnown, RevertPhases, UndoPhases, SwapPhases
<1>9. CASE MarkReverted
  <2>1. foreign' = foreign /\ pc = "undo" /\ idx = 0
    BY <1>9 DEF MarkReverted, ghosts
  <2>2. ASSUME NEW f \in foreign
        PROVE  FALSE
    <3>1. Blocked(f[1], f[2]) /\ run = f[1]
      BY <1>1, <2>1 DEF ForeignKnown
    <3>2. PICK k \in OpenJobs(f[2]) : k[1] = run
      BY <3>1 DEF Blocked
    <3>3. k[2] > idx /\ k[2] \in DOMAIN journal[run] /\ Mutates(journal[run][k[2]]) /\ <<run, k[2]>> \notin done
      BY <2>1, <3>2, OpenJobKnown
    <3> QED
      BY <2>1, <3>3 DEF Invariant, PlansKnown, UndoPhases
  <2> QED
    BY <2>1, <2>2 DEF ForeignKnown
<1>10. CASE Crash
  <2>1. UNCHANGED <<journal, plan, done, reverted, live, foreign>> /\ pc' = "idle"
    BY <1>10 DEF Crash, ToIdle, disk, ghosts
  <2> QED
    BY <1>1, <2>1, OpenJobsSame DEF ForeignKnown, SwapPhases
<1>11. CASE EditTarget
  <2>1. PICK u \in Targets :
          /\ SetLive(u, UserItems) /\ UNCHANGED session
          /\ foreign' = IF pc # "idle" THEN foreign ELSE foreign \cup
                          {<<r, u>> : r \in {r \in Runs : \E j \in OpenJobs(u) : j[1] = r /\
                             \A k \in OpenJobs(u) : UserItems \notin {plan[k].before, plan[k].desired}}}
    BY <1>11 DEF EditTarget
  <2>2. UNCHANGED <<journal, plan, done, reverted, pc, run, idx>> /\ live' = [live EXCEPT ![u] = UserItems]
    BY <2>1 DEF SetLive, session
  <2>3. ASSUME NEW f \in foreign
        PROVE  /\ live'[f[2]] = UserItems /\ Blocked(f[1], f[2])'
               /\ pc' # "idle" => pc' \in RevertPhases /\ run' = f[1]
               /\ pc' \in SwapPhases => J'.target # f[2]
    <3>1. J' = J
      BY <2>2 DEF J
    <3> QED
      BY <1>1, <2>2, <3>1, OpenJobsSame DEF ForeignKnown
  <2>4. ASSUME NEW f \in foreign', f \notin foreign
        PROVE  pc = "idle" /\ live'[f[2]] = UserItems /\ Blocked(f[1], f[2])'
    <3>1. PICK r \in Runs : /\ pc = "idle" /\ f = <<r, u>>
                            /\ \E j \in OpenJobs(u) : j[1] = r /\
                                 \A k \in OpenJobs(u) : UserItems \notin {plan[k].before, plan[k].desired}
      BY <2>1, <2>4
    <3>2. Blocked(r, u)
      BY <3>1 DEF Blocked
    <3> QED
      BY <1>1, <2>2, <3>1, <3>2, OpenJobsSame
  <2> QED
    BY <2>2, <2>3, <2>4 DEF ForeignKnown, SwapPhases
<1> QED
  BY <1>2, <1>3, <1>4, <1>5, <1>6, <1>7, <1>8, <1>9, <1>10, <1>11
  DEF Next, RestoreNext, RestoreWork, RevertNext, RevertWork
-----------------------------------------------------------------------------
(* What a restore reports. *)

\* A result that says a target changed.
Says(r, u) == r.target = u /\ (Mutates(r) \/ r.action = "failed")

\* What a restore step does to the targets: it changes at most the one of its
\* entry, and either goes on copying into it or reports it.
LEMMA RestoreWrites ==
  ASSUME Invariant, RestoreWork, UNCHANGED profile, pc' # "idle"
  PROVE  /\ \A u \in Targets : live'[u] # live[u] => idx \in Index /\ u = Entry.target
         /\ results' = results \/ \E s \in Statuses : Result(s) \in Results /\ results' = Append(results, Result(s))
         /\ live' # live =>
              \/ pc' = "copying" /\ UNCHANGED idx
              \/ \E s \in {"restored", "failed"} : results' = Append(results, Result(s))
         /\ pc = "copying" =>
              \/ pc' = "copying" /\ UNCHANGED idx
              \/ \E s \in {"restored", "failed"} : results' = Append(results, Result(s))
<1>1. TypeOK /\ live \in [Targets -> Contents]
  BY DEF Invariant, TypeOK, DiskTyped
<1>2. Len(results) < idx /\ (pc \in {"write", "copying"} => idx \in Index)
  BY RestoreWorkFrame, RestoreAt DEF RestorePhases
<1>3. CASE SkipBlocked
  <2>1. idx \in Index /\ pc = "entry" /\ UNCHANGED live
    BY <1>3 DEF SkipBlocked, disk
  <2>2. EndEntry("failed") \/ UNCHANGED results
    BY <1>3 DEF SkipBlocked
  <2> QED
    BY <1>1, <1>2, <2>1, <2>2, EndEntryEffect DEF Statuses
<1>4. CASE SourceMissing \/ EntryRefused \/ SkipUpToDate \/ BackupFails
  <2>1. idx \in Index /\ pc = "entry" /\ UNCHANGED live /\ \E s \in Statuses : EndEntry(s)
    BY <1>4 DEF SourceMissing, EntryRefused, SkipUpToDate, BackupFails, Runnable, disk, Statuses
  <2> QED
    BY <1>1, <1>2, <2>1, EndEntryEffect
<1>5. CASE TakeBackup \/ MemberLocked
  <2>1. UNCHANGED <<live, results, idx>> /\ (pc = "copying" => pc' = "copying")
    BY <1>5 DEF TakeBackup, MemberLocked, Runnable, disk
  <2> QED
    BY <2>1
<1>6. CASE WriteTarget \/ WriteLocked \/ WriteFails \/ CopyEnds
  <2>1. pc \in {"write", "copying"} /\ \E s \in {"restored", "failed"} : EndEntry(s)
    BY <1>6 DEF WriteTarget, WriteLocked, WriteFails, CopyEnds
  <2>2. live' = live \/ \E c : live' = [live EXCEPT ![Entry.target] = c]
    BY <1>6 DEF WriteTarget, WriteLocked, WriteFails, CopyEnds, SetLive, disk
  <2>3. \E s \in {"restored", "failed"} : s \in Statuses /\ Result(s) \in Results /\ results' = Append(results, Result(s))
    BY <1>1, <1>2, <2>1, EndEntryEffect DEF Statuses
  <2> QED
    BY <1>1, <1>2, <2>1, <2>2, <2>3
<1>7. CASE MakeDirectory \/ CopyMember
  <2>1. pc \in {"write", "copying"} /\ pc' = "copying" /\ UNCHANGED <<results, idx>>
        /\ \E c : live' = [live EXCEPT ![Entry.target] = c]
    BY <1>7 DEF MakeDirectory, CopyMember, SetLive
  <2> QED
    BY <1>1, <1>2, <2>1
<1>8. CASE EndRestore
  BY <1>8 DEF EndRestore, ToIdle
<1> QED
  BY <1>3, <1>4, <1>5, <1>6, <1>7, <1>8 DEF RestoreWork

\* Before an entry is written it has a backup, or needs none, or was to have none.
LEMMA WorkReported ==
  ASSUME Invariant, RestoreWork, UNCHANGED profile, pc' \in {"write", "copying"}
  PROVE  cur'.backup # NoBackup \/ ~cur'.existed \/ ~Entry'.backup
<1>1. TypeOK /\ cur \in Works
  BY DEF Invariant, TypeOK, SessionTyped
<1>2. CASE TakeBackup
  <2> DEFINE c == live[Entry.target]
             path == IF WantsBackup(Entry, c) THEN BackupPath(Entry) ELSE NoBackup
  <2>1. /\ cur' = [NoWork EXCEPT !.existed = (c # Absent), !.backup = path, !.want = Desired(Entry, c)]
        /\ UNCHANGED idx
    BY <1>2 DEF TakeBackup
  <2>2. run \in Runs /\ idx \in Index
    BY <1>2, RestoreAt DEF TakeBackup, Runnable, RestorePhases
  <2>3. Entry.target \in Targets
    BY <1>1, <2>2, EntryTyped DEF Entry
  <2>4. BackupPath(Entry) # NoBackup
    BY <1>1, <2>2, <2>3, BackupPathTyped
  <2>5. path # NoBackup \/ c = Absent \/ ~Entry.backup
    BY <2>4 DEF WantsBackup
  <2>6. Entry' = Entry
    BY <2>1 DEF Entry, Entries
  <2> HIDE DEF c, path
  <2>7. cur'.backup = path /\ cur'.existed = (c # Absent)
    BY <2>1 DEF NoWork
  <2> QED
    BY <2>5, <2>6, <2>7
<1>3. CASE ~TakeBackup
  <2>1. MakeDirectory \/ CopyMember \/ MemberLocked
    <3>1. ~SkipBlocked /\ ~SourceMissing /\ ~EntryRefused /\ ~SkipUpToDate /\ ~BackupFails /\ ~EndRestore
      BY DEF SkipBlocked, SourceMissing, EntryRefused, SkipUpToDate, BackupFails, EndRestore, EndEntry, ToIdle
    <3>2. ~WriteTarget /\ ~WriteLocked /\ ~WriteFails /\ ~CopyEnds
      BY DEF WriteTarget, WriteLocked, WriteFails, CopyEnds, EndEntry
    <3> QED
      BY <1>3, <3>1, <3>2 DEF RestoreWork
  <2>2. pc \in {"write", "copying"} /\ UNCHANGED idx /\ \E l : cur' = [cur EXCEPT !.left = l]
    BY <2>1 DEF MakeDirectory, CopyMember, MemberLocked
  <2>3. cur'.backup = cur.backup /\ cur'.existed = cur.existed
    BY <1>1, <2>2 DEF Works
  <2>4. Entry' = Entry
    BY <2>2 DEF Entry, Entries
  <2> QED
    BY <2>2, <2>3, <2>4 DEF Invariant, ChangesReported
<1> QED
  BY <1>2, <1>3
\* Why a target may differ from what it was when the run began.
Accounted(u) ==
  \/ \E i \in DOMAIN results : Says(results[i], u)
  \/ \E i \in Index : Entries[i].target = u /\ ~Entries[i].backup
  \/ pc = "copying" /\ Entry.target = u

\* Every step keeps the account of the targets a restore has changed.
LEMMA ChangesReportedStep ==
  ASSUME Invariant, [Next]_vars
  PROVE  ChangesReported'
<1>1. TypeOK /\ ChangesReported /\ edits \in Nat /\ results \in Seq(Results)
      /\ origin \in [Runs -> [Targets -> Contents]] /\ cur \in Works
  BY DEF Invariant, TypeOK, SessionTyped
<1>2. edits' = 0 => edits = 0
  BY <1>1, CounterStep DEF vars, faults
<1>3. \A u \in Targets : edits = 0 /\ pc \in RestorePhases /\ live[u] # origin[run][u] => Accounted(u)
  BY <1>1 DEF ChangesReported, Accounted, Says
<1>4. CASE UNCHANGED vars
  BY <1>1, <1>4 DEF vars, disk, session, faults, ghosts, ChangesReported, Entries, Index, Entry, Mutates
<1>5. CASE BeginRestore
  <2>1. pc' = "entry" /\ run' = nextRun /\ live' = live /\ origin' = [origin EXCEPT ![nextRun] = live] /\ nextRun <= MaxRuns
    BY <1>5 DEF BeginRestore
  <2>2. nextRun \in Runs
    BY <1>1, <2>1, EntriesAreTyped DEF TypeOK, SessionTyped, Runs
  <2>3. origin'[run'] = live'
    BY <1>1, <2>1, <2>2
  <2> QED
    BY <2>1, <2>3 DEF ChangesReported
<1>6. CASE RestoreWork /\ UNCHANGED profile
  <2>1. UNCHANGED <<edits, origin, Entries, Index>> /\ pc \in {"entry", "write", "copying"}
        /\ ((pc' \in {"entry", "write", "copying"} /\ run' = run) \/ pc' = "idle")
    BY <1>6, RestoreWorkFrame DEF Entries, Index
  <2>2. CASE pc' = "idle"
    BY <2>2 DEF ChangesReported, RestorePhases
  <2>3. CASE pc' # "idle"
    <3>1. ASSUME pc' \in {"write", "copying"}
          PROVE  cur'.backup # NoBackup \/ ~cur'.existed \/ ~Entry'.backup
      BY <1>6, <3>1, WorkReported
    <3>2. ASSUME edits' = 0, NEW u \in Targets, live'[u] # origin[run][u]
          PROVE  \/ \E i \in DOMAIN results' : Says(results'[i], u)
                 \/ \E i \in Index : Entries[i].target = u /\ ~Entries[i].backup
                 \/ pc' = "copying" /\ Entry'.target = u
      <4>1. edits = 0 /\ pc \in RestorePhases
        BY <1>2, <2>1, <3>2 DEF RestorePhases
      <4>2. ASSUME NEW i \in DOMAIN results
            PROVE  i \in DOMAIN results' /\ results'[i] = results[i]
        BY <1>1, <1>6, <2>3, RestoreWrites
      <4>3. ASSUME \/ pc' = "copying" /\ UNCHANGED idx
                   \/ \E s \in {"restored", "failed"} : results' = Append(results, Result(s)),
                   u = Entry.target, pc \in {"write", "copying"}
            PROVE  \/ \E i \in DOMAIN results' : Says(results'[i], u)
                   \/ \E i \in Index : Entries[i].target = u /\ ~Entries[i].backup
                   \/ pc' = "copying" /\ Entry'.target = u
        <5>1. CASE pc' = "copying" /\ UNCHANGED idx
          <6>1. Entry' = Entry
            BY <2>1, <5>1 DEF Entry
          <6> QED
            BY <4>3, <5>1, <6>1
        <5>2. ASSUME NEW s \in {"restored", "failed"}, results' = Append(results, Result(s))
              PROVE  \/ \E i \in DOMAIN results' : Says(results'[i], u)
                     \/ \E i \in Index : Entries[i].target = u /\ ~Entries[i].backup
          <6>1. idx \in Index /\ Len(results) < idx
            BY <4>1, <4>3, RestoreAt
          <6>2. Len(results) + 1 \in DOMAIN results' /\ results'[Len(results) + 1] = Result(s)
            BY <1>1, <5>2
          <6>3. cur.backup # NoBackup \/ ~cur.existed \/ ~Entry.backup
            BY <1>1, <4>3 DEF ChangesReported
          <6>4. CASE ~Entry.backup
            BY <4>3, <6>1, <6>4 DEF Entry
          <6>5. CASE cur.backup # NoBackup \/ ~cur.existed
            <7>1. Result(s).target = u /\ Result(s).action = s /\ Result(s).backup = cur.backup
                  /\ Result(s).existed = cur.existed
              BY <4>3 DEF Result
            <7>2. Says(Result(s), u)
              BY <6>5, <7>1 DEF Says, Mutates
            <7> QED
              BY <6>2, <7>2
          <6> QED
            BY <6>3, <6>4, <6>5
        <5> QED
          BY <4>3, <5>1, <5>2
      <4>4. CASE live'[u] # live[u]
        <5>1. u = Entry.target /\ pc \in {"write", "copying"}
          <6>1. u = Entry.target
            BY <1>6, <2>3, <4>4, RestoreWrites
          <6>2. pc # "entry"
            BY <1>6, <4>4 DEF RestoreWork, SkipBlocked, SourceMissing, EntryRefused, SkipUpToDate, TakeBackup,
               BackupFails, WriteTarget, WriteLocked, WriteFails, MakeDirectory, CopyMember, MemberLocked,
               CopyEnds, EndRestore, disk
          <6> QED
            BY <2>1, <6>1, <6>2
        <5>2. \/ pc' = "copying" /\ UNCHANGED idx
              \/ \E s \in {"restored", "failed"} : results' = Append(results, Result(s))
          BY <1>6, <2>3, <4>4, RestoreWrites
        <5> QED
          BY <4>3, <5>1, <5>2
      <4>5. CASE live'[u] = live[u]
        <5>1. Accounted(u)
          BY <1>3, <3>2, <4>1, <4>5
        <5>2. CASE \E i \in DOMAIN results : Says(results[i], u)
          BY <4>2, <5>2
        <5>3. CASE pc = "copying" /\ Entry.target = u
          <6>1. \/ pc' = "copying" /\ UNCHANGED idx
                \/ \E s \in {"restored", "failed"} : results' = Append(results, Result(s))
            BY <1>6, <2>3, <5>3, RestoreWrites
          <6> QED
            BY <4>3, <5>3, <6>1
        <5> QED
          BY <5>1, <5>2, <5>3 DEF Accounted
      <4> QED
        BY <4>4, <4>5
    <3> QED
      BY <2>1, <2>3, <3>1, <3>2 DEF ChangesReported, Says, Mutates
  <2> QED
    BY <2>2, <2>3
<1>7. CASE PublishJournal /\ UNCHANGED profile
  <2>1. CASE pc' = "idle"
    BY <2>1 DEF ChangesReported, RestorePhases
  <2>2. CASE pc' # "idle"
    <3>1. pc = "entry" /\ pc' = "register" /\ UNCHANGED <<live, origin, run, idx, results, profile, edits>>
      BY <1>7, <2>2 DEF PublishJournal, ToIdle
    <3>2. ASSUME edits' = 0, NEW u \in Targets, live[u] # origin[run][u]
          PROVE  \/ \E i \in DOMAIN results : Says(results[i], u)
                 \/ \E i \in Index : Entries[i].target = u /\ ~Entries[i].backup
      BY <1>2, <1>3, <3>1, <3>2 DEF RestorePhases, Accounted
    <3> QED
      BY <3>1, <3>2 DEF ChangesReported, Says, Mutates, Index, Entries
  <2> QED
    BY <2>1, <2>2
<1>8. CASE EditTarget /\ UNCHANGED profile
  <2>1. edits' # 0 /\ UNCHANGED session
    BY <1>1, <1>8 DEF EditTarget
  <2> QED
    BY <1>1, <1>8, <2>1 DEF session, ChangesReported, Entry, Entries
<1>9. CASE RegisterJournal \/ RevertNext \/ Crash
  <2>1. pc' \notin RestorePhases
    <3>1. CASE RegisterJournal \/ Crash
      BY <3>1 DEF RegisterJournal, Crash, ToIdle, RestorePhases
    <3>2. CASE RevertWork
      BY <3>2, RevertWorkFrame DEF RestorePhases, UndoPhases, SwapPhases
    <3>3. CASE BeginRevert \/ PrepareEntry \/ CompleteEntry \/ MarkReverted \/ RetireReverted
      BY <3>3 DEF BeginRevert, PrepareEntry, CompleteEntry, MarkReverted, RetireReverted, ToIdle, NextEntry, RestorePhases
    <3> QED
      BY <1>9, <3>1, <3>2, <3>3 DEF RevertNext, RevertWork
  <2> QED
    BY <2>1 DEF ChangesReported, RestorePhases
<1> QED
  <2>1. CASE Next
    BY <1>5, <1>6, <1>7, <1>8, <1>9, <2>1 DEF Next, RestoreNext, RestoreWork
  <2> QED
    BY <1>4, <2>1
-----------------------------------------------------------------------------
(* Theorems. *)

\* The invariant holds before the first run.
LEMMA InvariantInit ==
  ASSUME Init
  PROVE  Invariant
<1>1. profile \in Seq(Profile) /\ Len(profile) \in Nat /\ profile \in Profiles /\ Len(Entries) \in Nat
  BY EntriesAreTyped DEF Init, Entries
<1>2. Initial \in [Targets -> Contents]
  <2>1. ASSUME NEW u \in Targets
        PROVE  Initial[u] \in Contents
    <3>1. CASE Initial[u] = Absent
      BY <3>1 DEF Contents
    <3>2. CASE Initial[u] # Absent
      BY <3>2 DEF Contents, Items
    <3> QED
      BY <3>1, <3>2
  <2>2. Initial = [u \in Targets |-> Initial[u]]
    BY EntriesAreTyped
  <2> QED
    BY <2>1, <2>2
<1>3. DOMAIN backups = {} /\ IsFiniteSet(DOMAIN backups) /\ backups \in [DOMAIN backups -> Contents]
  BY FS_EmptySet DEF Init
<1>4. DiskTyped
  BY <1>1, <1>2, <1>3, Constants DEF Init, DiskTyped, Contents
<1>5. SessionTyped
  BY <1>1, Constants, EntriesAreTyped DEF Init, SessionTyped
<1>6. TypeOK
  BY <1>1, <1>2, <1>4, <1>5 DEF Init, TypeOK
<1>7. \A j \in Jobs : ~plan[j].made
  BY DEF Init, NoPlan
<1> QED
  BY <1>6, <1>7 DEF Init, Invariant, BackupsKnown, SessionKnown, PlansKnown, SwapKnown, NothingLost, ForeignKnown,
     ChangesReported, NoWork, RestorePhases, RevertPhases, UndoPhases, SwapPhases

\* Every step keeps the invariant.
LEMMA InvariantStep ==
  ASSUME Invariant, [Next]_vars
  PROVE  Invariant'
BY TypeStep, BackupsKnownStep, SessionKnownStep, PlansKnownStep, SwapKnownStep, NothingLostStep,
   ForeignKnownStep, ChangesReportedStep DEF Invariant

\* The facts on session, plans, swaps and reports hold throughout.
THEOREM InvariantCorrect == Spec => []Invariant
BY InvariantInit, InvariantStep, PTL DEF Spec

\* The state of the disk and of the session stays typed.
THEOREM TypeCorrect == Spec => []TypeOK
<1>1. Invariant => TypeOK
  BY DEF Invariant
<1> QED
  BY <1>1, InvariantCorrect, PTL

\* The content a revert finds at a target is in place or held aside until the
\* prior content is in place (the holding step of the durable revert), whatever
\* dies or fails in between.
THEOREM NothingLostCorrect == Spec => []NothingLost
<1>1. Invariant => NothingLost
  BY DEF Invariant
<1> QED
  BY <1>1, InvariantCorrect, PTL

\* A revert never touches a target that somebody edited between two of its
\* attempts (the comparison with the recorded plan before every swap).
THEOREM ForeignEditKeptCorrect == Spec => ForeignEditKept
<1>1. ASSUME Invariant, [Next]_vars
      PROVE  [\A f \in foreign : RevertNext /\ run = f[1] => live'[f[2]] = live[f[2]]]_vars
  <2>1. ASSUME NEW f \in foreign, RevertNext
        PROVE  live'[f[2]] = live[f[2]]
    <3>1. CASE RevertWork
      BY <1>1, <2>1, <3>1, ForeignUntouched
    <3>2. CASE BeginRevert \/ PrepareEntry \/ CompleteEntry \/ MarkReverted \/ RetireReverted
      BY <3>2 DEF BeginRevert, PrepareEntry, CompleteEntry, MarkReverted, RetireReverted
    <3> QED
      BY <2>1, <3>1, <3>2 DEF RevertNext, RevertWork
  <2> QED
    BY <2>1
<1> QED
  BY <1>1, InvariantCorrect, PTL DEF Spec, ForeignEditKept

\* A restore that reports success has a registered journal that a revert finds
\* first and that accounts for every target it changed, unless the entry asked
\* for no backup (the order of journal, registration and report).
THEOREM SuccessIsRevertibleCorrect == Spec => SuccessIsRevertible
<1>1. ASSUME Invariant, [Next]_vars, NEW r \in Runs, told[r] # "ok", told'[r] = "ok", edits = 0,
             NEW u \in Targets, live[u] # origin[r][u]
      PROVE  \/ /\ r \in member' /\ RevertCandidate' = r
                /\ \E i \in EntriesOf(r, u)' : Mutates(journal[r][i])' \/ journal'[r][i].action = "failed"
             \/ \E i \in Index : Entries[i].target = u /\ ~Entries[i].backup
  <2>1. told \in [Runs -> {"none", "ok", "failed"}] /\ TypeOK /\ reverted \subseteq member
    BY <1>1 DEF Invariant, TypeOK, DiskTyped
  <2>2. EndRestore \/ (RegisterJournal /\ member' = member \cup {run})
    <3>1. ~UNCHANGED told
      BY <1>1
    <3>2. EndRestore \/ PublishJournal \/ RegisterJournal
      BY <1>1, <3>1 DEF vars, ghosts, Next, RestoreNext, BeginRestore, SkipBlocked, SourceMissing, EntryRefused,
         SkipUpToDate, TakeBackup, BackupFails, WriteTarget, WriteLocked, WriteFails, MakeDirectory, CopyMember,
         MemberLocked, CopyEnds, RevertNext, BeginRevert, RevertFails, PrepareEntry, PrepareEnds, PassOver,
         AlreadyUndone, UndoInPlace, BeginSwap, Refuses, StageFile, StageDirectory, StageMember,
         StageEnds, HoldTarget, ReplaceTarget, VerifyTarget, RemoveScratch, CompleteEntry,
         MarkReverted, RetireReverted, Crash, EditTarget
    <3>3. ~PublishJournal
      BY <1>1, <2>1 DEF PublishJournal, Tell
    <3>4. RegisterJournal => member' = member \cup {run}
      BY <1>1, <2>1 DEF RegisterJournal, Tell
    <3> QED
      BY <3>2, <3>3, <3>4
  <2>3. r = run /\ pc \in RestorePhases /\ pc # "copying"
    BY <1>1, <2>1, <2>2 DEF EndRestore, RegisterJournal, Tell, RestorePhases
  <2>4. \/ \E i \in DOMAIN results : results[i].target = u /\ (Mutates(results[i]) \/ results[i].action = "failed")
        \/ \E i \in Index : Entries[i].target = u /\ ~Entries[i].backup
    BY <1>1, <2>3 DEF Invariant, ChangesReported
  <2>5. CASE EndRestore
    BY <2>4, <2>5 DEF EndRestore, Journaled, Mutates
  <2>6. CASE RegisterJournal /\ member' = member \cup {run}
    <3>1. journal[run] = results /\ journal' = journal /\ reverted' = reverted /\ run \notin member
          /\ journal[run] # <<>> /\ run = nextRun - 1 /\ run \in Runs
      <4>1. pc = "register" /\ UNCHANGED <<journal, reverted>>
        BY <2>6 DEF RegisterJournal
      <4>2. journal[run] = results /\ Journaled /\ run \notin member /\ run = nextRun - 1 /\ run \in Runs
        BY <1>1, <4>1 DEF Invariant, SessionKnown, RestorePhases
      <4> QED
        BY <4>1, <4>2 DEF Journaled
    <3>2. \A s \in Published' : s \in Nat /\ s <= run
      <4>1. ASSUME NEW s \in Published'
            PROVE  s \in Nat /\ s <= run
        <5>1. s \in Runs /\ journal[s] # <<>>
          BY <3>1 DEF Published
        <5>2. ~(s >= nextRun)
          BY <1>1, <5>1 DEF Invariant, SessionKnown
        <5>3. nextRun \in Nat
          BY <2>1, EntriesAreTyped DEF TypeOK, SessionTyped
        <5> QED
          BY <3>1, <5>1, <5>2, <5>3, EntriesAreTyped DEF Runs
      <4> QED
        BY <4>1
    <3>3. run \in Published' /\ run \in ActiveRuns' /\ ActiveRuns' \subseteq Published'
      BY <1>1, <2>1, <2>6, <3>1 DEF Published, ActiveRuns, Invariant, SessionKnown, TypeOK, DiskTyped
    <3>4. ASSUME NEW S, S \subseteq Published', run \in S
          PROVE  Newest(S) = run
      <4>1. \A s \in S : s \in Nat /\ s <= run
        BY <3>2, <3>4
      <4>2. \A x \in S : (\A s \in S : s <= x) => x = run
        BY <3>4, <4>1
      <4> QED
        BY <3>4, <4>1, <4>2 DEF Newest
    <3>5. RevertCandidate' = run
      <4>1. Newest(Published') = run /\ Newest(ActiveRuns') = run
        BY <3>3, <3>4
      <4>2. ~(run > run)
        BY <3>1, EntriesAreTyped DEF Runs
      <4> QED
        BY <3>3, <4>1, <4>2 DEF RevertCandidate, Newest
    <3>6. CASE \E i \in DOMAIN results : results[i].target = u /\ (Mutates(results[i]) \/ results[i].action = "failed")
      BY <2>3, <2>6, <3>1, <3>5, <3>6 DEF EntriesOf, Mutates
    <3> QED
      BY <2>4, <3>6
  <2> QED
    BY <2>2, <2>5, <2>6
<1>2. ASSUME Invariant, [Next]_vars
      PROVE  [\A r \in Runs : told[r] # "ok" /\ told'[r] = "ok" /\ edits = 0 =>
               \A t \in Targets : live[t] # origin[r][t] =>
                 \/ /\ r \in member' /\ RevertCandidate' = r
                    /\ \E i \in EntriesOf(r, t)' : Mutates(journal[r][i])' \/ journal'[r][i].action = "failed"
                 \/ \E i \in Index : Entries[i].target = t /\ ~Entries[i].backup]_vars
  BY <1>1, <1>2
<1> QED
  BY <1>2, InvariantCorrect, PTL DEF Spec, SuccessIsRevertible

-----------------------------------------------------------------------------
(* What a reverted run gives back. *)

\* No profile sets one registry value twice: the second setting would take the
\* place of the backup of the first.
NoRepeatedSetting ==
  \A p \in Profiles : \A i, k \in DOMAIN p :
    p[i].kind = "regset" /\ p[k].kind = "regset" /\ p[i].target = p[k].target => i = k

\* The backups of a run have its number, the numbered ones of a target are
\* counted, and only a registry setting makes one that is not numbered.
PathsKnown ==
  /\ \A p \in DOMAIN backups :
       p[3] <= Cardinality({q \in DOMAIN backups : q[1] = p[1] /\ q[2] = p[2]})
  /\ \A r \in Runs : \A i \in DOMAIN journal[r] :
       journal[r][i].backup # NoBackup => journal[r][i].backup[1] = r
  /\ pc \in RestorePhases => \A i \in DOMAIN results : results[i].backup # NoBackup =>
       /\ results[i].backup[1] = run
       /\ results[i].backup[3] = 0 =>
            \E k \in Index : k < idx /\ Entries[k].kind = "regset" /\ Entries[k].target = results[i].backup[2]
  /\ pc \in {"write", "copying"} /\ cur.backup # NoBackup =>
       /\ cur.backup[1] = run
       /\ cur.backup[3] = 0 => Entry.kind = "regset" /\ Entry.target = cur.backup[2]
  /\ pc = "entry" => cur = NoWork

\* What the backup of an entry does to the session and to the backups.
LEMMA TakeBackupEffect ==
  ASSUME Invariant, TakeBackup
  PROVE  /\ pc = "entry" /\ pc' = "write" /\ run \in Runs /\ idx \in Index /\ Entry.target \in Targets
         /\ journal[run] = <<>> /\ UNCHANGED <<live, journal, run, idx, results>>
         /\ cur'.existed = (live[Entry.target] # Absent)
         /\ IF cur'.backup = NoBackup THEN UNCHANGED backups
            ELSE /\ cur'.backup = BackupPath(Entry) /\ cur'.backup \in Runs \X Targets \X Nat
                 /\ backups' = [p \in DOMAIN backups \cup {cur'.backup} |->
                                  IF p = cur'.backup THEN live[Entry.target] ELSE backups[p]]
<1> DEFINE c == live[Entry.target]
           path == IF WantsBackup(Entry, c) THEN BackupPath(Entry) ELSE NoBackup
<1>1. /\ cur' = [NoWork EXCEPT !.existed = (c # Absent), !.backup = path, !.want = Desired(Entry, c)]
      /\ backups' = IF path = NoBackup THEN backups
                    ELSE [p \in DOMAIN backups \cup {path} |-> IF p = path THEN c ELSE backups[p]]
      /\ pc' = "write" /\ pc = "entry" /\ idx \in Index
      /\ UNCHANGED <<live, journal, run, idx, results>>
  BY DEF TakeBackup, Runnable
<1>2. run \in Runs /\ journal[run] = <<>>
  BY <1>1, RestoreAt DEF RestorePhases
<1>3. Entry.target \in Targets
  BY <1>1, EntryTyped DEF Entry, Invariant
<1>4. path = NoBackup \/ (path = BackupPath(Entry) /\ path \in Runs \X Targets \X Nat)
  BY <1>2, <1>3, BackupPathTyped DEF Invariant
<1> HIDE DEF c, path
<1>5. cur'.backup = path /\ cur'.existed = (c # Absent)
  BY <1>1 DEF NoWork
<1>6. cur'.existed = (live[Entry.target] # Absent)
  BY <1>5 DEF c
<1>7. path # NoBackup => backups' = [p \in DOMAIN backups \cup {path} |-> IF p = path THEN live[Entry.target] ELSE backups[p]]
  BY <1>1 DEF c
<1> QED
  BY <1>1, <1>2, <1>3, <1>4, <1>5, <1>6, <1>7

\* Nothing else makes a backup.
LEMMA BackupsSame ==
  ASSUME Next, ~TakeBackup
  PROVE  UNCHANGED backups
<1>1. CASE RestoreNext
  BY <1>1 DEF RestoreNext, BeginRestore, SkipBlocked, SourceMissing, EntryRefused, SkipUpToDate,
     BackupFails, WriteTarget, WriteLocked, WriteFails, MakeDirectory, CopyMember, MemberLocked,
     CopyEnds, EndRestore, PublishJournal, RegisterJournal, SetLive, disk
<1>2. CASE RevertNext \/ Crash \/ EditTarget
  BY <1>2 DEF RevertNext, BeginRevert, RevertFails, PrepareEntry, PrepareEnds, PassOver,
     AlreadyUndone, UndoInPlace, BeginSwap, Refuses, StageFile, StageDirectory, StageMember,
     StageEnds, HoldTarget, ReplaceTarget, VerifyTarget, RemoveScratch, CompleteEntry,
     MarkReverted, RetireReverted, Crash, EditTarget, SetLive, SetStage, disk
<1> QED
  BY <1>1, <1>2 DEF Next

\* A new backup does not take the place of one that a journal or a result names.
LEMMA BackupKept ==
  ASSUME Invariant, PathsKnown, NoRepeatedSetting, Next, NEW p \in DOMAIN backups,
         \/ \E r \in Runs : \E i \in DOMAIN journal[r] : journal[r][i].backup = p
         \/ pc \in RestorePhases /\ \E i \in DOMAIN results : results[i].backup = p
  PROVE  p \in DOMAIN backups' /\ backups'[p] = backups[p]
<1>1. CASE ~TakeBackup
  BY <1>1, BackupsSame
<1>2. CASE TakeBackup
  <2>1. CASE cur'.backup = NoBackup
    BY <1>2, <2>1, TakeBackupEffect
  <2>2. CASE cur'.backup # NoBackup
    <3>1. p \in Runs \X Targets \X Nat /\ p # NoBackup
      <4>1. p \in Runs \X Targets \X Nat
        BY DEF Invariant, TypeOK, DiskTyped
      <4>2. PICK a \in Runs, b \in Targets, n \in Nat : p = <<a, b, n>>
        BY <4>1
      <4>3. <<a, b, n>> # <<>>
        OBVIOUS
      <4> QED
        BY <4>1, <4>2, <4>3 DEF NoBackup
    <3>2. pc = "entry" /\ run \in Runs /\ idx \in Index /\ journal[run] = <<>> /\ cur'.backup = BackupPath(Entry)
      BY <1>2, <2>2, TakeBackupEffect
    <3>3. \/ \E r \in Runs \ {run} : p[1] = r
          \/ /\ p[1] = run
             /\ p[3] = 0 => \E k \in Index : k < idx /\ Entries[k].kind = "regset" /\ Entries[k].target = p[2]
      BY <3>1, <3>2 DEF PathsKnown, RestorePhases
    <3>4. CASE Entry.kind = "regset"
      <4>1. cur'.backup = <<run, Entry.target, 0>>
        BY <3>2, <3>4 DEF BackupPath, RegistrySetBackup
      <4>2. ASSUME p = cur'.backup
            PROVE  FALSE
        <5>1. PICK k \in Index : k < idx /\ Entries[k].kind = "regset" /\ Entries[k].target = Entry.target
          BY <3>3, <4>1, <4>2
        <5>2. profile \in Profiles /\ profile \in Seq(Profile) /\ Len(profile) \in Nat
          BY EntriesAreTyped DEF Invariant, TypeOK
        <5>3. k \in DOMAIN profile /\ idx \in DOMAIN profile /\ k # idx
          BY <3>2, <5>1, <5>2 DEF Index, Entries
        <5> QED
          BY <3>4, <5>1, <5>2, <5>3 DEF NoRepeatedSetting, Entries, Entry
      <4> QED
        BY <1>2, <2>2, <4>2, TakeBackupEffect
    <3>5. CASE Entry.kind # "regset"
      <4> DEFINE S == {q \in DOMAIN backups : q[1] = run /\ q[2] = Entry.target}
      <4>1. cur'.backup = <<run, Entry.target, Cardinality(S) + 1>>
        BY <3>2, <3>5 DEF BackupPath, FreshBackup
      <4>2. Cardinality(S) \in Nat
        <5>1. IsFiniteSet(S)
          BY FS_Subset DEF Invariant, TypeOK, DiskTyped
        <5> QED
          BY <5>1, FS_CardinalityType
      <4>3. ASSUME p = cur'.backup
            PROVE  FALSE
        <5>1. p[1] = run /\ p[2] = Entry.target /\ p[3] = Cardinality(S) + 1
          BY <4>1, <4>3
        <5>2. p[3] <= Cardinality(S)
          BY <5>1 DEF PathsKnown
        <5> QED
          BY <4>2, <5>1, <5>2
      <4> QED
        BY <1>2, <2>2, <4>3, TakeBackupEffect
    <3> QED
      BY <3>4, <3>5
  <2> QED
    BY <2>1, <2>2
<1> QED
  BY <1>1, <1>2

\* The result of an entry names the backup the entry made.
LEMMA WorkResult ==
  ASSUME Invariant, RestoreWork, UNCHANGED profile, pc' # "idle"
  PROVE  /\ pc' \in {"entry", "write", "copying"} /\ run' = run /\ Entries' = Entries /\ Index' = Index
         /\ \/ /\ pc' = "entry" /\ idx' = idx + 1 /\ idx \in Index
               /\ \/ UNCHANGED <<results, live, cur>> /\ pc = "entry"
                  \/ cur' = NoWork /\ \E s \in Statuses :
                       /\ Result(s) \in Results /\ results' = Append(results, Result(s))
                       /\ s = "restored" => pc \in {"write", "copying"}
                       /\ s \in {"skipped_up_to_date", "skipped_missing_source"} => pc = "entry" /\ UNCHANGED live
            \/ TakeBackup /\ UNCHANGED <<idx, results>>
            \/ /\ pc' = "copying" /\ pc \in {"write", "copying"} /\ idx \in Index /\ UNCHANGED <<idx, results>>
               /\ cur'.backup = cur.backup /\ cur'.existed = cur.existed
<1>1. TypeOK /\ Len(results) < idx /\ cur \in Works /\ (pc \in {"write", "copying"} => idx \in Index)
  BY RestoreWorkFrame, RestoreAt DEF RestorePhases, Invariant, TypeOK, SessionTyped
<1>2. pc' \in {"entry", "write", "copying"} /\ run' = run /\ Entries' = Entries /\ Index' = Index
  BY RestoreWorkFrame DEF Index, Entries
<1>3. ASSUME NEW s \in Statuses, EndEntry(s), idx \in Index
      PROVE  /\ pc' = "entry" /\ idx' = idx + 1
             /\ cur' = NoWork /\ Result(s) \in Results /\ results' = Append(results, Result(s))
  BY <1>1, <1>3, EndEntryEffect
<1>4. CASE SkipBlocked
  <2>1. /\ idx \in Index /\ pc = "entry" /\ UNCHANGED live
        /\ EndEntry("failed") \/ (idx' = idx + 1 /\ UNCHANGED <<pc, results, cur>>)
    BY <1>4 DEF SkipBlocked, disk
  <2> QED
    BY <1>2, <1>3, <2>1 DEF Statuses
<1>5. CASE SourceMissing \/ EntryRefused \/ SkipUpToDate \/ BackupFails \/ WriteTarget \/ WriteLocked
           \/ WriteFails \/ CopyEnds
  <2>1. CASE SourceMissing \/ EntryRefused \/ SkipUpToDate \/ BackupFails
    <3>1. /\ idx \in Index /\ pc = "entry" /\ UNCHANGED live
          /\ \E s \in Statuses \ {"restored"} : EndEntry(s)
      BY <2>1 DEF SourceMissing, EntryRefused, SkipUpToDate, BackupFails, Runnable, Statuses, disk
    <3> QED
      BY <1>2, <1>3, <3>1
  <2>2. CASE WriteTarget \/ WriteLocked \/ WriteFails \/ CopyEnds
    <3>1. /\ pc \in {"write", "copying"} /\ idx \in Index
          /\ \E s \in {"restored", "failed"} : EndEntry(s)
      BY <1>1, <2>2 DEF WriteTarget, WriteLocked, WriteFails, CopyEnds
    <3> QED
      BY <1>2, <1>3, <3>1 DEF Statuses
  <2> QED
    BY <1>5, <2>1, <2>2
<1>6. CASE TakeBackup
  BY <1>2, <1>6, TakeBackupEffect
<1>7. CASE MakeDirectory \/ CopyMember \/ MemberLocked
  <2>1. pc' = "copying" /\ pc \in {"write", "copying"} /\ UNCHANGED <<idx, results>>
        /\ \E l : cur' = [cur EXCEPT !.left = l]
    BY <1>7 DEF MakeDirectory, CopyMember, MemberLocked
  <2>2. cur'.backup = cur.backup /\ cur'.existed = cur.existed
    BY <1>1, <2>1 DEF Works
  <2> QED
    BY <1>1, <1>2, <2>1, <2>2
<1>8. CASE EndRestore
  BY <1>8 DEF EndRestore, ToIdle
<1> QED
  BY <1>4, <1>5, <1>6, <1>7, <1>8 DEF RestoreWork

\* The backups of a target are counted as they are made.
LEMMA BackupsCounted ==
  ASSUME Invariant, PathsKnown, Next, NEW p \in DOMAIN backups'
  PROVE  p[3] <= Cardinality({q \in DOMAIN backups' : q[1] = p[1] /\ q[2] = p[2]})
<1> DEFINE S(D, a, b) == {q \in D : q[1] = a /\ q[2] = b}
<1>1. CASE UNCHANGED backups
  BY <1>1 DEF PathsKnown
<1>2. CASE ~UNCHANGED backups
  <2>1. TakeBackup /\ cur'.backup # NoBackup
    BY <1>2, BackupsSame, TakeBackupEffect
  <2>2. /\ DOMAIN backups' = DOMAIN backups \cup {cur'.backup} /\ cur'.backup \in Runs \X Targets \X Nat
        /\ cur'.backup = BackupPath(Entry)
    BY <2>1, TakeBackupEffect
  <2>3. IsFiniteSet(DOMAIN backups) /\ IsFiniteSet(DOMAIN backups') /\ DOMAIN backups \subseteq Runs \X Targets \X Nat
    <3>1. IsFiniteSet(DOMAIN backups) /\ DOMAIN backups \subseteq Runs \X Targets \X Nat
      BY DEF Invariant, TypeOK, DiskTyped
    <3>2. IsFiniteSet(DOMAIN backups \cup {cur'.backup})
      BY <3>1, FS_AddElement
    <3> QED
      BY <2>2, <3>1, <3>2
  <2> HIDE DEF S
  <2>4. ASSUME NEW D, IsFiniteSet(D), NEW a, NEW b
        PROVE  IsFiniteSet(S(D, a, b)) /\ Cardinality(S(D, a, b)) \in Nat
    BY <2>4, FS_Subset, FS_CardinalityType DEF S
  <2>5. ASSUME NEW a, NEW b
        PROVE  Cardinality(S(DOMAIN backups, a, b)) <= Cardinality(S(DOMAIN backups', a, b))
    <3>1. S(DOMAIN backups, a, b) \subseteq S(DOMAIN backups', a, b)
      BY <2>2 DEF S
    <3> QED
      BY <2>3, <2>4, <3>1, FS_Subset
  <2>6. CASE p \in DOMAIN backups
    <3>1. p[3] \in Nat /\ p[3] <= Cardinality(S(DOMAIN backups, p[1], p[2]))
      BY <2>3, <2>6 DEF PathsKnown, S
    <3>2. p[3] <= Cardinality(S(DOMAIN backups', p[1], p[2]))
      BY <2>3, <2>4, <2>5, <3>1
    <3> QED
      BY <3>2 DEF S
  <2>7. CASE p \notin DOMAIN backups
    <3>1. p = BackupPath(Entry)
      BY <2>2, <2>7
    <3>2. CASE Entry.kind = "regset"
      <4>1. p[3] = 0
        BY <3>1, <3>2 DEF BackupPath, RegistrySetBackup
      <4>2. Cardinality(S(DOMAIN backups', p[1], p[2])) \in Nat
        BY <2>3, <2>4
      <4> QED
        BY <4>1, <4>2 DEF S
    <3>3. CASE Entry.kind # "regset"
      <4>1. p[1] = run /\ p[2] = Entry.target /\ p[3] = Cardinality(S(DOMAIN backups, run, Entry.target)) + 1
        BY <3>1, <3>3 DEF BackupPath, FreshBackup, S
      <4>2. S(DOMAIN backups', run, Entry.target) = S(DOMAIN backups, run, Entry.target) \cup {p}
        <5>1. p \in DOMAIN backups' /\ DOMAIN backups' = DOMAIN backups \cup {p}
          BY <2>2, <3>1
        <5> QED
          BY <4>1, <5>1 DEF S
      <4>3. p \notin S(DOMAIN backups, run, Entry.target)
        BY <2>7 DEF S
      <4>4. Cardinality(S(DOMAIN backups', run, Entry.target)) = Cardinality(S(DOMAIN backups, run, Entry.target)) + 1
        BY <2>3, <2>4, <4>2, <4>3, FS_AddElement
      <4>5. p[3] <= Cardinality(S(DOMAIN backups', p[1], p[2]))
        BY <2>3, <2>4, <4>1, <4>4
      <4> QED
        BY <4>5 DEF S
    <3> QED
      BY <3>2, <3>3
  <2> QED
    BY <2>6, <2>7
<1> QED
  BY <1>1, <1>2

\* A restore is reached from its begin, its work and its journal alone.
LEMMA RestoreReached ==
  ASSUME Invariant, Next, pc' \in RestorePhases
  PROVE  \/ BeginRestore
         \/ RestoreWork /\ pc' # "idle" /\ pc' # "register"
         \/ /\ PublishJournal /\ pc = "entry" /\ pc' = "register" /\ journal' = [journal EXCEPT ![run] = results]
            /\ UNCHANGED <<run, idx, results, cur, told, live, origin, edits, backups>>
         \/ EditTarget
<1>1. ~RegisterJournal /\ ~Crash
  BY DEF RegisterJournal, Crash, ToIdle, RestorePhases
<1>2. ~RevertWork
  BY RevertWorkFrame DEF RestorePhases, UndoPhases, SwapPhases
<1>3. ~BeginRevert /\ ~PrepareEntry /\ ~CompleteEntry /\ ~MarkReverted /\ ~RetireReverted
  BY DEF BeginRevert, PrepareEntry, CompleteEntry, MarkReverted, RetireReverted, ToIdle, NextEntry, RestorePhases
<1>4. PublishJournal => /\ pc = "entry" /\ pc' = "register" /\ journal' = [journal EXCEPT ![run] = results]
                        /\ UNCHANGED <<run, idx, results, cur, told, live, origin, edits, backups>>
  BY DEF PublishJournal, ToIdle, RestorePhases
<1>5. RestoreWork => pc' # "idle" /\ pc' # "register"
  BY RestoreWorkFrame DEF RestorePhases
<1> QED
  BY <1>1, <1>2, <1>3, <1>4, <1>5 DEF Next, RestoreNext, RevertNext, RestoreWork, RevertWork

\* A journal is written once, by the run it is of.
LEMMA JournalStep ==
  ASSUME Invariant, Next
  PROVE  \/ UNCHANGED journal
         \/ /\ PublishJournal /\ pc = "entry" /\ run \in Runs /\ run = nextRun - 1 /\ run \notin member
            /\ journal[run] = <<>> /\ Journaled /\ journal' = [journal EXCEPT ![run] = results]
<1>1. CASE PublishJournal
  <2>1. pc = "entry" /\ Journaled /\ (UNCHANGED journal \/ journal' = [journal EXCEPT ![run] = results])
    BY <1>1 DEF PublishJournal
  <2> QED
    BY <1>1, <2>1, RestoreAt DEF RestorePhases
<1>2. CASE ~PublishJournal
  BY <1>2 DEF Next, RestoreNext, BeginRestore, SkipBlocked, SourceMissing, EntryRefused, SkipUpToDate, TakeBackup,
     BackupFails, WriteTarget, WriteLocked, WriteFails, MakeDirectory, CopyMember, MemberLocked,
     CopyEnds, EndRestore, RegisterJournal, RevertNext, BeginRevert, RevertFails, PrepareEntry, PrepareEnds, PassOver,
     AlreadyUndone, UndoInPlace, BeginSwap, Refuses, StageFile, StageDirectory, StageMember,
     StageEnds, HoldTarget, ReplaceTarget, VerifyTarget, RemoveScratch, CompleteEntry,
     MarkReverted, RetireReverted, Crash, EditTarget, SetLive, SetStage, disk
<1> QED
  BY <1>1, <1>2

\* Every step keeps the backups apart.
LEMMA PathsKnownStep ==
  ASSUME Invariant, PathsKnown, [Next]_vars
  PROVE  PathsKnown'
<1>1. CASE UNCHANGED vars
  BY <1>1 DEF vars, disk, session, PathsKnown, Index, Entries, Entry
<1>2. CASE Next
  <2>1. /\ results \in Seq(Results) /\ journal \in [Runs -> Seq(Results)] /\ UNCHANGED profile
        /\ Entries' = Entries /\ Index' = Index
    BY <1>2 DEF Invariant, TypeOK, DiskTyped, SessionTyped, Next, Entries, Index
  <2>2. ASSUME NEW r \in Runs, NEW i \in DOMAIN journal'[r], journal'[r][i].backup # NoBackup
        PROVE  journal'[r][i].backup[1] = r
    <3>1. CASE UNCHANGED journal
      BY <2>2, <3>1 DEF PathsKnown
    <3>2. CASE ~UNCHANGED journal
      <4>1. pc = "entry" /\ journal' = [journal EXCEPT ![run] = results]
        BY <1>2, <3>2, JournalStep
      <4>2. journal'[r] = journal[r] \/ (r = run /\ journal'[r] = results)
        BY <2>1, <4>1
      <4> QED
        BY <2>2, <4>1, <4>2 DEF PathsKnown, RestorePhases
    <3> QED
      BY <3>1, <3>2
  <2>3. CASE pc' \notin RestorePhases
    BY <1>2, <2>2, <2>3, BackupsCounted DEF PathsKnown, RestorePhases
  <2>4. CASE BeginRestore
    <3>1. results' = <<>> /\ pc' = "entry" /\ cur' = NoWork
      BY <2>4 DEF BeginRestore
    <3> QED
      BY <1>2, <2>2, <3>1, BackupsCounted DEF PathsKnown
  <2>5. CASE PublishJournal /\ pc = "entry" /\ pc' = "register" /\ UNCHANGED <<run, idx, results>>
    BY <1>2, <2>1, <2>2, <2>5, BackupsCounted DEF PathsKnown, RestorePhases
  <2>6. CASE EditTarget
    <3>1. UNCHANGED session
      BY <2>6 DEF EditTarget
    <3> QED
      BY <1>2, <2>1, <2>2, <3>1, BackupsCounted DEF PathsKnown, session, Entry
  <2>7. CASE RestoreWork /\ pc' # "idle" /\ pc' # "register"
    <3>1. /\ pc \in {"entry", "write", "copying"} /\ pc \in RestorePhases
          /\ pc' \in {"entry", "write", "copying"} /\ run' = run
      BY <2>1, <2>7, WorkResult, RestoreWorkFrame DEF RestorePhases
    <3>2. idx \in Nat /\ idx' \in Nat
      BY <2>1, <2>7, <3>1, RestoreAt, WorkResult
    <3>3. ASSUME NEW i \in DOMAIN results, results[i].backup # NoBackup, idx <= idx'
          PROVE  /\ results[i].backup[1] = run
                 /\ results[i].backup[3] = 0 =>
                      \E k \in Index : k < idx' /\ Entries[k].kind = "regset" /\ Entries[k].target = results[i].backup[2]
      <4>1. \A k \in Index : k \in Nat /\ (k < idx => k < idx')
        BY <3>2, <3>3 DEF Index
      <4> QED
        BY <3>1, <3>3, <4>1 DEF PathsKnown
    <3>4. CASE /\ pc' = "entry" /\ idx' = idx + 1 /\ idx \in Index
               /\ \/ UNCHANGED <<results, cur>> /\ pc = "entry"
                  \/ cur' = NoWork /\ \E s \in Statuses : Result(s) \in Results /\ results' = Append(results, Result(s))
      <4>1. ASSUME NEW i \in DOMAIN results', results'[i].backup # NoBackup
            PROVE  /\ results'[i].backup[1] = run
                   /\ results'[i].backup[3] = 0 =>
                        \E k \in Index : k < idx' /\ Entries[k].kind = "regset" /\ Entries[k].target = results'[i].backup[2]
        <5>1. CASE i \in DOMAIN results /\ results'[i] = results[i]
          BY <3>2, <3>3, <3>4, <4>1, <5>1
        <5>2. ASSUME NEW s \in Statuses, results'[i] = Result(s)
              PROVE  /\ results'[i].backup[1] = run
                     /\ results'[i].backup[3] = 0 =>
                        \E k \in Index : k < idx' /\ Entries[k].kind = "regset" /\ Entries[k].target = results'[i].backup[2]
          <6>1. results'[i].backup = cur.backup
            BY <5>2 DEF Result
          <6>2. pc \in {"write", "copying"}
            <7>1. CASE pc = "entry"
              BY <4>1, <6>1, <7>1 DEF PathsKnown, NoWork
            <7> QED
              BY <3>1, <7>1
          <6>3. cur.backup[1] = run /\ (cur.backup[3] = 0 => Entry.kind = "regset" /\ Entry.target = cur.backup[2])
            BY <4>1, <6>1, <6>2 DEF PathsKnown
          <6>4. idx < idx'
            BY <3>2, <3>4
          <6> QED
            BY <3>4, <6>1, <6>3, <6>4 DEF Entry
        <5>3. \/ i \in DOMAIN results /\ results'[i] = results[i]
              \/ \E s \in Statuses : results'[i] = Result(s)
          BY <2>1, <3>4
        <5> QED
          BY <5>1, <5>2, <5>3
      <4> QED
        BY <1>2, <2>1, <2>2, <3>1, <3>4, <4>1, BackupsCounted DEF PathsKnown
    <3>5. CASE TakeBackup /\ UNCHANGED <<idx, results>>
      <4>1. \/ cur'.backup = NoBackup
            \/ cur'.backup[1] = run /\ (cur'.backup[3] = 0 => Entry.kind = "regset" /\ Entry.target = cur'.backup[2])
        <5>1. CASE cur'.backup # NoBackup
          <6>1. cur'.backup = BackupPath(Entry) /\ run \in Runs /\ Entry.target \in Targets
            BY <3>5, <5>1, TakeBackupEffect
          <6>2. CASE Entry.kind = "regset"
            BY <6>1, <6>2 DEF BackupPath, RegistrySetBackup
          <6>3. CASE Entry.kind # "regset"
            <7> DEFINE S == {q \in DOMAIN backups : q[1] = run /\ q[2] = Entry.target}
            <7>1. cur'.backup = <<run, Entry.target, Cardinality(S) + 1>>
              BY <6>1, <6>3 DEF BackupPath, FreshBackup
            <7>2. Cardinality(S) \in Nat
              <8>1. IsFiniteSet(S)
                BY FS_Subset DEF Invariant, TypeOK, DiskTyped
              <8> QED
                BY <8>1, FS_CardinalityType
            <7>3. cur'.backup[1] = run /\ cur'.backup[3] # 0
              BY <7>1, <7>2
            <7> QED
              BY <7>3
          <6> QED
            BY <6>2, <6>3
        <5> QED
          BY <5>1
      <4>2. Entry' = Entry
        BY <2>1, <3>5 DEF Entry
      <4>3. ASSUME NEW i \in DOMAIN results, results[i].backup # NoBackup
            PROVE  /\ results[i].backup[1] = run
                   /\ results[i].backup[3] = 0 =>
                        \E k \in Index : k < idx /\ Entries[k].kind = "regset" /\ Entries[k].target = results[i].backup[2]
        BY <3>1, <4>3 DEF PathsKnown
      <4>4. pc' = "write"
        BY <3>5, TakeBackupEffect
      <4> QED
        BY <1>2, <2>1, <2>2, <3>1, <3>5, <4>1, <4>2, <4>3, <4>4, BackupsCounted DEF PathsKnown
    <3>6. CASE /\ pc' = "copying" /\ pc \in {"write", "copying"} /\ UNCHANGED <<idx, results>>
               /\ cur'.backup = cur.backup
      <4>1. Entry' = Entry
        BY <2>1, <3>6 DEF Entry
      <4>2. cur'.backup # NoBackup =>
              /\ cur'.backup[1] = run
              /\ cur'.backup[3] = 0 => Entry.kind = "regset" /\ Entry.target = cur'.backup[2]
        BY <3>6 DEF PathsKnown
      <4>3. ASSUME NEW i \in DOMAIN results, results[i].backup # NoBackup
            PROVE  /\ results[i].backup[1] = run
                   /\ results[i].backup[3] = 0 =>
                        \E k \in Index : k < idx /\ Entries[k].kind = "regset" /\ Entries[k].target = results[i].backup[2]
        BY <3>1, <4>3 DEF PathsKnown
      <4> QED
        BY <1>2, <2>1, <2>2, <3>1, <3>6, <4>1, <4>2, <4>3, BackupsCounted DEF PathsKnown
    <3> QED
      BY <2>1, <2>7, <3>4, <3>5, <3>6, WorkResult
  <2> QED
    BY <1>2, <2>3, <2>4, <2>5, <2>6, <2>7, RestoreReached
<1> QED
  BY <1>1, <1>2

\* A plan wants back what its entry kept.
PlanDesired ==
  \A j \in Jobs : plan[j].made => plan[j].desired = PriorState(journal[j[1]][j[2]])

\* Of the entries of a run the last ones are undone.
DoneUpward ==
  \A j \in done : \A k \in DOMAIN journal[j[1]] :
    k > j[2] /\ Mutates(journal[j[1]][k]) => <<j[1], k>> \in done

\* A run that can be reverted: it is registered or newer than all that are published.
Revertible(r) ==
  /\ journal[r] # <<>> /\ r \notin reverted
  /\ r \in member \/ \A q \in Runs : q > r => journal[q] = <<>>

\* The run whose restore is under way.
Restoring(r) == pc \in RestorePhases /\ run = r

\* A run reports when it ends.
ToldKnown == \A r \in Runs : (r >= nextRun \/ Restoring(r)) => told[r] = "none"

\* What is reverted is the newest run that can be.
RevertsTop == pc \in RevertPhases => \A q \in Runs : q > run => ~Revertible(q)

\* An entry of a journal stays as it is, and so does the content it kept.
LEMMA EntryKept ==
  ASSUME Invariant, PathsKnown, NoRepeatedSetting, Next, NEW r \in Runs, NEW i \in DOMAIN journal[r]
  PROVE  /\ journal'[r] = journal[r]
         /\ Mutates(journal[r][i])' = Mutates(journal[r][i])
         /\ PriorState(journal[r][i])' = PriorState(journal[r][i])
<1>1. journal \in [Runs -> Seq(Results)] /\ journal[r] # <<>>
  BY DEF Invariant, TypeOK, DiskTyped
<1>2. journal'[r] = journal[r]
  BY <1>1, JournalStep
<1>3. journal[r][i].backup = NoBackup \/ journal[r][i].backup \in DOMAIN backups
  BY DEF Invariant, BackupsKnown
<1>4. journal[r][i].backup # NoBackup => backups'[journal[r][i].backup] = backups[journal[r][i].backup]
  BY <1>3, BackupKept
<1> QED
  BY <1>2, <1>4 DEF Mutates, PriorState

\* Who changes the records of a revert.
LEMMA WorkStep ==
  ASSUME Next
  PROVE  \/ UNCHANGED <<plan, done>>
         \/ \E R : RetireWork(R)
         \/ PrepareEntry /\ UNCHANGED done
         \/ CompleteEntry /\ UNCHANGED plan /\ done' = done \cup {Job}
<1>1. CASE RestoreNext
  BY <1>1 DEF RestoreNext, BeginRestore, SkipBlocked, SourceMissing, EntryRefused, SkipUpToDate, TakeBackup,
     BackupFails, WriteTarget, WriteLocked, WriteFails, MakeDirectory, CopyMember, MemberLocked,
     CopyEnds, EndRestore, PublishJournal, RegisterJournal, SetLive, disk
<1>2. CASE RevertWork
  BY <1>2, RevertWorkFrame
<1>3. CASE BeginRevert \/ PrepareEntry \/ CompleteEntry \/ MarkReverted \/ RetireReverted
  BY <1>3 DEF BeginRevert, PrepareEntry, CompleteEntry, MarkReverted, RetireReverted
<1>4. CASE Crash \/ EditTarget
  BY <1>4 DEF Crash, EditTarget, SetLive, disk
<1> QED
  BY <1>1, <1>2, <1>3, <1>4 DEF Next, RevertNext, RevertWork

\* Every step keeps what the plans want.
LEMMA PlanDesiredStep ==
  ASSUME Invariant, PathsKnown, NoRepeatedSetting, PlanDesired, [Next]_vars
  PROVE  PlanDesired'
<1>1. CASE UNCHANGED vars
  BY <1>1 DEF vars, disk, PlanDesired, PriorState
<1>2. CASE Next
  <2>1. plan \in [Jobs -> Plans] /\ \A j \in Jobs : j[1] \in Runs
    BY DEF Invariant, TypeOK, DiskTyped, Jobs
  <2>2. ASSUME NEW j \in Jobs, plan[j].made, plan'[j] = plan[j]
        PROVE  plan'[j].desired = PriorState(journal[j[1]][j[2]])'
    <3>1. j[1] \in Runs /\ j[2] \in DOMAIN journal[j[1]] /\ plan[j].desired = PriorState(journal[j[1]][j[2]])
      BY <2>1, <2>2 DEF Invariant, PlansKnown, PlanDesired
    <3>2. PriorState(journal[j[1]][j[2]])' = PriorState(journal[j[1]][j[2]])
      BY <1>2, <3>1, EntryKept
    <3> QED
      BY <2>2, <3>1, <3>2
  <2>3. CASE UNCHANGED plan
    BY <2>2, <2>3 DEF PlanDesired
  <2>4. ASSUME NEW R, RetireWork(R)
        PROVE  PlanDesired'
    <3>1. \A j \in Jobs : plan'[j] = plan[j] \/ ~plan'[j].made
      BY <2>4 DEF RetireWork, NoPlan
    <3> QED
      BY <2>2, <3>1 DEF PlanDesired
  <2>5. CASE PrepareEntry
    <3>1. pc = "prepare" /\ idx > 0 /\ UNCHANGED <<journal, backups>>
      BY <2>5 DEF PrepareEntry
    <3>2. Job \in Jobs /\ J = journal[run][idx]
      BY <3>1, RevertAt DEF RevertPhases, J
    <3>3. UNCHANGED plan \/ plan' = [plan EXCEPT ![Job] = PlanOf(run, idx)]
      BY <2>5 DEF PrepareEntry
    <3>4. ASSUME NEW j \in Jobs, j # Job \/ UNCHANGED plan, plan'[j].made
          PROVE  plan'[j].desired = PriorState(journal[j[1]][j[2]])'
      BY <2>1, <2>2, <3>3, <3>4
    <3>5. ASSUME NEW j \in Jobs, j = Job, plan' = [plan EXCEPT ![Job] = PlanOf(run, idx)]
          PROVE  plan'[j].desired = PriorState(journal[j[1]][j[2]])'
      <4>1. plan'[j] = PlanOf(run, idx)
        BY <2>1, <3>2, <3>5
      <4>2. PlanOf(run, idx).desired = PriorState(journal[run][idx])
        BY DEF PlanOf
      <4>3. j[1] = run /\ j[2] = idx
        BY <3>5 DEF Job
      <4>4. PriorState(journal[j[1]][j[2]])' = PriorState(journal[j[1]][j[2]])
        BY <3>1 DEF PriorState
      <4> QED
        BY <4>1, <4>2, <4>3, <4>4
    <3> QED
      BY <3>3, <3>4, <3>5 DEF PlanDesired
  <2> QED
    BY <1>2, <2>3, <2>4, <2>5, WorkStep
<1> QED
  BY <1>1, <1>2

\* Every step keeps the order of what is undone.
LEMMA DoneUpwardStep ==
  ASSUME Invariant, PathsKnown, NoRepeatedSetting, DoneUpward, [Next]_vars
  PROVE  DoneUpward'
<1>1. CASE UNCHANGED vars
  BY <1>1 DEF vars, disk, DoneUpward, Mutates
<1>2. CASE Next
  <2>1. TypeOK /\ done \subseteq Jobs /\ \A j \in Jobs : j[1] \in Runs
    BY DEF Invariant, TypeOK, DiskTyped, Jobs
  <2>2. ASSUME NEW j \in done, NEW k \in DOMAIN journal'[j[1]], k > j[2], Mutates(journal[j[1]][k])'
        PROVE  <<j[1], k>> \in done
    <3>1. j[1] \in Runs /\ j[2] \in DOMAIN journal[j[1]]
      BY <2>1 DEF Invariant, PlansKnown
    <3>2. journal'[j[1]] = journal[j[1]]
      BY <1>2, <3>1, EntryKept
    <3>3. Mutates(journal[j[1]][k])
      BY <2>2, <3>2 DEF Mutates
    <3> QED
      BY <2>2, <3>2, <3>3 DEF DoneUpward
  <2>3. CASE UNCHANGED done
    BY <2>2, <2>3 DEF DoneUpward
  <2>4. ASSUME NEW R, RetireWork(R)
        PROVE  DoneUpward'
    <3>1. \A j \in done' : j \in done /\ j[1] \notin R /\ \A k : <<j[1], k>> \in done => <<j[1], k>> \in done'
      BY <2>4 DEF RetireWork
    <3> QED
      BY <2>2, <3>1 DEF DoneUpward
  <2>5. CASE CompleteEntry /\ done' = done \cup {Job}
    <3>1. pc = "clean" /\ UNCHANGED journal
      BY <2>5 DEF CompleteEntry
    <3>2. \A k \in DOMAIN journal[run] : k > idx /\ Mutates(journal[run][k]) => <<run, k>> \in done
      BY <3>1 DEF Invariant, PlansKnown, UndoPhases, SwapPhases
    <3>3. Job[1] = run /\ Job[2] = idx
      BY DEF Job
    <3>4. ASSUME NEW j \in done', NEW k \in DOMAIN journal'[j[1]], k > j[2], Mutates(journal[j[1]][k])'
          PROVE  <<j[1], k>> \in done'
      <4>1. CASE j \in done
        BY <2>2, <2>5, <3>4, <4>1
      <4>2. CASE j = Job
        <5>1. j[1] = run /\ j[2] = idx /\ Mutates(journal[run][k]) /\ k \in DOMAIN journal[run]
          BY <3>1, <3>3, <3>4, <4>2 DEF Mutates
        <5> QED
          BY <2>5, <3>2, <3>4, <5>1
      <4> QED
        BY <2>5, <3>4, <4>1, <4>2
    <3> QED
      BY <3>4 DEF DoneUpward
  <2>6. CASE PrepareEntry /\ UNCHANGED done
    BY <2>3, <2>6
  <2> QED
    BY <1>2, <2>3, <2>4, <2>5, <2>6, WorkStep
<1> QED
  BY <1>1, <1>2

\* Only the end of a restore reports, and only its begin counts it.
LEMMA ToldStep ==
  ASSUME Invariant, Next
  PROVE  /\ \/ UNCHANGED told
            \/ /\ pc \in RestorePhases /\ run \in Runs /\ run = nextRun - 1 /\ pc' = "idle"
               /\ \E s : told' = [told EXCEPT ![run] = s]
         /\ UNCHANGED nextRun \/ (BeginRestore /\ nextRun' = nextRun + 1 /\ UNCHANGED told)
<1>1. CASE EndRestore \/ PublishJournal \/ RegisterJournal
  <2>1. /\ pc \in RestorePhases /\ UNCHANGED nextRun
        /\ UNCHANGED told \/ (pc' = "idle" /\ \E s : told' = [told EXCEPT ![run] = s])
    BY <1>1 DEF EndRestore, PublishJournal, RegisterJournal, ToIdle, Tell, RestorePhases
  <2> QED
    BY <2>1, RestoreAt
<1>2. CASE BeginRestore
  BY <1>2 DEF BeginRestore
<1>3. CASE RestoreNext /\ ~BeginRestore /\ ~EndRestore /\ ~PublishJournal /\ ~RegisterJournal
  BY <1>3 DEF RestoreNext, SkipBlocked, SourceMissing, EntryRefused, SkipUpToDate, TakeBackup,
     BackupFails, WriteTarget, WriteLocked, WriteFails, MakeDirectory, CopyMember, MemberLocked,
     CopyEnds, EndEntry, ghosts
<1>4. CASE RevertWork
  BY <1>4, RevertWorkFrame
<1>5. CASE BeginRevert \/ PrepareEntry \/ CompleteEntry \/ MarkReverted \/ RetireReverted \/ Crash \/ EditTarget
  BY <1>5 DEF BeginRevert, PrepareEntry, CompleteEntry, NextEntry, MarkReverted, RetireReverted, Crash, EditTarget,
              ghosts, session
<1> QED
  BY <1>1, <1>2, <1>3, <1>4, <1>5 DEF Next, RevertNext, RevertWork

\* Every step keeps what is known of the reports.
LEMMA ToldKnownStep ==
  ASSUME Invariant, ToldKnown, [Next]_vars
  PROVE  ToldKnown'
<1>1. told \in [Runs -> {"none", "ok", "failed"}] /\ nextRun \in Nat /\ nextRun \in 1..(MaxRuns + 1) /\ MaxRuns \in Nat
  BY EntriesAreTyped DEF Invariant, TypeOK, SessionTyped
<1>2. CASE UNCHANGED vars
  BY <1>2 DEF vars, session, ghosts, ToldKnown, Restoring
<1>3. CASE Next
  <2>1. ASSUME NEW r \in Runs, r >= nextRun' \/ (pc' \in RestorePhases /\ run' = r)
        PROVE  told'[r] = "none"
    <3>1. r \in Nat
      BY <1>1, <2>1 DEF Runs
    <3>2. CASE BeginRestore
      <4>1. run' = nextRun /\ nextRun' = nextRun + 1 /\ UNCHANGED told
        BY <3>2 DEF BeginRestore
      <4> QED
        BY <1>1, <2>1, <3>1, <4>1 DEF ToldKnown
    <3>3. CASE ~BeginRestore
      <4>1. UNCHANGED nextRun
        BY <1>3, <3>3, ToldStep
      <4>2. pc' \in RestorePhases => pc \in RestorePhases /\ run' = run
        <5>1. CASE RestoreWork
          BY <5>1, RestoreWorkFrame DEF RestorePhases
        <5>2. CASE EditTarget
          BY <5>2 DEF EditTarget, session
        <5> QED
          BY <1>3, <3>3, <5>1, <5>2, RestoreReached DEF RestorePhases
      <4>3. CASE UNCHANGED told
        BY <2>1, <4>1, <4>2, <4>3 DEF ToldKnown, Restoring
      <4>4. CASE ~UNCHANGED told
        <5>1. run \in Runs /\ run = nextRun - 1 /\ pc' = "idle" /\ \E s : told' = [told EXCEPT ![run] = s]
          BY <1>3, <4>4, ToldStep
        <5>2. r # run /\ r >= nextRun
          BY <1>1, <2>1, <3>1, <4>1, <5>1 DEF RestorePhases
        <5> QED
          BY <1>1, <5>1, <5>2 DEF ToldKnown
      <4> QED
        BY <4>3, <4>4
    <3> QED
      BY <3>2, <3>3
  <2> QED
    BY <2>1 DEF ToldKnown, Restoring
<1> QED
  BY <1>2, <1>3

\* No run above the candidate can be reverted.
LEMMA CandidateTop ==
  ASSUME Invariant, ~NothingToRevert, NEW q \in Runs, q > RevertCandidate,
         journal[q] # <<>>, q \notin reverted
  PROVE  /\ q \notin member
         /\ \E p \in Runs : p > q /\ journal[p] # <<>>
<1>1. \A r \in Runs : r \in Nat
  BY EntriesAreTyped DEF Runs
<1>2. Newest(Published) \in Published /\ \A r \in Published : r <= Newest(Published)
  BY NewestIn DEF Published, NothingToRevert
<1>3. ActiveRuns \subseteq Published /\ Published \subseteq Runs
  BY DEF ActiveRuns, Published, Invariant, TypeOK, DiskTyped, SessionKnown
<1>4. ASSUME ActiveRuns # {}
      PROVE  Newest(ActiveRuns) \in ActiveRuns /\ \A r \in ActiveRuns : r <= Newest(ActiveRuns)
  BY <1>3, <1>4, NewestIn
<1>5. q \in Published
  BY DEF Published
<1> DEFINE latest == Newest(Published)
           active == Newest(ActiveRuns)
<1>6. RevertCandidate = IF ActiveRuns = {} \/ (latest \notin reverted /\ latest > active) THEN latest ELSE active
  BY DEF RevertCandidate
<1> HIDE DEF latest, active
<1>7. latest \in Runs /\ latest \in Nat /\ q <= latest /\ journal[latest] # <<>>
  BY <1>1, <1>2, <1>3, <1>5 DEF latest, Published
<1>8. q \in Nat /\ (RevertCandidate = latest \/ RevertCandidate = active)
  BY <1>1, <1>6
<1>9. RevertCandidate # latest
  BY <1>7, <1>8
<1>10. ActiveRuns # {} /\ RevertCandidate = active /\ ~(latest \notin reverted /\ latest > active)
  BY <1>6, <1>9
<1>11. active \in ActiveRuns /\ active \in Nat /\ \A r \in ActiveRuns : r <= active
  BY <1>1, <1>3, <1>4, <1>10 DEF active
<1>12. q \notin member
  BY <1>8, <1>10, <1>11 DEF ActiveRuns
<1>13. latest # q
  BY <1>7, <1>10
<1> QED
  BY <1>7, <1>8, <1>12, <1>13

\* Every step keeps the newest run the one that is reverted.
LEMMA RevertsTopStep ==
  ASSUME Invariant, RevertsTop, [Next]_vars
  PROVE  RevertsTop'
<1>1. CASE UNCHANGED vars
  BY <1>1 DEF vars, disk, session, RevertsTop, Revertible
<1>2. CASE BeginRevert
  <2>1. /\ ~NothingToRevert /\ run' = RevertCandidate /\ member' = member \cup {RevertCandidate}
        /\ UNCHANGED <<journal, reverted>>
    BY <1>2 DEF BeginRevert, AdoptJournal
  <2>2. RevertCandidate \in Nat /\ \A q \in Runs : q \in Nat
    BY <2>1, CandidateKnown, EntriesAreTyped DEF Runs
  <2>3. ASSUME NEW q \in Runs, q > RevertCandidate, journal[q] # <<>>, q \notin reverted
        PROVE  q \notin member' /\ \E p \in Runs : p > q /\ journal[p] # <<>>
    BY <2>1, <2>2, <2>3, CandidateTop
  <2> QED
    BY <2>1, <2>3 DEF RevertsTop, Revertible
<1>3. CASE Next /\ ~BeginRevert
  <2>1. pc' \in RevertPhases => pc \in RevertPhases /\ run' = run /\ UNCHANGED <<journal, reverted, member>>
    <3>1. CASE RestoreNext
      <4>1. pc' \in RestorePhases \/ pc' = "idle"
        <5>1. CASE RestoreWork
          BY <5>1, RestoreWorkFrame DEF RestorePhases
        <5>2. CASE BeginRestore \/ PublishJournal \/ RegisterJournal
          BY <5>2 DEF BeginRestore, PublishJournal, RegisterJournal, ToIdle, RestorePhases
        <5> QED
          BY <3>1, <5>1, <5>2 DEF RestoreNext, RestoreWork
      <4> QED
        BY <4>1 DEF RestorePhases, RevertPhases, UndoPhases, SwapPhases
    <3>2. CASE RevertWork
      BY <3>2, RevertWorkFrame DEF RevertPhases, UndoPhases, SwapPhases
    <3>3. CASE PrepareEntry \/ CompleteEntry
      BY <3>3 DEF PrepareEntry, CompleteEntry, NextEntry, RevertPhases, UndoPhases, SwapPhases
    <3>4. CASE MarkReverted \/ RetireReverted \/ Crash
      BY <3>4 DEF MarkReverted, RetireReverted, Crash, ToIdle, RevertPhases, UndoPhases, SwapPhases
    <3>5. CASE EditTarget
      BY <3>5 DEF EditTarget, SetLive, session
    <3> QED
      BY <1>3, <3>1, <3>2, <3>3, <3>4, <3>5 DEF Next, RevertNext, RevertWork
  <2> QED
    BY <2>1 DEF RevertsTop, Revertible
<1> QED
  BY <1>1, <1>2, <1>3

\* The results on a target.
OnTarget(seq, u) == {i \in DOMAIN seq : seq[i].target = u}

\* Every change they report can be taken back.
UndoableIn(seq, u) ==
  \A i \in OnTarget(seq, u) :
    Mutates(seq[i]) \/ seq[i].action \in {"skipped_up_to_date", "skipped_missing_source"}

\* None of them reports a change that can be taken back.
NoneMutates(seq, u) == \A i \in OnTarget(seq, u) : ~Mutates(seq[i])

\* The first of them that changed the target kept what it held before run r.
FirstKept(seq, r, u) ==
  UndoableIn(seq, u) =>
    \A i \in OnTarget(seq, u) :
      Mutates(seq[i]) /\ (\A k \in OnTarget(seq, u) : k < i => ~Mutates(seq[k]))
        => PriorState(seq[i]) = origin[r][u]

\* Every journal keeps what the targets held before its run.
JournalPriors == edits = 0 => \A r \in Runs, u \in Targets : FirstKept(journal[r], r, u)

\* What the entry being restored has found is what the target held before the run.
EntryFound(u) ==
  UndoableIn(results, u) /\ NoneMutates(results, u) =>
    /\ ~(pc = "copying" /\ Entry.target = u) => live[u] = origin[run][u]
    /\ pc \in {"write", "copying"} /\ Entry.target = u /\ (cur.backup # NoBackup \/ ~cur.existed)
         => PriorState(cur) = origin[run][u]

\* So do the results of the run that is being restored.
RunningPriors ==
  edits = 0 /\ pc \in {"entry", "write", "copying"} =>
    \A u \in Targets : FirstKept(results, run, u) /\ EntryFound(u)

\* One more result.
LEMMA OneMore ==
  ASSUME NEW seq \in Seq(Results), NEW e \in Results, NEW more, more = Append(seq, e), NEW u, UndoableIn(more, u)
  PROVE  /\ UndoableIn(seq, u)
         /\ \A i \in DOMAIN seq : i < Len(seq) + 1
         /\ \A i \in OnTarget(more, u) :
              \/ i \in OnTarget(seq, u) /\ more[i] = seq[i]
              \/ i = Len(seq) + 1 /\ more[i] = e /\ e.target = u
         /\ \A i \in OnTarget(seq, u) : i \in OnTarget(more, u) /\ more[i] = seq[i]
         /\ e.target = u => Mutates(e) \/ e.action \in {"skipped_up_to_date", "skipped_missing_source"}
         /\ NoneMutates(more, u) => NoneMutates(seq, u) /\ (e.target = u => ~Mutates(e))
<1>1. /\ \A i \in DOMAIN seq : i \in DOMAIN more /\ more[i] = seq[i] /\ i < Len(seq) + 1
      /\ Len(seq) + 1 \in DOMAIN more /\ more[Len(seq) + 1] = e
      /\ \A i \in DOMAIN more : i \in DOMAIN seq \/ i = Len(seq) + 1
  OBVIOUS
<1>3. UndoableIn(seq, u)
  BY <1>1 DEF UndoableIn, OnTarget
<1>4. \A i \in OnTarget(more, u) :
        \/ i \in OnTarget(seq, u) /\ more[i] = seq[i]
        \/ i = Len(seq) + 1 /\ more[i] = e /\ e.target = u
  BY <1>1 DEF OnTarget
<1>5. e.target = u => Mutates(e) \/ e.action \in {"skipped_up_to_date", "skipped_missing_source"}
  BY <1>1 DEF OnTarget, UndoableIn
<1>6. NoneMutates(more, u) => NoneMutates(seq, u) /\ (e.target = u => ~Mutates(e))
  BY <1>1 DEF OnTarget, NoneMutates
<1>7. \A i \in OnTarget(seq, u) : i \in OnTarget(more, u) /\ more[i] = seq[i]
  BY <1>1 DEF OnTarget
<1> QED
  BY <1>1, <1>3, <1>4, <1>5, <1>6, <1>7

\* The end of an entry keeps what the run has found.
LEMMA ResultFound ==
  ASSUME Invariant, RunningPriors, edits = 0, RestoreWork, UNCHANGED <<profile, backups>>, NEW s \in Statuses,
         Result(s) \in Results, results' = Append(results, Result(s)), pc' = "entry", run' = run,
         s = "restored" => pc \in {"write", "copying"},
         s \in {"skipped_up_to_date", "skipped_missing_source"} => pc = "entry" /\ UNCHANGED live,
         NEW u \in Targets
  PROVE  FirstKept(results, run, u)' /\ EntryFound(u)'
<1> DEFINE e == Result(s)
<1>1. results \in Seq(Results) /\ pc \in {"entry", "write", "copying"} /\ origin' = origin /\ UNCHANGED edits
  BY RestoreWorkFrame DEF Invariant, TypeOK, SessionTyped
<1>2. FirstKept(results, run, u) /\ EntryFound(u)
  BY <1>1 DEF RunningPriors
<1>3. e.target = Entry.target /\ e.action = s /\ PriorState(e) = PriorState(cur) /\ e.backup = cur.backup /\ e.existed = cur.existed
  BY DEF Result, PriorState
<1>4. live'[u] # live[u] => u = Entry.target
  BY RestoreWrites
<1> HIDE DEF e
<1>5. ASSUME UndoableIn(results', u)
      PROVE  /\ UndoableIn(results, u)
             /\ \A i \in DOMAIN results : i < Len(results) + 1
             /\ \A i \in OnTarget(results', u) :
                  \/ i \in OnTarget(results, u) /\ results'[i] = results[i]
                  \/ i = Len(results) + 1 /\ results'[i] = e /\ e.target = u
             /\ \A i \in OnTarget(results, u) : i \in OnTarget(results', u) /\ results'[i] = results[i]
             /\ e.target = u => Mutates(e) \/ e.action \in {"skipped_up_to_date", "skipped_missing_source"}
             /\ NoneMutates(results', u) => NoneMutates(results, u) /\ (e.target = u => ~Mutates(e))
  <2>1. results' = Append(results, e) /\ e \in Results
    BY DEF e
  <2> QED
    BY <1>1, <1>5, <2>1, OneMore
<1>6. ASSUME UndoableIn(results', u), NoneMutates(results', u)
      PROVE  live'[u] = origin[run][u]
  <2>1. UndoableIn(results, u) /\ NoneMutates(results, u)
    BY <1>5, <1>6
  <2>2. CASE Entry.target = u
    <3>1. pc = "entry" /\ live' = live
      BY <1>3, <1>5, <1>6, <2>2
    <3> QED
      BY <1>2, <2>1, <3>1 DEF EntryFound
  <2>3. CASE Entry.target # u
    BY <1>2, <1>4, <2>1, <2>3 DEF EntryFound
  <2> QED
    BY <2>2, <2>3
<1>7. ASSUME UndoableIn(results', u), NEW i \in OnTarget(results', u), Mutates(results'[i]),
             \A k \in OnTarget(results', u) : k < i => ~Mutates(results'[k])
      PROVE  PriorState(results'[i]) = origin[run][u]
  <2>1. CASE i \in OnTarget(results, u) /\ results'[i] = results[i]
    <3>1. \A k \in OnTarget(results, u) : k < i => ~Mutates(results[k])
      BY <1>5, <1>7
    <3> QED
      BY <1>2, <1>5, <1>7, <2>1, <3>1 DEF FirstKept
  <2>2. CASE i = Len(results) + 1 /\ results'[i] = e /\ e.target = u
    <3>1. NoneMutates(results, u)
      <4>1. \A k \in OnTarget(results, u) : k < i /\ k \in OnTarget(results', u) /\ results'[k] = results[k]
        BY <1>5, <1>7, <2>2 DEF OnTarget
      <4> QED
        BY <1>7, <4>1 DEF NoneMutates
    <3>2. Mutates(e) /\ Entry.target = u
      BY <1>3, <1>7, <2>2
    <3>3. s = "restored" /\ (cur.backup # NoBackup \/ ~cur.existed)
      BY <1>3, <3>2 DEF Mutates
    <3>4. PriorState(cur) = origin[run][u]
      BY <1>2, <1>5, <1>7, <3>1, <3>2, <3>3 DEF EntryFound
    <3> QED
      BY <1>3, <2>2, <3>4
  <2> QED
    BY <1>5, <1>7, <2>1, <2>2
<1>8. FirstKept(results, run, u)'
  BY <1>1, <1>7 DEF FirstKept, PriorState
<1>9. EntryFound(u)'
  BY <1>1, <1>6 DEF EntryFound
<1> QED
  BY <1>8, <1>9

\* Nobody has written after a step only if nobody had before.
LEMMA NoEditBefore ==
  ASSUME Invariant, Next, edits' = 0
  PROVE  edits = 0 /\ ~EditTarget
<1>1. edits \in Nat /\ edits' \in Nat /\ edits' >= edits
  BY CounterStep DEF Invariant, TypeOK
<1>2. EditTarget => edits' = edits + 1
  BY DEF EditTarget
<1> QED
  BY <1>1, <1>2

\* Only the begin of a run remembers what the targets hold.
LEMMA OriginStep ==
  ASSUME Next, ~BeginRestore
  PROVE  UNCHANGED origin
<1>1. CASE RestoreNext
  BY <1>1 DEF RestoreNext, SkipBlocked, SourceMissing, EntryRefused, SkipUpToDate, TakeBackup,
     BackupFails, WriteTarget, WriteLocked, WriteFails, MakeDirectory, CopyMember, MemberLocked,
     CopyEnds, EndRestore, PublishJournal, RegisterJournal, ghosts
<1>2. CASE RevertWork
  BY <1>2, RevertWorkFrame
<1>3. CASE BeginRevert \/ PrepareEntry \/ CompleteEntry \/ MarkReverted \/ RetireReverted \/ Crash \/ EditTarget
  BY <1>3 DEF BeginRevert, PrepareEntry, CompleteEntry, MarkReverted, RetireReverted, Crash, EditTarget, ghosts
<1> QED
  BY <1>1, <1>2, <1>3 DEF Next, RevertNext, RevertWork

\* Every step keeps what a running restore knows of its targets.
LEMMA RunningPriorsStep ==
  ASSUME Invariant, PathsKnown, NoRepeatedSetting, RunningPriors, [Next]_vars
  PROVE  RunningPriors'
<1>1. CASE UNCHANGED vars
  BY <1>1 DEF vars, disk, session, faults, ghosts, RunningPriors, FirstKept, EntryFound, PriorState, Entry, Entries
<1>2. CASE Next
  <2> SUFFICES ASSUME edits' = 0, pc' \in {"entry", "write", "copying"}, NEW u \in Targets
               PROVE  FirstKept(results, run, u)' /\ EntryFound(u)'
    BY DEF RunningPriors
  <2>1. edits = 0 /\ ~EditTarget /\ UNCHANGED profile
    BY <1>2, NoEditBefore DEF Next
  <2>2. BeginRestore \/ (RestoreWork /\ pc' # "idle" /\ pc' # "register")
    BY <1>2, <2>1, RestoreReached DEF RestorePhases
  <2>3. CASE BeginRestore
    <3>1. /\ results' = <<>> /\ pc' = "entry" /\ run' = nextRun /\ live' = live /\ nextRun <= MaxRuns
          /\ origin' = [origin EXCEPT ![nextRun] = live]
      BY <2>3 DEF BeginRestore
    <3>2. nextRun \in Runs /\ origin \in [Runs -> [Targets -> Contents]]
      BY <3>1, EntriesAreTyped DEF Invariant, TypeOK, SessionTyped, Runs
    <3>3. origin'[run'] = live'
      BY <3>1, <3>2
    <3>4. OnTarget(results', u) = {}
      BY <3>1 DEF OnTarget
    <3> QED
      BY <3>1, <3>3, <3>4 DEF FirstKept, EntryFound
  <2>4. CASE RestoreWork /\ pc' # "idle" /\ pc' # "register"
    <3>1. /\ pc \in {"entry", "write", "copying"} /\ pc \in RestorePhases /\ run' = run /\ UNCHANGED origin
          /\ Entries' = Entries
      BY <2>1, <2>4, RestoreWorkFrame, WorkResult DEF RestorePhases
    <3>2. FirstKept(results, run, u) /\ EntryFound(u)
      BY <2>1, <3>1 DEF RunningPriors
    <3>3. \A v \in Targets : live'[v] # live[v] => v = Entry.target
      BY <2>1, <2>4, RestoreWrites
    <3>5. ASSUME UNCHANGED results
          PROVE  FirstKept(results, run, u)'
      <4>1. ASSUME NEW i \in DOMAIN results
            PROVE  PriorState(results[i])' = PriorState(results[i])
        <5>1. results[i].backup = NoBackup \/ results[i].backup \in DOMAIN backups
          BY DEF Invariant, BackupsKnown
        <5>2. results[i].backup # NoBackup => backups'[results[i].backup] = backups[results[i].backup]
          BY <1>2, <3>1, <5>1, BackupKept
        <5> QED
          BY <3>5, <5>2 DEF PriorState
      <4> QED
        BY <3>1, <3>2, <3>5, <4>1 DEF FirstKept, OnTarget
    <3>6. CASE TakeBackup
      <4>1. /\ UNCHANGED <<idx, results>> /\ pc = "entry" /\ pc' = "write" /\ UNCHANGED live /\ Entry' = Entry
            /\ cur'.existed = (live[Entry.target] # Absent)
            /\ cur'.backup # NoBackup => backups'[cur'.backup] = live[Entry.target]
        BY <3>1, <3>6, TakeBackupEffect DEF Entry
      <4>2. cur'.backup # NoBackup \/ ~cur'.existed => PriorState(cur)' = live[Entry.target]
        BY <4>1 DEF PriorState
      <4>3. UndoableIn(results, u) /\ NoneMutates(results, u) => live[u] = origin[run][u]
        BY <3>2, <4>1 DEF EntryFound
      <4>4. EntryFound(u)'
        BY <3>1, <4>1, <4>2, <4>3 DEF EntryFound
      <4> QED
        BY <3>5, <4>1, <4>4
    <3>7. CASE ~TakeBackup
      <4>1. UNCHANGED backups
        BY <1>2, <3>7, BackupsSame
      <4>2. CASE pc = "entry" /\ pc' = "entry" /\ UNCHANGED <<results, live, cur>>
        <5>1. EntryFound(u)'
          BY <3>1, <3>2, <4>1, <4>2 DEF EntryFound
        <5> QED
          BY <3>5, <4>2, <5>1
      <4>3. ASSUME NEW s \in Statuses, Result(s) \in Results, results' = Append(results, Result(s)), pc' = "entry",
                   s = "restored" => pc \in {"write", "copying"},
                   s \in {"skipped_up_to_date", "skipped_missing_source"} => pc = "entry" /\ UNCHANGED live
            PROVE  FirstKept(results, run, u)' /\ EntryFound(u)'
        BY <2>1, <2>4, <3>1, <4>1, <4>3, ResultFound
      <4>4. CASE /\ pc' = "copying" /\ pc \in {"write", "copying"} /\ UNCHANGED <<idx, results>>
                 /\ cur'.backup = cur.backup /\ cur'.existed = cur.existed
        <5>1. Entry' = Entry
          BY <3>1, <4>4 DEF Entry
        <5>2. PriorState(cur)' = PriorState(cur)
          BY <4>1, <4>4 DEF PriorState
        <5>3. EntryFound(u)'
          BY <3>1, <3>2, <3>3, <4>4, <5>1, <5>2 DEF EntryFound
        <5> QED
          BY <3>5, <4>4, <5>3
      <4> QED
        BY <2>1, <2>4, <3>7, <4>2, <4>3, <4>4, WorkResult
    <3> QED
      BY <3>6, <3>7
  <2> QED
    BY <2>2, <2>3, <2>4
<1> QED
  BY <1>1, <1>2

\* Every step keeps what the journals know of their targets.
LEMMA JournalPriorsStep ==
  ASSUME Invariant, PathsKnown, NoRepeatedSetting, RunningPriors, JournalPriors, [Next]_vars
  PROVE  JournalPriors'
<1>1. CASE UNCHANGED vars
  BY <1>1 DEF vars, disk, faults, ghosts, JournalPriors, FirstKept, PriorState
<1>2. CASE Next
  <2> SUFFICES ASSUME edits' = 0, NEW r \in Runs, NEW u \in Targets
               PROVE  FirstKept(journal[r], r, u)'
    BY DEF JournalPriors
  <2>1. edits = 0 /\ journal \in [Runs -> Seq(Results)] /\ origin \in [Runs -> [Targets -> Contents]]
    BY <1>2, NoEditBefore DEF Invariant, TypeOK, DiskTyped
  <2>2. CASE journal[r] = <<>> /\ journal'[r] = <<>>
    BY <2>2 DEF FirstKept, OnTarget
  <2>3. CASE journal[r] # <<>>
    <3>2. \A i \in DOMAIN journal[r] : journal'[r] = journal[r] /\ PriorState(journal[r][i])' = PriorState(journal[r][i])
      BY <1>2, EntryKept
    <3>3. origin'[r] = origin[r]
      <4>1. CASE BeginRestore
        <5>1. origin' = [origin EXCEPT ![nextRun] = live]
          BY <4>1 DEF BeginRestore
        <5>2. r # nextRun
          BY <2>3 DEF Invariant, SessionKnown, TypeOK, SessionTyped, Runs
        <5> QED
          BY <2>1, <5>1, <5>2
      <4>2. CASE ~BeginRestore
        BY <1>2, <4>2, OriginStep
      <4> QED
        BY <4>1, <4>2
    <3>4. FirstKept(journal[r], r, u)
      BY <2>1 DEF JournalPriors
    <3>5. journal'[r] = journal[r]
      BY <1>2, <2>1, <2>3, JournalStep
    <3> QED
      BY <3>2, <3>3, <3>4, <3>5 DEF FirstKept, OnTarget
  <2>4. CASE journal[r] = <<>> /\ journal'[r] # <<>>
    <3>1. PublishJournal /\ pc = "entry" /\ journal' = [journal EXCEPT ![run] = results]
      BY <1>2, <2>4, JournalStep
    <3>2. r = run /\ journal'[r] = results /\ UNCHANGED <<origin, backups>>
      BY <2>1, <2>4, <3>1 DEF PublishJournal
    <3>3. FirstKept(results, run, u)
      BY <2>1, <3>1 DEF RunningPriors
    <3> QED
      BY <3>2, <3>3 DEF FirstKept, PriorState
  <2> QED
    BY <2>2, <2>3, <2>4
<1> QED
  BY <1>1, <1>2

\* Every change run r made to u has been undone.
Undone(r, u) == \A i \in EntriesOf(r, u) : Mutates(journal[r][i]) => <<r, i>> \in done

\* The runs between r and s left nothing at u.
Clear(r, s, u) == \A q \in (r + 1)..(s - 1) : LeftNothing(q) /\ Undoable(q, u)

\* What was there before run r is there again, or was there when the next run
\* that left something began.
Stacked(r, u) ==
  Revertible(r) /\ Undoable(r, u) /\ Undone(r, u) =>
    /\ Clear(r, nextRun, u) => live[u] = origin[r][u]
    /\ \A s \in (r + 1)..(nextRun - 1) :
         (Revertible(s) \/ Restoring(s)) /\ Clear(r, s, u) => origin[s][u] = origin[r][u]

\* Of every run and target, as long as nobody else has written.
StackKnown == edits = 0 => \A r \in Runs, u \in Targets : Stacked(r, u)

\* A run with a journal is older than the next one.
LEMMA PublishedBefore ==
  ASSUME Invariant, NEW r \in Runs, journal[r] # <<>>
  PROVE  r \in Nat /\ nextRun \in Nat /\ r < nextRun
<1>1. r \in Nat /\ nextRun \in Nat
  BY EntriesAreTyped DEF Runs, Invariant, TypeOK, SessionTyped
<1> QED
  BY <1>1 DEF Invariant, SessionKnown

\* A step that leaves the runs as they are, and writes a target only while one
\* of them has something there.
LEMMA StackFrame ==
  ASSUME NEW r, NEW u, Stacked(r, u), UNCHANGED <<journal, reverted, nextRun, origin>>,
         Undone(r, u)' => Undone(r, u), Revertible(r)' => Revertible(r),
         \A s \in (r + 1)..(nextRun - 1) :
           /\ Revertible(s)' \/ Restoring(s)' => Revertible(s) \/ Restoring(s)
           /\ LeftNothing(s)' => LeftNothing(s),
         live'[u] # live[u] => \E q \in (r + 1)..(nextRun - 1) : ~LeftNothing(q),
         nextRun \in Nat, r \in Nat
  PROVE  Stacked(r, u)'
<1>1. ASSUME NEW s
      PROVE  Undoable(s, u)' = Undoable(s, u)
  BY DEF Undoable, EntriesOf, Mutates
<1>2. ASSUME NEW s \in (r + 1)..nextRun, Clear(r, s, u)'
      PROVE  Clear(r, s, u)
  <2>1. \A q \in (r + 1)..(s - 1) : q \in (r + 1)..(nextRun - 1)
    OBVIOUS
  <2> QED
    BY <1>1, <1>2, <2>1 DEF Clear
<1>3. ASSUME Revertible(r)', Undoable(r, u)', Undone(r, u)'
      PROVE  Revertible(r) /\ Undoable(r, u) /\ Undone(r, u)
  BY <1>1, <1>3
<1>4. ASSUME Revertible(r)', Undoable(r, u)', Undone(r, u)', Clear(r, nextRun, u)'
      PROVE  live'[u] = origin'[r][u]
  <2>1. \A q \in (r + 1)..(nextRun - 1) : LeftNothing(q)
    BY <1>4 DEF Clear
  <2>2. Clear(r, nextRun, u)
    BY <1>1, <1>4, <2>1 DEF Clear
  <2> QED
    BY <1>3, <1>4, <2>1, <2>2 DEF Stacked
<1>5. ASSUME Revertible(r)', Undoable(r, u)', Undone(r, u)', NEW s \in (r + 1)..(nextRun - 1),
             Revertible(s)' \/ Restoring(s)', Clear(r, s, u)'
      PROVE  origin'[s][u] = origin'[r][u]
  <2>1. s \in (r + 1)..nextRun
    OBVIOUS
  <2>2. Clear(r, s, u)
    BY <1>2, <1>5, <2>1
  <2> QED
    BY <1>3, <1>5, <2>2 DEF Stacked
<1> QED
  BY <1>4, <1>5 DEF Stacked

\* The work of a restore writes what its own run has something at.
LEMMA RestoreWorkStack ==
  ASSUME Invariant, ToldKnown, NEW r \in Runs, NEW u, Stacked(r, u), RestoreWork, ~EndRestore
  PROVE  Stacked(r, u)'
<1>1. /\ UNCHANGED <<journal, member, reverted, done, nextRun, origin>>
      /\ pc \in {"entry", "write", "copying"} /\ pc \in RestorePhases
      /\ (pc' \in RestorePhases /\ run' = run) \/ pc' = "idle"
  BY RestoreWorkFrame DEF RestorePhases
<1>2. UNCHANGED told
  BY DEF RestoreWork, SkipBlocked, SourceMissing, EntryRefused, SkipUpToDate, TakeBackup,
     BackupFails, WriteTarget, WriteLocked, WriteFails, MakeDirectory, CopyMember, MemberLocked,
     CopyEnds, EndEntry, ghosts
<1>3. \A s : /\ Revertible(s)' <=> Revertible(s)
             /\ Restoring(s)' => Restoring(s)
             /\ LeftNothing(s)' <=> LeftNothing(s)
  BY <1>1, <1>2 DEF Revertible, Restoring, LeftNothing, RestorePhases
<1>4. Undone(r, u)' => Undone(r, u)
  BY <1>1 DEF Undone, EntriesOf, Mutates
<1>5. run \in Runs /\ run = nextRun - 1 /\ journal[run] = <<>> /\ run \notin reverted /\ nextRun \in Nat
  <2>1. run \in Runs /\ run = nextRun - 1 /\ journal[run] = <<>> /\ run \notin member
    BY <1>1, RestoreAt
  <2>2. nextRun \in Nat /\ reverted \subseteq member
    BY EntriesAreTyped DEF Invariant, TypeOK, DiskTyped, SessionTyped
  <2> QED
    BY <2>1, <2>2
<1>6. ~LeftNothing(run)
  BY <1>1, <1>5 DEF LeftNothing, ToldKnown, Restoring
<1>7. r \in Nat
  BY EntriesAreTyped DEF Runs
<1>8. CASE Revertible(r)
  <2>1. r < nextRun
    BY <1>8, PublishedBefore DEF Revertible
  <2>2. r # run
    BY <1>5, <1>8 DEF Revertible
  <2>3. run \in (r + 1)..(nextRun - 1)
    BY <1>5, <1>7, <2>1, <2>2
  <2> QED
    BY <1>1, <1>3, <1>4, <1>5, <1>6, <1>7, <2>3, StackFrame
<1>9. CASE ~Revertible(r)
  BY <1>3, <1>9 DEF Stacked
<1> QED
  BY <1>8, <1>9

\* A revert writes the target of an entry that is not undone.
LEMMA RevertWrites ==
  ASSUME Invariant, RevertWork, NEW u \in Targets, live'[u] # live[u]
  PROVE  idx > 0 /\ J.target = u /\ Mutates(J) /\ Job \notin done
<1>1. live \in [Targets -> Contents]
  BY DEF Invariant, TypeOK, DiskTyped
<1>2. UndoInPlace \/ HoldTarget \/ ReplaceTarget
  BY DEF RevertWork, RevertFails, Refuses, PrepareEnds, PassOver, AlreadyUndone,
     BeginSwap, StageFile, StageDirectory, StageMember, StageEnds, VerifyTarget, RemoveScratch, SetStage, disk
<1>3. idx > 0 /\ Mutates(J) /\ Job \notin done
  <2>1. CASE UndoInPlace
    BY <2>1 DEF UndoInPlace
  <2>2. CASE HoldTarget \/ ReplaceTarget
    BY <2>2, SwapAt DEF HoldTarget, ReplaceTarget, SwapPhases
  <2> QED
    BY <1>2, <2>1, <2>2
<1>4. live' = live \/ \E c : live' = [live EXCEPT ![J.target] = c]
  BY <1>2 DEF UndoInPlace, HoldTarget, ReplaceTarget, SetLive
<1> QED
  BY <1>1, <1>3, <1>4

\* A revert writes what its own run has something at, and only what is not
\* undone yet.
LEMMA RevertWorkStack ==
  ASSUME Invariant, RevertsTop, NEW r \in Runs, NEW u \in Targets, Stacked(r, u), RevertWork
  PROVE  Stacked(r, u)'
<1>1. /\ UNCHANGED <<journal, member, reverted, done, nextRun, origin, told>>
      /\ pc \in RevertPhases /\ pc' \notin RestorePhases
  BY RevertWorkFrame DEF RestorePhases, RevertPhases, UndoPhases, SwapPhases
<1>2. \A s : /\ Revertible(s)' <=> Revertible(s)
             /\ ~Restoring(s)'
             /\ LeftNothing(s)' <=> LeftNothing(s)
  BY <1>1 DEF Revertible, Restoring, LeftNothing
<1>3. Undone(r, u)' <=> Undone(r, u)
  BY <1>1 DEF Undone, EntriesOf, Mutates
<1>4. run \in Runs /\ run \in member /\ run \notin reverted /\ journal[run] # <<>>
  BY <1>1, RevertAt DEF Invariant, SessionKnown
<1>5. ~LeftNothing(run) /\ run < nextRun /\ run \in Nat /\ nextRun \in Nat /\ r \in Nat
  BY <1>4, PublishedBefore, EntriesAreTyped DEF LeftNothing, Runs
<1>6. CASE Revertible(r) /\ Undone(r, u)
  <2>1. ~(r > run)
    BY <1>1, <1>6 DEF RevertsTop
  <2>2. ASSUME live'[u] # live[u]
        PROVE  run \in (r + 1)..(nextRun - 1)
    <3>1. idx > 0 /\ J.target = u /\ Mutates(J) /\ Job \notin done
      BY <2>2, RevertWrites
    <3>2. idx \in DOMAIN journal[run]
      BY <1>1, <3>1, RevertAt
    <3>3. r # run
      BY <1>6, <3>1, <3>2 DEF Undone, EntriesOf, J, Job
    <3> QED
      BY <1>5, <2>1, <3>3
  <2> QED
    BY <1>1, <1>2, <1>3, <1>5, <2>2, StackFrame
<1>7. CASE ~(Revertible(r) /\ Undone(r, u))
  BY <1>2, <1>3, <1>7 DEF Stacked
<1> QED
  BY <1>6, <1>7

\* The begin of a revert adopts a run that could be reverted already.
LEMMA AdoptedRevertible ==
  ASSUME Invariant, BeginRevert, NEW q \in Runs, Revertible(q)'
  PROVE  Revertible(q)
<1>1. /\ ~NothingToRevert /\ member' = member \cup {RevertCandidate} /\ UNCHANGED <<journal, reverted>>
  BY DEF BeginRevert, AdoptJournal
<1>2. CASE q # RevertCandidate
  BY <1>1, <1>2 DEF Revertible
<1>3. CASE q = RevertCandidate /\ q \notin member
  <2>1. q = Newest(Published)
    <3>1. ActiveRuns \in SUBSET Runs /\ ActiveRuns \subseteq member
      BY DEF ActiveRuns, Invariant, TypeOK, DiskTyped
    <3>2. ActiveRuns # {} => Newest(ActiveRuns) \in ActiveRuns
      BY <3>1, NewestIn
    <3> QED
      BY <1>3, <3>1, <3>2 DEF RevertCandidate
  <2>2. \A p \in Published : p <= q
    BY <1>1, <2>1, NewestIn DEF NothingToRevert, Published
  <2>3. \A p \in Runs : p > q => p \notin Published
    <3>1. \A p \in Runs : p \in Nat
      BY EntriesAreTyped DEF Runs
    <3> QED
      BY <2>2, <3>1
  <2> QED
    BY <1>1, <1>3, <2>3, CandidateKnown DEF Revertible, Published
<1>4. CASE q \in member
  BY <1>1, <1>4 DEF Revertible
<1> QED
  BY <1>2, <1>3, <1>4

\* Other steps of a revert, the registration of a journal and a death write nothing.
LEMMA QuietStack ==
  ASSUME Invariant, Next, NEW r \in Runs, NEW u, Stacked(r, u),
         BeginRevert \/ PrepareEntry \/ RetireReverted \/ Crash \/ RegisterJournal
  PROVE  Stacked(r, u)'
<1>1. UNCHANGED <<journal, reverted, nextRun, origin, live>> /\ pc' \notin RestorePhases /\ done' \subseteq done
  BY DEF BeginRevert, PrepareEntry, RetireReverted, Crash, RegisterJournal, RetireWork, ToIdle, disk, ghosts, RestorePhases
<1>2. \A s \in Runs : LeftNothing(s)' => LeftNothing(s)
  <2>1. CASE RegisterJournal
    <3>1. journal[run] # <<>> /\ told \in [Runs -> {"none", "ok", "failed"}] /\ \E s : told' = [told EXCEPT ![run] = s]
      BY <2>1 DEF RegisterJournal, Tell, Invariant, TypeOK, SessionKnown, RestorePhases, Journaled
    <3> QED
      BY <1>1, <3>1 DEF LeftNothing
  <2>2. CASE ~RegisterJournal
    <3>1. UNCHANGED told
      BY <2>2 DEF BeginRevert, PrepareEntry, RetireReverted, Crash, ghosts
    <3> QED
      BY <1>1, <3>1 DEF LeftNothing
  <2> QED
    BY <2>1, <2>2
<1>3. \A s \in Runs : Revertible(s)' => Revertible(s)
  <2>1. CASE BeginRevert
    BY <2>1, AdoptedRevertible
  <2>2. CASE PrepareEntry \/ RetireReverted \/ Crash
    <3>1. UNCHANGED member
      BY <2>2 DEF PrepareEntry, RetireReverted, Crash, disk
    <3> QED
      BY <1>1, <3>1 DEF Revertible
  <2>3. CASE RegisterJournal
    <3>1. pc = "register" /\ member' \subseteq member \cup {run}
      BY <2>3 DEF RegisterJournal
    <3>2. \A q \in Runs : q > run => journal[q] = <<>>
      <4>1. run = nextRun - 1 /\ nextRun \in Nat /\ \A q \in Runs : q \in Nat
        <5>1. run = nextRun - 1
          BY <3>1, RestoreAt DEF RestorePhases
        <5> QED
          BY <5>1, EntriesAreTyped DEF Invariant, TypeOK, SessionTyped, Runs
      <4> QED
        BY <4>1 DEF Invariant, SessionKnown
    <3> QED
      BY <1>1, <3>1, <3>2 DEF Revertible
  <2> QED
    BY <2>1, <2>2, <2>3
<1>4. Undone(r, u)' => Undone(r, u)
  BY <1>1 DEF Undone, EntriesOf, Mutates
<1>5. /\ nextRun \in Nat /\ r \in Nat
      /\ \A s \in (r + 1)..(nextRun - 1) : s \in Runs
  <2>1. nextRun \in 1..(MaxRuns + 1) /\ r \in 1..MaxRuns /\ MaxRuns \in Nat
    BY EntriesAreTyped DEF Invariant, TypeOK, SessionTyped, Runs
  <2> QED
    BY <2>1 DEF Runs
<1>6. \A s : ~Restoring(s)'
  BY <1>1 DEF Restoring
<1> QED
  BY <1>1, <1>2, <1>3, <1>4, <1>5, <1>6, StackFrame

\* A run between two others is one of the runs.
LEMMA RunsBetween ==
  ASSUME Invariant, NEW r \in Runs
  PROVE  /\ nextRun \in Nat /\ r \in Nat /\ \A s \in Runs : s \in Nat
         /\ \A s \in (r + 1)..(nextRun - 1) : s \in Runs /\ s \in Nat /\ r < s /\ s < nextRun
<1>1. nextRun \in 1..(MaxRuns + 1) /\ r \in 1..MaxRuns /\ MaxRuns \in Nat
  BY EntriesAreTyped DEF Invariant, TypeOK, SessionTyped, Runs
<1> QED
  BY <1>1 DEF Runs

\* A restore that found every target up to date leaves nothing.
LEMMA EndRestoreStack ==
  ASSUME Invariant, RunningPriors, edits = 0, EndRestore, NEW r \in Runs, NEW u \in Targets, Stacked(r, u)
  PROVE  Stacked(r, u)'
<1>1. /\ UNCHANGED <<live, journal, member, reverted, done, nextRun, origin>> /\ pc = "entry" /\ pc' = "idle"
      /\ told' = [told EXCEPT ![run] = "ok"] /\ ~Journaled
  BY DEF EndRestore, disk, ToIdle, Tell
<1>2. run \in Runs /\ run = nextRun - 1 /\ journal[run] = <<>> /\ told \in [Runs -> {"none", "ok", "failed"}]
  BY <1>1, RestoreAt DEF Invariant, TypeOK, RestorePhases
<1> r \in Nat /\ nextRun \in Nat /\ run \in Nat
  BY <1>2, RunsBetween
<1>3. \A s : /\ Revertible(s)' <=> Revertible(s)
             /\ Undoable(s, u)' <=> Undoable(s, u)
             /\ ~Restoring(s)'
  BY <1>1 DEF Revertible, Undoable, EntriesOf, Mutates, Restoring, RestorePhases
<1>4. Undone(r, u)' <=> Undone(r, u)
  BY <1>1 DEF Undone, EntriesOf, Mutates
<1>5. \A s \in Runs : s # run => (LeftNothing(s)' <=> LeftNothing(s))
  BY <1>1, <1>2 DEF LeftNothing
<1>6. live[u] = origin[run][u]
  <2>1. \A i \in DOMAIN results : results[i].action = "skipped_up_to_date"
    BY <1>1 DEF Journaled
  <2>2. UndoableIn(results, u) /\ NoneMutates(results, u)
    BY <2>1 DEF UndoableIn, NoneMutates, OnTarget, Mutates
  <2> QED
    BY <1>1, <2>2 DEF RunningPriors, EntryFound
<1>7. SUFFICES ASSUME Revertible(r), Undoable(r, u), Undone(r, u)
               PROVE  /\ Clear(r, nextRun, u)' => live[u] = origin[r][u]
                      /\ \A s \in (r + 1)..(nextRun - 1) :
                           Revertible(s) /\ Clear(r, s, u)' => origin[s][u] = origin[r][u]
  BY <1>1, <1>3, <1>4 DEF Stacked
<1>8. r < run /\ r # run
  <2>1. r < nextRun /\ r # run /\ r \in Nat /\ nextRun \in Nat
    BY <1>2, <1>7, PublishedBefore DEF Revertible
  <2> QED
    BY <1>2, <2>1
<1>9. ASSUME NEW s \in (r + 1)..run, Clear(r, s, u)'
      PROVE  Clear(r, s, u)
  <2>1. \A q \in (r + 1)..(s - 1) : q \in Runs /\ q # run
    BY <1>2, <1>9, RunsBetween
  <2> QED
    BY <1>3, <1>5, <1>9, <2>1 DEF Clear
<1>10. ASSUME Clear(r, nextRun, u)'
       PROVE  live[u] = origin[r][u]
  <2> PICK m \in Nat : m = run
    OBVIOUS
  <2>1. Clear(r, m, u)'
    <3>1. \A q \in (r + 1)..(m - 1) : q \in (r + 1)..(nextRun - 1)
      BY <1>2
    <3> QED
      BY <1>1, <1>10, <3>1 DEF Clear
  <2>2. m \in (r + 1)..run /\ run \in (r + 1)..(nextRun - 1)
    BY <1>2, <1>8
  <2>3. Restoring(run)
    BY <1>1 DEF Restoring, RestorePhases
  <2> QED
    BY <1>6, <1>7, <1>9, <2>1, <2>2, <2>3 DEF Stacked
<1>11. ASSUME NEW s \in (r + 1)..(nextRun - 1), Revertible(s), Clear(r, s, u)'
       PROVE  origin[s][u] = origin[r][u]
  <2>1. s \in (r + 1)..run
    BY <1>2
  <2> QED
    BY <1>7, <1>9, <1>11, <2>1 DEF Stacked
<1> QED
  BY <1>10, <1>11

\* A journal makes the run one that can be reverted.
LEMMA PublishStack ==
  ASSUME Invariant, ToldKnown, RunningPriors, edits = 0, PublishJournal, NEW r \in Runs, NEW u \in Targets, Stacked(r, u)
  PROVE  Stacked(r, u)'
<1>1. /\ UNCHANGED <<live, member, reverted, done, nextRun, origin>> /\ pc = "entry"
      /\ UNCHANGED journal \/ journal' = [journal EXCEPT ![run] = results]
      /\ told' = told \/ told' = [told EXCEPT ![run] = "failed"]
      /\ pc' = "idle" \/ run' = run
  BY DEF PublishJournal, ToIdle, Tell
<1>2. run \in Runs /\ run = nextRun - 1 /\ journal[run] = <<>> /\ run \notin member /\ pc \in RestorePhases
  BY <1>1, RestoreAt DEF RestorePhases
<1>3. /\ told \in [Runs -> {"none", "ok", "failed"}] /\ journal \in [Runs -> Seq(Results)]
      /\ told[run] = "none" /\ reverted \subseteq member
  BY <1>2 DEF Invariant, TypeOK, DiskTyped, ToldKnown, Restoring
<1> r \in Nat /\ nextRun \in Nat /\ run \in Nat
  BY <1>2, RunsBetween
<1>4. \A s \in Runs : s # run =>
        /\ journal'[s] = journal[s]
        /\ Undoable(s, u)' <=> Undoable(s, u)
        /\ LeftNothing(s)' <=> LeftNothing(s)
        /\ Revertible(s)' => Revertible(s)
  <2>1. \A s \in Runs : s # run => journal'[s] = journal[s] /\ told'[s] = told[s]
    BY <1>1, <1>2, <1>3
  <2>2. \A s \in Runs : s # run => (Undoable(s, u)' <=> Undoable(s, u)) /\ (LeftNothing(s)' <=> LeftNothing(s))
    BY <1>1, <2>1 DEF Undoable, EntriesOf, Mutates, LeftNothing
  <2>3. \A q \in Runs : journal'[q] = <<>> => journal[q] = <<>>
    BY <1>2, <2>1
  <2>4. \A s \in Runs : s # run => (Revertible(s)' => Revertible(s))
    BY <1>1, <2>1, <2>3 DEF Revertible
  <2> QED
    BY <2>1, <2>2, <2>4
<1>5. CASE r = run
  <2>1. ASSUME Undoable(r, u)', Undone(r, u)', journal'[r] # <<>>
        PROVE  live[u] = origin[r][u]
    <3>1. journal'[r] = results
      BY <1>1, <1>2, <1>3, <1>5, <2>1
    <3>2. UndoableIn(results, u)
      BY <2>1, <3>1 DEF Undoable, EntriesOf, UndoableIn, OnTarget, Mutates
    <3>3. \A i : <<r, i>> \notin done
      <4>1. ASSUME NEW i, <<r, i>> \in done
            PROVE  FALSE
        <5>1. <<r, i>> \in Jobs /\ plan[<<r, i>>].made
          BY <4>1 DEF Invariant, PlansKnown, TypeOK, DiskTyped
        <5>2. r \in member
          BY <5>1 DEF Invariant, PlansKnown
        <5> QED
          BY <1>2, <1>5, <5>2
      <4> QED
        BY <4>1
    <3>4. NoneMutates(results, u)
      BY <1>1, <2>1, <3>1, <3>3 DEF Undone, EntriesOf, NoneMutates, OnTarget, Mutates
    <3> QED
      BY <1>1, <1>5, <3>2, <3>4 DEF RunningPriors, EntryFound
  <2>2. ~\E s \in (r + 1)..(nextRun - 1) : TRUE
    BY <1>2, <1>5
  <2> QED
    BY <1>1, <2>1, <2>2 DEF Stacked, Revertible
<1>6. CASE r # run
  <2>1. Undone(r, u)' <=> Undone(r, u)
    BY <1>1, <1>4, <1>6 DEF Undone, EntriesOf, Mutates
  <2>2. SUFFICES ASSUME Revertible(r), Undoable(r, u), Undone(r, u)
                 PROVE  /\ ~Clear(r, nextRun, u)'
                        /\ \A s \in (r + 1)..(nextRun - 1) :
                             (Revertible(s)' \/ Restoring(s)') /\ Clear(r, s, u)' => origin[s][u] = origin[r][u]
    BY <1>1, <1>4, <1>6, <2>1 DEF Stacked
  <2>3. r < run /\ run \in (r + 1)..(nextRun - 1)
    <3>1. r < nextRun /\ r \in Nat /\ nextRun \in Nat
      BY <2>2, PublishedBefore DEF Revertible
    <3> QED
      BY <1>2, <1>6, <3>1
  <2> PICK m \in Nat : m = run
    OBVIOUS
  <2>4. ~LeftNothing(m)'
    BY <1>1, <1>2, <1>3 DEF LeftNothing
  <2>5. ~Clear(r, nextRun, u)'
    BY <1>1, <2>3, <2>4 DEF Clear
  <2>6. ASSUME NEW s \in (r + 1)..(nextRun - 1), Revertible(s)' \/ Restoring(s)', Clear(r, s, u)'
        PROVE  origin[s][u] = origin[r][u]
    <3>1. s \in Runs /\ s \in Nat
      BY RunsBetween
    <3>2. \A q \in (r + 1)..(s - 1) : q \in Runs /\ q # run
      BY <1>2, <3>1, RunsBetween
    <3>3. Clear(r, s, u)
      BY <1>4, <2>6, <3>2 DEF Clear
    <3>4. Revertible(s) \/ Restoring(s)
      BY <1>1, <1>2, <1>4, <2>6, <3>1 DEF Restoring, RestorePhases
    <3> QED
      BY <2>2, <2>6, <3>3, <3>4 DEF Stacked
  <2> QED
    BY <2>5, <2>6
<1> QED
  BY <1>5, <1>6

\* The first change of a run to a target is the last to be undone, and what it
\* kept is what the target held before the run.
LEMMA CompleteEntryStack ==
  ASSUME Invariant, PlanDesired, DoneUpward, RevertsTop, JournalPriors, edits = 0, CompleteEntry,
         NEW r \in Runs, NEW u \in Targets, Stacked(r, u)
  PROVE  Stacked(r, u)'
<1>1. /\ UNCHANGED <<live, journal, member, reverted, nextRun, origin, told>> /\ done' = done \cup {Job}
      /\ pc = "clean" /\ pc' = "undo"
  BY DEF CompleteEntry, NextEntry, ghosts
<1>2. /\ Mutates(J) /\ Job \notin done /\ Job \in Jobs /\ idx \in DOMAIN journal[run]
      /\ run \in Runs /\ idx \in Nat
  <2>1. pc \in SwapPhases /\ pc \in RevertPhases
    BY <1>1 DEF SwapPhases, RevertPhases, UndoPhases
  <2> QED
    BY <2>1, SwapAt, RevertAt
<1>3. \A s : /\ Revertible(s)' <=> Revertible(s)
             /\ ~Restoring(s)'
             /\ LeftNothing(s)' <=> LeftNothing(s)
  BY <1>1 DEF Revertible, Restoring, RestorePhases, LeftNothing
<1>4. CASE ~(r = run /\ J.target = u)
  <2>1. Undone(r, u)' => Undone(r, u)
    BY <1>1, <1>4 DEF Undone, EntriesOf, Mutates, J, Job
  <2> QED
    BY <1>1, <1>3, <2>1, RunsBetween, StackFrame
<1>5. CASE r = run /\ J.target = u
  <2>1. ASSUME Undoable(r, u)', Undone(r, u)'
        PROVE  live[u] = origin[r][u]
    <3>1. live[u] = Prior.desired
      BY <1>1, <1>5 DEF Invariant, SwapKnown, Now
    <3>2. plan[Job].made
      BY <1>1, <1>2 DEF Invariant, PlansKnown, Planned, UndoPhases, SwapPhases, J, Job
    <3>3. Prior.desired = PriorState(journal[r][idx])
      BY <1>2, <1>5, <3>2 DEF PlanDesired, Prior, Job
    <3>4. FirstKept(journal[r], r, u) /\ UndoableIn(journal[r], u)
      BY <1>1, <2>1 DEF JournalPriors, Undoable, EntriesOf, UndoableIn, OnTarget, Mutates
    <3>5. idx \in OnTarget(journal[r], u) /\ Mutates(journal[r][idx])
      BY <1>2, <1>5 DEF OnTarget, J
    <3>6. ASSUME NEW k \in OnTarget(journal[r], u), k < idx, Mutates(journal[r][k])
          PROVE  FALSE
      <4>1. <<r, k>> \in done'
        BY <1>1, <2>1, <3>6 DEF Undone, EntriesOf, OnTarget, Mutates
      <4>2. k # idx
        BY <1>2, <3>6
      <4>3. <<r, k>> \in done
        BY <1>1, <4>1, <4>2 DEF Job
      <4>4. k \in Nat
        BY <1>1, <1>2, <1>5, <3>6 DEF OnTarget, Invariant, TypeOK, DiskTyped
      <4>5. idx > k
        BY <1>2, <3>6, <4>4
      <4>6. <<r, idx>> \in done
        BY <1>2, <1>5, <3>5, <4>3, <4>5 DEF DoneUpward
      <4> QED
        BY <1>2, <1>5, <4>6 DEF Job
    <3> QED
      BY <3>1, <3>3, <3>4, <3>5, <3>6 DEF FirstKept
  <2>2. ASSUME NEW s \in (r + 1)..(nextRun - 1)
        PROVE  ~Revertible(s)
    BY <1>1, <1>5, RunsBetween DEF RevertsTop, RevertPhases, UndoPhases, SwapPhases
  <2> QED
    BY <1>1, <1>3, <2>1, <2>2 DEF Stacked
<1> QED
  BY <1>4, <1>5

\* When a run is marked, what it gave back is what the run below it left.
LEMMA MarkRevertedStack ==
  ASSUME Invariant, RevertsTop, MarkReverted, NEW r \in Runs, NEW u \in Targets, Stacked(r, u), Stacked(run, u)
  PROVE  Stacked(r, u)'
<1>1. /\ UNCHANGED <<live, journal, member, nextRun, origin, told, done>> /\ reverted' = reverted \cup {run}
      /\ pc = "undo" /\ idx = 0 /\ pc' = "retire"
  BY DEF MarkReverted, ghosts
<1>2. run \in Runs /\ Revertible(run) /\ Undone(run, u) /\ run \in Nat /\ run < nextRun
  <2>1. run \in Runs /\ run \in member /\ run \notin reverted /\ journal[run] # <<>>
    BY <1>1, RevertAt DEF RevertPhases, UndoPhases, Invariant, SessionKnown
  <2>2. \A k \in DOMAIN journal[run] : k > 0
    BY <2>1 DEF Invariant, TypeOK, DiskTyped
  <2>3. Undone(run, u)
    BY <1>1, <2>2 DEF Undone, EntriesOf, Invariant, PlansKnown, UndoPhases
  <2> QED
    BY <2>1, <2>3, PublishedBefore DEF Revertible
<1>3. ASSUME NEW s \in Runs, Revertible(s)'
      PROVE  Revertible(s) /\ s < run
  <2>1. Revertible(s) /\ s # run
    BY <1>1, <1>3 DEF Revertible
  <2>2. ~(s > run)
    BY <1>1, <2>1 DEF RevertsTop, RevertPhases, UndoPhases
  <2> QED
    BY <1>2, <2>1, <2>2, RunsBetween
<1>4. \A s : /\ s # run => (LeftNothing(s)' <=> LeftNothing(s))
             /\ Undoable(s, u)' <=> Undoable(s, u)
             /\ ~Restoring(s)'
  BY <1>1 DEF LeftNothing, Undoable, EntriesOf, Mutates, Restoring, RestorePhases
<1>5. Undone(r, u)' <=> Undone(r, u)
  BY <1>1 DEF Undone, EntriesOf, Mutates
<1>6. SUFFICES ASSUME Revertible(r)', Undoable(r, u), Undone(r, u)
               PROVE  /\ Clear(r, nextRun, u)' => live[u] = origin[r][u]
                      /\ \A s \in (r + 1)..(nextRun - 1) :
                           Revertible(s)' /\ Clear(r, s, u)' => origin[s][u] = origin[r][u]
  BY <1>1, <1>4, <1>5 DEF Stacked
<1>7. Revertible(r) /\ r < run /\ run \in (r + 1)..(nextRun - 1) /\ nextRun \in Nat /\ r \in Nat
  BY <1>2, <1>3, <1>6, RunsBetween
<1>8. ASSUME Clear(r, nextRun, u)'
      PROVE  live[u] = origin[r][u]
  <2>1. \A q \in (r + 1)..(nextRun - 1) : LeftNothing(q)' /\ Undoable(q, u)
    BY <1>1, <1>4, <1>8 DEF Clear
  <2>2. Undoable(run, u)
    BY <1>7, <2>1
  <2>3. Clear(run, nextRun, u)
    <3>1. \A q \in (run + 1)..(nextRun - 1) : q \in (r + 1)..(nextRun - 1) /\ q # run
      BY <1>2, <1>7
    <3> QED
      BY <1>4, <2>1, <3>1 DEF Clear
  <2>4. live[u] = origin[run][u]
    BY <1>2, <2>2, <2>3 DEF Stacked
  <2>5. Clear(r, run, u)
    <3>1. \A q \in (r + 1)..(run - 1) : q \in (r + 1)..(nextRun - 1) /\ q # run
      BY <1>2, <1>7
    <3> QED
      BY <1>4, <2>1, <3>1 DEF Clear
  <2>6. origin[run][u] = origin[r][u]
    BY <1>2, <1>6, <1>7, <2>5 DEF Stacked
  <2> QED
    BY <2>4, <2>6
<1>9. ASSUME NEW s \in (r + 1)..(nextRun - 1), Revertible(s)', Clear(r, s, u)'
      PROVE  origin[s][u] = origin[r][u]
  <2>1. Revertible(s) /\ s < run /\ s \in Nat
    BY <1>3, <1>9, RunsBetween
  <2>2. \A q \in (r + 1)..(s - 1) : q # run
    BY <1>2, <1>7, <2>1
  <2>3. Clear(r, s, u)
    BY <1>4, <1>9, <2>2 DEF Clear
  <2> QED
    BY <1>6, <1>7, <2>1, <2>3 DEF Stacked
<1> QED
  BY <1>8, <1>9

\* A new run begins with what the targets hold.
LEMMA BeginRestoreStack ==
  ASSUME Invariant, ToldKnown, BeginRestore, NEW r \in Runs, NEW u \in Targets, Stacked(r, u)
  PROVE  Stacked(r, u)'
<1>1. /\ UNCHANGED <<live, journal, member, reverted, told>> /\ nextRun' = nextRun + 1 /\ run' = nextRun
      /\ nextRun <= MaxRuns /\ origin' = [origin EXCEPT ![nextRun] = live]
      /\ done' = {j \in done : j[1] \notin reverted}
  BY DEF BeginRestore, RetireWork
<1>2. nextRun \in Runs /\ nextRun \in Nat /\ r \in Nat
  <2>1. nextRun \in Nat /\ r \in Nat /\ nextRun \in 1..(MaxRuns + 1) /\ MaxRuns \in Nat
    BY RunsBetween, EntriesAreTyped DEF Invariant, TypeOK, SessionTyped
  <2> QED
    BY <1>1, <2>1 DEF Runs
<1>3. \A s : /\ Revertible(s)' <=> Revertible(s)
             /\ LeftNothing(s)' <=> LeftNothing(s)
             /\ Undoable(s, u)' <=> Undoable(s, u)
             /\ Restoring(s)' => s = nextRun
  BY <1>1 DEF Revertible, LeftNothing, Undoable, EntriesOf, Mutates, Restoring
<1>4. ~LeftNothing(nextRun)
  <2>1. told[nextRun] = "none"
    BY <1>2 DEF ToldKnown
  <2>2. journal[nextRun] = <<>> /\ reverted \subseteq member
    BY <1>2 DEF Invariant, SessionKnown, TypeOK, DiskTyped
  <2> QED
    BY <2>1, <2>2 DEF LeftNothing, Invariant, SessionKnown
<1>5. Revertible(r) => (Undone(r, u)' <=> Undone(r, u))
  BY <1>1 DEF Undone, EntriesOf, Mutates, Revertible
<1>6. \A s \in Runs : s # nextRun => origin'[s] = origin[s]
  BY <1>1, <1>2 DEF Invariant, TypeOK
<1>7. origin'[nextRun][u] = live[u]
  BY <1>1, <1>2 DEF Invariant, TypeOK
<1>8. CASE ~Revertible(r)
  BY <1>3, <1>8 DEF Stacked
<1>9. CASE ~Undoable(r, u) \/ ~Undone(r, u)
  BY <1>3, <1>5, <1>8, <1>9 DEF Stacked
<1>10. CASE Revertible(r) /\ Undoable(r, u) /\ Undone(r, u)
  <2>1. r < nextRun
    BY <1>10, PublishedBefore DEF Revertible
  <2> PICK m \in Nat : m = nextRun
    BY <1>2
  <2>2. ~Clear(r, m + 1, u)'
    <3>1. m \in (r + 1)..((m + 1) - 1) /\ ~LeftNothing(m)'
      BY <1>2, <1>3, <1>4, <2>1
    <3> QED
      BY <3>1 DEF Clear
  <2>3. ~Clear(r, nextRun, u)'
    <3>1. nextRun' = m + 1
      BY <1>1
    <3> QED
      BY <2>2, <3>1 DEF Clear
  <2>4. ASSUME NEW s \in (r + 1)..m, Revertible(s)' \/ Restoring(s)', Clear(r, s, u)'
        PROVE  origin'[s][u] = origin'[r][u]
    <3>1. Clear(r, s, u)
      BY <1>3, <2>4 DEF Clear
    <3>2. CASE s = m
      <4>1. live[u] = origin[r][u]
        BY <1>10, <3>1, <3>2 DEF Stacked
      <4> QED
        BY <1>6, <1>7, <2>1, <3>2, <4>1
    <3>3. CASE s # m
      <4>1. s \in (r + 1)..(nextRun - 1) /\ Revertible(s) /\ s \in Runs
        BY <1>2, <1>3, <2>4, <3>3, RunsBetween
      <4>2. origin[s][u] = origin[r][u]
        BY <1>10, <3>1, <4>1 DEF Stacked
      <4> QED
        BY <1>2, <1>6, <2>1, <3>3, <4>1, <4>2
    <3> QED
      BY <3>2, <3>3
  <2>5. nextRun' - 1 = m
    BY <1>1, <1>2
  <2> QED
    BY <2>3, <2>4, <2>5 DEF Stacked
<1> QED
  BY <1>8, <1>9, <1>10

\* Every step keeps what is known of the runs that can be reverted.
LEMMA StackKnownStep ==
  ASSUME Invariant, PathsKnown, PlanDesired, DoneUpward, ToldKnown, RevertsTop, RunningPriors, JournalPriors,
         StackKnown, [Next]_vars
  PROVE  StackKnown'
<1>1. CASE UNCHANGED vars
  BY <1>1 DEF vars, disk, session, faults, ghosts, StackKnown, Stacked, Revertible, Undoable, Undone, Clear, LeftNothing,
     Restoring, EntriesOf, Mutates
<1>2. CASE Next
  <2>1. SUFFICES ASSUME edits' = 0, NEW r \in Runs, NEW u \in Targets
                 PROVE  Stacked(r, u)'
    BY DEF StackKnown
  <2>2. edits = 0 /\ ~EditTarget
    BY <1>2, <2>1, NoEditBefore
  <2>3. Stacked(r, u) /\ \A s \in Runs : Stacked(s, u)
    BY <2>1, <2>2 DEF StackKnown
  <2>4. CASE RestoreNext
    BY <1>2, <2>2, <2>3, <2>4, BeginRestoreStack, RestoreWorkStack, EndRestoreStack, PublishStack, QuietStack
       DEF RestoreNext, RestoreWork
  <2>5. CASE MarkReverted
    <3>1. run \in Runs
      BY <2>5, RevertAt DEF MarkReverted, RevertPhases, UndoPhases
    <3> QED
      BY <2>3, <2>5, <3>1, MarkRevertedStack
  <2>6. CASE RevertNext /\ ~MarkReverted
    BY <1>2, <2>2, <2>3, <2>6, RevertWorkStack, CompleteEntryStack, QuietStack DEF RevertNext, RevertWork
  <2>7. CASE Crash
    BY <1>2, <2>3, <2>7, QuietStack
  <2> QED
    BY <1>2, <2>2, <2>4, <2>5, <2>6, <2>7 DEF Next
<1> QED
  BY <1>1, <1>2

\* The mark of a run is set when all of it is undone.
LEMMA RestoresOriginalStep ==
  ASSUME Invariant, StackKnown, RevertRestoresOriginal, [Next]_vars
  PROVE  RevertRestoresOriginal'
<1>1. CASE UNCHANGED vars
  BY <1>1 DEF vars, disk, session, faults, ghosts, RevertRestoresOriginal, LeftNothing, EntriesOf, Mutates, Undoable
<1>2. CASE Next
  <2>1. SUFFICES ASSUME edits' = 0, pc' = "retire"
                 PROVE  RevertRestoresOriginal'
    BY DEF RevertRestoresOriginal
  <2>2. edits = 0 /\ ~EditTarget
    BY <1>2, <2>1, NoEditBefore
  <2>3. MarkReverted
    <3>1. ~RestoreNext
      <4>1. pc' \in RestorePhases \/ pc' = "idle" \/ ~RestoreNext
        <5>1. CASE RestoreWork
          BY <5>1, RestoreWorkFrame DEF RestorePhases
        <5>2. CASE BeginRestore \/ PublishJournal \/ RegisterJournal
          BY <5>2 DEF BeginRestore, PublishJournal, RegisterJournal, ToIdle, RestorePhases
        <5> QED
          BY <5>1, <5>2 DEF RestoreNext, RestoreWork
      <4> QED
        BY <2>1, <4>1 DEF RestorePhases
    <3>2. ~RevertWork
      BY <2>1, RevertWorkFrame DEF UndoPhases, SwapPhases
    <3>3. ~BeginRevert /\ ~PrepareEntry /\ ~CompleteEntry /\ ~RetireReverted /\ ~Crash
      BY <2>1 DEF BeginRevert, PrepareEntry, CompleteEntry, NextEntry, RetireReverted, Crash, ToIdle
    <3> QED
      BY <1>2, <2>2, <3>1, <3>2, <3>3 DEF Next, RevertNext, RevertWork
  <2>4. /\ UNCHANGED <<live, journal, nextRun, origin, told, run>> /\ reverted' = reverted \cup {run}
        /\ pc = "undo" /\ idx = 0
    BY <2>3 DEF MarkReverted, ghosts
  <2>5. run \in Runs /\ Revertible(run) /\ \A u \in Targets : Undone(run, u)
    <3>1. run \in Runs /\ run \in member /\ run \notin reverted /\ journal[run] # <<>>
      BY <2>4, RevertAt DEF RevertPhases, UndoPhases, Invariant, SessionKnown
    <3>2. \A k \in DOMAIN journal[run] : k > 0
      BY <3>1 DEF Invariant, TypeOK, DiskTyped
    <3>3. \A u \in Targets : Undone(run, u)
      BY <2>4, <3>2 DEF Undone, EntriesOf, Invariant, PlansKnown, UndoPhases
    <3> QED
      BY <3>1, <3>3 DEF Revertible
  <2>6. ASSUME \A s \in (run + 1)..(nextRun - 1) : LeftNothing(s)', NEW u \in Targets,
               \A s \in run..(nextRun - 1) : Undoable(s, u)
        PROVE  live[u] = origin[run][u]
    <3>1. run \in Nat /\ nextRun \in Nat /\ run < nextRun
      BY <2>5, PublishedBefore DEF Revertible
    <3>2. \A s \in (run + 1)..(nextRun - 1) : s # run /\ s \in run..(nextRun - 1)
      BY <3>1
    <3>3. Clear(run, nextRun, u)
      BY <2>4, <2>6, <3>2 DEF Clear, LeftNothing
    <3>4. run \in run..(nextRun - 1)
      BY <3>1
    <3>5. Undoable(run, u)
      BY <2>6, <3>4
    <3> QED
      BY <2>2, <2>5, <3>3, <3>5 DEF StackKnown, Stacked
  <2>7. \A s, u : Undoable(s, u)' <=> Undoable(s, u)
    BY <2>4 DEF Undoable, EntriesOf, Mutates
  <2>8. SUFFICES ASSUME \A s \in (run + 1)..(nextRun - 1) : LeftNothing(s)', NEW u \in Targets,
                        \A s \in run..(nextRun - 1) : Undoable(s, u)'
                 PROVE  live[u] = origin[run][u]
    BY <2>4 DEF RevertRestoresOriginal
  <2> QED
    BY <2>6, <2>7, <2>8
<1> QED
  BY <1>1, <1>2

\* What a revert gives back, and what it takes to know it.
OriginsKnown ==
  /\ PathsKnown /\ PlanDesired /\ DoneUpward /\ ToldKnown /\ RevertsTop
  /\ RunningPriors /\ JournalPriors /\ StackKnown /\ RevertRestoresOriginal

\* It holds before the first run.
LEMMA OriginsInit ==
  ASSUME Init
  PROVE  OriginsKnown
<1>1. pc = "idle" /\ backups = <<>> /\ DOMAIN backups = {} /\ done = {} /\ \A j \in Jobs : ~plan[j].made
  BY DEF Init, NoPlan
<1>2. \A r \in Runs : journal[r] = <<>> /\ told[r] = "none"
  BY DEF Init
<1>3. PathsKnown
  BY <1>1, <1>2 DEF PathsKnown, RestorePhases
<1>4. PlanDesired /\ DoneUpward /\ ToldKnown /\ RevertsTop
  BY <1>1, <1>2 DEF PlanDesired, DoneUpward, ToldKnown, RevertsTop, RevertPhases, UndoPhases, SwapPhases
<1>5. RunningPriors /\ JournalPriors
  BY <1>1, <1>2 DEF RunningPriors, JournalPriors, FirstKept, OnTarget
<1>6. StackKnown /\ RevertRestoresOriginal
  BY <1>1, <1>2 DEF StackKnown, Stacked, Revertible, RevertRestoresOriginal
<1> QED
  BY <1>3, <1>4, <1>5, <1>6 DEF OriginsKnown

\* A run marked as reverted has given back what each target it changed held
\* when the run began, whatever deaths, failures and retries its revert met, if
\* nobody else wrote and every later run left nothing (the backups a journal
\* names, the plan recorded from them and the order the entries are undone in).
THEOREM RevertRestoresOriginalCorrect ==
  ASSUME NoRepeatedSetting
  PROVE  Spec => []RevertRestoresOriginal
<1>1. Init => OriginsKnown
  BY OriginsInit
<1>2. Invariant /\ OriginsKnown /\ [Next]_vars => OriginsKnown'
  BY PathsKnownStep, PlanDesiredStep, DoneUpwardStep, ToldKnownStep, RevertsTopStep, RunningPriorsStep,
     JournalPriorsStep, StackKnownStep, RestoresOriginalStep DEF OriginsKnown
<1>3. OriginsKnown => RevertRestoresOriginal
  BY DEF OriginsKnown
<1> QED
  BY <1>1, <1>2, <1>3, InvariantCorrect, PTL DEF Spec
=============================================================================
