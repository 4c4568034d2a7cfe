---------------------------- MODULE LegacyRestore ----------------------------
(***************************************************************************)
(* Restore of legacy and ordinary entries and its durable revert           *)
(* (go-engine/internal/restore, the legacy members of                      *)
(* internal/configrestore, and their part of the restore and revert        *)
(* commands).                                                              *)
(*                                                                         *)
(* A restore runs its entries one after the other, never stops at a        *)
(* failure, and only then writes a journal and registers it in the store.  *)
(* A revert first records what it will do to every entry and then undoes   *)
(* the entries from the last to the first, each by staging the prior       *)
(* content, holding the target aside and renaming the stage into place.    *)
(*                                                                         *)
(* The content of a target is Absent or a set of pairs <<name, value>>:    *)
(* members of a directory, keys or lines of a file, values of a registry   *)
(* key.                                                                    *)
(* A file and a registry value change in one step, a directory one member  *)
(* at a time.  A delete-glob entry stands for one file the pattern         *)
(* matches; a pattern with several matches is several such entries.        *)
(***************************************************************************)
EXTENDS Naturals, Sequences, FiniteSets

CONSTANTS
  Profiles,     \* sequences of entries a user may restore
  Inside,       \* pairs <<child, parent>> of targets one of which holds the other
  Initial,      \* content of every target before the first run
  Absent,       \* the content of a target that does not exist
  UserItems,    \* the content somebody else writes
  MaxLen,       \* bound: entries of a profile
  MaxRuns,      \* bound: restore runs
  MaxCrashes, MaxErrors, MaxEdits   \* bounds: deaths, failing calls, edits

\* kind: the strategy; lane: the capture an entry belongs to, "" for an ordinary one
Kinds == {"copy", "copydir", "merge-json", "merge-ini", "append", "delete", "regset", "regimport"}
Targets == DOMAIN Initial
Runs == 1..MaxRuns
Profile == UNION {{p[i] : i \in DOMAIN p} : p \in Profiles}
Jobs == Runs \X (1..MaxLen)
Items == UNION ({e.items : e \in Profile} \cup {UserItems}
                \cup {Initial[t] : t \in {u \in Targets : Initial[u] # Absent}})
Contents == {Absent} \cup SUBSET Items

ASSUME EntriesAreTyped ==
  /\ MaxRuns \in Nat /\ MaxCrashes \in Nat /\ MaxErrors \in Nat /\ MaxEdits \in Nat
  /\ MaxLen \in Nat /\ \A p \in Profiles : p \in Seq(Profile) /\ Len(p) <= MaxLen
  /\ Initial = [t \in Targets |-> Initial[t]]
  /\ \A e \in Profile : /\ e.kind \in Kinds /\ e.target \in Targets
                        /\ e.backup \in BOOLEAN /\ e.optional \in BOOLEAN

\* A target that does not exist is not one without content.
ASSUME AbsentIsNoContent == \A c \in SUBSET Items : c # Absent

VARIABLES
  profile,      \* the entries this user restores
  \* What survives the process
  live,         \* live[t]: content of target t
  backups,      \* content of every backup, by path
  journal,      \* journal[r]: results of run r, <<>> when none was published
  member,       \* runs whose journal is registered in the store
  reverted,     \* runs whose member has a revert record
  plan,         \* plan[<<r, i>>]: entry-NNNNNN.json of the work root
  done,         \* jobs with an entry-NNNNNN-completed.json
  stage, held,  \* scratch content beside the target of a job
  \* The session of the process that holds the lease
  pc, run, idx,
  cur,          \* what the entry being worked on has found out so far
  results,
  nextRun, crashes, errors, edits,
  \* What the properties remember
  origin,       \* origin[r]: contents before run r
  told,         \* told[r]: what run r reported
  foreign       \* targets edited between two attempts of the revert of a run

disk == <<live, backups, journal, member, reverted, plan, done, stage, held>>
session == <<pc, run, idx, cur, results, nextRun>>
faults == <<crashes, errors, edits>>
ghosts == <<origin, told, foreign>>
vars == <<profile, disk, session, faults, ghosts>>

NoBackup == <<>>
NoPlan == [before |-> Absent, desired |-> Absent, source |-> NoBackup, made |-> FALSE]
NoWork == [existed |-> FALSE, backup |-> NoBackup, want |-> Absent, left |-> {}, holding |-> FALSE]

Init ==
  /\ profile \in Profiles /\ live = Initial /\ backups = <<>> /\ journal = [r \in Runs |-> <<>>]
  /\ member = {} /\ reverted = {}
  /\ plan = [j \in Jobs |-> NoPlan] /\ done = {}
  /\ stage = [j \in Jobs |-> Absent] /\ held = [j \in Jobs |-> Absent]
  /\ pc = "idle" /\ run = 0 /\ idx = 0 /\ cur = NoWork /\ results = <<>> /\ nextRun = 1
  /\ crashes = 0 /\ errors = 0 /\ edits = 0
  /\ origin = [r \in Runs |-> Initial] /\ told = [r \in Runs |-> "none"] /\ foreign = {}

\* A failing call of the operating system, or a check that refuses.
Err == errors < MaxErrors /\ errors' = errors + 1
Entries == profile
Index == 1..Len(Entries)
Entry == Entries[idx]
Members(c) == IF c = Absent THEN {} ELSE c

-----------------------------------------------------------------------------
(* Planning: targets claimed by two owners are refused before any mutation. *)

\* The concrete target an entry claims.
Claim(i) == Entries[i].target

ClaimsOverlap(t, u) == t = u \/ <<t, u>> \in Inside \/ <<u, t>> \in Inside

Owner(i) == IF Entries[i].lane = "" THEN <<"ordinary", i>> ELSE <<"legacy", Entries[i].lane>>

\* Owners with a collision.  An exact repetition within one lane is allowed.
BlockedOwners ==
  {Owner(i) : i \in {k \in Index : \E j \in Index \ {k} :
      /\ ClaimsOverlap(Claim(k), Claim(j))
      /\ ~(Owner(k) = Owner(j) /\ Claim(k) = Claim(j))}}

-----------------------------------------------------------------------------
(* The strategies. *)

\* The pairs of d take the place of those of c with the same name.
Overlay(c, d) == {x \in c : \A y \in d : y[1] # x[1]} \cup d

DeepMerge(c, d) == Overlay(c, d)
MergeIni(c, d) == Overlay(c, d)
AppendMissing(c, d) == c \cup d                 \* lines that are there stay as they are
CopyInto(c, d) == Overlay(c, d)                 \* members the source does not have stay
ImportInto(c, d) == Overlay(c, d)

\* What a strategy turns content c into.
Desired(e, c) ==
  LET m == Members(c)
  IN  CASE e.kind \in {"copy", "regset"} -> e.items
        [] e.kind = "merge-json" -> DeepMerge(m, e.items)
        [] e.kind = "merge-ini" -> MergeIni(m, e.items)
        [] e.kind = "append" -> AppendMissing(m, e.items)
        [] e.kind = "copydir" -> CopyInto(m, e.items)
        [] e.kind = "regimport" -> ImportInto(m, e.items)
        [] e.kind = "delete" -> Absent

\* Copies compare hashes, the merges their output with the target; a registry
\* import is always applied, a pattern without a match is done.
FileUpToDate(e, c) == c # Absent /\ Desired(e, c) = c
DirectoryUpToDate(e, c) == c # Absent /\ e.items \subseteq c
UpToDate(e, c) ==
  CASE e.kind = "regimport" -> FALSE
    [] e.kind = "copydir" -> DirectoryUpToDate(e, c)
    [] e.kind = "delete" -> c = Absent
    [] OTHER -> FileUpToDate(e, c)

\* registry-set records the prior value whether or not there is one.
WantsBackup(e, c) ==
  \/ e.kind = "regset"
  \/ c # Absent /\ (e.backup \/ e.kind = "delete")

\* A second backup of one target gets a directory of its own; the backup of a
\* registry value has a name made from key and value alone.
FreshBackup(t) == <<run, t, Cardinality({p \in DOMAIN backups : p[1] = run /\ p[2] = t}) + 1>>
RegistrySetBackup(t) == <<run, t, 0>>
\* Mutant: every backup is named by its target alone.
FlatBackup(e) == <<run, e.target, 0>>
BackupPath(e) == IF e.kind = "regset" THEN RegistrySetBackup(e.target) ELSE FreshBackup(e.target)

Result(status) ==
  [target |-> Entry.target, kind |-> Entry.kind, action |-> status,
   existed |-> cur.existed, backup |-> cur.backup]

\* The loop goes on with the next entry, whatever became of this one.
EndEntry(status) ==
  /\ results' = Append(results, Result(status))
  /\ pc' = "entry" /\ idx' = idx + 1 /\ cur' = NoWork
  /\ UNCHANGED <<run, nextRun>>

\* Begin: recovery retires the work of members already marked as reverted.
RetireWork(R) ==
  /\ plan' = [j \in Jobs |-> IF j[1] \in R THEN NoPlan ELSE plan[j]]
  /\ done' = {j \in done : j[1] \notin R}

BeginRestore ==
  /\ pc = "idle" /\ nextRun <= MaxRuns
  /\ RetireWork(reverted)
  /\ pc' = "entry" /\ run' = nextRun /\ nextRun' = nextRun + 1 /\ idx' = 1
  /\ cur' = NoWork /\ results' = <<>>
  /\ origin' = [origin EXCEPT ![nextRun] = live] /\ foreign' = {}
  /\ UNCHANGED <<live, backups, journal, member, reverted, stage, held, faults, told>>

SkipBlocked ==
  /\ pc = "entry" /\ idx \in Index /\ Owner(idx) \in BlockedOwners
  /\ IF Entry.lane = ""
     THEN EndEntry("failed")
     ELSE idx' = idx + 1 /\ UNCHANGED <<pc, run, cur, results, nextRun>>
  /\ UNCHANGED <<disk, faults, ghosts>>

Runnable == pc = "entry" /\ idx \in Index /\ Owner(idx) \notin BlockedOwners

SourceMissing ==
  /\ Runnable /\ Entry.kind \notin {"delete", "regset"} /\ Err
  /\ EndEntry(IF Entry.optional THEN "skipped_missing_source" ELSE "failed")
  /\ UNCHANGED <<disk, crashes, edits, ghosts>>

\* A path, key or pattern outside what the engine may touch, or a source tree
\* with a link in it.
EntryRefused ==
  /\ Runnable /\ Err
  /\ EndEntry("failed")
  /\ UNCHANGED <<disk, crashes, edits, ghosts>>

SkipUpToDate ==
  /\ Runnable /\ UpToDate(Entry, live[Entry.target])
  /\ EndEntry("skipped_up_to_date")
  /\ UNCHANGED <<disk, faults, ghosts>>

\* The desired content is derived from the target here and written later.
TakeBackup ==
  LET c == live[Entry.target]
      path == IF WantsBackup(Entry, c) THEN BackupPath(Entry) ELSE NoBackup
  IN  /\ Runnable /\ ~UpToDate(Entry, c)
      /\ cur' = [NoWork EXCEPT !.existed = (c # Absent), !.backup = path,
                               !.want = Desired(Entry, c)]
      /\ backups' = IF path = NoBackup THEN backups
                    ELSE [p \in DOMAIN backups \cup {path} |->
                            IF p = path THEN c ELSE backups[p]]
      /\ pc' = "write"
      /\ UNCHANGED <<live, journal, member, reverted, plan, done, stage, held,
                     run, idx, results, nextRun, faults, ghosts>>

BackupFails ==
  /\ Runnable /\ ~UpToDate(Entry, live[Entry.target])
  /\ WantsBackup(Entry, live[Entry.target]) /\ Err
  /\ EndEntry("failed")
  /\ UNCHANGED <<disk, crashes, edits, ghosts>>

SetLive(t, c) ==
  /\ live' = [live EXCEPT ![t] = c]
  /\ UNCHANGED <<backups, journal, member, reverted, plan, done, stage, held>>

WriteTarget ==
  /\ pc = "write" /\ Entry.kind # "copydir"
  /\ SetLive(Entry.target, cur.want) /\ EndEntry("restored")
  /\ UNCHANGED <<faults, ghosts>>

\* A locked file is reported as restored, with a warning.
WriteLocked ==
  /\ pc = "write" /\ Entry.kind = "copy" /\ Err
  /\ EndEntry("restored")
  /\ UNCHANGED <<disk, crashes, edits, ghosts>>

\* What a failing reg.exe has imported by then is not known.
WriteFails ==
  /\ pc = "write" /\ Err
  /\ \E c \in {live[Entry.target]} \cup (IF Entry.kind = "regimport" THEN {cur.want} ELSE {}) :
       SetLive(Entry.target, c)
  /\ EndEntry("failed")
  /\ UNCHANGED <<crashes, edits, ghosts>>

MakeDirectory ==
  /\ pc = "write" /\ Entry.kind = "copydir"
  /\ SetLive(Entry.target, Members(live[Entry.target]))
  /\ pc' = "copying" /\ cur' = [cur EXCEPT !.left = Entry.items]
  /\ UNCHANGED <<run, idx, results, nextRun, faults, ghosts>>

CopyMember ==
  /\ pc = "copying"
  /\ \E m \in cur.left :
       /\ SetLive(Entry.target, Overlay(Members(live[Entry.target]), {m}))
       /\ cur' = [cur EXCEPT !.left = @ \ {m}]
  /\ UNCHANGED <<pc, run, idx, results, nextRun, faults, ghosts>>

\* A locked member is left out with a warning.
MemberLocked ==
  /\ pc = "copying" /\ Err
  /\ \E m \in cur.left : cur' = [cur EXCEPT !.left = @ \ {m}]
  /\ UNCHANGED <<disk, pc, run, idx, results, nextRun, crashes, edits, ghosts>>

CopyEnds ==
  /\ pc = "copying"
  /\ \/ cur.left = {} /\ EndEntry("restored") /\ UNCHANGED errors
     \/ cur.left # {} /\ Err /\ EndEntry("failed")
  /\ UNCHANGED <<disk, crashes, edits, ghosts>>

-----------------------------------------------------------------------------
(* The journal is written when every entry has run. *)

ToIdle == pc' = "idle" /\ idx' = 0 /\ cur' = NoWork /\ results' = <<>> /\ run' = 0
Tell(r, s) == told' = [told EXCEPT ![r] = s]
Journaled == \E i \in DOMAIN results : results[i].action # "skipped_up_to_date"

EndRestore ==
  /\ pc = "entry" /\ idx > Len(Entries) /\ ~Journaled
  /\ ToIdle /\ Tell(run, "ok")
  /\ UNCHANGED <<disk, nextRun, faults, origin, foreign>>

\* A failure after the link was made leaves a journal although the run fails.
PublishJournal ==
  /\ pc = "entry" /\ idx > Len(Entries) /\ Journaled
  /\ \/ /\ journal' = [journal EXCEPT ![run] = results]
        /\ pc' = "register" /\ UNCHANGED <<run, idx, cur, results, errors, told>>
     \/ /\ Err /\ ToIdle /\ Tell(run, "failed")
        /\ journal' \in {journal, [journal EXCEPT ![run] = results]}
  /\ UNCHANGED <<live, backups, member, reverted, plan, done, stage, held,
                 nextRun, crashes, edits, origin, foreign>>

\* Mutant: a run is successful although its journal could not be registered.
RegisterBestEffort ==
  /\ pc = "register" /\ ToIdle /\ Tell(run, "ok")
  /\ \/ member' = member \cup {run} /\ UNCHANGED errors
     \/ Err /\ UNCHANGED member
  /\ UNCHANGED <<live, backups, journal, reverted, plan, done, stage, held,
                 nextRun, crashes, edits, origin, foreign>>
RegisterJournal ==
  /\ pc = "register" /\ ToIdle
  /\ \/ member' = member \cup {run} /\ Tell(run, "ok") /\ UNCHANGED errors
     \/ Err /\ Tell(run, "failed") /\ UNCHANGED member
  /\ UNCHANGED <<live, backups, journal, reverted, plan, done, stage, held,
                 nextRun, crashes, edits, origin, foreign>>

-----------------------------------------------------------------------------
(* Revert: which journal. *)

Published == {r \in Runs : journal[r] # <<>>}
ActiveRuns == member \ reverted
Newest(R) == CHOOSE r \in R : \A s \in R : s <= r

\* The newest journal that is not registered goes before an older active run.
RevertCandidate ==
  LET latest == Newest(Published)
  IN  IF ActiveRuns = {} \/ (latest \notin reverted /\ latest > Newest(ActiveRuns))
      THEN latest ELSE Newest(ActiveRuns)

NothingToRevert == Published = {} \/ RevertCandidate \in reverted

\* A journal that was never registered is registered before it is undone.
AdoptJournal(r) == member' = member \cup {r}

BeginRevert ==
  /\ pc = "idle" /\ ~NothingToRevert
  /\ RetireWork(reverted)
  /\ AdoptJournal(RevertCandidate)
  /\ run' = RevertCandidate /\ pc' = "prepare" /\ idx' = Len(journal[RevertCandidate])
  /\ foreign' = {f \in foreign : f[1] = RevertCandidate}
  /\ UNCHANGED <<live, backups, journal, reverted, stage, held, cur, results, nextRun,
                 faults, origin, told>>

\* A store that cannot be read or ordered, or a failing call, ends the command.
RevertFails ==
  /\ pc \in {"prepare", "undo", "stage", "staging", "hold", "replace", "verify", "clean"}
  /\ Err /\ ToIdle
  /\ stage' = IF pc = "staging" THEN [stage EXCEPT ![<<run, idx>>] = Absent] ELSE stage
  /\ UNCHANGED <<live, backups, journal, member, reverted, plan, done, held,
                 nextRun, crashes, edits, ghosts>>

-----------------------------------------------------------------------------
(* Revert: the plan of every entry is recorded before the first target changes. *)

J == journal[run][idx]
Job == <<run, idx>>


\* An entry that was not restored, or overwrote without a backup, is left alone.
Mutates(e) == e.action = "restored" /\ (e.backup # NoBackup \/ ~e.existed)
PriorState(e) == IF e.backup # NoBackup THEN backups[e.backup] ELSE Absent

\* For a repeated target the state expected is what undoing the later entry leaves.
Later(r, i) == {k \in (i + 1)..Len(journal[r]) :
                  Mutates(journal[r][k]) /\ journal[r][k].target = journal[r][i].target}
First(S) == CHOOSE k \in S : \A l \in S : k <= l
Before(r, i) == IF Later(r, i) # {} THEN plan[<<r, First(Later(r, i))>>].desired
                ELSE live[journal[r][i].target]

PlanOf(r, i) ==
  [before |-> Before(r, i), desired |-> PriorState(journal[r][i]),
   source |-> journal[r][i].backup, made |-> TRUE]

\* A record of an earlier attempt must still say the same.
PlanAgrees(r, i) ==
  LET old == plan[<<r, i>>]
      new == PlanOf(r, i)
  IN  /\ old.desired = new.desired /\ old.source = new.source
      /\ Later(r, i) # {} => old.before = new.before

PrepareEntry ==
  /\ pc = "prepare" /\ idx > 0
  /\ \/ ~Mutates(J) /\ UNCHANGED plan
     \/ /\ Mutates(J) /\ ~plan[Job].made /\ stage[Job] = Absent /\ held[Job] = Absent
        /\ plan' = [plan EXCEPT ![Job] = PlanOf(run, idx)]
     \/ Mutates(J) /\ plan[Job].made /\ PlanAgrees(run, idx) /\ UNCHANGED plan
  /\ idx' = idx - 1
  /\ UNCHANGED <<live, backups, journal, member, reverted, done, stage, held,
                 pc, run, cur, results, nextRun, faults, ghosts>>

PrepareEnds ==
  /\ pc = "prepare" /\ idx = 0
  /\ pc' = "undo" /\ idx' = Len(journal[run])
  /\ UNCHANGED <<disk, run, cur, results, nextRun, faults, ghosts>>

-----------------------------------------------------------------------------
(* Revert: one entry. *)

Goto(p) == pc' = p /\ UNCHANGED <<run, idx, results, nextRun>>
NextEntry == pc' = "undo" /\ idx' = idx - 1 /\ cur' = NoWork /\ UNCHANGED <<run, results, nextRun>>
Prior == plan[Job]
Now == live[J.target]
HeldBefore == Now = Absent /\ held[Job] # Absent /\ held[Job] = Prior.before

\* Mutant: the target is taken for what the plan saw.
SwapAnything == TRUE
\* The target is what the plan saw, in place or held aside.
Swappable == Now = Prior.before \/ HeldBefore

\* A registry entry without a key to swap is written in place.
InPlace(e) == e.kind = "regset" \/ (e.kind = "regimport" /\ e.backup = NoBackup)

PassOver ==
  /\ pc = "undo" /\ idx > 0 /\ (~Mutates(J) \/ Job \in done)
  /\ NextEntry /\ UNCHANGED <<disk, faults, ghosts>>

\* The target already holds its prior content: only scratch is left to remove.
AlreadyUndone ==
  /\ pc = "undo" /\ idx > 0 /\ Mutates(J) /\ Job \notin done
  /\ Now = Prior.desired
  /\ stage[Job] \in {Absent, Prior.desired} /\ held[Job] \in {Absent, Prior.before}
  /\ Goto("clean") /\ UNCHANGED <<cur, disk, faults, ghosts>>

UndoInPlace ==
  /\ pc = "undo" /\ idx > 0 /\ Mutates(J) /\ Job \notin done /\ InPlace(J)
  /\ Now # Prior.desired /\ Now = Prior.before
  /\ SetLive(J.target, Prior.desired)
  /\ Goto("verify") /\ UNCHANGED <<cur, faults, ghosts>>

BeginSwap ==
  /\ pc = "undo" /\ idx > 0 /\ Mutates(J) /\ Job \notin done /\ ~InPlace(J)
  /\ Now # Prior.desired /\ Swappable
  /\ cur' = [cur EXCEPT !.holding = (held[Job] # Absent), !.existed = (Now # Absent)]
  /\ Goto(IF Prior.desired = Absent THEN "hold" ELSE "stage")
  /\ UNCHANGED <<disk, faults, ghosts>>

\* Anything else on disk is somebody else's: the revert stops and changes nothing.
Refuses ==
  /\ \/ /\ pc = "prepare" /\ idx > 0 /\ Mutates(J)
        /\ IF plan[Job].made THEN ~PlanAgrees(run, idx)
           ELSE stage[Job] # Absent \/ held[Job] # Absent
     \/ /\ pc = "undo" /\ idx > 0 /\ Mutates(J) /\ Job \notin done
        /\ IF Now = Prior.desired
           THEN stage[Job] \notin {Absent, Prior.desired} \/ held[Job] \notin {Absent, Prior.before}
           ELSE Now # Prior.before /\ (InPlace(J) \/ ~Swappable)
     \/ pc = "stage" /\ stage[Job] \notin {Absent, Prior.desired}
          /\ (J.kind # "regimport" \/ cur.holding)
     \/ pc = "verify" /\ Now # Prior.desired
  /\ ToIdle
  /\ UNCHANGED <<disk, nextRun, faults, ghosts>>

SetStage(c) ==
  /\ stage' = [stage EXCEPT ![Job] = c]
  /\ UNCHANGED <<live, backups, journal, member, reverted, plan, done, held>>

\* A registry stage that is wrong is rebuilt, one of a file or directory is not.
StageFile ==
  /\ pc = "stage" /\ J.kind # "copydir"
  /\ \/ stage[Job] \in {Absent, Prior.desired}
     \/ J.kind = "regimport" /\ ~cur.holding
  /\ SetStage(Prior.desired)
  /\ Goto("hold") /\ UNCHANGED <<cur, faults, ghosts>>

StageDirectory ==
  /\ pc = "stage" /\ J.kind = "copydir" /\ stage[Job] \in {Absent, Prior.desired}
  /\ IF stage[Job] = Absent THEN SetStage({}) /\ Goto("staging")
     ELSE UNCHANGED disk /\ Goto("hold")
  /\ UNCHANGED <<cur, faults, ghosts>>

StageMember ==
  /\ pc = "staging"
  /\ \E m \in Prior.desired \ stage[Job] : SetStage(stage[Job] \cup {m})
  /\ UNCHANGED <<session, faults, ghosts>>

StageEnds ==
  /\ pc = "staging" /\ stage[Job] = Prior.desired
  /\ Goto("hold") /\ UNCHANGED <<cur, disk, faults, ghosts>>

\* Mutant: the target is deleted instead of held aside.
MoveNowhere == held
\* The target is moved aside as it is now, which is not looked at again.
MoveAside == [held EXCEPT ![Job] = Now]

HoldTarget ==
  /\ pc = "hold"
  /\ IF cur.existed /\ ~cur.holding
     THEN /\ held' = MoveAside
          /\ live' = [live EXCEPT ![J.target] = Absent]
          /\ cur' = [cur EXCEPT !.holding = TRUE]
     ELSE UNCHANGED <<held, live, cur>>
  /\ Goto("replace")
  /\ UNCHANGED <<backups, journal, member, reverted, plan, done, stage, faults, ghosts>>

ReplaceTarget ==
  /\ pc = "replace"
  /\ IF Prior.desired # Absent /\ Now = Absent
     THEN /\ live' = [live EXCEPT ![J.target] = stage[Job]]
          /\ stage' = [stage EXCEPT ![Job] = Absent]
     ELSE UNCHANGED <<live, stage>>
  /\ Goto("verify")
  /\ UNCHANGED <<cur, backups, journal, member, reverted, plan, done, held, faults, ghosts>>

VerifyTarget ==
  /\ pc = "verify" /\ Now = Prior.desired
  /\ Goto("clean") /\ UNCHANGED <<cur, disk, faults, ghosts>>

\* Scratch is removed member by member when it is a directory.
Smaller(c) == {c \ {m} : m \in c}
RemoveStep(scratch) ==
  IF J.kind = "copydir" /\ scratch[Job] # {}
  THEN \E c \in Smaller(scratch[Job]) : scratch' = [scratch EXCEPT ![Job] = c]
  ELSE scratch' = [scratch EXCEPT ![Job] = Absent]

RemoveScratch ==
  /\ pc = "clean"
  /\ \/ stage[Job] # Absent /\ RemoveStep(stage) /\ UNCHANGED held
     \/ stage[Job] = Absent /\ held[Job] # Absent /\ RemoveStep(held) /\ UNCHANGED stage
  /\ UNCHANGED <<live, backups, journal, member, reverted, plan, done, session, faults, ghosts>>

ScratchRemoved == held[Job] = Absent /\ stage[Job] = Absent

CompleteEntry ==
  /\ pc = "clean" /\ ScratchRemoved
  /\ done' = done \cup {Job}
  /\ NextEntry
  /\ UNCHANGED <<live, backups, journal, member, reverted, plan, stage, held, faults, ghosts>>

MarkReverted ==
  /\ pc = "undo" /\ idx = 0
  /\ reverted' = reverted \cup {run} /\ pc' = "retire"
  /\ UNCHANGED <<live, backups, journal, member, plan, done, stage, held,
                 run, idx, cur, results, nextRun, faults, ghosts>>

RetireReverted ==
  /\ pc = "retire" /\ RetireWork({run}) /\ ToIdle
  /\ UNCHANGED <<live, backups, journal, member, reverted, stage, held, nextRun, faults, ghosts>>

-----------------------------------------------------------------------------
(* The environment. *)

Crash ==
  /\ pc # "idle" /\ crashes < MaxCrashes
  /\ crashes' = crashes + 1 /\ ToIdle
  /\ UNCHANGED <<disk, nextRun, errors, edits, ghosts>>

\* Jobs whose undo is planned and not complete.
OpenJobs(t) == {j \in Jobs : plan[j].made /\ j \notin done /\ j[1] \notin reverted
                             /\ journal[j[1]][j[2]].target = t}

EditTarget ==
  \E t \in Targets :
    /\ edits < MaxEdits /\ edits' = edits + 1
    /\ SetLive(t, UserItems)
    /\ foreign' = IF pc # "idle" THEN foreign ELSE foreign \cup
                    {<<r, t>> : r \in {r \in Runs : \E j \in OpenJobs(t) : j[1] = r /\
                       \A k \in OpenJobs(t) : UserItems \notin {plan[k].before, plan[k].desired}}}
    /\ UNCHANGED <<session, crashes, errors, origin, told>>

RestoreNext ==
  \/ BeginRestore \/ SkipBlocked \/ SourceMissing \/ EntryRefused \/ SkipUpToDate \/ TakeBackup
  \/ BackupFails \/ WriteTarget \/ WriteLocked \/ WriteFails \/ MakeDirectory
  \/ CopyMember \/ MemberLocked \/ CopyEnds \/ EndRestore \/ PublishJournal
  \/ RegisterJournal

RevertNext ==
  \/ BeginRevert \/ RevertFails \/ PrepareEntry \/ PrepareEnds \/ PassOver
  \/ AlreadyUndone \/ UndoInPlace \/ BeginSwap \/ Refuses \/ StageFile
  \/ StageDirectory \/ StageMember \/ StageEnds \/ HoldTarget \/ ReplaceTarget
  \/ VerifyTarget \/ RemoveScratch \/ CompleteEntry \/ MarkReverted \/ RetireReverted

Next == (RestoreNext \/ RevertNext \/ Crash \/ EditTarget) /\ UNCHANGED profile
Spec == Init /\ [][Next]_vars

-----------------------------------------------------------------------------
(* Properties. *)

RestorePhases == {"entry", "write", "copying", "register"}
SwapPhases == {"stage", "staging", "hold", "replace", "verify", "clean"}
UndoPhases == {"undo"} \cup SwapPhases
RevertPhases == {"prepare"} \cup UndoPhases

Paths == {NoBackup} \cup (Runs \X Targets \X Nat)
Statuses == {"restored", "failed", "skipped_up_to_date", "skipped_missing_source"}
Results == [target : Targets, kind : Kinds, action : Statuses, existed : BOOLEAN, backup : Paths]
Plans == [before : Contents, desired : Contents, source : Paths, made : BOOLEAN]
Works == [existed : BOOLEAN, backup : Paths, want : Contents, left : SUBSET Items, holding : BOOLEAN]

DiskTyped ==
  /\ live \in [Targets -> Contents]
  /\ backups \in [DOMAIN backups -> Contents] /\ IsFiniteSet(DOMAIN backups)
  /\ DOMAIN backups \subseteq Runs \X Targets \X Nat
  /\ journal \in [Runs -> Seq(Results)] /\ \A r \in Runs : Len(journal[r]) <= Len(Entries)
  /\ member \subseteq Runs /\ reverted \subseteq member /\ done \subseteq Jobs
  /\ plan \in [Jobs -> Plans] /\ stage \in [Jobs -> Contents] /\ held \in [Jobs -> Contents]

SessionTyped ==
  /\ pc \in {"idle", "retire"} \cup RestorePhases \cup RevertPhases
  /\ run \in 0..MaxRuns /\ nextRun \in 1..(MaxRuns + 1) /\ idx \in 0..(Len(Entries) + 1)
  /\ cur \in Works /\ results \in Seq(Results) /\ Len(results) <= Len(Entries)

\* Types of the disk, the session, the counters and what the properties remember.
TypeOK ==
  /\ profile \in Profiles /\ DiskTyped /\ SessionTyped
  /\ crashes \in Nat /\ errors \in Nat /\ edits \in Nat
  /\ origin \in [Runs -> [Targets -> Contents]]
  /\ told \in [Runs -> {"none", "ok", "failed"}]
  /\ foreign \subseteq Runs \X Targets

\* Every backup that a journal or the session names is there.
BackupsKnown ==
  /\ \A r \in Runs : \A i \in DOMAIN journal[r] : journal[r][i].backup \in {NoBackup} \cup DOMAIN backups
  /\ \A i \in DOMAIN results : results[i].backup \in {NoBackup} \cup DOMAIN backups
  /\ cur.backup \in {NoBackup} \cup DOMAIN backups

\* Which run a command works on, and where in it.
SessionKnown ==
  /\ \A r \in Runs : r >= nextRun => journal[r] = <<>>
  /\ \A r \in member : journal[r] # <<>>
  /\ pc \in RestorePhases =>
       /\ run \in Runs /\ run = nextRun - 1 /\ run \notin member
       /\ idx \in 1..(Len(Entries) + 1) /\ Len(results) < idx
       /\ IF pc = "register" THEN journal[run] = results /\ Journaled ELSE journal[run] = <<>>
       /\ pc \in {"write", "copying"} => idx \in Index
  /\ pc \in RevertPhases =>
       /\ run \in ActiveRuns /\ idx \in 0..Len(journal[run])
       /\ run = nextRun - 1 \/ nextRun - 1 \notin ActiveRuns
  /\ pc \in SwapPhases => idx > 0 /\ Mutates(J) /\ Job \notin done
  /\ pc = "retire" => run \in reverted

\* Entry i of run r has its plan if it needs one.
Planned(r, i) == Mutates(journal[r][i]) => plan[<<r, i>>].made

\* Plans are made from the last entry to the first and all of them before
\* anything is undone; entries are undone from the last to the first.
PlansKnown ==
  /\ \A j \in Jobs : plan[j].made =>
       /\ j[1] \in member /\ j[2] \in DOMAIN journal[j[1]] /\ Mutates(journal[j[1]][j[2]])
       /\ \A k \in DOMAIN journal[j[1]] : k > j[2] => Planned(j[1], k)
  /\ \A j \in done : plan[j].made /\ \A k \in DOMAIN journal[j[1]] : Planned(j[1], k)
  /\ pc = "prepare" => \A k \in DOMAIN journal[run] : k > idx => Planned(run, k)
  /\ pc \in UndoPhases => \A k \in DOMAIN journal[run] :
       Planned(run, k) /\ (k > idx /\ Mutates(journal[run][k]) => <<run, k>> \in done)

\* What the swap of a target relies on between its steps.
SwapKnown ==
  /\ pc \in {"stage", "staging"} => Prior.desired # Absent
  /\ pc = "staging" => stage[Job] # Absent
  /\ pc \in {"hold", "replace"} /\ Prior.desired # Absent => stage[Job] = Prior.desired
  /\ edits = 0 /\ pc \in {"stage", "staging", "hold"} =>
       /\ Swappable
       /\ cur.existed = (Now # Absent) /\ cur.holding = (held[Job] # Absent)
  /\ edits = 0 /\ pc = "clean" => Now = Prior.desired

EntriesOf(r, t) == {i \in DOMAIN journal[r] : journal[r][i].target = t}
\* Every change run r made to target t can be taken back from its journal.
Undoable(r, t) ==
  \A i \in EntriesOf(r, t) :
     \/ Mutates(journal[r][i])
     \/ journal[r][i].action \in {"skipped_up_to_date", "skipped_missing_source"}

\* What run s changed is taken back, or it found nothing to change.
LeftNothing(s) == s \in reverted \/ (journal[s] = <<>> /\ told[s] = "ok")

\* A run marked as reverted has given back to each target it changed what the
\* target held when the run began, whatever deaths and retries the revert met,
\* provided that nobody else wrote, that every later run is taken back or found
\* nothing to change, and that neither this run nor a later one changed the
\* target without a journal entry that can be undone.
RevertRestoresOriginal ==
  /\ edits = 0 /\ pc = "retire"
  /\ \A s \in (run + 1)..(nextRun - 1) : LeftNothing(s)
  =>
    \A t \in Targets :
      /\ \E i \in EntriesOf(run, t) : Mutates(journal[run][i])
      /\ \A s \in run..(nextRun - 1) : Undoable(s, t)
      => live[t] = origin[run][t]

\* While an entry of the newest run is being undone the content found before is
\* still somewhere (in place or held aside) until the prior content is in place.
NothingLost ==
  edits = 0 => \A j \in Jobs :
    j[1] = nextRun - 1 /\ plan[j].made /\ j \notin done /\ j[1] \notin reverted /\ Later(j[1], j[2]) = {} =>
      LET t == journal[j[1]][j[2]].target
      IN  live[t] = plan[j].before \/ held[j] = plan[j].before \/ live[t] = plan[j].desired

\* An entry on the target is not undone yet, and neither its plan nor that of a
\* later one takes what somebody wrote for its own.
Blocked(r, t) ==
  \E k \in OpenJobs(t) : k[1] = r /\ \A j \in OpenJobs(t) :
     j[1] = r /\ j[2] >= k[2] => UserItems \notin {plan[j].before, plan[j].desired}

\* A revert does not get past a target that somebody edited.
ForeignKnown ==
  \A f \in foreign :
    /\ live[f[2]] = UserItems /\ Blocked(f[1], f[2])
    /\ pc # "idle" => pc \in RevertPhases /\ run = f[1]
    /\ pc \in SwapPhases => J.target # f[2]

\* A target somebody edited between two attempts of a revert is never touched
\* by the revert again.
ForeignEditKept ==
  [][\A f \in foreign : RevertNext /\ run = f[1] => live'[f[2]] = live[f[2]]]_vars

\* Every target that a running restore has changed has a result that says so.
ChangesReported ==
  /\ pc \in {"write", "copying"} =>
       cur.backup # NoBackup \/ ~cur.existed \/ ~Entry.backup
  /\ edits = 0 /\ pc \in RestorePhases =>
       \A t \in Targets : live[t] # origin[run][t] =>
         \/ \E i \in DOMAIN results : results[i].target = t /\ (Mutates(results[i]) \/ results[i].action = "failed")
         \/ \E i \in Index : Entries[i].target = t /\ ~Entries[i].backup
         \/ pc = "copying" /\ Entry.target = t

Invariant ==
  /\ TypeOK /\ BackupsKnown /\ SessionKnown /\ PlansKnown /\ SwapKnown
  /\ NothingLost /\ ForeignKnown /\ ChangesReported

\* A run that reports success has left every target it changed in a journal
\* that a revert finds first, unless the entry failed or asked for no backup.
SuccessIsRevertible ==
  [][\A r \in Runs : told[r] # "ok" /\ told'[r] = "ok" /\ edits = 0 =>
       \A t \in Targets : live[t] # origin[r][t] =>
         \/ /\ r \in member' /\ RevertCandidate' = r
            /\ \E i \in EntriesOf(r, t)' : Mutates(journal[r][i])' \/ journal'[r][i].action = "failed"
         \/ \E i \in Index : Entries[i].target = t /\ ~Entries[i].backup]_vars
=============================================================================
