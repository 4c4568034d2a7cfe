# Verification of the Endstate engine

Endstate rebuilds a machine from a manifest: it installs packages, puts captured
application settings back in place, verifies the result and keeps enough history
to take it back. This directory holds TLA+ models of the Go engine
(`go-engine/`), the TLC configurations that check them, and TLAPS proofs.

The models follow the engine from the machine that is captured to the machine that
is rebuilt: capture of packages and settings, planning and staging of a restore, the
crash-recoverable transactions that write the user's files, the legacy restore path
beside them, the store that remembers both, installation and rollback of packages,
the hosted backup with its sessions and worker pools, and the harness that validates
the engine.

## 1. The system

| Component | State it keeps | Operations | What is hard | What makes it correct |
|---|---|---|---|---|
| config-set transactions (`configrestore/transaction*.go`) | targets (files, directories, registry values), the actions touched so far | `Execute`, `finishFailure`, `rollback` | death between any two writes, one of several undos failing, targets edited meanwhile | a set ends at its prior or its desired state; nothing foreign is overwritten |
| restore journal (`configrestore/journal*.go`) | `intent.json`, one terminal record per transaction | `PersistIntent`, `PersistCommitted`, `PersistRolledBack`, `PersistAborted`, reconciliation | a publication that may or may not have happened | a terminal record is true when it appears and never changes |
| record publication (`configrestore/publish*.go`, `durable*.go`) | directory entry in memory and on disk | link/sync/remove/sync (Unix), write-through move (Windows) | power loss between two system calls, failing syncs | what is reported survives; no rollback behind a committed record |
| live guard (`configrestore/live.go`, `recovery.go`) | the lease (flock), transaction roots | `BeginLive`, `scanPending`, `recoverOne`, `CreateTransactionRoot`, `DiscardTransactionRoot`, `Close` | a second process, an interrupted recovery | recovery precedes every mutation; at most one pending transaction; no journal is cleaned away |
| snapshots (`configrestore/snapshots.go`, `filesystem_state.go`, `registry_snapshot.go`) | backups and digests of prior and desired state | `Prepare` | targets change while they are read | prior is what the targets held |
| store history and revert (`configrestore/store_runs.go`, `commands/revert.go`) | run descriptors, members, `reverted.json`, revert work | `ActiveStoreRuns`, `RevertGenerationMember`, legacy members | order of runs, death between an undo and its record, records damaged by others | no effect is forgotten, effects go newest first, the engine's own faults never make the store unreadable |
| store inspection (`configrestore/store_inspect.go`) | - | two scans around a reading of every record | reads without the lock beside a writer | an accepted report is the history at one instant |
| restore command (`commands/restore.go`, `config_restore_*.go`) | plan, stages, roots, results | preview, final plan, staging, collisions, set loop, fail stop, legacy lanes, clean-up | the host and the bundle change between the steps, one set failing among several | a set goes where it was detected and stays as it was written |
| planner (`internal/planner`) and module catalog (`internal/modules`) | - | selection, compatibility, migration route, collisions | aliases of one path, several instances and generations | no two selected sets write one target; one route or none |
| migration (`internal/migration`) and materialisation (`configrestore/materialize.go`) | the stage | edges, document operations, validation; copy, merge, append, glob | the payload changes while it is staged, merges read the live target | what is staged is the captured payload carried along the route |
| legacy restore and revert (`internal/restore`) | backups, journal, work records, stage and held copies | strategies, `RunRestore`, `RunRevertDurable` | mutation precedes the journal; a revert interrupted between two renames | a reverted run gives every target back; foreign edits are kept |
| apply and driver lanes (`commands/apply*.go`, `driver_lanes.go`, `internal/driver`) | plan, per-package results | bootstrap, plan, install, reinstall, prune, verify, record | partial failure, managers that are missing, installs of the user | the plan command and apply agree; records name what was added |
| Nix realizer and rollback (`internal/realizer`, `commands/rollback.go`, `internal/provision`) | profile and home-manager generations, provisioning generations | realise, activate, rollback | the profile changes between the commands | rollback reaches its target and removes only what was provisioned |
| hosted backup sessions (`backup/auth`, `client`, `keychain`, `commands/backup_*.go`) | tokens, wrapped and plain keys, refresh lock | sign-up, login, recover, refresh, log out, delete | several processes, tokens that rotate, lost answers | the stored token stays usable; nobody is signed out without reason; uploads are sealed for their account |
| hosted backup transfers (`backup/upload`, `download`) | version rows and objects of the service, the target directory | push, pull | worker pools with a shared context, repeated POSTs, versions left half uploaded | success of a push means that the whole version is stored; a pull touches the target only after every chunk is verified; every call returns |
| capture and bundle (`commands/capture*.go`, `internal/bundle`) | manifest, staging tree, bundle | enumerate, merge, collect, redact, publish | sources that fail, applications that write meanwhile, modules that collide | each package once; a set is a picture of one moment; a bundle carries what it restores |
| validation harness (`internal/validationharness`) | disposable host, binding, verdict | journeys of six modes, evidence and storage checks | deviations of the engine that hide each other | a pass is genuine; an honest engine passes |
| manifest, import, schedule, events, state, bootstrap, command line | see `PROJECT.json` | parsing, formatting, registration | - | - |

How the parts of a restore interact. `RunRestore` asks the planner for config
sets and opens an execution session. `BeginLive` takes the lease, an flock on a
file of the store that the operating system drops when the process dies, and
calls `recoverPending` before it returns. The session creates one transaction
root for each selected set, and then for each set calls
`Prepare` (snapshot), `PersistIntent` (journal) and `Execute` (targets, then
terminal record). A result that says `!CanContinue` stops the loop. Deferred
clean-up discards roots without an intent and closes the guard. `RunRevert`
takes the same lease, with the same recovery, and then reverts the members of
the newest active run, last member first. All of this happens in one goroutine
of the one process that holds the lease: the concurrency that matters is with
process death, with the disk, and with programs that edit the same targets.

How the parts of a backup interact. `PushVersion` compares the profile with the
manifest of the newest version (`--if-changed`), asks the service for a new
version row and its presigned URLs through the retrying API client, and gives the
manifest and the chunks to `putParallel`, the manifest first. The row is listed
from the POST that makes it, and no call says that an upload is complete.
`PullVersion` fetches the manifest, gives the chunks to `getParallelChunks`, which
has the same structure, and unpacks the archive when all of them are in memory. A
producer goroutine hands out items over a channel, each worker transfers one at a
time, and the first error cancels the others.

How a capture becomes a restore. `RunCapture` lists packages, merges them into the
manifest, plans which modules attach, copies every config set after fingerprinting
all of its files, and publishes one bundle. `RunRestore` (and apply and rebuild)
freezes its inputs, pins the catalog, may show a preview, lets packages be installed
and plans again from fresh evidence; only then does it take the guard, stage, check
all claims against each other and execute. Commands on packages share the store of
provisioning generations and nothing else with commands on settings. Processes that
use the hosted backup share the keychain of the user, under one lock for refreshes.

## 2. The modules

### ConfigTransaction

The whole life of configuration sets, from the lease to the terminal record, and
back. A set's content is a function from slots to values; slot `<<a, e>>` is
entry `e` of action `a`. File writes, deletions and registry values are actions
with one entry; a directory copy has one for each path, in sorted order.

State that survives the process: `tgt` (targets), `roots` (transaction
directories), `cfgSet`/`run` (descriptor), `prior`/`desired` (recorded by the
intent), `intent`, `marker` (`committed`/`rolled_back`), `reverted`. State of the
process that holds the lease: `pc`, `cmd`, `mode`, `cur`, `act`, `left`, `want`,
`errs`, `touched`, `mine`, `todo`. `report` is what the user was told.

| Action | Code |
|---|---|
| `AcquireLease`, `ScanPending`, `RecoverNext` | `BeginLive`, `scanPending` (with the reaping of roots that have no intent), `recoverPending` newest first |
| `PlanRun` | one `CreateTransactionRoot` for each selected set; creation may fail with the directory left behind |
| `PrepareSet` | `Prepare`: record prior and desired, or skip a set that is already as wanted |
| `PersistIntent` | the intent is published, or the call fails with the file in place or not |
| `BeginExecute`, `CommitAction`, `WriteEntry`, `VerifyAction`, `Validate` | `Execute`: all targets still as snapshotted; then action by action check, write, check; then validation |
| `MarkDurable`, `MarkFails`, `MarkAmbiguous` | `persistMarker` as its callers see it: done, provably not done, unknown |
| `UndoAction`, `RestoreEntry`, `FinishUndo` | `rollback`, `recoverOne` and `RevertGenerationMember`: classify, put back in reverse order, compare the whole set, record |
| `SkipRemaining`, `CloseRun` | sets after a fail-stop, deferred discard and unlock |
| `SelectRevert`, `RevertNext`, `MarkReverted` | `RunRevert`: newest run, members in reverse, preflight, undo, `reverted.json` |
| `Crash`, `EditTarget` | process death between any two steps; somebody else writes a target |

Abstractions. Digests are compared as contents. The failure of any system call is
one disjunct of the step it belongs to and counts against `MaxIOErrors`.
Validation of restored targets depends on bytes, so it is a free choice.
`EditTarget` may happen at any step. Nothing looks at the entries of an action
between the check before its write loop and the end of the loop, so an edit in
that window can be overwritten; `raced` remembers such entries, and
`NoForeignOverwrite` says that no other foreign content is ever lost.
Transaction numbers stand for the order by start
time and ordinal; a clock that is set back is in `RestoreStore`.

### JournalPublication

How one terminal record reaches the disk: `persistMarker`, `reconcileMarker` and
both versions of `publishFileNoReplace`. The directory entry has the value the
operating system answers (`seen`) and the one left after a loss of power
(`disk`). `SyncOk` makes them equal, `SyncFails` may or may not have, `WriteBack`
is the kernel. The callers are reduced to what they do with the outcome:
`Succeed`, `FailClean` (roll back and record that), `FailAmbiguous` (stop), and
`RecoverRecord` by a later process. `ConfigTransaction` uses exactly these outcomes in
`MarkDurable`, `MarkFails` and `MarkAmbiguous`.

### AtomicRestore and ConfigAtomicity

`AtomicRestore` is what the engine promises: the content of a set is replaced in
one step or not at all. `ConfigAtomicity` defines the refinement mapping. While a
transaction is pending its set maps to the recorded prior content; a `committed`
record makes the desired content visible.

### ModuleCatalog, ConfigPlanning, ConfigStaging and ConfigRestoreRun

The first three are operators: validation of module files, the numeric version
algebra, discovery of instances; resolution of every captured set against the
detected instances; the staged copy, its migration and the actions it becomes.
`ConfigRestoreRun` calls them at the moments the code reads the disk.

| Action | Code |
|---|---|
| `Load`, `Preview`, `Install`, `Final`, `FinalFails` | inputs and mappings, catalog pinned once, preview plan, packages installed in between, final plan made from scratch |
| `Begin`, `BeginFails` | `BeginLive` with recovery of a pending transaction |
| `VerifySource`, `StageSet` | payload verified, copied, verified, migrated and materialised |
| `Collide`, `Inspect`, `CreateTransactionRoots` | concrete claims of sets, lanes and ordinary entries; snapshots; one root for each set |
| `ExecuteSet`, `IntentFails`, `FailStop`, `SetsDone` | the set loop; one transaction is one step with the outcomes of `ConfigTransaction` |
| `RunLane`, `LaneAborts`, `RunOrdinary`, `WriteJournal`, `Close` | the legacy lanes, the ordinary entries, their journal, deferred clean-up |
| `EditCatalog`, `TamperPayload`, `EditTargets` | the catalog directory, the extracted bundle and the targets change while the command runs |

Abstractions. A document is a map from addresses to values, so formatting and
comments are not told apart, and neither are empty objects from missing ones. A
path is a sequence of names; one link of the host stands for aliases. Two modules, a
migration edge, registry values, a delete-glob and an append give every strategy.

### LegacyRestore

The restore of legacy and ordinary entries and its durable revert. A target's content
is `Absent` or a set of pairs: members of a directory, keys of a file, values of a
registry key. Files and values change in one step, directories member by member.

| Action | Code |
|---|---|
| `BeginRestore`, `SkipBlocked`, `SourceMissing`, `EntryRefused`, `SkipUpToDate` | the entry loop of `RunRestore` up to a mutation |
| `TakeBackup`, `WriteTarget`, `MakeDirectory`, `CopyMember`, and their failures | the strategies: copy, merge, append, delete, registry import and set |
| `PublishJournal`, `RegisterJournal`, `EndRestore` | the journal is written after the entries and then registered in the store |
| `BeginRevert`, `PrepareEntry`, `PrepareEnds` | choice of the journal, one recorded plan for each entry |
| `StageFile`, `StageDirectory`, `StageMember`, `HoldTarget`, `ReplaceTarget`, `VerifyTarget`, `RemoveScratch`, `CompleteEntry` | `revert_durable.go`: stage, hold aside, rename into place, verify, clean, complete |
| `AlreadyUndone`, `UndoInPlace`, `PassOver`, `Refuses` | entries found done, undone without a swap, or edited by somebody else |
| `MarkReverted`, `RetireReverted`, `Crash`, `EditTarget` | the record, retirement of work; death; edits |

`MaxLen` bounds the length of the profiles, and with it the jobs of a revert.

### RestoreStore

The store `config-restore/v1` as a whole: transactions, legacy members, revert records
and work, journals in the log directory, and the effects on the host as a sequence.
A restore or a revert holds the lock; the inspector does not. Every record has the
values its decoder tells apart, and publication with an error leaves the record, a
temporary file or both. `EditJournal`, `DeleteBackups`, `EditRecord` and
`SetClockBack` are the world. What a transaction does to its targets is left to
`ConfigTransaction`, what an entry does to `LegacyRestore`: here a member is one effect.
The map of the module names the code of each step; the actions carry the names of
the functions (`ReconcileLegacyRevertWork`, `ScanPending`, `CreateTransactionRoot`,
`RegisterLegacyJournal`, `RevertGenerationMember`, `MarkLegacyMemberReverted`, ...).
Where the code takes the head of a sorted list, the model says which elements may be
taken by a predicate (`NewestPending`, `LatestJournal`, `NextRoot`, `MembersOf`), so that
ties of the clock are a choice and not an arbitrary function of the state.

### ProvisionState, PackageApply, PackageRollback and Provision

`ProvisionState` holds what the package commands share: packages on the host
(`inst`), Nix and home-manager generations (`natives`, `active`, `home`), the store of
provisioning generations (`gens`), package managers (`avail`). `PackageApply` has the
phases of apply and rebuild on a driver host (winget, chocolatey) and on a realizer
host (Nix with brew beside it); `PackageRollback` the switch of native generations
and the uninstallation of groups; `Provision` adds the plan and verify commands, the
user who installs and removes packages, and the death of a command. Package managers
are external: a call succeeds, fails, or fails after having done its work. One
command runs at a time.

### BackupSession

Processes of one user, the keychain they share and the service. A key derived from a
secret and a salt is the pair of both. Commands are sequences of requests;
`LockRefresh`, `Persist` and `KeepTokens` are the rotation of a refresh token under
`refresh.lock`, with the second look at the keychain after the lock is taken.
`Accepted`, `Denied`, `Rejected`, `Lost` and `Refused` are the answers to a request,
a lost one after it has taken effect. `Expire` and `Skew` are clocks, `Crash` is
death, and a keychain call may fail. The client refreshes once for a call. A token that
runs out between that refresh and the repeated call ends in a request to log in again;
the ghost variable `early` remembers that it happened, and `NoSpuriousSignOut` excepts it.

### CaptureInventory, CaptureBundle and Capture

`CaptureInventory` has the rows of package managers, filters, ids and the merges of
`--update`; `CaptureBundle` the modules that attach, snapshot copies, claims between
modules and share mode; both are operators. `Capture` runs them as a process that
races other programs: `EnumerateWindows`, `EnumerateRealizer`, `SelectAndMerge`,
`TruncateManifest`, `WriteManifest`, `BeginPlan`, `preflightConfigCopies`,
`CollectConfigSet`, `collectLegacyCaptureLanes`, `writeCaptureZipAtomically`, with
`Edit` and `Crash` between any two. A file's content is a version and whether share
mode rewrote it; every edit makes a version of its own, so a file that is changed and
changed back between two looks is left out. The catalog is the set of the modules that
attach, and its order a predicate on their ids.

### ValidationFixture, ValidationEvidence and ValidationHarness

The harness seeds a disposable host, runs the engine, and compares trees, reports and
storage. The engine is the program under test: `Engine` does what it should and
`Deviations` changes one thing on the host, in the bundle, in the storage or in the
report. `ValidationEvidence` has the checks, `ValidationHarness` the journeys of the
six modes, the failing calls of the harness itself, clean-up and the verdict. `genuine`
remembers whether every command kept the promise (`Promise`) the scenario is about,
which is stated apart from the checks.

### TransferPool

The worker pool of `putParallel` and `getParallelChunks`, with one state for each
goroutine: the producer (`sent`, `workClosed`), the workers (`st`, `item`, `attempt`,
`err`), the shared context (`cancelled`), the buffered error channel (`errCh`), the
counters of the summary event and the caller (`running`, `outcome`). What a transfer
does to the service is left to the modules that extend this one.

| Action | Code |
|---|---|
| `PoolStart` | channels, counters and context made, goroutines started |
| `Take`, `ProducerStop` | the producer's select: hand out the next item, even after a cancellation, or close the channel |
| `Succeed`, `RequestFails`, `BackoffEnds` | `putWithRetry`/`getOnce`: an answer, an error that is tried again or not, the pause |
| `ReportError`, `CancelAndExit` | `errCh <- err`, then `cancel()` and return: two steps, other workers may run in between |
| `RangeEnds`, `PoolReturn` | the worker's loop ends; `wg.Wait` and the first error |
| `PoolKilled` | the process dies |

The callers pass `context.Background()`, so only a worker cancels. (If a caller's
context were cancelled between two items the pool would return nil with items
missing: `OkMeansAll` depends on the callers as they are.)

### BackupPush and BackupPull

Both extend `TransferPool` and implement `PoolSpec`. `BackupPush` adds the rows of
the service (`rows`: fingerprint of the content, objects stored, listed or not) and
the phases of `PushVersion`; `BackupPull` the objects a pull finds (`blob`) and the
target directory (`exists`, `target`, `written`).

| Action | Code |
|---|---|
| `PushStarts`, `Peek`, `CreateVersion` | the flag, `LatestManifest` and `ProfileFingerprint`, `CreateVersion` with the retries of `client.Do` |
| `PutSucceeds`, `PutFails`, `PoolStep`, `PushReturns` | `putParallel`: a PUT that fails may have been stored |
| `BeginPull`, `FetchManifest` | the test of the target, manifest and URLs |
| `GetChunk`, `FetchStep`, `FetchReturns` | `getParallelChunks` with digest and decryption |
| `RemoveTarget`, `MakeTarget`, `Untar` | `os.RemoveAll` with its error dropped, `os.MkdirAll`, `untarTo` file by file |
| `Die` (push), `PullDies`, `DeleteVersion`, `OtherWrites` | process death at any step; versions deleted elsewhere; another program writing to the target |

Abstractions. The service is external: a POST that is not answered may have made
its row, a row is listed until it is deleted, and the newest row is the last one
made. Early returns before the content check change nothing and are left out. A
profile is its fingerprint, an object its integrity, a file its name and origin.
One push or one pull runs at a time.

### MC modules

They give values to constants that are functions, records or sets of them, and
symmetry to the push; everything else is in the `.cfg` files. The modules named
`...Proofs` hold the theorems.

## 3. The runs

| Run | Configuration | Shows |
|---|---|---|
| `config` | 2 sets x 2 actions x 2 entries, 2 transactions, restores and reverts, 2 deaths, 1 failing call, 1 edit | `SinglePending`, `RecoveryBeforeMutation`, `NoForeignOverwrite`, `RecordsTellTheTruth`; `HistoryExplainsContent`: the active transactions explain what a set holds; `CommitRecoverable`: every prefix of a copy is recognised |
| `atomicity` | 2 sets x 2 single-entry actions, 2 payloads, 2 deaths, 2 failing calls, `FairSpec` | `ImplementsAtomicRestore`; `PendingResolved`: pending transactions are closed |
| `publication` | 3 failing calls, 2 deaths of either kind | `ToldIsDurable`, `RollbackOnlyWithoutCommit` |
| `legacy` | 5 profiles, 8 targets, 2 runs, 1 death, 1 failing call, 1 edit | `RevertRestoresOriginal`, `NothingLost`, `ForeignEditKept`, `SuccessIsRevertible` |
| `store` | up to 4 commands, up to 2 sets each, 1 or 2 disturbances, an inspector limited to 3 members | `OwnFaultsNeverBlock`, `NothingForgotten`, `RevertsNewestFirst`, `ReportIsHistory` |
| `config_run` | 11 inputs, 3 catalogs, 5 hosts before and after installation, 3 starts, 1 fault | `RestoredWhereDetected`, `RestoredStays`, `StagedIsCaptured`, `NoHalfStateRestored` |
| `capture` | 8 scenarios of up to 3 captures, 3 edits, a death | `CapturedSetIsSnapshot`, `NoPackageTwice`, `BundleRestoresAreOwned` |
| `provision` | 5 profiles on 2 kinds of host, 6 sets of flags, 3 commands, 1 failing call, 1 edit, 1 death | `PlanAgreesWithApply`, `HomeRecordIsActive`, `RollbackKeepsForeign`, `RollbackReachesTarget` |
| `push` | 2 workers, manifest and 1 chunk, 2 profile contents, 2 versions, 1 retry of PUT and POST | `FirstErrorIsTheCause`, `PushedIsWhole`, `SkippedHasManifest` |
| `pull` | 2 workers, 2 chunks, 3 files of which 2 in the archive, `PullFairSpec` | `TouchedOnlyWhenVerified`, `CallReturns` |
| `session` | 2 processes, 2 accounts, 8 commands of which 3 are run, 1 expiry, 1 fault | `StoredTokenIsLive`, `NoSpuriousSignOut`, `SealedForOwner`, `SignedInHasKeys` |
| `harness` | 6 modes, 3 targets, 2 deviations, 2 failing calls | `PassedIsGenuine`, `HonestEnginePasses` |

Why the bounds are enough. Two sets and two transactions give a run that leaves a
transaction pending, the run that recovers it, and a set that follows a failed one; a
revert of the first transaction is a revert below the second. Two actions of two
entries give a set that is half mutated or half undone between and within actions.
Two deaths are a death and a death during its recovery. Two failing calls are a
failure and a failure of its rollback; three are needed to fail the sync, the removal
and the sync of the removal of one record. Two legacy runs are a run and one over
it, and five profiles have every strategy, a target written twice, one target inside
another, a lane that collides, and targets that were absent. The store's three limits
trade length for trouble: a long history, a restore of several sets, and a death
during the recovery from a death. The inputs of `config_run` have each refusal of the
planner, of staging and of the collision check, a mapping that is obeyed and one that
names nothing, aliases through a link and hosts on which an instance appears, leaves
or changes its version during installation. Three captures are a first capture, an
update and an update of that; three edits change a file before, during and after its
copy. Three package commands are an apply, an apply over it and a rollback. Two
processes and three commands race two refreshes, a refresh and a sign-out, or a push
and a sign-in as somebody else. Two versions are one left half uploaded (or an empty
one left by a repeated POST) and the one that follows. Three files are one that only
the machine has and two of the archive. Two deviations of the engine are one and
another that hides it.

Every property has a mutant of the code in `PROJECT.json` that breaks it in the same
run: a forgotten fail-stop, a rollback that forgets its errors, a classification that
accepts anything, reverts in the wrong order, a skipped sync, a trusted removal, a
final plan that keeps the preview, a collision check that forgets the legacy lanes,
merges read before recovery, a copy that is not compared with its fingerprint, a
revert that swaps anything it finds, a process that takes the key of whoever is signed
in now, a repin counted as an addition, an error channel that is too short, a target
emptied before the chunks are verified.

Fairness. `FairSpec` adds `WF_vars(Engine)`: a process that runs keeps running
(its loops wait for nobody, the lease is taken with nobody else holding it), and
the user starts the engine again. Deaths and failing calls are bounded, so they
stop. Without further runs nothing recovers a pending transaction, and the code
does not claim otherwise. `PullFairSpec` adds `PoolFairness`: weak fairness for every
step of a goroutine that the Go scheduler runs, and for `RequestEnds`: a request is
answered or its connection breaks. The last is an assumption on the network, since the
presigned requests use `http.DefaultClient`, which has no timeout.

Deadlock is checked in the runs of `ConfigTransaction`, `ConfigRestoreRun`, push and
pull. The others say `CHECK_DEADLOCK FALSE`: a publication and a validation run end,
and the rest stop when the bounded number of commands has been run.

## 4. The proofs

Every theorem holds for all values of the constants that satisfy the assumptions named
in the modules. They say that bounds are natural numbers and that the constant sets and
functions have their types; TLC evaluates each of them on a run. Three theorems have
a hypothesis of their own besides, explained with each: `AtomicRestoreImplemented`,
`RecordMatchesTargetCorrect` and `RevertRestoresOriginalCorrect`.

### Config-set transactions

From `SizesAreNaturals` and `ContentsAreTyped`, `ConfigTransactionProofs` proves

- `TypeCorrect`, `SinglePendingCorrect`, `JournalKeptCorrect`,
  `HistoryExplainsContentCorrect`, `CommitRecoverableCorrect`: the invariants of these
  names;
- `RecoveryBeforeMutationCorrect`, `NoForeignOverwriteCorrect`,
  `RecordsTellTheTruthCorrect`: the action properties;
- `AtomicRestoreImplemented`: `Spec => ImplementsAtomicRestore`, when nobody else writes
  and nothing is reverted (`MaxEdits = 0`, `"revert" \notin Commands`). `AtomicRestore`
  has neither; they are the constants of the run `atomicity`.

The argument. None of these is inductive: whether a second transaction can become
pending depends on where the process is. `SessionInvariant` says what the holder
of the lease knows at each `pc`: nothing is pending when it plans, prepares,
persists an intent or reverts (`NothingPending`); while it works on a transaction
that one alone may be pending and its intent and root exist (`PendingKnown`,
`RootsKnown`); its indices are in range (`IndexKnown`). `TypeOK /\ SessionInvariant`
is inductive (`SessionStep`, one step for each action) and implies the first
three; `RecoveryBeforeMutation` follows from it for the two actions that write.
`NoForeignOverwrite` needs `EntriesKnown` as well: the entries a loop has not
reached are as the check before the loop found them, but for those edited since.

`JournalInvariant` adds the records and the targets: a terminal record is only added to
an open transaction (`MarkersKnown`), which actions a commit has begun (`TouchedKnown`),
that untouched actions hold the prior and written ones the desired content
(`TargetsKnown`), and that transactions are numbered in the order in which they begin
and reverted in the opposite one (`OrderKnown`). `RecordsTellTheTruth` and
`CommitRecoverable` follow. `HistoryKnown` says of every recorded prior state, and not
only of sets at rest, that the transactions in force before it explain it: a revert ends
at a recorded prior state, so the weaker statement is not inductive.

The refinement maps a set to its recorded prior content while its transaction is
pending. Publishing an intent begins the abstract transaction (`IntentBegins`): the
targets still hold the prior content that the set is mapped to from now on. A terminal
record commits or aborts it, and `TargetsKnown` says that the desired or the prior content
is in place by then. Every other step stutters.

### Publication, pools, push and pull

`ConfigTransactionProofs` proves of `JournalPublication` too, for any number of failing
calls and deaths, `PublicationTypeCorrect`, `ToldIsDurableCorrect`, `RollbackOnlyWithoutCommitCorrect`, and
`RecordMatchesTargetCorrect` under the assumption that only processes die
(`"power" \notin PubDeaths`). The strengthenings are `PublicationKnown`,
`NoCommitLeft` and `WantMatchesTarget`. The last theorem is the other side of
divergence 2 below: the record seen can contradict the targets, and only a loss of
power makes it.

`BackupProofs` proves, for any finite number of workers not above the number
of items (`WorkersAssumption`, `SizesAssumption`), `PoolTypeCorrect`,
`PoolReportsTheCause` (`FirstErrorIsTheCause`) and `PoolIsComplete` (`OkMeansAll`).
Neither property is inductive. `PoolInv` adds that a cancelled pool that runs has an
error in its channel (`CancelledAfterError`), that a worker holds `canceled` only
then (`CanceledNeedsCancel`), that a worker left for a reason (`ExitHasReason`), that
the channel was closed for one (`CloseHasReason`), and that every item handed out is
done, held by a worker or accounted for by an error (`HandedOut`,
`NotYetReturned`).

It proves that a push implements the pool (`PushImplementsPool`:
`PushSpec => PoolSpec`), and with the pool's completeness and `DoneIsStored` that
`PushedIsWhole` holds (`PushIsWhole`); of a pull it proves `PullImplementsPool` and `PullTouchesOnlyWhenVerified`; its strengthening says that a chunk that is done was verified
(`DoneIsVerified`) and that after the fetch every chunk is done
(`UnpackedIsFetched`). `SkippedHasManifestCorrect` adds that a
skipped push is over (`SkippedIsIdle`), and that no step takes from a row what is
stored in it.

### Sessions of the hosted backup

From `SessionBounds`, `BackupProofs` proves `SessionTypeCorrect`,
`StoredTokenIsLiveCorrect`, `SignedInHasKeysCorrect`, `NoSpuriousSignOutCorrect` and
`SealedForOwnerCorrect`, for any number of processes, accounts and retries. A lemma for
each action says what it does to the process and to the service, and the parts of
`Invariant` are shown from these. `TokensOwned` and `ProcessesKnown` say whose token and
key a process holds; `LockIsHeld` that only one process rotates; `LeavingIsClosed` that
the service drops a token or an account only after the user left it or a rotation was
lost; `NewTokenIsGood` that the token of an answer nobody has stored yet is known to one
process only. That is what `StoredTokenIsLive` needs: between the rotation and its
storage the stored token is dead and its successor is in one process. `KeysKept` gives
`SignedInHasKeys`. `TokenIsUsable` says that the token a call is repeated with is good
unless it ran out since, was left or something failed; `NoSpuriousSignOut` follows. The
proof of the last failed at first for a good reason: the exception `early` was missing.

### The restore store

From `BoundsAreNatural` and `NoneIsNoRecord`, `RestoreStoreProofs` proves
`ReportIsHistoryCorrect`, `NothingForgottenCorrect`, `OwnFaultsNeverBlockCorrect` and
`RevertsNewestFirstCorrect`, for any number of commands, sets and disturbances. The first needs only that the inspector
notices every change of the store between its scans, and that what it has read is the
history of its first scan until then. For the next two `Invariant` says what the command
in hand may still touch (`PlanKnown`, `RevertKnown`), that it records as undone only what
is undone (`UndoneFirst`), that nothing is of a run that has not begun (`RunsSoFar`), that
ordinals of one run are distinct (`OrdinalsKnown`), that members and consumption have a
journal (`MembersKnown`), and that records are readable until somebody edits them
(`RecordsSound`). `OrdinalsKnown` speaks of transactions that have an intent or may still
get one: a failed creation leaves a directory whose ordinal is used again.

`RevertsNewestFirst` is about a step, and what makes the step right was decided long
before: when the history was read, or when a restore planned its sets. `Ordered` relates
the sequence `applied` to the records. `After` orders effects by run, by ordinal within a
run, the journal last, and `EffectsOrdered` says that `applied` is in that order.
`StartsKnown` says that without a set-back clock start times agree with the identities of
the runs, and the names and seconds of journals with both; `PlanOrdered` and `PendingKnown`
that a restore takes its sets by ordinal, and that nothing on the host is later than what
is pending. `OwnersKnown` and `AdoptedLast` are about journals that a later run has
registered: they are counted to the run that registered them, and nothing on the host is
of a run between the two. `RevertOrdered` says of a revert in hand that whatever is later
than one of its items is undone before it, or is a journal nobody knows. The proof has two
parts. `RevertSelected`: the newest run of the history is the last one (`NewestIsLast`),
its plan has all its members by ordinal (`MembersInPlan`), and a journal that is not
registered comes first, alone or as the last of that run, by the comparison of seconds in
`NewerStandalone` and `Unorderable`. `RevertOrderedGoesOn`: between two items nothing is
added and no order changes, and a journal is registered only when it is the latest.

### Legacy restore and revert

From `EntriesAreTyped` and `AbsentIsNoContent`, `LegacyRestoreProofs` proves
`TypeCorrect`, `NothingLostCorrect`, `ForeignEditKeptCorrect` and
`SuccessIsRevertibleCorrect`, for every set of profiles, and under the hypothesis
`NoRepeatedSetting` also `RevertRestoresOriginalCorrect`. `PlansKnown` says that all plans
of a revert are made before the first entry is undone and that entries are undone from the
last to the first; `SwapKnown` what stage, target and held copy contain between two steps
of a swap; `NothingLost` follows from both. `ForeignKnown` says that before an edited
target stands an entry whose plan knows the edited content neither as found nor as
desired (`Blocked`), so the revert refuses there and never reaches the entries below.
`ChangesReported` says that every target a running restore has changed has a result that
says so, which makes `SuccessIsRevertible` provable when the journal is published.

`RevertRestoresOriginal` relates the state a run began with to the state after a revert
that may come many commands later. Its invariant `OriginsKnown` follows the content on
its way. `PathsKnown` keeps the backups of a run apart: numbered ones are counted, and
the one a registry setting makes is taken once. This is where `NoRepeatedSetting` is
needed: no profile sets one registry value twice. With such a profile the property is
false (divergence 5); the profiles of `MCLegacy.cfg` satisfy the hypothesis. So the first
change a run made to a target kept what the target held before the run (`RunningPriors`
while it runs, `JournalPriors` afterwards), the plan of a revert wants that back
(`PlanDesired`), and of the entries of a run the last ones are undone (`DoneUpward`), so
that change is undone last. `RevertsTop` says that what is being reverted is the newest
run that can be. `StackKnown` composes the runs: once a run has undone its changes to a
target, the target holds what it held before that run, or held it when the next run above
that left something began.

The proof attempt corrected the property. It used to ask of a later run only that it has
a journal or ended well; three runs refute that, and TLC checked two. The revert of run 1
dies just before it is marked; run 2 publishes its journal and fails to register it; run 3
is registered and reverted. Now `RevertCandidate` is run 1, an active run, and no longer the
unregistered journal, because the newest journal is that of run 3 (`FindLatestJournal`
in `journal.go`, `RunRevert` in `revert.go`). Run 1 is marked as reverted while what run 2
wrote stays. The antecedent now says what the property means:
every later run is taken back or found nothing to change (`LeftNothing`). TLC checked
it, and the parts of `OriginsKnown`, with three runs before the proof.

### Packages: apply, plan and rollback

From `ProfilesAreTyped`, `ProvisionProofs` proves `ProvisionTypeOK`,
`PlanIsWhatApplyDoes` (`PlanAgreesWithApply`), `RollbackKeepsForeignPackages`,
`RollbackReachesItsTarget` and `NewestHomeRecordIsActive` (`HomeRecordIsActive`), for any
profiles, flags, number of commands, failing calls, edits and deaths. The plan and the
apply are separate code, so the first is a fact about two computations on one host. A
rollback uninstalls what the generations list: `InstalledIsBrought` says that an action
reported as installed, of a package that was not there when the apply looked, was
carried out by the engine, and `RecordedIsBrought` that every list of a generation
is made of such packages. The proof failed at first for a good reason: chocolatey with a
pin (divergence 9). `SwitchedIsActive` and `AnchorIsSet` say which Nix generation the
numbers of the command in hand stand for, `HomeIsTracked` that the active home-manager
generation is the newest recorded one, or is about to be recorded.

### Capture

From `BoundsAssumption` and `ScenariosAreTyped`, `CaptureProofs` proves
`CapturedSetsAreSnapshots` (`CapturedSetIsSnapshot`) and
`PublishedBundlesOwnTheirRestores` (`BundleRestoresAreOwned`), for any catalog, files and
number of edits. `hist` has the states the host went through while the capture runs. The
heart is `CopyOK`: when all files of a set are copied, one of these states held every
copy, and every file that still has the content it was fingerprinted with (`HeldAt`).
A state of the moment before the last edit does, since an edit makes a version that was
never there before. The second theorem is about the claims of the modules
(`KeptClaimsAreApart`): of two overlapping ones only one is kept in the bundle.

### Planning and restoring config sets

From `FaultsAreBounded`, `InputsAreTyped` and `CatalogsAreTyped`, `ConfigRestoreRunProofs`
proves `RestoredWhereDetectedCorrect` and `StagedIsCapturedCorrect`. The first half is
about the planner's operators, for all catalogs, hosts and sources: a candidate fits the
set it is made for (`CandidateFits`), the sources of a plan are those captured
(`SourceFits`), a plan leads a set only to an instance the host has
(`FreshPlanReaches`, `ReachedIsDetected`), and instances of different applications have
different ids (`InstanceIdsDiffer`). The second half is the run: `Inv` says what is known
of the inputs and the pinned catalog (`InputsKnown`), that the plan is one (`PlanKnown`)
and leads to what was detected (`RoutesDetected`), which sets are in hand (`TodoKnown`),
and that a staged set is the captured one, migrated along its edges (`StageKnown`).

### Validation harness

From `FixtureAssumption` and `NoneIsNoVerdict`, `ValidationHarnessProofs` proves
`PassedIsGenuineCorrect`, for any targets, any number of deviations over the run (two at most
in one command) and any number of failing calls. The engine that deviates is bounded by
what no deviation can do: it repairs no payload of a bundle and adds no record
(`Fades`, `Leaves`). `StepOrder` states the order of the steps of each journey. An
accepted command either kept its promise or the step after it cannot pass
(`PromiseKept`; `Judged` in the invariant): much of a promise is only compared later. For
that the invariant says what the harness knows of the live host before a command that
relies on it (`LiveKnown`), of the bundle (`BundleKnown`) and of the number of rebuilds
(`IterationKnown`).

### What TLC checked first, and what it alone checks

TLC checked the strengthenings before they were proved. `TypeOK`, `JournalKept`,
`PoolTypeOK`, `OkMeansAll` and the implementation of `PoolSpec` have no run of their own
any more: the theorems say them for every instance.

Only model-checked:

- `PendingResolved` and `CallReturns`: liveness under fairness is out of the reach of the
  prover.
- `RestoredStays` and `NoHalfStateRestored` (`config_run`): they compare the targets
  before and after with what the migration and materialisation operators compute, folds
  and `SelectSeq` over edges and actions of every length. That is an induction over data,
  which the prover cannot do.
- `NoPackageTwice` (`capture`): the list of packages is the result of filters and merges
  of sequences, for the same reason. It says that no capture adds an entry for a package
  another entry declares; two entries a manifest has already can still end at one
  package (divergence 10).
- `HonestEnginePasses` (`harness`): it is not true for every value of the constants. A
  capture contract of a module without optional targets fails by design
  (`capture_journey.go`), and so does a minimum of zero.

## 5. Known divergences

What the code does where it, a document or a comment leads a reader to expect
otherwise. Where a definition states the expectation, it is in the module named and is
not checked by a run; adding it to a configuration with the constants given makes TLC
print the sequence of steps.

1. **Recovery of a directory is not idempotent** (`ConfigTransaction`,
   `AlwaysRecoverable`; `MCConfig.cfg`, two entries, two deaths). A copy interrupted
   after `k` entries is recognised as a desired prefix and a prior suffix
   (`transaction_classification.go:51`). The rollback puts entries back in ascending
   order too (`transaction_filesystem.go:498`), so a death during the rollback leaves a
   prior prefix and a desired suffix, which the next recovery refuses: the transaction
   stays pending and every later restore fails with `recovery_required`.
   `openspec/changes/archive/2026-07-18-config-generations/design.md:208` promises
   "idempotent rollback" that "covers process death at any point after intent
   persistence". With single-entry actions (`MCAtomicity.cfg`) the definition holds.
2. **A removed commit can come back** (`JournalPublication`, `RecordMatchesTarget`;
   `MCPublication.cfg`). After a failed sync, a removal that is not durable and an
   ambiguous report, the next process sees no record and rolls back
   (`recovery.go:621`); if power fails before the removal reaches the disk, the
   `committed` record is back over rolled-back targets. `publish.go:22` says that
   callers "must not infer that rollback is safe from this error".
3. **A half-uploaded version silences `--if-changed`** (`BackupPush`,
   `SkipMeansBackedUp`; `MCPush.cfg`). The manifest is the first object sent. A push
   that fails on a chunk leaves a listed row with a readable manifest, and the next
   `--if-changed` push of the same profile is skipped although no whole backup exists.
   `upload.go:117` says "when in doubt, back up". The service is assumed to list rows
   it has not collected.
4. **A failed removal goes unnoticed** (`BackupPull`, `PulledIsExact`; `MCPull.cfg` with
   `OthersWrite = FALSE`). `PullVersion` drops the error of `os.RemoveAll`
   (`download.go:166`), so a pull with `--overwrite` can report success over a directory
   that still holds files the backup does not have;
   `hosted-backup-orchestration/spec.md:44` demands "a byte-equal copy".
5. **Two settings of one registry value share a backup** (`LegacyRestore`,
   `RevertRestoresOriginal`; `Profiles <- ChainProfiles`). `registry_set.go:80` names the
   backup by key and value, so the second entry of a lane overwrites what was there
   before the first, and a revert ends at the first setting.
   `config_restore_execution.go:873` calls such repetitions "a reversible state chain".
6. **A refused prune or repin leaves installs unrecorded** (`Provision`,
   `InstalledIsRecorded`; `MCProvision.cfg`). `apply --prune` without `--confirm`
   installs what is missing and returns the refusal before the generation is written
   (`apply_realizer.go:430`; `--repin`: `apply_driver_lanes.go:355`), so rollback never
   finds the packages. `provisioning-generation/spec.md:12` wants a generation for an
   apply that installed something; the failure of a configuration restore in the same
   function does "preserve backend rollback facts".
7. **A recovery key works once** (`BackupSession`, `RecoveryKeyUnlocks`;
   `Plans <- MCRecoveryPlans`, `MaxFaults = 0`). Recovery replaces the salt of the account
   (`backup_recover.go:114`) that the recovery key made at sign-up was derived with. The
   same phrase gives another key afterwards, and the next recovery is refused.
   `docs/contracts/hosted-backup-contract.md:262` calls it "a second independent unlock
   path".
8. **Redaction outdates payload digests** (`CaptureBundle` and `Capture`,
   `PayloadsVerify`; `Scenarios <- MCShareScenarios`). A share bundle is redacted after
   the payload manifests of its config sets are made (`capture_bundle.go:362`), so a
   restore refuses such a set with `payload_integrity_failed`.

9. **A pinned chocolatey package that was there is recorded as added** (`Provision`,
   `RollbackKeepsAllForeign`; `MCProvision.cfg`). `choco install --version` is run without
   looking (`install_version.go:11`, `apply_driver_lanes.go:319`) and its success is an
   installation, so the generation lists the package as added (`apply_generation.go:37`)
   and a rollback uninstalls it. `openspec/specs/provisioning-generation/spec.md:35` says
   that "packages that were already present SHALL NOT appear in the added references".
10. **Two entries can be joined to one package** (`Capture`, `PackagesDeclaredOnce`;
   `MCCapture.cfg`, scenario `Rejoin`). A package that is listed under a new ref without
   a binding to the inventory gets an entry of its own beside the old one. When a later
   `--update` sees the binding, the old entry matches by fingerprint and takes the new
   ref (`capture.go:929`), the new one matches by ref, and the manifest declares the
   package twice: a detected package is not marked as joined. The comment at
   `capture.go:875` says the fingerprint "keeps app identity stable if the manager ref
   changes".

Two sentences of the documents describe the code less exactly than the models do.
`config-forward-migration/spec.md:61` says that a failure to record completion triggers
immediate rollback; `finishFailure` stops without one when the `committed` record may
exist, which `RollbackOnlyWithoutCommit` shows to be the safe choice.
`hosted-backup-orchestration/spec.md:55` says that a pull refuses an existing target;
the target is tested once, before the download, and a directory that appears during it
is written into.

## 6. Not modelled, and the plan

Not modelled: temporary files and parent directories created for a target; two package
commands at once (the store of generations takes no lock); the creation of a backup
and the archive format of a push; live observation and process control of the
validation harness, its matrix planner and CI tables; manifest, include and import
parsing, the operating system's scheduler, events, the run state file and the command
line. The last group is parsing, formatting and registration: it turns text into
values or values into text and keeps nothing between calls that a later call depends
on. Cryptographic primitives are functions without state.

In order:

1. `DirectoryTree`: one directory target with temporary files and created parents,
   refining the slot view of `ConfigTransaction`.
2. `ProvisionState` with two commands, for the numbering of generations.
3. The harness's live mode: a process under control, its timeout and its receipt.
4. Proofs: `AtomicRestore` with a revert, which a death may leave half done: the abstract
   specification has to say what a set is then.
