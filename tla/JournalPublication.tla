------------------------- MODULE JournalPublication -------------------------
(***************************************************************************)
(* How the terminal record of one transaction reaches the disk             *)
(* (persistMarker, reconcileMarker, publishFileNoReplace).                 *)
(*                                                                         *)
(* There is one path for both terminal states.  Its directory entry has    *)
(* two values: "seen", what the operating system answers now, and "disk",  *)
(* what is left after a loss of power.  A successful directory sync makes  *)
(* them equal; a failing one may or may not have written the entry; the    *)
(* kernel may write it back at any time.                                   *)
(*                                                                         *)
(* The callers are reduced to what they do with the outcome: a transaction *)
(* commits, rolls back after a failure that is proven not to have          *)
(* published, and stops after an ambiguous one; a later process recovers   *)
(* the transaction if it sees no record.                                   *)
(***************************************************************************)
EXTENDS Naturals

CONSTANTS
  MaxPubErrors,     \* bound: failing operating system calls
  MaxPubDeaths,     \* bound: process deaths and power failures
  PubDeaths         \* the kinds of death considered

ASSUME BoundsAreNaturals == MaxPubErrors \in Nat /\ MaxPubDeaths \in Nat
ASSUME DeathsAreKnown == PubDeaths \subseteq {"kill", "power"}

VARIABLES
  platform,         \* "unix" or "windows": which publishFileNoReplace
  target,           \* "prior" or "desired": the targets, synced as they change
  seen, disk,       \* the directory entry of the terminal record
  pubStep,
  wanted,           \* the record being published
  state,            \* publicationState returned by publishFileNoReplace
  told,             \* what the process that ended last told its user
  pubErrors, pubDeaths

publication ==
  <<platform, target, seen, disk, pubStep, wanted, state, told, pubErrors, pubDeaths>>

Records == {"committed", "rolled_back"}
PublicationSteps == {"idle", "read", "link", "sync", "remove", "removeSync",
                     "check", "reconcileSync"}

PublicationTypeOK ==
  /\ platform \in {"unix", "windows"} /\ target \in {"prior", "desired"}
  /\ seen \in Records \cup {"absent"} /\ disk \in Records \cup {"absent"}
  /\ pubStep \in PublicationSteps /\ wanted \in Records \cup {"absent"}
  /\ state \in {"none", "notDurable", "ambiguous"}
  /\ told \in {"nothing", "restored", "rolled_back", "rollback_failed"}
  /\ pubErrors \in 0..MaxPubErrors /\ pubDeaths \in 0..MaxPubDeaths

\* The transaction has mutated every target and is about to commit.
PublicationInit ==
  /\ platform \in {"unix", "windows"} /\ target = "desired"
  /\ seen = "absent" /\ disk = "absent"
  /\ pubStep = "read" /\ wanted = "committed" /\ state = "none" /\ told = "nothing"
  /\ pubErrors = 0 /\ pubDeaths = 0

CallFails == pubErrors < MaxPubErrors /\ pubErrors' = pubErrors + 1
CallWorks == UNCHANGED pubErrors

-----------------------------------------------------------------------------
(* Outcomes *)

ReportOutcome(status) ==
  /\ told' = status
  /\ pubStep' = "idle" /\ wanted' = "absent" /\ state' = "none"
  /\ UNCHANGED target

Succeed == ReportOutcome(IF wanted = "committed" THEN "restored" ELSE "rolled_back")

\* finishFailure: an unambiguous failure to commit rolls the targets back.
FailClean ==
  IF wanted = "committed"
  THEN /\ target' = "prior" /\ wanted' = "rolled_back" /\ pubStep' = "read"
       /\ state' = "none" /\ UNCHANGED told
  ELSE ReportOutcome("rollback_failed")

FailAmbiguous == ReportOutcome("rollback_failed")

-----------------------------------------------------------------------------
(* persistMarker *)

\* An identical record is reconciled, any other one is a conflict.
ReadExisting ==
  /\ pubStep = "read"
  /\ \/ /\ seen = "absent" /\ pubStep' = "link"
        /\ UNCHANGED <<target, wanted, state, told>> /\ CallWorks
     \/ /\ seen = wanted /\ state' = "ambiguous" /\ pubStep' = "check"
        /\ UNCHANGED <<target, wanted, told>> /\ CallWorks
     \/ /\ seen \notin {"absent", wanted} /\ FailClean /\ CallWorks
     \/ FailClean /\ CallFails
  /\ UNCHANGED <<platform, seen, disk, pubDeaths>>

\* Unix: os.Link.
LinkRecord ==
  /\ pubStep = "link" /\ platform = "unix"
  /\ \/ seen' = wanted /\ pubStep' = "sync" /\ UNCHANGED state /\ CallWorks
     \/ UNCHANGED seen /\ pubStep' = "check" /\ state' = "notDurable" /\ CallFails
  /\ UNCHANGED <<platform, target, disk, wanted, told, pubDeaths>>

\* Mutant: the directory is not synced.
SyncSkipped == UNCHANGED disk /\ CallWorks

SyncOk == disk' = seen /\ CallWorks
SyncFails == disk' \in {disk, seen} /\ CallFails

SyncRecord ==
  /\ pubStep = "sync"
  /\ \/ SyncOk /\ Succeed
     \/ SyncFails /\ pubStep' = "remove" /\ UNCHANGED <<target, wanted, state, told>>
  /\ UNCHANGED <<platform, seen, pubDeaths>>

RemoveRecord ==
  /\ pubStep = "remove"
  /\ \/ seen' = "absent" /\ CallWorks
     \/ UNCHANGED seen /\ CallFails
  /\ pubStep' = "removeSync"
  /\ UNCHANGED <<platform, target, disk, wanted, state, told, pubDeaths>>

\* Mutant: a removal is trusted without a sync.
TrustRemoval(synced) == "notDurable"

\* Only a removal that is itself on disk takes the publication back.
AfterRemove(synced) == IF seen = "absent" /\ synced THEN "notDurable" ELSE "ambiguous"

SyncRemoval ==
  /\ pubStep = "removeSync"
  /\ \/ SyncOk /\ state' = AfterRemove(TRUE)
     \/ SyncFails /\ state' = AfterRemove(FALSE)
  /\ pubStep' = "check"
  /\ UNCHANGED <<platform, target, seen, wanted, told, pubDeaths>>

\* Windows: MoveFileEx with write-through; any error is ambiguous.
MoveRecord ==
  /\ pubStep = "link" /\ platform = "windows"
  /\ \/ seen' = wanted /\ disk' = wanted /\ Succeed /\ CallWorks
     \/ /\ seen' \in {seen, wanted} /\ disk' \in {disk, wanted}
        /\ pubStep' = "check" /\ state' = "ambiguous"
        /\ UNCHANGED <<target, wanted, told>> /\ CallFails
  /\ UNCHANGED <<platform, pubDeaths>>

\* reconcileMarker: the first look at the destination.
CheckRecord ==
  /\ pubStep = "check"
  /\ \/ /\ seen = wanted /\ pubStep' = "reconcileSync"
        /\ UNCHANGED <<target, wanted, state, told>> /\ CallWorks
     \/ seen = "absent" /\ state = "notDurable" /\ FailClean /\ CallWorks
     \/ seen = "absent" /\ state = "ambiguous" /\ FailAmbiguous /\ CallWorks
     \/ FailAmbiguous /\ CallFails
  /\ UNCHANGED <<platform, seen, disk, pubDeaths>>

ReconcileRecord ==
  /\ pubStep = "reconcileSync"
  /\ \/ SyncOk /\ Succeed
     \/ SyncFails /\ FailAmbiguous
  /\ UNCHANGED <<platform, seen, pubDeaths>>

-----------------------------------------------------------------------------
(* The next process, the kernel and the power supply *)

\* scanPending and recoverOne: no record, so roll back and record that.
RecoverRecord ==
  /\ pubStep = "idle" /\ seen = "absent"
  /\ target' = "prior" /\ wanted' = "rolled_back" /\ pubStep' = "read" /\ told' = "nothing"
  /\ UNCHANGED <<platform, seen, disk, state, pubErrors, pubDeaths>>

WriteBack ==
  /\ disk # seen /\ disk' = seen
  /\ UNCHANGED <<platform, target, seen, pubStep, wanted, state, told, pubErrors, pubDeaths>>

PublisherDies(kind) ==
  /\ kind \in PubDeaths /\ pubDeaths < MaxPubDeaths
  /\ pubDeaths' = pubDeaths + 1
  /\ seen' = IF kind = "power" THEN disk ELSE seen
  /\ pubStep' = "idle" /\ wanted' = "absent" /\ state' = "none"
  /\ UNCHANGED <<platform, target, disk, told, pubErrors>>

PublicationNext ==
  \/ ReadExisting \/ LinkRecord \/ SyncRecord \/ RemoveRecord \/ SyncRemoval
  \/ MoveRecord \/ CheckRecord \/ ReconcileRecord
  \/ RecoverRecord \/ WriteBack \/ \E kind \in {"kill", "power"} : PublisherDies(kind)

PublicationSpec == PublicationInit /\ [][PublicationNext]_publication

-----------------------------------------------------------------------------
(* Properties *)

\* What the user was told stays true, whatever dies afterwards: a set reported
\* as restored or rolled back has that record, on disk as well.
ToldIsDurable ==
  told \in {"restored", "rolled_back"} /\ pubStep = "idle" =>
    LET record == IF told = "restored" THEN "committed" ELSE "rolled_back"
    IN  seen = record /\ disk = record

\* While the process that published lives, a rollback never runs behind a
\* committed record: targets are put back only when no such record is left,
\* neither seen nor on disk.
RollbackOnlyWithoutCommit ==
  [][target = "desired" /\ target' = "prior" /\ pubStep # "idle" =>
       seen' # "committed" /\ disk' # "committed"]_publication

\* The record that is seen describes the targets, unless power was lost: README,
\* Known divergences.
RecordMatchesTarget ==
  /\ seen = "committed" => target = "desired"
  /\ seen = "rolled_back" => target = "prior"

-----------------------------------------------------------------------------
(* The inductive strengthening of the properties above. *)

\* A publication in progress: what its steps have established so far.
PublicationKnown ==
  /\ pubStep # "idle" => wanted \in Records /\ told = "nothing"
  /\ pubStep \in {"sync", "reconcileSync"} => seen = wanted
  /\ told \in {"restored", "rolled_back"} => ToldIsDurable
  /\ pubStep = "check" => state \in {"notDurable", "ambiguous"}

\* Before the record is linked, and after a failure that is proven not to have
\* published it, no committed record is left.
NoCommitLeft ==
  /\ pubStep \in {"read", "link"} /\ wanted = "committed" => seen = "absent" /\ disk = "absent"
  /\ pubStep = "check" /\ wanted = "committed" /\ state = "notDurable" /\ seen = "absent"
       => disk = "absent"

\* The record being published describes the targets.
WantMatchesTarget ==
  pubStep # "idle" => target = IF wanted = "committed" THEN "desired" ELSE "prior"
=============================================================================
