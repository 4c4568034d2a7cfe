--------------------------- MODULE ProvisionState ---------------------------
(***************************************************************************)
(* What the package commands of endstate share: the packages on the host,  *)
(* the package managers, the store of provisioning generations             *)
(* (internal/provision) and the state of the one command that runs.        *)
(*                                                                         *)
(* A host is "driver" (Windows: winget and chocolatey, one package at a    *)
(* time) or "realizer" (Nix switches whole sets; Homebrew goes beside it). *)
(***************************************************************************)
EXTENDS Naturals, Sequences, FiniteSets

CONSTANTS
  Profiles,     \* manifests: [host, apps, home, outside]
  Extra,        \* packages in the first native generation of a realizer host
  Versions, Absent,
  ApplyFlags,   \* flags a user passes to apply
  Consents,     \* <<dry run, confirm, restore>> a user passes to rebuild and rollback
  MaxRuns, MaxErrors, MaxEdits, MaxCrashes   \* bounds

\* An app: [ref, driver, pin, manual]; driver is the lane that owns it and pin
\* a version, or Absent.
Apps == UNION {{p.apps[i] : i \in DOMAIN p.apps} : p \in Profiles}
Refs == {a.ref : a \in Apps} \cup Extra
Backends == {"winget", "chocolatey", "nix", "brew"}
Statuses == {"present", "to_install", "installed", "skipped", "failed"}

\* A command with its flags; to is the generation a rollback names, or 0.
Cmds == [kind : {"none", "apply", "rebuild", "rollback"}, dry : BOOLEAN, prune : BOOLEAN,
         repin : BOOLEAN, confirm : BOOLEAN, restore : BOOLEAN, consent : BOOLEAN, to : Nat]

ASSUME ProfilesAreTyped ==
  /\ MaxRuns \in Nat /\ MaxErrors \in Nat /\ MaxEdits \in Nat /\ MaxCrashes \in Nat
  /\ \A p \in Profiles : p.host \in {"driver", "realizer"} /\ p.home \in BOOLEAN
  /\ \A a \in Apps : /\ a.driver \in Backends /\ a.pin \in Versions \cup {Absent}
                     /\ a.manual \in BOOLEAN
  /\ Absent \notin Versions
  /\ \A f \in ApplyFlags : f \in Cmds /\ f.to = 0
  /\ Consents \subseteq BOOLEAN \X BOOLEAN \X BOOLEAN

VARIABLES
  profile,
  inst,         \* inst[r]: version a package manager reports for r, or Absent
  natives,      \* natives[n]: the set of Nix profile generation n
  active,       \* the active Nix generation, 0 when there is none
  homes, home,  \* home-manager generations made so far, and the active one
  avail,        \* package managers that work
  gens,         \* the provisioning generations, by number
  \* The command that runs
  pc, cmd, run,
  acts,         \* acts[i]: the action of app i
  idx,
  reg,          \* what the later phases of an apply need to know
  todo,         \* pairs <<backend, ref>> a rollback still has to uninstall
  gone, kept,   \* refs of the current group that went, and that did not
  errors, edits, crashes,
  \* What the properties remember
  told,         \* how the last command ended
  report,       \* refs the last verification found wrong, and those edited since
  fresh,        \* refs run r really added
  engine,       \* refs some apply brought onto the host
  setAt,        \* setAt[g]: the active Nix set when generation g was written
  lost          \* a generation could not be written

machine == <<inst, natives, active, homes, home, avail, gens>>
process == <<pc, cmd, run, acts, idx, reg, todo, gone, kept>>
ghosts == <<told, report, fresh, engine, setAt, lost>>
vars == <<profile, machine, process, errors, edits, crashes, ghosts>>

Err == errors < MaxErrors /\ errors' = errors + 1
Fine == UNCHANGED errors
NoCmd == [kind |-> "none", dry |-> FALSE, prune |-> FALSE, repin |-> FALSE, confirm |-> FALSE,
          restore |-> FALSE, consent |-> FALSE, to |-> 0]
NoReg == [install |-> 0, prune |-> 0, home |-> 0, removed |-> {}, lanes |-> {}, end |-> "ok"]

Idx == DOMAIN profile.apps
App(i) == profile.apps[i]
OnDriverHost == profile.host = "driver"

-----------------------------------------------------------------------------
(* The store of generations. *)

\* WriteTo: the next number is one past the highest; a failed write is
\* swallowed by every caller.
WriteTo(g) ==
  \/ /\ Fine /\ gens' = Append(gens, g)
     /\ setAt' = Append(setAt, IF active = 0 THEN {} ELSE natives[active])
     /\ UNCHANGED lost
  \/ /\ Err /\ lost' = TRUE /\ UNCHANGED <<gens, setAt>>

NoWrite == Fine /\ UNCHANGED <<gens, setAt, lost>>

\* ListFrom, newest first, without the generations rollbacks wrote.
NonRollback == {n \in DOMAIN gens : ~gens[n].rollback}

\* newestNonRollbackRun
NewestRun ==
  {n \in NonRollback : \E top \in NonRollback :
     (\A m \in NonRollback : m <= top) /\ gens[n].run = gens[top].run}

\* writeProvisioningGeneration: what the actions of one lane leave behind.
LaneActions(b) == {i \in Idx : App(i).driver = b /\ ~App(i).manual}
AddedRefs_CountsRepinned(b) == {App(i).ref : i \in {j \in LaneActions(b) : acts[j].status = "installed"}}
AddedRefs(b) ==
  {App(i).ref : i \in {j \in LaneActions(b) : acts[j].status = "installed" /\ ~acts[j].was}}
ChangedExisting(b) == \E i \in LaneActions(b) : acts[i].status = "installed" /\ acts[i].was
Partial(b) == \E i \in LaneActions(b) : acts[i].status = "failed" \/ acts[i].drift

WriteProvisioningGeneration(b, removed, native, hm) ==
  IF AddedRefs(b) = {} /\ removed = {} /\ hm = 0 /\ ~ChangedExisting(b)
  THEN NoWrite
  ELSE WriteTo([run |-> run, backend |-> b, added |-> AddedRefs(b), removed |-> removed,
                native |-> native, rollback |-> FALSE, home |-> hm, partial |-> Partial(b)])

-----------------------------------------------------------------------------
(* The package managers, as the drivers read their exit codes. *)

\* The Nix set that is active.
Current == IF active = 0 THEN {} ELSE natives[active]

\* A package manager reports the package, or the inventory of installed
\* programs does.
Detect(i) == inst[App(i).ref] # Absent
Observed(i) == Detect(i) \/ App(i).ref \in profile.outside
Drifted(i) == App(i).pin # Absent /\ inst[App(i).ref] \notin {Absent, App(i).pin}

\* The version an install leaves behind: Homebrew ignores a pin.
InstalledVersion(i) ==
  IF App(i).pin # Absent /\ App(i).driver # "brew" THEN {App(i).pin} ELSE Versions

\* winget install
WingetInstall(i, st) ==
  \/ Fine /\ Detect(i) /\ st = "present" /\ UNCHANGED inst
  \/ Fine /\ ~Detect(i) /\ st = "installed"
     /\ \E v \in InstalledVersion(i) : inst' = [inst EXCEPT ![App(i).ref] = v]
  \/ Err /\ st = "failed" /\ UNCHANGED inst

\* choco install: without a version it looks first, with one it does not.
ChocolateyInstall(i, st) ==
  \/ Fine /\ Detect(i) /\ App(i).pin = Absent /\ st = "present" /\ UNCHANGED inst
  \/ Fine /\ (Detect(i) => App(i).pin # Absent) /\ st = "installed"
     /\ \E v \in InstalledVersion(i) : inst' = [inst EXCEPT ![App(i).ref] = v]
  \/ Err /\ st = "failed" /\ UNCHANGED inst

\* brew install looks first.
BrewInstall(i, st) ==
  \/ Fine /\ Detect(i) /\ st = "present" /\ UNCHANGED inst
  \/ Fine /\ ~Detect(i) /\ st = "installed"
     /\ \E v \in InstalledVersion(i) : inst' = [inst EXCEPT ![App(i).ref] = v]
  \/ Err /\ st = "failed" /\ UNCHANGED inst

Install(i, st) ==
  CASE App(i).driver = "winget" -> WingetInstall(i, st)
    [] App(i).driver = "chocolatey" -> ChocolateyInstall(i, st)
    [] OTHER -> BrewInstall(i, st)

\* ReinstallVersion
Reinstall(i, st) ==
  \/ Fine /\ st = "installed" /\ inst' = [inst EXCEPT ![App(i).ref] = App(i).pin]
  \/ Err /\ st = "failed" /\ UNCHANGED inst

\* A package that is not there counts as removed.
WingetUninstall(r, st) ==
  \/ Fine /\ st = "removed" /\ inst' = [inst EXCEPT ![r] = Absent]
  \/ Err /\ st \in {"failed", "unavailable"} /\ UNCHANGED inst
ChocolateyUninstall(r, st) ==
  \/ Fine /\ st = "removed" /\ inst' = [inst EXCEPT ![r] = Absent]
  \/ Err /\ st \in {"failed", "unavailable"} /\ UNCHANGED inst
BrewUninstall(r, st) ==
  \/ Fine /\ st = "removed" /\ inst' = [inst EXCEPT ![r] = Absent]
  \/ Err /\ st \in {"failed", "unavailable"} /\ UNCHANGED inst
Uninstall(b, r, st) ==
  CASE b = "winget" -> WingetUninstall(r, st)
    [] b = "chocolatey" -> ChocolateyUninstall(r, st)
    [] OTHER -> BrewUninstall(r, st)

\* nix profile add and remove make a new generation, numbered past all others.
Switch(s) == natives' = Append(natives, s) /\ active' = Len(natives) + 1

-----------------------------------------------------------------------------
(* How a command ends. *)

\* The session leaves nothing in memory.
Forget == /\ pc' = "idle" /\ cmd' = NoCmd /\ acts' = <<>> /\ idx' = 0 /\ reg' = NoReg
          /\ todo' = {} /\ gone' = {} /\ kept' = {} /\ UNCHANGED run
Return(end) == Forget /\ told' = end
=============================================================================
