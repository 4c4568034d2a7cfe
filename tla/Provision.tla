----------------------------- MODULE Provision -----------------------------
(***************************************************************************)
(* The package side of endstate as a whole: apply, rollback, plan, verify  *)
(* and rebuild on one host, the user who installs and removes packages     *)
(* with the package managers, and the death of a command.                  *)
(***************************************************************************)
EXTENDS PackageApply, PackageRollback

Init ==
  /\ profile \in Profiles
  /\ inst = [r \in Refs |-> Absent]
  /\ \/ profile.host = "driver" /\ natives = <<>> /\ active = 0
     \/ profile.host = "realizer" /\ natives = <<Extra>> /\ active = 1
  /\ homes = 0 /\ home = 0
  /\ avail \in {Backends, Backends \ {"chocolatey", "brew"}}
  /\ gens = <<>> /\ pc = "idle" /\ cmd = NoCmd /\ run = 0 /\ acts = <<>> /\ idx = 0
  /\ reg = NoReg /\ todo = {} /\ gone = {} /\ kept = {}
  /\ errors = 0 /\ edits = 0 /\ crashes = 0
  /\ told = "none" /\ report = {} /\ fresh = [r \in 1..MaxRuns |-> {}] /\ engine = {}
  /\ setAt = <<>> /\ lost = FALSE

-----------------------------------------------------------------------------
(* What the read-only commands report. *)

\* checkHomeManagerGeneration: the active generation is the newest recorded.
RecordedHome ==
  LET H == {n \in DOMAIN gens : gens[n].home # 0}
  IN  IF H = {} THEN 0 ELSE gens[CHOOSE n \in H : \A m \in H : m <= n].home

\* Mutant: the inventory of programs installed outside the managers is not read.
ComputeLanePlan_NoInventory(i) == IF Detect(i) THEN "none" ELSE "install"

\* What plan would install, by the planner's own reading of the lanes.
ComputeLanePlan(i) ==                     \* planner.ComputePlan and the inventory
  IF Detect(i) THEN "none" ELSE IF App(i).ref \in profile.outside THEN "none" ELSE "install"
ComputeDriverLanePlan(i) ==
  CASE App(i).manual -> IF Detect(i) THEN "skip" ELSE "install"
    [] ~App(i).manual /\ ~LaneUp(App(i).driver) -> "skip"
    [] OTHER -> ComputeLanePlan(i)
PlanBrewLane(i) == IF ~LaneUp("brew") THEN "skip" ELSE IF Detect(i) THEN "none" ELSE "install"
PlanRealizerApp(i) ==
  CASE App(i).manual -> "skip"
    [] ~App(i).manual /\ App(i).driver = "nix" -> IF App(i).ref \in Current THEN "none" ELSE "install"
    [] ~App(i).manual /\ App(i).driver = "brew" -> PlanBrewLane(i)
    [] OTHER -> "skip"
RunPlan(i) == IF OnDriverHost THEN ComputeDriverLanePlan(i) ELSE PlanRealizerApp(i)

-----------------------------------------------------------------------------
(* Surroundings. *)

\* The user installs, upgrades or removes a package with its manager, at any time.
UserEdit(i) ==
  /\ edits < MaxEdits /\ edits' = edits + 1 /\ App(i).driver # "nix"
  /\ \E v \in Versions \cup {Absent} : v # inst[App(i).ref] /\ inst' = [inst EXCEPT ![App(i).ref] = v]
  /\ report' = report \cup {App(i).ref}
  /\ UNCHANGED <<profile, natives, active, homes, home, avail, gens, process, errors, crashes,
                 told, fresh, engine, setAt, lost>>

\* The command dies; packages and generations stay.
Crash ==
  /\ pc # "idle" /\ crashes < MaxCrashes /\ crashes' = crashes + 1 /\ Return("died")
  /\ UNCHANGED <<profile, machine, errors, edits, report, fresh, engine, setAt, lost>>

Next == ApplyNext \/ RollbackNext \/ (\E i \in Idx : UserEdit(i)) \/ Crash

Spec == Init /\ [][Next]_vars

-----------------------------------------------------------------------------
(* Properties. *)

\* Every variable has its type: statuses, versions, generation numbers and
\* anchors stay in range through applies, rollbacks, edits and deaths.
TypeOK ==
  /\ profile \in Profiles /\ inst \in [Refs -> Versions \cup {Absent}]
  /\ \A n \in DOMAIN natives : natives[n] \subseteq Refs
  /\ active \in 0..Len(natives) /\ home \in 0..homes /\ avail \subseteq Backends
  /\ \A n \in DOMAIN gens : /\ gens[n].backend \in Backends /\ gens[n].run \in 1..run
                            /\ gens[n].added \subseteq Refs /\ gens[n].removed \subseteq Refs
                            /\ gens[n].native \in 0..Len(natives) /\ gens[n].home \in 0..homes
  /\ run \in 0..MaxRuns /\ Len(setAt) = Len(gens)
  /\ acts # <<>> => DOMAIN acts = Idx /\ \A i \in Idx : acts[i].status \in Statuses
  /\ todo \subseteq Backends \X Refs /\ gone \subseteq Refs /\ kept \subseteq Refs

\* The packages chocolatey is told to install at a version: it does not look
\* whether they are there, and reports them as installed either way.
PinnedChocolatey ==
  {App(i).ref : i \in {j \in Idx : ~App(j).manual /\ App(j).driver = "chocolatey" /\ App(j).pin # Absent}}

\* A rollback uninstalls only packages some apply brought onto the host: one
\* that was there before, that a repin reinstalled at another version, or that
\* the user installed while the apply was running, is not uninstalled.  The
\* exception is a chocolatey package with a pin.
RollbackKeepsForeign ==
  [][cmd.kind = "rollback" /\ edits' = edits =>
       \A r \in Refs : inst[r] # Absent /\ inst'[r] = Absent => r \in engine \cup PinnedChocolatey]_vars

\* The same without the exception.  The code does not have this property:
\* README, Known divergences.
RollbackKeepsAllForeign ==
  [][cmd.kind = "rollback" /\ edits' = edits =>
       \A r \in Refs : inst[r] # Absent /\ inst'[r] = Absent => r \in engine]_vars

\* A rollback to generation g activates exactly the Nix set that was active
\* when g was recorded, whatever was installed, pruned or rolled back since.
RollbackReachesTarget ==
  [][active' # active /\ cmd.kind = "rollback" /\ cmd.to # 0 => natives'[active'] = setAt[cmd.to]]_vars

\* The plan command announces an installation exactly where an apply would
\* attempt one; manual apps of a realizer host are left out of the plan.  The
\* two are separate code (ComputePlan and runPlanRealizer; the planning of apply).
PlanAgreesWithApply ==
  pc = "idle" => \A i \in Idx :
     (OnDriverHost \/ ~App(i).manual) /\ ("nix" \in avail \/ App(i).driver # "nix") =>
       (RunPlan(i) = "install" <=> PlanApp(i, {}).status = "to_install")

\* Whatever applies and rollbacks did, the active home-manager generation is
\* the one the newest record names, which is what verify compares; a death
\* between activation and record, or a record that cannot be written, is the
\* exception.
HomeRecordIsActive == (pc = "idle" /\ crashes = 0 /\ ~lost) => home = RecordedHome

\* A package an apply brought onto the host is in a generation of that run
\* once the command has returned, however it ended.  The code does not have this
\* property: README, Known divergences.
InstalledIsRecorded ==
  (pc = "idle" /\ told \in {"ok", "error"} /\ run # 0 /\ ~lost) =>
     \A r \in fresh[run] : \E n \in DOMAIN gens : gens[n].run = run /\ r \in gens[n].added
=============================================================================
