---------------------------- MODULE PackageApply ----------------------------
(***************************************************************************)
(* The apply command (commands/apply.go, apply_driver_lanes.go,            *)
(* apply_realizer.go, apply_brew.go, apply_brew_only.go).                  *)
(*                                                                         *)
(* Both kinds of host go through the same phases: bootstrap of package     *)
(* managers, plan, install, configuration restore, verify, record.  The    *)
(* configuration restore in the middle is the ConfigTransaction module's   *)
(* matter: here it succeeds or fails.                                      *)
(***************************************************************************)
EXTENDS ProvisionState

\* Lanes of the manifest.
PackageLanes == {App(i).driver : i \in {j \in Idx : ~App(j).manual}}

\* Lanes of this host that need a package manager endstate can install.
NeededBackends ==
  PackageLanes \cap (IF OnDriverHost THEN {"chocolatey"} ELSE {"nix", "brew"})

\* The home-manager stage needs Nix even without packages.
ConfigStageApplies == cmd.restore /\ profile.home

\* partitionRealizerLanes, and the drivers a Windows host can construct.
Supported(b) == b \in IF OnDriverHost THEN {"winget", "chocolatey"} ELSE {"nix", "brew"}
LaneUp(b) == Supported(b) /\ (b = "winget" \/ b \in avail)

NewAction(st) == [status |-> st, was |-> FALSE, drift |-> FALSE]

\* RunApply up to the lanes.
StartApply(flags) ==
  /\ pc = "idle" /\ run < MaxRuns /\ run' = run + 1
  /\ cmd' = [flags EXCEPT !.kind = "apply"]
  /\ IF flags.prune /\ OnDriverHost
     THEN pc' = "refuse" ELSE pc' = "bootstrap"
  /\ acts' = <<>> /\ idx' = 0 /\ reg' = NoReg /\ todo' = {} /\ gone' = {} /\ kept' = {}
  /\ told' = "running" /\ report' = {}
  /\ UNCHANGED <<profile, machine, errors, edits, crashes, fresh, engine, setAt, lost>>

\* RunRebuild: the gate, then an apply of the bundle's manifest.
StartRebuild(dry, restore, confirm) ==
  /\ pc = "idle" /\ run < MaxRuns /\ run' = run + 1
  /\ cmd' = [NoCmd EXCEPT !.kind = "rebuild", !.dry = dry, !.restore = restore, !.confirm = confirm]
  /\ pc' = IF ~dry /\ restore /\ ~confirm THEN "refuse" ELSE "bootstrap"
  /\ acts' = <<>> /\ idx' = 0 /\ reg' = NoReg /\ todo' = {} /\ gone' = {} /\ kept' = {}
  /\ told' = "running" /\ report' = {}
  /\ UNCHANGED <<profile, machine, errors, edits, crashes, fresh, engine, setAt, lost>>

\* Convergence is refused where packages are installed one by one, a rebuild
\* without confirmation where it would restore.
Refuse ==
  /\ pc = "refuse" /\ Return("error")
  /\ UNCHANGED <<profile, machine, errors, edits, crashes, report, fresh, engine, setAt, lost>>

\* Only a mutating command with consent installs a package manager.
MayBootstrap == ~cmd.dry /\ cmd.consent

\* realEnsureBackends: each package manager that is absent on its own.
EnsureBackends ==
  /\ pc = "bootstrap"
  /\ LET absent == (NeededBackends \cup (IF ConfigStageApplies /\ ~OnDriverHost THEN {"nix"} ELSE {})) \ avail
     IN  \/ (~MayBootstrap \/ absent = {}) /\ Fine /\ UNCHANGED avail
         \/ MayBootstrap /\ absent # {} /\ Fine /\ avail' = avail \cup absent
         \/ MayBootstrap /\ absent # {} /\ Err /\ \E b \in absent : avail' = avail \cup (absent \ {b})
  /\ pc' = "plan"
  /\ UNCHANGED <<profile, inst, natives, active, homes, home, gens, edits, crashes, ghosts>>
  /\ UNCHANGED <<cmd, run, acts, idx, reg, todo, gone, kept>>

-----------------------------------------------------------------------------
(* Plan. *)

PlanManual(i) == NewAction(IF Detect(i) THEN "present" ELSE "to_install")

\* A chocolatey that consent did not bring up has failed; any other lane that
\* is down is skipped.
PlanDown(b) == NewAction(IF b = "chocolatey" /\ Supported(b) /\ cmd.consent /\ ~cmd.dry
                         THEN "failed" ELSE "skipped")

PlanDriverApp(i, broken) ==
  IF App(i).driver \in broken THEN NewAction("failed")
  ELSE [NewAction(IF Observed(i) THEN "present" ELSE "to_install")
          EXCEPT !.was = cmd.repin /\ Drifted(i)]

\* The plan of a driver host and of the brew lane; a lane whose detection
\* fails fails every app of it, brew treats what it cannot read as missing.
PlanApp(i, broken) ==
  CASE App(i).manual -> PlanManual(i)
    [] ~App(i).manual /\ ~LaneUp(App(i).driver) -> PlanDown(App(i).driver)
    [] ~App(i).manual /\ LaneUp(App(i).driver) /\ App(i).driver = "nix" ->
         NewAction(IF App(i).ref \in Current THEN "present" ELSE "to_install")
    [] ~App(i).manual /\ LaneUp(App(i).driver) /\ App(i).driver = "brew" ->
         NewAction(IF Detect(i) /\ "brew" \notin broken THEN "present" ELSE "to_install")
    [] OTHER -> PlanDriverApp(i, broken)

\* Reads every lane, prepares the configuration restore, and ends a dry run,
\* which previews the restore, the prune set and the home-manager flake.
Plan ==
  /\ pc = "plan"
  /\ \/ /\ \/ Fine /\ acts' = [i \in Idx |-> PlanApp(i, {})]
           \/ Err /\ \E b \in PackageLanes \ {"nix"} : acts' = [i \in Idx |-> PlanApp(i, {b})]
        /\ ~cmd.dry /\ pc' = IF OnDriverHost \/ "nix" \notin avail THEN "install" ELSE "realize"
        /\ idx' = 1 /\ UNCHANGED <<cmd, run, reg, todo, gone, kept, told>>
     \/ /\ cmd.dry /\ Fine /\ Return("ok")
     \/ /\ Err /\ Return("error")
  /\ UNCHANGED <<profile, machine, edits, crashes, report, fresh, engine, setAt, lost>>

-----------------------------------------------------------------------------
(* The realizer: one switch for all packages that are missing, then one for *)
(* those that are not declared.                                            *)

ToAdd == {i \in Idx : App(i).driver = "nix" /\ ~App(i).manual /\ acts[i].status = "to_install"}
AddRefs == {App(i).ref : i \in ToAdd}
Desired == {App(i).ref : i \in {j \in Idx : App(j).driver = "nix" /\ ~App(j).manual}}

SetStatus(S, st) == [i \in Idx |-> IF i \in S THEN [acts[i] EXCEPT !.status = st] ELSE acts[i]]

Realize ==
  /\ pc = "realize"
  /\ \/ /\ Fine /\ ToAdd = {} /\ pc' = "prune"
        /\ UNCHANGED <<natives, active, cmd, acts, idx, reg, todo, gone, kept, run, told, fresh, engine>>
     \/ /\ Fine /\ ToAdd # {} /\ pc' = "prune"
        /\ Switch(Current \cup AddRefs)
        /\ acts' = SetStatus(ToAdd, "installed") /\ reg' = [reg EXCEPT !.install = active']
        /\ fresh' = [fresh EXCEPT ![run] = @ \cup AddRefs] /\ engine' = engine \cup AddRefs
        /\ UNCHANGED <<cmd, run, idx, todo, gone, kept, told>>
     \/ /\ Err /\ ToAdd # {} /\ pc' = "prune"           \* atomic: nothing was installed
        /\ acts' = SetStatus(ToAdd, "failed")
        /\ UNCHANGED <<natives, active, cmd, run, idx, reg, todo, gone, kept, told, fresh, engine>>
     \/ /\ Err /\ ToAdd # {} /\ Return("error")         \* the realizer itself is down
        /\ UNCHANGED <<natives, active, fresh, engine>>
  /\ UNCHANGED <<profile, inst, homes, home, avail, gens, edits, crashes, report, setAt, lost>>

ComputeDrift == Current \ Desired

Prune ==
  /\ pc = "prune"
  /\ \/ /\ ~cmd.prune \/ (cmd.confirm /\ ComputeDrift = {})
        /\ Fine /\ pc' = "install"
        /\ UNCHANGED <<natives, active, cmd, run, acts, idx, reg, todo, gone, kept, told>>
     \/ /\ cmd.prune /\ ~cmd.confirm /\ Fine /\ Return("error") /\ UNCHANGED <<natives, active>>
     \/ /\ cmd.prune /\ cmd.confirm /\ ComputeDrift # {} /\ Fine /\ pc' = "install"
        /\ Switch(Current \ ComputeDrift)
        /\ reg' = [reg EXCEPT !.prune = active', !.removed = ComputeDrift]
        /\ UNCHANGED <<cmd, run, acts, idx, todo, gone, kept, told>>
     \/ /\ cmd.prune /\ cmd.confirm /\ ComputeDrift # {} /\ Err /\ Return("error")
        /\ UNCHANGED <<natives, active>>
  /\ UNCHANGED <<profile, inst, homes, home, avail, gens, edits, crashes, report, fresh, engine, setAt, lost>>

-----------------------------------------------------------------------------
(* The apply loop over the apps of the package drivers and of brew. *)

InstallOne == pc = "install" /\ idx \in Idx
NextApp(a) == acts' = [acts EXCEPT ![idx] = a] /\ idx' = idx + 1
AppUnchanged == UNCHANGED <<profile, natives, active, homes, home, avail, gens, pc, cmd, run, reg,
                            todo, gone, kept, edits, crashes, told, report, setAt, lost>>

\* A manual app is the user's to install; present, skipped and failed
\* entries stay what they are, and so does a drifted one without --confirm.
PassOver ==
  /\ InstallOne /\ Fine
  /\ LET a == App(idx) st == acts[idx].status IN
     \/ a.manual /\ NextApp(NewAction(IF st = "present" THEN st ELSE "skipped"))
     \/ /\ ~a.manual /\ \/ st \in {"skipped", "failed", "installed"} \/ a.driver = "nix"
                        \/ st = "present" /\ ~(acts[idx].was /\ cmd.confirm)
        /\ NextApp(acts[idx])
  /\ UNCHANGED <<inst, fresh, engine>> /\ AppUnchanged

ReinstallDrifted ==
  /\ InstallOne /\ ~App(idx).manual
  /\ acts[idx].status = "present" /\ acts[idx].was /\ cmd.confirm
  /\ \E st \in {"installed", "failed"} :
       Reinstall(idx, st) /\ NextApp([NewAction(st) EXCEPT !.was = TRUE])
  /\ UNCHANGED <<fresh, engine>> /\ AppUnchanged

InstallMissing ==
  /\ InstallOne /\ ~App(idx).manual /\ App(idx).driver # "nix"
  /\ acts[idx].status = "to_install"
  /\ \E st \in {"installed", "present", "failed"} : Install(idx, st) /\ NextApp(NewAction(st))
  /\ LET r == App(idx).ref
         new == IF inst[r] = Absent /\ inst'[r] # Absent THEN {r} ELSE {}
     IN  fresh' = [fresh EXCEPT ![run] = @ \cup new] /\ engine' = engine \cup new
  /\ AppUnchanged

-----------------------------------------------------------------------------
(* Configuration, verification, home-manager and the record. *)

\* --repin without --confirm ends the command here.
AfterInstall ==
  /\ pc = "install" /\ idx \notin Idx /\ Fine
  /\ IF OnDriverHost /\ cmd.repin /\ ~cmd.confirm
     THEN Return("error")
     ELSE pc' = "config" /\ UNCHANGED <<cmd, run, acts, idx, reg, todo, gone, kept, told>>
  /\ UNCHANGED <<profile, machine, edits, crashes, report, fresh, engine, setAt, lost>>

\* A failed restore of the configuration still records the packages.
ConfigRestore ==
  /\ pc = "config"
  /\ \/ Fine /\ pc' = "verify" /\ UNCHANGED reg
     \/ Err /\ pc' = "record" /\ reg' = [reg EXCEPT !.end = "error", !.lanes = PackageLanes]
  /\ UNCHANGED <<profile, machine, edits, crashes, ghosts, cmd, run, acts, idx, todo, gone, kept>>

\* What the verify phase of an apply finds wrong; it knows no version of a
\* brew package.
VerifyFails(i) ==
  CASE App(i).manual -> ~Detect(i)
    [] ~App(i).manual /\ ~LaneUp(App(i).driver) ->
         Supported(App(i).driver) /\ App(i).driver = "chocolatey" /\ cmd.consent
    [] ~App(i).manual /\ LaneUp(App(i).driver) /\ App(i).driver = "nix" -> App(i).ref \notin Current
    [] ~App(i).manual /\ LaneUp(App(i).driver) /\ App(i).driver = "brew" -> ~Detect(i)
    [] OTHER -> ~Observed(i) \/ Drifted(i)

Verify ==
  /\ pc = "verify"
  /\ \/ Fine /\ report' = {App(i).ref : i \in {j \in Idx : VerifyFails(j)}}
     \/ Err /\ \E b \in PackageLanes :
          report' = {App(i).ref : i \in {j \in Idx : VerifyFails(j) \/ (App(j).driver = b /\ ~App(j).manual)}}
  /\ acts' = [i \in Idx |-> [acts[i] EXCEPT !.drift =
       OnDriverHost /\ ~App(i).manual /\ LaneUp(App(i).driver) /\ Drifted(i)]]
  /\ pc' = "home"
  /\ UNCHANGED <<profile, machine, cmd, run, idx, reg, todo, gone, kept, edits, crashes,
                 told, fresh, engine, setAt, lost>>

\* A failing activation ends the command at once.
ActivateHome ==
  /\ pc = "home"
  /\ \/ /\ OnDriverHost \/ "nix" \notin avail \/ ~ConfigStageApplies
        /\ Fine /\ pc' = "record" /\ reg' = [reg EXCEPT !.lanes = PackageLanes]
        /\ UNCHANGED <<homes, home, cmd, run, acts, idx, todo, gone, kept, told>>
     \/ /\ ~OnDriverHost /\ "nix" \in avail /\ ConfigStageApplies
        /\ Fine /\ pc' = "record" /\ homes' = homes + 1 /\ home' = homes + 1
        /\ reg' = [reg EXCEPT !.lanes = PackageLanes \cup {"nix"}, !.home = homes + 1]
        /\ UNCHANGED <<cmd, run, acts, idx, todo, gone, kept, told>>
     \/ /\ ~OnDriverHost /\ "nix" \in avail /\ ConfigStageApplies
        /\ Err /\ Return("error") /\ UNCHANGED <<homes, home>>
  /\ UNCHANGED <<profile, inst, natives, active, avail, gens, edits, crashes, report, fresh, engine, setAt, lost>>

\* The generation anchors at the last switch of the run.
FinalNative_FirstSwitch == IF reg.install # 0 THEN reg.install ELSE reg.prune
FinalNative == IF reg.prune # 0 THEN reg.prune ELSE reg.install

\* One generation per lane that changed something, Nix before brew.
RecordLane(b) ==
  /\ pc = "record" /\ b \in reg.lanes /\ (b = "brew" => "nix" \notin reg.lanes)
  /\ reg' = [reg EXCEPT !.lanes = @ \ {b}]
  /\ IF b # "nix" THEN WriteProvisioningGeneration(b, {}, 0, 0)
     ELSE IF FinalNative = 0 /\ reg.home = 0 THEN NoWrite
     ELSE WriteProvisioningGeneration(b, reg.removed, FinalNative, reg.home)
  /\ UNCHANGED <<profile, inst, natives, active, homes, home, avail, edits, crashes, told, report, fresh, engine>>
  /\ UNCHANGED <<pc, cmd, run, acts, idx, todo, gone, kept>>

\* verify on a driver host, and on a realizer host; both read the host afresh.
DriverVerifyFails(i) ==
  IF App(i).manual THEN ~Detect(i)
  ELSE LaneUp(App(i).driver) /\ (~Observed(i) \/ Drifted(i))

\* The brew lane of verify compares versions, unlike the one of apply.
BrewVerifyFails(i) == LaneUp("brew") /\ (~Detect(i) \/ Drifted(i))
RealizerVerifyFails(i) ==
  CASE App(i).manual -> ~Detect(i)
    [] ~App(i).manual /\ App(i).driver = "nix" -> App(i).ref \notin Current
    [] ~App(i).manual /\ App(i).driver = "brew" -> BrewVerifyFails(i)
    [] OTHER -> FALSE

VerifyReport ==
  IF OnDriverHost THEN {App(i).ref : i \in {j \in Idx : DriverVerifyFails(j)}}
  ELSE {App(i).ref : i \in {j \in Idx : RealizerVerifyFails(j)}}

\* A rebuild ends with the verify command, whose findings do not fail it.
FinishApply ==
  /\ pc = "record" /\ reg.lanes = {} /\ Fine /\ Return(reg.end)
  /\ report' = IF cmd.kind = "rebuild" /\ reg.end = "ok" THEN VerifyReport ELSE report
  /\ UNCHANGED <<profile, machine, edits, crashes, fresh, engine, setAt, lost>>

ApplyNext ==
  \/ \E f \in ApplyFlags : StartApply(f)
  \/ \E c \in Consents : StartRebuild(c[1], c[3], c[2])
  \/ Refuse \/ EnsureBackends \/ Plan \/ Realize \/ Prune
  \/ PassOver \/ ReinstallDrifted \/ InstallMissing \/ AfterInstall
  \/ ConfigRestore \/ Verify \/ ActivateHome
  \/ \E b \in Backends : RecordLane(b)
  \/ FinishApply
=============================================================================
