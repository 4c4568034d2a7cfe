--------------------------- MODULE ProvisionProofs ---------------------------
(***************************************************************************)
(* Apply, rollback and plan, for any profiles, package versions and        *)
(* bounds: the types, that the plan announces what an apply would install, *)
(* that a rollback uninstalls only what an apply brought, that it reaches  *)
(* the Nix set its target was recorded with, and that the newest record of *)
(* a home-manager generation names the active one.                         *)
(***************************************************************************)
EXTENDS Provision, SequenceTheorems, WellFoundedInduction, TLAPS

-----------------------------------------------------------------------------
(* The inductive invariant *)

Gens == [run : Nat, backend : Backends, added : SUBSET Refs, removed : SUBSET Refs, native : Nat,
         rollback : BOOLEAN, home : Nat, partial : BOOLEAN]
Regs == [install : Nat, prune : Nat, home : Nat, removed : SUBSET Refs, lanes : SUBSET Backends,
         end : {"ok", "error"}]
Actions == [status : Statuses, was : BOOLEAN, drift : BOOLEAN]

\* Where an apply and a rollback may be; an apply has its actions from the plan on.
Planning == {"refuse", "bootstrap", "plan"}
Applying == {"realize", "prune", "install", "config", "verify", "home", "record"}
Rolling == {"select", "native", "rehome", "rerecord", "uninstall"}

\* The host.
HostOK ==
  /\ profile \in Profiles /\ inst \in [Refs -> Versions \cup {Absent}]
  /\ natives \in Seq(SUBSET Refs) /\ active \in 0..Len(natives)
  /\ homes \in Nat /\ home \in 0..homes /\ avail \subseteq Backends
  /\ engine \subseteq Refs /\ edits \in Nat /\ crashes \in Nat /\ lost \in BOOLEAN

\* The store of generations.
StoreOK ==
  /\ gens \in Seq(Gens) /\ setAt \in Seq(SUBSET Refs) /\ Len(setAt) = Len(gens)
  /\ \A n \in 1..Len(gens) : /\ gens[n].run \in 1..run /\ gens[n].native <= Len(natives)
                             /\ gens[n].home <= homes

\* The command that runs: where it is, what it remembers, its actions and lists.
PhaseOK ==
  /\ pc \in {"idle"} \cup Planning \cup Applying \cup Rolling
  /\ cmd \in Cmds /\ cmd.to <= Len(gens) /\ run \in 0..MaxRuns
  /\ cmd.kind = "rollback" <=> pc \in Rolling
  /\ pc # "idle" => run # 0
RegOK ==
  reg \in Regs /\ reg.install <= Len(natives) /\ reg.prune <= Len(natives) /\ reg.home <= homes
ActsOK ==
  /\ acts = <<>> \/ acts \in [Idx -> Actions]
  /\ pc \in Applying => acts \in [Idx -> Actions]
ListsOK == todo \subseteq Backends \X Refs /\ gone \subseteq Refs /\ kept \subseteq Refs

Types == HostOK /\ StoreOK /\ PhaseOK /\ RegOK /\ ActsOK /\ ListsOK

\* What an apply brought onto the host, or reports so of a pinned chocolatey package.
Brought == engine \cup PinnedChocolatey

\* An action that ends as installed of a package that was not there has brought it.
InstalledIsBrought ==
  pc \in Applying =>
    \A i \in Idx : acts[i].status = "installed" /\ ~acts[i].was /\ ~App(i).manual
                   => App(i).ref \in Brought

\* So has one that a generation lists, or that a rollback is about to uninstall.
RecordedIsBrought ==
  /\ \A n \in 1..Len(gens) : gens[n].added \subseteq Brought
  /\ \A x \in todo : x[2] \in Brought

\* The last switch of the run that goes on made the active generation; before
\* the realizer's turn there was none.
SwitchedIsActive ==
  /\ pc \in Planning \cup {"realize"} => reg.install = 0 /\ reg.prune = 0
  /\ pc \in Applying => /\ reg.prune # 0 => reg.prune = active
                        /\ reg.prune = 0 /\ reg.install # 0 => reg.install = active

\* A generation that anchors at a Nix generation anchors at the set active then.
AnchorIsSet == \A n \in 1..Len(gens) : gens[n].native # 0 => natives[gens[n].native] = setAt[n]

\* Activated, and about to be recorded.
HomeUnrecorded ==
  /\ reg.home # 0
  /\ \/ pc = "record" /\ "nix" \in reg.lanes
     \/ pc = "rerecord"

\* The active home-manager generation is the newest recorded, or about to be.
HomeIsTracked ==
  /\ pc \in Planning \cup (Applying \ {"record"}) \cup {"native", "rehome"} => reg.home = 0
  /\ crashes = 0 /\ ~lost => home = IF HomeUnrecorded THEN reg.home ELSE RecordedHome

-----------------------------------------------------------------------------
(* What the operators of the model return *)

\* An app of the profile is an app of the manifests, and its fields are typed.
LEMMA AppTyped ==
  ASSUME profile \in Profiles, NEW i \in Idx
  PROVE  /\ App(i).ref \in Refs /\ App(i).driver \in Backends /\ App(i).manual \in BOOLEAN
         /\ App(i).pin \in Versions \cup {Absent}
<1>1. App(i) \in Apps
  BY DEF App, Apps, Idx
<1> QED
  BY <1>1, ProfilesAreTyped DEF Refs

\* The version an install leaves behind is a version.
LEMMA InstalledVersionTyped ==
  ASSUME profile \in Profiles, NEW i \in Idx
  PROVE  InstalledVersion(i) \subseteq Versions
BY AppTyped DEF InstalledVersion

\* The active set is a set of packages.
LEMMA CurrentTyped == HostOK => Current \subseteq Refs
<1> SUFFICES ASSUME HostOK PROVE Current \subseteq Refs
  OBVIOUS
<1>1. CASE active = 0
  BY <1>1 DEF Current
<1>2. CASE active # 0
  <2>1. active \in 1..Len(natives) /\ natives \in Seq(SUBSET Refs)
    BY <1>2 DEF HostOK
  <2>2. natives[active] \in SUBSET Refs
    BY <2>1
  <2> QED
    BY <1>2, <2>2 DEF Current
<1> QED
  BY <1>1, <1>2

\* A switch makes a new active generation and leaves the others alone.
LEMMA SwitchAppends ==
  ASSUME HostOK, NEW s \in SUBSET Refs, Switch(s)
  PROVE  /\ natives' \in Seq(SUBSET Refs) /\ Len(natives) \in Nat /\ Len(natives') = Len(natives) + 1
         /\ active' = Len(natives') /\ natives'[active'] = s
         /\ \A n \in 1..Len(natives) : natives'[n] = natives[n]
<1>1. natives \in Seq(SUBSET Refs) /\ Len(natives) \in Nat
  BY DEF HostOK
<1> QED
  BY <1>1 DEF Switch

\* A generation that is typed keeps the store typed, written or lost.
LEMMA WriteKeepsStore ==
  ASSUME HostOK, StoreOK, run \in Nat, NEW g \in Gens, g.run \in 1..run, g.native <= Len(natives), g.home <= homes,
         WriteTo(g), UNCHANGED <<natives, homes, run>>
  PROVE  StoreOK' /\ lost' \in BOOLEAN /\ Len(gens) \in Nat /\ Len(gens') \in Nat /\ Len(gens) <= Len(gens')
<1>1. Len(gens) \in Nat /\ gens \in Seq(Gens) /\ setAt \in Seq(SUBSET Refs) /\ Len(setAt) = Len(gens)
  BY DEF StoreOK
<1>2. CASE gens' = Append(gens, g) /\ setAt' = Append(setAt, Current) /\ UNCHANGED lost
  <2>1. gens' \in Seq(Gens) /\ Len(gens') = Len(gens) + 1 /\ gens'[Len(gens) + 1] = g
        /\ \A n \in 1..Len(gens) : gens'[n] = gens[n]
    BY <1>1, <1>2
  <2>2. setAt' \in Seq(SUBSET Refs) /\ Len(setAt') = Len(gens) + 1
    BY <1>1, <1>2, CurrentTyped
  <2>3. ASSUME NEW n \in 1..Len(gens')
        PROVE  gens'[n].run \in 1..run /\ gens'[n].native <= Len(natives) /\ gens'[n].home <= homes
    <3>1. CASE n = Len(gens) + 1
      BY <3>1, <2>1
    <3>2. CASE n \in 1..Len(gens)
      BY <3>2, <2>1 DEF StoreOK
    <3> QED
      BY <3>1, <3>2, <2>1, <1>1
  <2> QED
    BY <1>1, <1>2, <2>1, <2>2, <2>3 DEF StoreOK, HostOK
<1>3. CASE lost' = TRUE /\ UNCHANGED <<gens, setAt>>
  BY <1>1, <1>3 DEF StoreOK
<1> QED
  BY <1>2, <1>3 DEF WriteTo, Current

\* New Nix and home-manager generations do not disturb the store.
LEMMA StoreOutlivesSwitch ==
  ASSUME StoreOK, UNCHANGED <<gens, setAt, run>>, Len(natives) \in Nat, Len(natives') \in Nat,
         homes \in Nat, homes' \in Nat, Len(natives) <= Len(natives'), homes <= homes'
  PROVE  StoreOK'
<1>1. ASSUME NEW n \in 1..Len(gens)
      PROVE  gens[n].run \in 1..run /\ gens[n].native <= Len(natives') /\ gens[n].home <= homes'
  <2>1. gens[n] \in Gens
    BY DEF StoreOK
  <2>2. gens[n].native \in Nat /\ gens[n].home \in Nat
    BY <2>1 DEF Gens
  <2> QED
    BY <2>2 DEF StoreOK
<1> QED
  BY <1>1 DEF StoreOK

\* What a lane adds is packages of the profile.
LEMMA AddedRefsTyped ==
  ASSUME profile \in Profiles, NEW b PROVE AddedRefs(b) \subseteq Refs
BY AppTyped DEF AddedRefs, LaneActions

\* The record of a lane keeps the store typed.
LEMMA LaneWriteKeepsStore ==
  ASSUME Types, pc = "record", NEW b \in Backends, NEW removed \in SUBSET Refs,
         NEW native \in Nat, native <= Len(natives), NEW hm \in Nat, hm <= homes,
         WriteProvisioningGeneration(b, removed, native, hm), UNCHANGED <<natives, homes, run>>
  PROVE  StoreOK' /\ lost' \in BOOLEAN /\ Len(gens) \in Nat /\ Len(gens') \in Nat /\ Len(gens) <= Len(gens')
<1>1. run \in 1..run /\ run \in Nat /\ HostOK /\ StoreOK /\ acts \in [Idx -> Actions]
  BY ProfilesAreTyped DEF Types, PhaseOK, ActsOK, Applying
<1>2. CASE NoWrite
  BY <1>1, <1>2 DEF NoWrite, StoreOK, HostOK
<1> DEFINE g == [run |-> run, backend |-> b, added |-> AddedRefs(b), removed |-> removed,
                 native |-> native, rollback |-> FALSE, home |-> hm, partial |-> Partial(b)]
<1>3. CASE WriteTo(g)
  <2>1. Partial(b) \in BOOLEAN /\ AddedRefs(b) \in SUBSET Refs
    BY <1>1, AddedRefsTyped DEF Partial, HostOK
  <2>2. g \in Gens /\ g.run = run /\ g.native = native /\ g.home = hm
    BY <1>1, <2>1 DEF Gens
  <2> HIDE DEF g
  <2> QED
    BY <1>1, <1>3, <2>2, WriteKeepsStore
<1> QED
  BY <1>2, <1>3 DEF WriteProvisioningGeneration

\* A command that returns leaves nothing in memory.
LEMMA ReturnKeepsTypes ==
  ASSUME Types, NEW end, Return(end), UNCHANGED <<profile, gens, natives, homes>>
  PROVE  PhaseOK' /\ RegOK' /\ ActsOK' /\ ListsOK'
<1>1. Len(gens) \in Nat /\ Len(natives) \in Nat /\ homes \in Nat
  BY DEF Types, HostOK, StoreOK
<1>2. PhaseOK'
  <2>1. NoCmd \in Cmds /\ NoCmd.to = 0 /\ NoCmd.kind = "none"
    BY DEF NoCmd, Cmds
  <2> QED
    BY <1>1, <2>1 DEF Return, Forget, Types, PhaseOK, Rolling
<1>3. RegOK'
  <2>1. NoReg \in Regs /\ NoReg.install = 0 /\ NoReg.prune = 0 /\ NoReg.home = 0
    BY DEF NoReg, Regs
  <2> QED
    BY <1>1, <2>1 DEF Return, Forget, RegOK
<1>4. ActsOK' /\ ListsOK'
  BY DEF Return, Forget, ActsOK, ListsOK, Applying
<1> QED
  BY <1>2, <1>3, <1>4

\* A command starts with nothing but its flags.
LEMMA StartKeepsTypes ==
  ASSUME Types, run < MaxRuns, run' = run + 1, cmd' \in Cmds, cmd'.to <= Len(gens),
         pc' \in Planning \cup Rolling, cmd'.kind = "rollback" <=> pc' \in Rolling,
         acts' = <<>>, reg' = NoReg, todo' = {}, gone' = {}, kept' = {},
         UNCHANGED <<profile, machine, edits, crashes, engine, setAt, lost>>
  PROVE  Types'
<1>1. Len(gens) \in Nat /\ Len(natives) \in Nat /\ homes \in Nat /\ run \in Nat /\ MaxRuns \in Nat
  BY ProfilesAreTyped DEF Types, HostOK, StoreOK, PhaseOK
<1>2. HostOK' /\ StoreOK'
  BY <1>1 DEF Types, HostOK, StoreOK, machine
<1>3. PhaseOK'
  BY <1>1 DEF PhaseOK, Planning, Rolling, machine
<1>4. RegOK'
  <2>1. NoReg \in Regs /\ NoReg.install = 0 /\ NoReg.prune = 0 /\ NoReg.home = 0
    BY DEF NoReg, Regs
  <2> QED
    BY <1>1, <2>1 DEF RegOK, machine
<1>5. ActsOK' /\ ListsOK'
  BY DEF ActsOK, ListsOK, Applying, Planning, Rolling
<1> QED
  BY <1>2, <1>3, <1>4, <1>5 DEF Types

\* A command that goes on within its kind keeps its phase typed.
LEMMA MoveKeepsPhase ==
  ASSUME Types, UNCHANGED <<cmd, run>>, Len(gens') \in Nat, Len(gens) <= Len(gens'),
         pc # "idle", pc' \in Planning \cup Applying \cup Rolling, pc \in Rolling <=> pc' \in Rolling
  PROVE  PhaseOK'
<1>1. Len(gens) \in Nat /\ cmd \in Cmds /\ cmd.to \in Nat /\ cmd.to <= Len(gens)
  BY DEF Types, StoreOK, PhaseOK, Cmds
<1>2. cmd'.to <= Len(gens')
  BY <1>1
<1> QED
  BY <1>1, <1>2 DEF Types, PhaseOK, Planning, Applying, Rolling

-----------------------------------------------------------------------------
(* The types are kept, action by action *)

\* Apply, rebuild and rollback start.
LEMMA StartsKeepTypes ==
  /\ \A f \in ApplyFlags : Types /\ StartApply(f) => Types'
  /\ \A c \in Consents : Types /\ StartRebuild(c[1], c[3], c[2]) => Types'
  /\ \A to \in 0..Len(gens), c \in Consents : Types /\ StartRollback(to, c[1], c[2], c[3]) => Types'
<1>1. ASSUME NEW f \in ApplyFlags, Types, StartApply(f) PROVE Types'
  <2>1. Len(gens) \in Nat /\ f \in Cmds /\ f.to = 0
    BY <1>1, ProfilesAreTyped DEF Types, StoreOK
  <2>2. cmd' \in Cmds /\ cmd'.to = 0 /\ cmd'.kind = "apply"
    BY <1>1, <2>1 DEF StartApply, Cmds
  <2>3. pc' \in Planning
    BY <1>1 DEF StartApply, Planning
  <2> QED
    BY <1>1, <2>1, <2>2, <2>3, StartKeepsTypes DEF StartApply, Planning, Rolling
<1>2. ASSUME NEW c \in Consents, Types, StartRebuild(c[1], c[3], c[2]) PROVE Types'
  <2>1. Len(gens) \in Nat /\ c[1] \in BOOLEAN /\ c[2] \in BOOLEAN /\ c[3] \in BOOLEAN
    BY <1>2, ProfilesAreTyped DEF Types, StoreOK
  <2>2. cmd' \in Cmds /\ cmd'.to = 0 /\ cmd'.kind = "rebuild"
    BY <1>2, <2>1 DEF StartRebuild, Cmds, NoCmd
  <2>3. pc' \in Planning
    BY <1>2 DEF StartRebuild, Planning
  <2> QED
    BY <1>2, <2>1, <2>2, <2>3, StartKeepsTypes DEF StartRebuild, Planning, Rolling
<1>3. ASSUME NEW to \in 0..Len(gens), NEW c \in Consents, Types, StartRollback(to, c[1], c[2], c[3])
      PROVE  Types'
  <2>1. Len(gens) \in Nat /\ c[1] \in BOOLEAN /\ c[2] \in BOOLEAN /\ c[3] \in BOOLEAN /\ to \in Nat
    BY <1>3, ProfilesAreTyped DEF Types, StoreOK
  <2>2. cmd' \in Cmds /\ cmd'.to = to /\ cmd'.kind = "rollback"
    BY <1>3, <2>1 DEF StartRollback, Cmds, NoCmd
  <2>3. pc' \in Rolling
    BY <1>3 DEF StartRollback, Rolling
  <2> QED
    BY <1>3, <2>1, <2>2, <2>3, StartKeepsTypes DEF StartRollback, Planning, Rolling
<1> QED
  BY <1>1, <1>2, <1>3

\* A step that leaves the host and the store alone keeps them typed.
LEMMA QuietKeepsTypes ==
  ASSUME Types, UNCHANGED <<profile, machine, edits, crashes, engine, setAt, lost>>, run' = run
  PROVE  HostOK' /\ StoreOK'
BY DEF Types, HostOK, StoreOK, machine

\* So does one that leaves everything but its result alone.
LEMMA QuietReturnKeepsTypes ==
  ASSUME Types, NEW end, Return(end), UNCHANGED <<profile, machine, edits, engine, setAt, lost>>,
         crashes' \in Nat
  PROVE  Types'
<1>1. HostOK' /\ StoreOK'
  BY DEF Types, HostOK, StoreOK, machine, Return, Forget
<1> QED
  BY <1>1, ReturnKeepsTypes DEF Types, machine

\* The commands that end without touching the host; a death.
LEMMA EndsKeepTypes ==
  Types /\ (Refuse \/ FinishApply \/ FinishRollback \/ Crash) => Types'
<1> SUFFICES ASSUME Types, Refuse \/ FinishApply \/ FinishRollback \/ Crash PROVE Types'
  OBVIOUS
<1>1. crashes \in Nat /\ crashes + 1 \in Nat
  BY DEF Types, HostOK
<1>2. CASE Refuse
  BY <1>1, <1>2, QuietReturnKeepsTypes DEF Refuse
<1>3. CASE FinishApply
  BY <1>1, <1>3, QuietReturnKeepsTypes DEF FinishApply
<1>4. CASE FinishRollback
  BY <1>1, <1>4, QuietReturnKeepsTypes DEF FinishRollback
<1>5. CASE Crash
  BY <1>1, <1>5, QuietReturnKeepsTypes DEF Crash
<1> QED
  BY <1>2, <1>3, <1>4, <1>5

\* Package managers are bootstrapped.
LEMMA EnsureBackendsKeepsTypes == Types /\ EnsureBackends => Types'
<1> SUFFICES ASSUME Types, EnsureBackends PROVE Types'
  OBVIOUS
<1>1. NeededBackends \subseteq Backends
  BY AppTyped DEF NeededBackends, PackageLanes, Types, HostOK
<1>2. avail' \subseteq Backends
  <2>1. (NeededBackends \cup (IF ConfigStageApplies /\ ~OnDriverHost THEN {"nix"} ELSE {})) \ avail \subseteq Backends
    BY <1>1 DEF Backends
  <2> QED
    BY <2>1 DEF EnsureBackends, Types, HostOK
<1>3. HostOK' /\ StoreOK'
  BY <1>2 DEF EnsureBackends, ghosts, Types, HostOK, StoreOK
<1>4. Len(gens') \in Nat /\ Len(gens) <= Len(gens') /\ UNCHANGED <<cmd, run>>
  BY DEF EnsureBackends, Types, StoreOK
<1>5. PhaseOK'
  <2>1. pc \in Planning /\ pc' \in Planning
    BY DEF EnsureBackends, Planning
  <2> QED
    BY <1>4, <2>1, MoveKeepsPhase DEF Planning, Rolling
<1>6. RegOK' /\ ActsOK' /\ ListsOK'
  BY DEF EnsureBackends, Types, RegOK, ActsOK, ListsOK, Idx, Applying
<1> QED
  BY <1>3, <1>5, <1>6 DEF Types

\* The planned action of an app.
LEMMA PlanAppTyped ==
  ASSUME Types, NEW i \in Idx, NEW broken
  PROVE  PlanApp(i, broken) \in Actions /\ PlanApp(i, broken).status # "installed"
<1> DEFINE S == Statuses \ {"installed"}
<1>1. \A st \in S : NewAction(st) \in Actions /\ NewAction(st).status # "installed"
  BY DEF NewAction, Actions, Statuses
<1>2. {"present", "to_install", "failed", "skipped"} \subseteq S
  BY DEF Statuses
<1>3. PlanManual(i) \in Actions /\ PlanManual(i).status # "installed"
  BY <1>1, <1>2 DEF PlanManual
<1>4. PlanDown(App(i).driver) \in Actions /\ PlanDown(App(i).driver).status # "installed"
  BY <1>1, <1>2 DEF PlanDown
<1>5. PlanDriverApp(i, broken) \in Actions /\ PlanDriverApp(i, broken).status # "installed"
  <2>1. (cmd.repin /\ Drifted(i)) \in BOOLEAN
    OBVIOUS
  <2>2. CASE App(i).driver \in broken
    BY <2>2, <1>1, <1>2 DEF PlanDriverApp
  <2>3. CASE App(i).driver \notin broken
    <3> DEFINE st == IF Observed(i) THEN "present" ELSE "to_install"
    <3>1. NewAction(st) \in Actions /\ NewAction(st).status # "installed"
      BY <1>1, <1>2
    <3>2. PlanDriverApp(i, broken) = [NewAction(st) EXCEPT !.was = cmd.repin /\ Drifted(i)]
      BY <2>3 DEF PlanDriverApp
    <3> HIDE DEF st
    <3> QED
      BY <3>1, <3>2, <2>1 DEF Actions
  <2> QED
    BY <2>2, <2>3
<1>6. /\ NewAction(IF App(i).ref \in Current THEN "present" ELSE "to_install") \in Actions
      /\ NewAction(IF App(i).ref \in Current THEN "present" ELSE "to_install").status # "installed"
  BY <1>1, <1>2
<1>7. /\ NewAction(IF Detect(i) /\ "brew" \notin broken THEN "present" ELSE "to_install") \in Actions
      /\ NewAction(IF Detect(i) /\ "brew" \notin broken THEN "present" ELSE "to_install").status # "installed"
  BY <1>1, <1>2
<1>8. App(i).manual \in BOOLEAN
  BY AppTyped DEF Types, HostOK
<1> QED
  BY <1>3, <1>4, <1>5, <1>6, <1>7, <1>8 DEF PlanApp

\* The plan of an apply.
LEMMA PlanKeepsTypes == Types /\ Plan => Types'
<1> SUFFICES ASSUME Types, Plan PROVE Types'
  OBVIOUS
<1>1. CASE \E end : Return(end)
  <2>1. crashes' \in Nat
    BY DEF Plan, Types, HostOK
  <2> QED
    BY <1>1, <2>1, QuietReturnKeepsTypes DEF Plan
<1>2. CASE /\ \E broken : acts' = [i \in Idx |-> PlanApp(i, broken)]
           /\ pc' \in {"install", "realize"} /\ UNCHANGED <<cmd, run, reg, todo, gone, kept>>
  <2>1. HostOK' /\ StoreOK'
    BY <1>2, QuietKeepsTypes DEF Plan
  <2>2. acts' \in [Idx -> Actions] /\ Idx' = Idx
    BY <1>2, PlanAppTyped DEF Plan, Idx
  <2>3. Len(gens) \in Nat /\ gens' = gens /\ natives' = natives /\ homes' = homes
    BY DEF Types, StoreOK, Plan, machine
  <2>4. PhaseOK'
    <3>1. pc \in Planning /\ pc' \in Applying
      BY <1>2 DEF Plan, Planning, Applying
    <3>2. Len(gens') \in Nat /\ Len(gens) <= Len(gens')
      BY <2>3
    <3> QED
      BY <1>2, <3>1, <3>2, MoveKeepsPhase DEF Planning, Applying, Rolling
  <2>5. RegOK' /\ ActsOK' /\ ListsOK'
    BY <1>2, <2>2, <2>3 DEF Types, RegOK, ActsOK, ListsOK
  <2> QED
    BY <2>1, <2>4, <2>5 DEF Types
<1> QED
  BY <1>1, <1>2 DEF Plan

\* The realizer installs, and prunes.
LEMMA RealizeKeepsTypes == Types /\ Realize => Types'
<1> SUFFICES ASSUME Types, Realize PROVE Types'
  OBVIOUS
<1>1. pc = "realize" /\ acts \in [Idx -> Actions] /\ HostOK /\ Current \subseteq Refs
  BY CurrentTyped DEF Realize, Types, ActsOK, Applying
<1>2. AddRefs \subseteq Refs
  BY <1>1, AppTyped DEF AddRefs, ToAdd, HostOK
<1>3. CASE \E end : Return(end)
  <2>1. UNCHANGED <<natives, active, engine>>
    BY <1>1, <1>3 DEF Realize, Return, Forget
  <2> QED
    BY <1>1, <1>3, <2>1, QuietReturnKeepsTypes DEF Realize, machine, HostOK
<1>4. ASSUME pc' = "prune", UNCHANGED <<cmd, run, todo, gone, kept>>, engine' \subseteq Refs,
             natives' \in Seq(SUBSET Refs), active' \in 0..Len(natives'), Len(natives) <= Len(natives'),
             acts' \in [Idx -> Actions], reg' \in {reg, [reg EXCEPT !.install = active']}
      PROVE  Types'
  <2>1. HostOK'
    BY <1>1, <1>4 DEF Realize, HostOK
  <2>2. Len(gens) \in Nat /\ Len(natives) \in Nat /\ Len(natives') \in Nat /\ gens' = gens /\ homes' = homes
    BY <1>4 DEF Realize, Types, HostOK, StoreOK
  <2>3. StoreOK'
    BY <1>1, <1>4, <2>2, StoreOutlivesSwitch DEF Realize, Types, HostOK
  <2>4. PhaseOK'
    BY <1>1, <1>4, <2>2, MoveKeepsPhase DEF Applying, Rolling
  <2>5. RegOK'
    <3>1. reg \in Regs /\ reg.install <= Len(natives) /\ reg.prune <= Len(natives) /\ reg.home <= homes
      BY DEF Types, RegOK
    <3>2. active' \in Nat /\ active' <= Len(natives')
      BY <1>4, <2>2
    <3> QED
      BY <1>4, <2>2, <3>1, <3>2 DEF RegOK, Regs
  <2>6. ActsOK' /\ ListsOK'
    BY <1>4 DEF Realize, Types, ActsOK, ListsOK, Idx
  <2> QED
    BY <2>1, <2>3, <2>4, <2>5, <2>6 DEF Types
<1>5. \A st \in Statuses : SetStatus(ToAdd, st) \in [Idx -> Actions]
  BY <1>1 DEF SetStatus, Actions
<1>6. Len(natives) \in Nat /\ natives \in Seq(SUBSET Refs) /\ active \in 0..Len(natives) /\ engine \subseteq Refs
  BY <1>1 DEF HostOK
<1>7. CASE Switch(Current \cup AddRefs) /\ acts' = SetStatus(ToAdd, "installed") /\ pc' = "prune"
           /\ reg' = [reg EXCEPT !.install = active'] /\ engine' = engine \cup AddRefs
           /\ UNCHANGED <<cmd, run, todo, gone, kept>>
  <2>1. natives' \in Seq(SUBSET Refs) /\ Len(natives') = Len(natives) + 1 /\ active' = Len(natives')
    BY <1>1, <1>2, <1>7, SwitchAppends
  <2>2. active' \in 0..Len(natives') /\ Len(natives) <= Len(natives')
    BY <2>1, <1>6
  <2>3. acts' \in [Idx -> Actions]
    BY <1>5, <1>7 DEF Statuses
  <2> QED
    BY <1>2, <1>4, <1>6, <1>7, <2>1, <2>2, <2>3
<1>8. CASE pc' = "prune" /\ acts' \in {acts, SetStatus(ToAdd, "failed")}
           /\ UNCHANGED <<natives, active, cmd, run, reg, todo, gone, kept, engine>>
  <2>1. acts' \in [Idx -> Actions]
    BY <1>1, <1>5, <1>8 DEF Statuses
  <2> QED
    BY <1>4, <1>6, <1>8, <2>1
<1> QED
  BY <1>3, <1>7, <1>8 DEF Realize

\* So does the switch that removes what is not declared.
LEMMA PruneKeepsTypes == Types /\ Prune => Types'
<1> SUFFICES ASSUME Types, Prune PROVE Types'
  OBVIOUS
<1>1. pc = "prune" /\ acts \in [Idx -> Actions] /\ HostOK /\ Current \subseteq Refs
  BY CurrentTyped DEF Prune, Types, ActsOK, Applying
<1>2. Len(natives) \in Nat /\ natives \in Seq(SUBSET Refs) /\ active \in 0..Len(natives)
      /\ Len(gens) \in Nat /\ gens' = gens /\ homes' = homes
  BY <1>1 DEF Prune, Types, HostOK, StoreOK
<1>3. CASE \E end : Return(end)
  <2>1. UNCHANGED <<natives, active>>
    BY <1>1, <1>3 DEF Prune, Return, Forget
  <2> QED
    BY <1>1, <1>3, <2>1, QuietReturnKeepsTypes DEF Prune, machine, HostOK
<1>4. CASE pc' = "install" /\ UNCHANGED <<natives, active, cmd, run, acts, reg, todo, gone, kept>>
  <2>1. HostOK' /\ StoreOK'
    BY <1>4, QuietKeepsTypes DEF Prune, machine
  <2>2. PhaseOK'
    BY <1>1, <1>2, <1>4, MoveKeepsPhase DEF Applying, Rolling
  <2>3. RegOK' /\ ActsOK' /\ ListsOK'
    BY <1>1, <1>2, <1>4 DEF Prune, Types, RegOK, ActsOK, ListsOK, Idx
  <2> QED
    BY <2>1, <2>2, <2>3 DEF Types
<1>5. CASE pc' = "install" /\ Switch(Current \ ComputeDrift)
           /\ reg' = [reg EXCEPT !.prune = active', !.removed = ComputeDrift]
           /\ UNCHANGED <<cmd, run, acts, todo, gone, kept>>
  <2>1. natives' \in Seq(SUBSET Refs) /\ Len(natives') = Len(natives) + 1 /\ active' = Len(natives')
    <3>1. Current \ ComputeDrift \in SUBSET Refs
      BY <1>1
    <3> QED
      BY <1>1, <1>5, <3>1, SwitchAppends
  <2>2. active' \in 0..Len(natives') /\ Len(natives) <= Len(natives') /\ Len(natives') \in Nat
    BY <2>1, <1>2
  <2>3. HostOK'
    BY <1>1, <2>1, <2>2 DEF Prune, HostOK
  <2>4. StoreOK'
    BY <1>1, <1>2, <1>5, <2>2, StoreOutlivesSwitch DEF Prune, Types, HostOK
  <2>5. PhaseOK'
    BY <1>1, <1>2, <1>5, MoveKeepsPhase DEF Applying, Rolling
  <2>6. RegOK'
    <3>1. reg \in Regs /\ reg.install <= Len(natives) /\ reg.prune <= Len(natives) /\ reg.home <= homes
      BY DEF Types, RegOK
    <3>2. active' \in Nat /\ active' <= Len(natives') /\ ComputeDrift \in SUBSET Refs
      BY <1>1, <2>1, <2>2 DEF ComputeDrift
    <3>3. reg' \in Regs /\ reg'.install = reg.install /\ reg'.prune = active' /\ reg'.home = reg.home
      BY <1>5, <3>1, <3>2 DEF Regs
    <3>4. reg.install \in Nat /\ reg.install <= Len(natives')
      BY <1>2, <2>2, <3>1 DEF Regs
    <3> QED
      BY <1>2, <3>1, <3>2, <3>3, <3>4 DEF RegOK
  <2>7. ActsOK' /\ ListsOK'
    BY <1>1, <1>5 DEF Prune, Types, ActsOK, ListsOK, Idx
  <2> QED
    BY <2>3, <2>4, <2>5, <2>6, <2>7 DEF Types
<1> QED
  BY <1>3, <1>4, <1>5 DEF Prune

\* One app of the apply loop.
LEMMA AppStepKeepsTypes ==
  ASSUME Types, InstallOne, AppUnchanged, NEW a \in Actions, NextApp(a),
         inst' \in [Refs -> Versions \cup {Absent}], engine' \subseteq Refs
  PROVE  Types'
<1>1. HostOK' /\ StoreOK'
  BY DEF AppUnchanged, Types, HostOK, StoreOK
<1>2. PhaseOK' /\ RegOK' /\ ListsOK'
  BY DEF AppUnchanged, Types, PhaseOK, RegOK, ListsOK
<1>3. acts \in [Idx -> Actions] /\ idx \in Idx
  BY DEF Types, ActsOK, InstallOne, Applying
<1>4. acts' \in [Idx -> Actions] /\ Idx' = Idx
  BY <1>3 DEF NextApp, AppUnchanged, Idx
<1> QED
  BY <1>1, <1>2, <1>4 DEF Types, ActsOK

\* So do the steps of the loop over the apps.
LEMMA AppStepsKeepTypes ==
  Types /\ (PassOver \/ ReinstallDrifted \/ InstallMissing) => Types'
<1> SUFFICES ASSUME Types, PassOver \/ ReinstallDrifted \/ InstallMissing PROVE Types'
  OBVIOUS
<1>1. InstallOne /\ AppUnchanged /\ idx \in Idx /\ acts \in [Idx -> Actions]
  BY DEF PassOver, ReinstallDrifted, InstallMissing, InstallOne, Types, ActsOK, Applying
<1>2. inst \in [Refs -> Versions \cup {Absent}] /\ engine \subseteq Refs /\ profile \in Profiles
  BY DEF Types, HostOK
<1>3. App(idx).ref \in Refs /\ App(idx).pin \in Versions \cup {Absent}
      /\ InstalledVersion(idx) \subseteq Versions
  BY <1>1, <1>2, AppTyped, InstalledVersionTyped
<1>4. \A st \in Statuses : NewAction(st) \in Actions /\ [NewAction(st) EXCEPT !.was = TRUE] \in Actions
  BY DEF NewAction, Actions
<1>5. CASE PassOver
  <2>1. \E a \in Actions : NextApp(a)
    <3>1. acts[idx] \in Actions
      BY <1>1
    <3>2. NewAction(IF acts[idx].status = "present" THEN acts[idx].status ELSE "skipped") \in Actions
      BY <1>4 DEF Statuses
    <3> QED
      BY <1>5, <3>1, <3>2 DEF PassOver
  <2> QED
    BY <1>1, <1>2, <1>5, <2>1, AppStepKeepsTypes DEF PassOver
<1>6. CASE ReinstallDrifted
  <2>1. PICK st \in {"installed", "failed"} :
          Reinstall(idx, st) /\ NextApp([NewAction(st) EXCEPT !.was = TRUE])
    BY <1>6 DEF ReinstallDrifted
  <2>2. inst' \in [Refs -> Versions \cup {Absent}]
    BY <1>2, <1>3, <2>1 DEF Reinstall
  <2>3. [NewAction(st) EXCEPT !.was = TRUE] \in Actions
    BY <1>4 DEF Statuses
  <2>4. engine' = engine
    BY <1>6 DEF ReinstallDrifted
  <2> QED
    BY <1>1, <1>2, <2>1, <2>2, <2>3, <2>4, AppStepKeepsTypes
<1>7. CASE InstallMissing
  <2>1. PICK st \in {"installed", "present", "failed"} : Install(idx, st) /\ NextApp(NewAction(st))
    BY <1>7 DEF InstallMissing
  <2>2. inst' \in [Refs -> Versions \cup {Absent}]
    BY <1>2, <1>3, <2>1 DEF Install, WingetInstall, ChocolateyInstall, BrewInstall
  <2>3. NewAction(st) \in Actions
    BY <1>4 DEF Statuses
  <2>4. engine' \subseteq Refs
    BY <1>2, <1>3, <1>7 DEF InstallMissing
  <2> QED
    BY <1>1, <2>1, <2>2, <2>3, <2>4, AppStepKeepsTypes
<1> QED
  BY <1>5, <1>6, <1>7

\* A step of an apply after the installs that leaves the host and the store alone.
LEMMA TailStepsKeepTypes ==
  Types /\ (AfterInstall \/ ConfigRestore \/ Verify) => Types'
<1> SUFFICES ASSUME Types, AfterInstall \/ ConfigRestore \/ Verify PROVE Types'
  OBVIOUS
<1>1. pc \in Applying /\ acts \in [Idx -> Actions] /\ profile' = profile /\ Idx' = Idx
  BY DEF AfterInstall, ConfigRestore, Verify, Types, ActsOK, Applying, Idx
<1>2. UNCHANGED <<profile, machine, edits, crashes, engine, setAt, lost>>
  BY DEF AfterInstall, ConfigRestore, Verify, ghosts
<1>3. Len(gens) \in Nat /\ Len(gens') \in Nat /\ gens' = gens /\ natives' = natives /\ homes' = homes
      /\ crashes' \in Nat
  BY <1>2 DEF Types, StoreOK, HostOK, machine
<1>4. ASSUME pc' \in Applying, UNCHANGED <<cmd, run, todo, gone, kept>>, reg' \in Regs,
             UNCHANGED <<reg.install, reg.prune, reg.home>>, acts' \in [Idx -> Actions]
      PROVE  Types'
  <2>1. HostOK' /\ StoreOK'
    BY <1>2, <1>4, QuietKeepsTypes
  <2>2. PhaseOK'
    BY <1>1, <1>3, <1>4, MoveKeepsPhase DEF Applying, Rolling
  <2>3. RegOK' /\ ActsOK' /\ ListsOK'
    BY <1>1, <1>3, <1>4 DEF Types, RegOK, ActsOK, ListsOK
  <2> QED
    BY <2>1, <2>2, <2>3 DEF Types
<1>5. CASE AfterInstall
  <2>1. CASE \E end : Return(end)
    BY <1>2, <1>3, <2>1, QuietReturnKeepsTypes
  <2>2. CASE pc' = "config" /\ UNCHANGED <<cmd, run, acts, idx, reg, todo, gone, kept, told>>
    BY <1>1, <1>4, <2>2 DEF Applying, Types, RegOK
  <2> QED
    BY <1>5, <2>1, <2>2 DEF AfterInstall
<1>6. CASE ConfigRestore
  <2>1. PackageLanes \subseteq Backends
    BY AppTyped DEF PackageLanes, Types, HostOK
  <2>2. reg' \in Regs /\ UNCHANGED <<reg.install, reg.prune, reg.home>>
    BY <1>6, <2>1 DEF ConfigRestore, Types, RegOK, Regs
  <2> QED
    BY <1>1, <1>4, <1>6, <2>2 DEF ConfigRestore, Applying
<1>7. CASE Verify
  <2>1. acts' \in [Idx -> Actions]
    BY <1>1, <1>7 DEF Verify, Actions
  <2> QED
    BY <1>1, <1>4, <1>7, <2>1 DEF Verify, Applying, Types, RegOK
<1> QED
  BY <1>5, <1>6, <1>7

\* home-manager activates, in an apply and in a rollback.
LEMMA HomeStepsKeepTypes == Types /\ (ActivateHome \/ RollbackHome) => Types'
<1> SUFFICES ASSUME Types, ActivateHome \/ RollbackHome PROVE Types'
  OBVIOUS
<1>1. UNCHANGED <<profile, inst, natives, active, avail, gens, edits, crashes, engine, setAt, lost>>
  BY DEF ActivateHome, RollbackHome
<1>2. Len(gens) \in Nat /\ Len(natives) \in Nat /\ homes \in Nat /\ home \in 0..homes /\ crashes' \in Nat
  BY <1>1 DEF Types, StoreOK, HostOK
<1>3. PackageLanes \cup {"nix"} \subseteq Backends
  BY AppTyped DEF PackageLanes, Types, HostOK, Backends
<1>4. CASE \E end : Return(end) /\ UNCHANGED <<homes, home>>
  BY <1>1, <1>2, <1>4, QuietReturnKeepsTypes DEF machine
<1>5. ASSUME pc # "idle", pc' \in Applying \cup Rolling, pc \in Rolling <=> pc' \in Rolling,
             pc' \in Applying => pc \in Applying,
             UNCHANGED <<cmd, run, acts, todo, gone, kept>>,
             homes' \in {homes, homes + 1}, home' \in 0..homes', reg' \in Regs,
             UNCHANGED <<reg.install, reg.prune>>, reg'.home \in {reg.home, homes'}
      PROVE  Types'
  <2>1. homes' \in Nat /\ homes <= homes'
    BY <1>2, <1>5
  <2>2. HostOK'
    BY <1>1, <1>5, <2>1 DEF Types, HostOK
  <2>3. StoreOK'
    BY <1>1, <1>2, <1>5, <2>1, StoreOutlivesSwitch DEF Types
  <2>4. PhaseOK'
    BY <1>1, <1>2, <1>5, MoveKeepsPhase
  <2>5. RegOK'
    <3>1. reg.home \in Nat /\ reg.home <= homes /\ reg.install <= Len(natives) /\ reg.prune <= Len(natives)
      BY DEF Types, RegOK, Regs
    <3> QED
      BY <1>1, <1>2, <1>5, <2>1, <3>1 DEF RegOK
  <2>6. ActsOK' /\ ListsOK'
    BY <1>1, <1>5 DEF Types, ActsOK, ListsOK, Idx
  <2> QED
    BY <2>2, <2>3, <2>4, <2>5, <2>6 DEF Types
<1>6. CASE ActivateHome
  <2>1. CASE pc' = "record" /\ reg' = [reg EXCEPT !.lanes = PackageLanes]
             /\ UNCHANGED <<homes, home, cmd, run, acts, idx, todo, gone, kept, told>>
    <3>1. reg' \in Regs /\ UNCHANGED <<reg.install, reg.prune, reg.home>>
      BY <1>3, <2>1 DEF Types, RegOK, Regs
    <3> QED
      BY <1>2, <1>5, <1>6, <2>1, <3>1 DEF ActivateHome, Applying, Rolling
  <2>2. CASE pc' = "record" /\ homes' = homes + 1 /\ home' = homes + 1
             /\ reg' = [reg EXCEPT !.lanes = PackageLanes \cup {"nix"}, !.home = homes + 1]
             /\ UNCHANGED <<cmd, run, acts, idx, todo, gone, kept, told>>
    <3>1. reg' \in Regs /\ UNCHANGED <<reg.install, reg.prune>> /\ reg'.home = homes'
      <4>1. reg \in Regs /\ homes + 1 \in Nat /\ PackageLanes \cup {"nix"} \in SUBSET Backends
        BY <1>2, <1>3 DEF Types, RegOK
      <4> QED
        BY <2>2, <4>1 DEF Regs
    <3>2. home' \in 0..homes'
      BY <1>2, <2>2
    <3> QED
      BY <1>2, <1>5, <1>6, <2>2, <3>1, <3>2 DEF ActivateHome, Applying, Rolling
  <2> QED
    BY <1>4, <1>6, <2>1, <2>2 DEF ActivateHome
<1>7. CASE RollbackHome
  <2>1. CASE pc' = "rerecord" /\ UNCHANGED <<homes, home, cmd, run, acts, idx, reg, todo, gone, kept, told>>
    <3>1. reg' \in Regs
      BY <2>1 DEF Types, RegOK
    <3> QED
      BY <1>2, <1>5, <1>7, <2>1, <3>1 DEF RollbackHome, Applying, Rolling
  <2>2. CASE pc' = "rerecord" /\ homes' = homes + 1 /\ home' = homes + 1
             /\ reg' = [reg EXCEPT !.home = homes + 1]
             /\ UNCHANGED <<cmd, run, acts, idx, todo, gone, kept, told>>
    <3>1. reg' \in Regs /\ UNCHANGED <<reg.install, reg.prune>> /\ reg'.home = homes'
      BY <1>2, <2>2 DEF Types, RegOK, Regs
    <3>2. home' \in 0..homes'
      BY <1>2, <2>2
    <3> QED
      BY <1>2, <1>5, <1>7, <2>2, <3>1, <3>2 DEF RollbackHome, Applying, Rolling
  <2> QED
    BY <1>4, <1>7, <2>1, <2>2 DEF RollbackHome
<1> QED
  BY <1>6, <1>7

\* The records of an apply and of a rollback.
LEMMA RecordStepKeepsTypes ==
  ASSUME Types, pc # "idle", pc' \in Applying \cup Rolling, pc \in Rolling <=> pc' \in Rolling,
         pc' \in Applying => pc \in Applying,
         UNCHANGED <<profile, inst, natives, active, homes, home, avail, edits, crashes, engine,
                     cmd, run, acts, todo>>,
         StoreOK', lost' \in BOOLEAN, Len(gens) \in Nat, Len(gens') \in Nat, Len(gens) <= Len(gens'),
         reg' \in Regs, UNCHANGED <<reg.install, reg.prune, reg.home>>,
         gone' \subseteq Refs, kept' \subseteq Refs
  PROVE  Types'
<1>1. HostOK' /\ RegOK' /\ ActsOK' /\ ListsOK'
  BY DEF Types, HostOK, RegOK, ActsOK, ListsOK, Idx
<1>2. PhaseOK'
  BY MoveKeepsPhase
<1> QED
  BY <1>1, <1>2 DEF Types

\* The record of a lane keeps the types.
LEMMA RecordLaneKeepsTypes == ASSUME NEW b \in Backends, Types, RecordLane(b) PROVE Types'
<1>1. pc = "record" /\ HostOK /\ StoreOK /\ reg \in Regs /\ reg.install <= Len(natives)
      /\ reg.prune <= Len(natives) /\ reg.home <= homes
  BY DEF RecordLane, Types, RegOK
<1>2. UNCHANGED <<natives, homes, run>> /\ Len(gens) \in Nat /\ homes \in Nat /\ Len(natives) \in Nat
  BY <1>1 DEF RecordLane, HostOK, StoreOK
<1>3. FinalNative \in Nat /\ FinalNative <= Len(natives) /\ reg.home \in Nat /\ reg.removed \in SUBSET Refs
  BY <1>1 DEF FinalNative, Regs
<1>4. StoreOK' /\ lost' \in BOOLEAN /\ Len(gens') \in Nat /\ Len(gens) <= Len(gens')
  <2>1. CASE WriteProvisioningGeneration(b, {}, 0, 0)
    <3>1. 0 \in Nat /\ 0 <= Len(natives) /\ 0 <= homes /\ {} \in SUBSET Refs
      BY <1>2
    <3> QED
      BY <1>1, <1>2, <2>1, <3>1, LaneWriteKeepsStore
  <2>2. CASE NoWrite
    BY <1>1, <1>2, <2>2 DEF NoWrite, StoreOK, HostOK
  <2>3. CASE WriteProvisioningGeneration(b, reg.removed, FinalNative, reg.home)
    BY <1>1, <1>2, <1>3, <2>3, LaneWriteKeepsStore
  <2> QED
    BY <2>1, <2>2, <2>3 DEF RecordLane
<1>5. reg' \in Regs /\ UNCHANGED <<reg.install, reg.prune, reg.home>>
  BY <1>1 DEF RecordLane, Regs
<1>6. gone' \subseteq Refs /\ kept' \subseteq Refs
  BY DEF RecordLane, Types, ListsOK
<1>7. pc # "idle" /\ pc' \in Applying \cup Rolling /\ (pc \in Rolling <=> pc' \in Rolling)
      /\ (pc' \in Applying => pc \in Applying)
  BY <1>1 DEF RecordLane, Applying, Rolling
<1>8. UNCHANGED <<profile, inst, natives, active, homes, home, avail, edits, crashes, engine,
                  cmd, run, acts, todo>>
  BY DEF RecordLane
<1> QED
  BY <1>2, <1>4, <1>5, <1>6, <1>7, <1>8, RecordStepKeepsTypes

\* So does the record of the set a rollback went back to.
LEMMA AppendRollbackKeepsTypes == Types /\ AppendRollbackGeneration => Types'
<1> SUFFICES ASSUME Types, AppendRollbackGeneration PROVE Types'
  OBVIOUS
<1>1. pc = "rerecord" /\ HostOK /\ StoreOK /\ reg \in Regs /\ reg.home <= homes /\ run # 0 /\ run \in Nat
  BY ProfilesAreTyped DEF AppendRollbackGeneration, Types, RegOK, PhaseOK
<1>2. UNCHANGED <<natives, homes, run>> /\ Len(gens) \in Nat /\ homes \in Nat /\ Len(natives) \in Nat
      /\ active \in Nat /\ active <= Len(natives) /\ reg.home \in Nat
  BY <1>1 DEF AppendRollbackGeneration, HostOK, StoreOK, Regs
<1> DEFINE g == [run |-> run, backend |-> "nix", added |-> {}, removed |-> {},
                 native |-> IF HasPackageTarget THEN active ELSE 0,
                 rollback |-> TRUE, home |-> RollbackHomeRef, partial |-> FALSE]
<1>3. g \in Gens /\ g.run \in 1..run /\ g.native <= Len(natives) /\ g.home <= homes
  BY <1>1, <1>2 DEF Gens, Backends, RollbackHomeRef
<1>4. StoreOK' /\ lost' \in BOOLEAN /\ Len(gens') \in Nat /\ Len(gens) <= Len(gens')
  <2>1. CASE NoWrite
    BY <1>1, <1>2, <2>1 DEF NoWrite, StoreOK, HostOK
  <2>2. CASE WriteTo(g)
    <3> HIDE DEF g
    <3> QED
      BY <1>1, <1>2, <1>3, <2>2, WriteKeepsStore
  <2> QED
    BY <2>1, <2>2 DEF AppendRollbackGeneration
<1>5. reg' \in Regs /\ gone' \subseteq Refs /\ kept' \subseteq Refs /\ UNCHANGED <<reg.install, reg.prune, reg.home>>
  BY <1>1 DEF AppendRollbackGeneration, Types, ListsOK
<1>6. pc # "idle" /\ pc' \in Applying \cup Rolling /\ (pc \in Rolling <=> pc' \in Rolling)
      /\ (pc' \in Applying => pc \in Applying)
  BY <1>1 DEF AppendRollbackGeneration, Applying, Rolling
<1>7. UNCHANGED <<profile, inst, natives, active, homes, home, avail, edits, crashes, engine,
                  cmd, run, acts, todo>>
  BY DEF AppendRollbackGeneration
<1> QED
  BY <1>2, <1>4, <1>5, <1>6, <1>7, RecordStepKeepsTypes

\* So does the record of what a rollback uninstalled.
LEMMA RecordGroupKeepsTypes == ASSUME NEW b \in Backends, Types, RecordGroup(b) PROVE Types'
<1>1. pc = "uninstall" /\ HostOK /\ StoreOK /\ reg \in Regs /\ run # 0 /\ run \in Nat /\ gone \subseteq Refs
  BY ProfilesAreTyped DEF RecordGroup, Types, RegOK, PhaseOK, ListsOK
<1>2. UNCHANGED <<natives, homes, run>> /\ Len(gens) \in Nat /\ homes \in Nat /\ Len(natives) \in Nat
  BY <1>1 DEF RecordGroup, HostOK, StoreOK
<1> DEFINE g == [run |-> run, backend |-> b, added |-> {}, removed |-> gone, native |-> 0,
                 rollback |-> TRUE, home |-> 0, partial |-> kept # {}]
<1>3. g \in Gens /\ g.run \in 1..run /\ g.native <= Len(natives) /\ g.home <= homes
  BY <1>1, <1>2 DEF Gens
<1>4. StoreOK' /\ lost' \in BOOLEAN /\ Len(gens') \in Nat /\ Len(gens) <= Len(gens')
  <2>1. CASE NoWrite
    BY <1>1, <1>2, <2>1 DEF NoWrite, StoreOK, HostOK
  <2>2. CASE WriteTo(g)
    <3> HIDE DEF g
    <3> QED
      BY <1>1, <1>2, <1>3, <2>2, WriteKeepsStore
  <2> QED
    BY <2>1, <2>2 DEF RecordGroup
<1>5. reg' \in Regs /\ UNCHANGED <<reg.install, reg.prune, reg.home>>
  BY <1>1 DEF RecordGroup, Regs
<1>6. gone' \subseteq Refs /\ kept' \subseteq Refs
  BY DEF RecordGroup
<1>7. pc # "idle" /\ pc' \in Applying \cup Rolling /\ (pc \in Rolling <=> pc' \in Rolling)
      /\ (pc' \in Applying => pc \in Applying)
  BY <1>1 DEF RecordGroup, Applying, Rolling
<1>8. UNCHANGED <<profile, inst, natives, active, homes, home, avail, edits, crashes, engine,
                  cmd, run, acts, todo>>
  BY DEF RecordGroup
<1> QED
  BY <1>2, <1>4, <1>5, <1>6, <1>7, <1>8, RecordStepKeepsTypes

\* The packages recorded generations added.
LEMMA GroupTyped ==
  ASSUME StoreOK, NEW G \in SUBSET DOMAIN gens PROVE GroupRollback(G) \subseteq Backends \X Refs
<1>1. \A n \in DOMAIN gens : gens[n] \in Gens
  BY DEF StoreOK
<1> QED
  BY <1>1 DEF GroupRollback, Gens

\* Choosing what a rollback uninstalls keeps the types.
LEMMA SelectGroupsKeepsTypes == Types /\ SelectGroups => Types'
<1> SUFFICES ASSUME Types, SelectGroups PROVE Types'
  OBVIOUS
<1>1. UNCHANGED <<profile, machine, edits, crashes, engine, setAt, lost>> /\ pc = "select"
  BY DEF SelectGroups
<1>2. Len(gens) \in Nat /\ gens' = gens /\ natives' = natives /\ homes' = homes /\ crashes' \in Nat /\ StoreOK
  BY <1>1 DEF Types, StoreOK, HostOK, machine
<1>3. CASE \E end : Return(end)
  BY <1>1, <1>2, <1>3, QuietReturnKeepsTypes
<1>4. CASE pc' = "uninstall" /\ todo' = GroupRollback(SelectedGens)
           /\ UNCHANGED <<cmd, run, acts, idx, reg, gone, kept, told>>
  <2>1. todo' \subseteq Backends \X Refs
    BY <1>2, <1>4, GroupTyped DEF SelectedGens, NewestRun, NonRollback
  <2>2. HostOK' /\ StoreOK'
    BY <1>1, <1>4, QuietKeepsTypes
  <2>3. PhaseOK'
    BY <1>1, <1>2, <1>4, MoveKeepsPhase DEF Applying, Rolling
  <2>4. RegOK' /\ ActsOK' /\ ListsOK'
    BY <1>1, <1>2, <1>4, <2>1 DEF Types, RegOK, ActsOK, ListsOK, Applying, Idx
  <2> QED
    BY <2>2, <2>3, <2>4 DEF Types
<1> QED
  BY <1>3, <1>4 DEF SelectGroups

\* The refs a realizer host uninstalls.
RealizerRefs ==
  IF cmd.to = 0 THEN BrewRefs(NewestRun) ELSE BrewRefs({n \in DOMAIN gens : n > cmd.to})

\* The Nix generation a rollback activates exists.
LEMMA NativeTargetTyped == Types => NativeTarget \in 0..Len(natives)
<1> SUFFICES ASSUME Types PROVE NativeTarget \in 0..Len(natives)
  OBVIOUS
<1>1. Len(gens) \in Nat /\ Len(natives) \in Nat /\ active \in 0..Len(natives)
  BY DEF Types, HostOK, StoreOK
<1>2. CASE cmd.to # 0
  <2>1. cmd.to \in 1..Len(gens)
    BY <1>1, <1>2 DEF Types, PhaseOK, Cmds
  <2>2. gens[cmd.to] \in Gens /\ gens[cmd.to].native <= Len(natives)
    BY <2>1 DEF Types, StoreOK
  <2> QED
    BY <1>1, <1>2, <2>2 DEF NativeTarget, Gens
<1>3. CASE cmd.to = 0
  BY <1>1, <1>3 DEF NativeTarget, PreviousNative
<1> QED
  BY <1>2, <1>3

\* So does the switch of a rollback to an earlier Nix generation.
LEMMA RealizerRollbackKeepsTypes == Types /\ RealizerRollback => Types'
<1> SUFFICES ASSUME Types, RealizerRollback PROVE Types'
  OBVIOUS
<1>1. UNCHANGED <<profile, inst, natives, homes, home, avail, gens, edits, crashes, engine, setAt, lost>>
      /\ pc = "native"
  BY DEF RealizerRollback, NativeStep
<1>2. Len(gens) \in Nat /\ Len(natives) \in Nat /\ crashes' \in Nat /\ StoreOK
  BY <1>1 DEF Types, StoreOK, HostOK
<1>3. CASE \E end : Return(end) /\ UNCHANGED active
  BY <1>1, <1>2, <1>3, QuietReturnKeepsTypes DEF machine
<1>4. CASE pc' = "rehome" /\ todo' = RealizerRefs /\ active' \in {active, NativeTarget}
           /\ UNCHANGED <<cmd, run, acts, idx, reg, gone, kept, told>>
  <2>1. todo' \subseteq Backends \X Refs
    BY <1>2, <1>4, GroupTyped DEF RealizerRefs, BrewRefs, NewestRun, NonRollback
  <2>2. active' \in 0..Len(natives)
    BY <1>4, NativeTargetTyped DEF Types, HostOK
  <2>3. HostOK' /\ StoreOK'
    BY <1>1, <1>4, <2>2 DEF Types, HostOK, StoreOK
  <2>4. PhaseOK'
    BY <1>1, <1>2, <1>4, MoveKeepsPhase DEF Applying, Rolling
  <2>5. RegOK' /\ ActsOK' /\ ListsOK'
    BY <1>1, <1>2, <1>4, <2>1 DEF Types, RegOK, ActsOK, ListsOK, Applying, Idx
  <2> QED
    BY <2>3, <2>4, <2>5 DEF Types
<1> QED
  BY <1>3, <1>4 DEF RealizerRollback, RealizerRefs, NativeStep

\* So does each uninstallation.
LEMMA UninstallKeepsTypes ==
  ASSUME NEW b \in Backends, NEW r \in Refs, Types, UninstallNext(b, r) PROVE Types'
<1>1. UNCHANGED <<profile, natives, active, homes, home, avail, gens, edits, crashes, engine, setAt, lost>>
      /\ pc = "uninstall"
  BY DEF UninstallNext
<1>2. PICK st \in {"removed", "failed", "unavailable"} : Uninstall(b, r, st)
  BY DEF UninstallNext
<1>3. inst' \in [Refs -> Versions \cup {Absent}]
  BY <1>2 DEF Uninstall, WingetUninstall, ChocolateyUninstall, BrewUninstall, Types, HostOK
<1>4. run' = run
  <2>1. \A end : Return(end) => run' = run
    BY DEF Return, Forget
  <2> QED
    BY <2>1 DEF UninstallNext
<1>5. HostOK' /\ StoreOK'
  BY <1>1, <1>3, <1>4 DEF Types, HostOK, StoreOK
<1>6. CASE \E end : Return(end)
  BY <1>1, <1>5, <1>6, ReturnKeepsTypes DEF Types
<1>7. CASE /\ todo' = todo \ {<<b, r>>} /\ reg' = [reg EXCEPT !.lanes = {b}]
           /\ gone' \subseteq gone \cup {r} /\ kept' \subseteq kept \cup {r}
           /\ UNCHANGED <<pc, cmd, run, acts, idx, told>>
  <2>1. PhaseOK'
    BY <1>1, <1>7 DEF Types, PhaseOK
  <2>2. RegOK' /\ ActsOK' /\ ListsOK'
    BY <1>1, <1>7 DEF Types, RegOK, Regs, ActsOK, ListsOK, Applying, Idx
  <2> QED
    BY <1>5, <2>1, <2>2 DEF Types
<1> QED
  BY <1>6, <1>7 DEF UninstallNext

\* So does the user.
LEMMA UserEditKeepsTypes == ASSUME NEW i \in Idx, Types, UserEdit(i) PROVE Types'
<1>1. HostOK'
  BY AppTyped DEF UserEdit, Types, HostOK
<1>2. StoreOK' /\ PhaseOK' /\ RegOK' /\ ActsOK' /\ ListsOK'
  BY DEF UserEdit, process, Types, StoreOK, PhaseOK, RegOK, ActsOK, ListsOK, Idx
<1> QED
  BY <1>1, <1>2 DEF Types

\* The types are an invariant.
LEMMA InitTypes == Init => Types
<1> SUFFICES ASSUME Init PROVE Types
  OBVIOUS
<1>1. HostOK
  <2>1. natives \in Seq(SUBSET Refs) /\ active \in 0..Len(natives)
    <3>1. <<Extra>> \in Seq(SUBSET Refs) /\ Len(<<Extra>>) = 1
      BY DEF Refs
    <3>2. <<>> \in Seq(SUBSET Refs) /\ Len(<<>>) = 0
      OBVIOUS
    <3>3. (natives = <<>> /\ active = 0) \/ (natives = <<Extra>> /\ active = 1)
      BY DEF Init
    <3>4. CASE natives = <<>> /\ active = 0
      BY <3>2, <3>4
    <3>5. CASE natives = <<Extra>> /\ active = 1
      BY <3>1, <3>5
    <3> QED
      BY <3>3, <3>4, <3>5
  <2>2. profile \in Profiles /\ inst \in [Refs -> Versions \cup {Absent}] /\ avail \subseteq Backends
    BY DEF Init
  <2>3. homes = 0 /\ homes \in Nat /\ home \in 0..homes /\ engine = {} /\ edits = 0 /\ crashes = 0 /\ lost = FALSE
    BY DEF Init
  <2> QED
    BY <2>1, <2>2, <2>3 DEF HostOK
<1>2. StoreOK
  BY DEF Init, StoreOK
<1>3. PhaseOK
  BY ProfilesAreTyped DEF Init, PhaseOK, NoCmd, Cmds, Rolling
<1>4. RegOK
  BY <1>1 DEF Init, RegOK, NoReg, Regs, HostOK
<1>5. ActsOK /\ ListsOK
  BY DEF Init, ActsOK, ListsOK, Applying
<1> QED
  BY <1>1, <1>2, <1>3, <1>4, <1>5 DEF Types

\* Every step keeps the types.
LEMMA NextKeepsTypes == Types /\ [Next]_vars => Types'
<1> SUFFICES ASSUME Types, [Next]_vars PROVE Types'
  OBVIOUS
<1>1. CASE ApplyNext
  BY <1>1, StartsKeepTypes, EndsKeepTypes, EnsureBackendsKeepsTypes, PlanKeepsTypes, RealizeKeepsTypes,
     PruneKeepsTypes, AppStepsKeepTypes, TailStepsKeepTypes, HomeStepsKeepTypes, RecordLaneKeepsTypes
     DEF ApplyNext
<1>2. CASE RollbackNext
  BY <1>2, StartsKeepTypes, EndsKeepTypes, SelectGroupsKeepsTypes, RealizerRollbackKeepsTypes,
     HomeStepsKeepTypes, AppendRollbackKeepsTypes, UninstallKeepsTypes, RecordGroupKeepsTypes
     DEF RollbackNext
<1>3. CASE (\E i \in Idx : UserEdit(i)) \/ Crash
  BY <1>3, UserEditKeepsTypes, EndsKeepTypes
<1>4. CASE UNCHANGED vars
  BY <1>4 DEF vars, machine, process, ghosts, Types, HostOK, StoreOK, PhaseOK, RegOK, ActsOK, ListsOK, Idx
<1> QED
  BY <1>1, <1>2, <1>3, <1>4 DEF Next

\* Every variable keeps its type through applies, rollbacks, edits and deaths.
THEOREM ProvisionTypeOK == Spec => []TypeOK
<1>1. Types => TypeOK
  <2> SUFFICES ASSUME Types PROVE TypeOK
    OBVIOUS
  <2>1. profile \in Profiles /\ inst \in [Refs -> Versions \cup {Absent}] /\ active \in 0..Len(natives)
        /\ home \in 0..homes /\ avail \subseteq Backends /\ run \in 0..MaxRuns /\ Len(setAt) = Len(gens)
    BY DEF Types, HostOK, StoreOK, PhaseOK
  <2>2. \A n \in DOMAIN natives : natives[n] \subseteq Refs
    BY DEF Types, HostOK
  <2>3. \A n \in DOMAIN gens : gens[n] \in Gens /\ n \in 1..Len(gens)
    BY DEF Types, StoreOK
  <2>4. \A n \in DOMAIN gens : /\ gens[n].backend \in Backends /\ gens[n].run \in 1..run
                               /\ gens[n].added \subseteq Refs /\ gens[n].removed \subseteq Refs
                               /\ gens[n].native \in 0..Len(natives) /\ gens[n].home \in 0..homes
    BY <2>3 DEF Types, StoreOK, HostOK, Gens
  <2>5. acts # <<>> => DOMAIN acts = Idx /\ \A i \in Idx : acts[i].status \in Statuses
    BY DEF Types, ActsOK, Actions
  <2> QED
    BY <2>1, <2>2, <2>4, <2>5 DEF TypeOK, Types, ListsOK
<1> QED
  BY <1>1, InitTypes, NextKeepsTypes, PTL DEF Spec

-----------------------------------------------------------------------------
(* The plan and the apply *)

\* The plan command announces an installation exactly where an apply would
\* attempt one: the two read the lanes alike (planner.ComputePlan,
\* runPlanRealizer; the planning of apply).
THEOREM PlanIsWhatApplyDoes == Spec => []PlanAgreesWithApply
<1>1. Types => PlanAgreesWithApply
  <2> SUFFICES ASSUME Types, NEW i \in Idx, OnDriverHost \/ ~App(i).manual,
                      "nix" \in avail \/ App(i).driver # "nix"
               PROVE  RunPlan(i) = "install" <=> PlanApp(i, {}).status = "to_install"
    BY DEF PlanAgreesWithApply
  <2>1. App(i).driver \in Backends /\ App(i).manual \in BOOLEAN
    BY AppTyped DEF Types, HostOK
  <2>2. \A st : NewAction(st).status = st
    BY DEF NewAction
  <2>3. PlanDown(App(i).driver).status # "to_install"
    BY <2>2 DEF PlanDown
  <2>4. PlanDriverApp(i, {}).status = IF Observed(i) THEN "present" ELSE "to_install"
    <3> DEFINE st == IF Observed(i) THEN "present" ELSE "to_install"
    <3>1. PlanDriverApp(i, {}) = [NewAction(st) EXCEPT !.was = cmd.repin /\ Drifted(i)]
      BY DEF PlanDriverApp
    <3> HIDE DEF st
    <3>2. [NewAction(st) EXCEPT !.was = cmd.repin /\ Drifted(i)].status = st
      BY DEF NewAction
    <3> QED
      BY <3>1, <3>2 DEF st
  <2>5. CASE App(i).manual
    <3>1. PlanApp(i, {}) = PlanManual(i)
      BY <2>5 DEF PlanApp
    <3>2. RunPlan(i) = IF Detect(i) THEN "skip" ELSE "install"
      BY <2>5 DEF RunPlan, ComputeDriverLanePlan
    <3> QED
      BY <2>2, <3>1, <3>2 DEF PlanManual
  <2>6. CASE ~App(i).manual /\ ~LaneUp(App(i).driver)
    <3>1. PlanApp(i, {}) = PlanDown(App(i).driver)
      BY <2>6 DEF PlanApp
    <3>2. RunPlan(i) # "install"
      BY <2>1, <2>6 DEF RunPlan, ComputeDriverLanePlan, PlanRealizerApp, PlanBrewLane, LaneUp, Supported
    <3> QED
      BY <2>3, <3>1, <3>2
  <2>7. CASE ~App(i).manual /\ LaneUp(App(i).driver)
    <3>1. CASE OnDriverHost
      <4>1. App(i).driver \in {"winget", "chocolatey"}
        BY <2>7, <3>1 DEF LaneUp, Supported
      <4>2. PlanApp(i, {}) = PlanDriverApp(i, {})
        BY <2>7, <4>1 DEF PlanApp
      <4>3. RunPlan(i) = ComputeLanePlan(i)
        BY <2>7, <3>1 DEF RunPlan, ComputeDriverLanePlan
      <4> QED
        BY <2>4, <4>2, <4>3 DEF ComputeLanePlan, Observed
    <3>2. CASE ~OnDriverHost /\ App(i).driver = "nix"
      BY <2>2, <2>7, <3>2 DEF PlanApp, RunPlan, PlanRealizerApp
    <3>3. CASE ~OnDriverHost /\ App(i).driver = "brew"
      BY <2>2, <2>7, <3>3 DEF PlanApp, RunPlan, PlanRealizerApp, PlanBrewLane
    <3> QED
      BY <2>7, <3>1, <3>2, <3>3 DEF LaneUp, Supported
  <2> QED
    BY <2>1, <2>5, <2>6, <2>7
<1> QED
  BY <1>1, InitTypes, NextKeepsTypes, PTL DEF Spec

-----------------------------------------------------------------------------
(* A rollback uninstalls what an apply brought *)

BroughtInv == InstalledIsBrought /\ RecordedIsBrought

\* No step changes the profile or forgets what was brought.
LEMMA BroughtGrows ==
  [Next]_vars => /\ profile' = profile /\ engine \subseteq engine' /\ Idx' = Idx
                 /\ Brought \subseteq Brought' /\ \A i : App(i)' = App(i)
<1> SUFFICES ASSUME [Next]_vars PROVE profile' = profile /\ engine \subseteq engine'
  BY DEF Idx, Brought, PinnedChocolatey, App
<1>1. CASE ApplyNext
  BY <1>1 DEF ApplyNext, StartApply, StartRebuild, Refuse, EnsureBackends, Plan, Realize, Prune, PassOver,
     ReinstallDrifted, InstallMissing, AppUnchanged, AfterInstall, ConfigRestore, Verify, ActivateHome,
     RecordLane, FinishApply, ghosts
<1>2. CASE RollbackNext
  BY <1>2 DEF RollbackNext, StartRollback, SelectGroups, RealizerRollback, RollbackHome,
     AppendRollbackGeneration, UninstallNext, RecordGroup, FinishRollback
<1>3. CASE (\E i \in Idx : UserEdit(i)) \/ Crash
  BY <1>3 DEF UserEdit, Crash
<1>4. CASE UNCHANGED vars
  BY <1>4 DEF vars, ghosts
<1> QED
  BY <1>1, <1>2, <1>3, <1>4 DEF Next

\* A step that changes neither the actions nor the store, and adds nothing to uninstall.
LEMMA QuietKeepsBrought ==
  ASSUME BroughtInv, [Next]_vars, gens' = gens, todo' \subseteq todo,
         pc' \in Applying => pc \in Applying /\ acts' = acts
  PROVE  BroughtInv'
<1>1. InstalledIsBrought'
  BY BroughtGrows DEF BroughtInv, InstalledIsBrought
<1>2. RecordedIsBrought'
  BY BroughtGrows DEF BroughtInv, RecordedIsBrought
<1> QED
  BY <1>1, <1>2 DEF BroughtInv

\* A command that returns has nothing left to uninstall.
LEMMA ReturnKeepsBrought ==
  ASSUME BroughtInv, [Next]_vars, gens' = gens, NEW end, Return(end) PROVE BroughtInv'
BY QuietKeepsBrought DEF Return, Forget, Applying

\* A step that sets the actions anew.
LEMMA ActsKeepBrought ==
  ASSUME BroughtInv, [Next]_vars, gens' = gens, todo' = todo,
         \A i \in Idx : acts'[i].status = "installed" /\ ~acts'[i].was /\ ~App(i).manual
                        => App(i).ref \in Brought'
  PROVE  BroughtInv'
<1>1. InstalledIsBrought'
  BY BroughtGrows DEF InstalledIsBrought
<1>2. RecordedIsBrought'
  BY BroughtGrows DEF BroughtInv, RecordedIsBrought
<1> QED
  BY <1>1, <1>2 DEF BroughtInv

\* A step that writes a generation.
LEMMA WriteKeepsBrought ==
  ASSUME Types, BroughtInv, [Next]_vars, UNCHANGED <<acts, todo>>, pc' \in Applying => pc \in Applying,
         NEW g, g.added \subseteq Brought, WriteTo(g)
  PROVE  BroughtInv'
<1>1. InstalledIsBrought'
  BY BroughtGrows DEF BroughtInv, InstalledIsBrought
<1>2. gens \in Seq(Gens) /\ Len(gens) \in Nat
  BY DEF Types, StoreOK
<1>3. ASSUME NEW n \in 1..Len(gens') PROVE gens'[n].added \subseteq Brought
  BY <1>2 DEF WriteTo, BroughtInv, RecordedIsBrought
<1>4. RecordedIsBrought'
  BY <1>3, BroughtGrows DEF BroughtInv, RecordedIsBrought
<1> QED
  BY <1>1, <1>4 DEF BroughtInv

\* The plan installs nothing; the realizer brings what it installs.
LEMMA PlanKeepsBrought ==
  ASSUME Types, BroughtInv, [Next]_vars, Plan \/ Realize PROVE BroughtInv'
<1>1. gens' = gens
  BY DEF Plan, Realize, machine
<1>2. CASE \E end : Return(end)
  BY <1>1, <1>2, ReturnKeepsBrought
<1>3. CASE Plan /\ ~\E end : Return(end)
  <2>1. \E broken : acts' = [i \in Idx |-> PlanApp(i, broken)]
    BY <1>3 DEF Plan
  <2>2. \A i \in Idx : acts'[i].status # "installed"
    BY <2>1, PlanAppTyped
  <2>3. todo' = todo
    BY <1>3 DEF Plan
  <2> QED
    BY <1>1, <2>2, <2>3, ActsKeepBrought
<1>4. CASE Realize /\ ~\E end : Return(end)
  <2>1. pc \in Applying /\ acts \in [Idx -> Actions] /\ todo' = todo
    BY <1>4 DEF Realize, Types, ActsOK, Applying
  <2>2. \/ acts' = acts
        \/ acts' = SetStatus(ToAdd, "failed")
        \/ acts' = SetStatus(ToAdd, "installed") /\ engine' = engine \cup AddRefs
    BY <1>4 DEF Realize
  <2>3. ASSUME NEW i \in Idx, acts'[i].status = "installed", ~acts'[i].was, ~App(i).manual
        PROVE  App(i).ref \in Brought'
    <3>1. CASE i \in ToAdd /\ acts' = SetStatus(ToAdd, "installed") /\ engine' = engine \cup AddRefs
      BY <3>1 DEF Brought, AddRefs
    <3>2. CASE acts'[i] = acts[i]
      BY <2>1, <2>3, <3>2, BroughtGrows DEF BroughtInv, InstalledIsBrought
    <3>3. CASE i \in ToAdd /\ acts' = SetStatus(ToAdd, "failed")
      <4>1. acts'[i].status = "failed"
        BY <2>1, <3>3 DEF SetStatus, Actions
      <4> QED
        BY <2>3, <4>1
    <3>4. i \notin ToAdd => acts'[i] = acts[i]
      BY <2>2 DEF SetStatus
    <3> QED
      BY <2>2, <3>1, <3>2, <3>3, <3>4
  <2> QED
    BY <1>1, <2>1, <2>3, ActsKeepBrought
<1> QED
  BY <1>2, <1>3, <1>4

\* One app of the apply loop.  Only chocolatey with a pin reports an installation
\* of what was already there.
LEMMA AppStepsKeepBrought ==
  ASSUME Types, BroughtInv, [Next]_vars, PassOver \/ ReinstallDrifted \/ InstallMissing PROVE BroughtInv'
<1>1. InstallOne /\ AppUnchanged /\ idx \in Idx /\ acts \in [Idx -> Actions] /\ pc \in Applying
  BY DEF PassOver, ReinstallDrifted, InstallMissing, InstallOne, Types, ActsOK, Applying
<1>2. gens' = gens /\ todo' = todo
  BY <1>1 DEF AppUnchanged
<1>3. \A i \in Idx \ {idx} : acts'[i] = acts[i]
  BY <1>1 DEF PassOver, ReinstallDrifted, InstallMissing, NextApp
<1>4. ASSUME acts'[idx].status = "installed", ~acts'[idx].was, ~App(idx).manual PROVE App(idx).ref \in Brought'
  <2>1. inst \in [Refs -> Versions \cup {Absent}] /\ profile \in Profiles
    BY DEF Types, HostOK
  <2>2. \A st : NewAction(st).status = st /\ [NewAction(st) EXCEPT !.was = TRUE].was = TRUE
    BY DEF NewAction
  <2>3. CASE PassOver
    <3>1. acts'[idx] = acts[idx]
      BY <1>1, <1>4, <2>3 DEF PassOver, NextApp
    <3> QED
      BY <1>1, <1>4, <3>1, BroughtGrows DEF BroughtInv, InstalledIsBrought
  <2>4. CASE ReinstallDrifted
    <3>1. acts'[idx].was
      BY <1>1, <2>2, <2>4 DEF ReinstallDrifted, NextApp
    <3> QED
      BY <1>4, <3>1
  <2>5. CASE InstallMissing
    <3>1. PICK st \in {"installed", "present", "failed"} : Install(idx, st) /\ NextApp(NewAction(st))
      BY <2>5 DEF InstallMissing
    <3>2. st = "installed"
      BY <1>1, <1>4, <2>2, <3>1 DEF NextApp
    <3>3. App(idx).ref \in Refs /\ InstalledVersion(idx) \subseteq Versions /\ Absent \notin Versions
      BY <1>1, <2>1, AppTyped, InstalledVersionTyped, ProfilesAreTyped
    <3>4. CASE Detect(idx)
      <4>1. App(idx).driver = "chocolatey" /\ App(idx).pin # Absent
        BY <3>1, <3>2, <3>4 DEF Install, WingetInstall, ChocolateyInstall, BrewInstall
      <4>2. App(idx).ref \in PinnedChocolatey
        BY <1>1, <1>4, <4>1 DEF PinnedChocolatey
      <4> QED
        BY <4>2, BroughtGrows DEF Brought
    <3>5. CASE ~Detect(idx)
      <4>1. \E v \in Versions : inst' = [inst EXCEPT ![App(idx).ref] = v]
        BY <3>1, <3>2, <3>3 DEF Install, WingetInstall, ChocolateyInstall, BrewInstall
      <4>2. inst[App(idx).ref] = Absent /\ inst'[App(idx).ref] # Absent
        BY <2>1, <3>3, <3>5, <4>1 DEF Detect
      <4>3. App(idx).ref \in engine'
        BY <2>5, <4>2 DEF InstallMissing
      <4> QED
        BY <4>3 DEF Brought
    <3> QED
      BY <3>4, <3>5
  <2> QED
    BY <2>3, <2>4, <2>5
<1>5. ASSUME NEW i \in Idx, acts'[i].status = "installed", ~acts'[i].was, ~App(i).manual
      PROVE  App(i).ref \in Brought'
  <2>1. CASE i = idx
    BY <1>4, <1>5, <2>1
  <2>2. CASE i # idx
    BY <1>1, <1>3, <1>5, <2>2, BroughtGrows DEF BroughtInv, InstalledIsBrought
  <2> QED
    BY <2>1, <2>2
<1> QED
  BY <1>2, <1>5, ActsKeepBrought

\* Verification changes the drift of an action only.
LEMMA VerifyKeepsBrought == ASSUME Types, BroughtInv, [Next]_vars, Verify PROVE BroughtInv'
<1>1. acts \in [Idx -> Actions] /\ pc \in Applying /\ gens' = gens /\ todo' = todo
  BY DEF Verify, Types, ActsOK, Applying, machine
<1>2. \A i \in Idx : acts'[i].status = acts[i].status /\ acts'[i].was = acts[i].was
  BY <1>1 DEF Verify, Actions
<1> QED
  BY <1>1, <1>2, ActsKeepBrought, BroughtGrows DEF BroughtInv, InstalledIsBrought

\* A lane records what its actions brought.
LEMMA RecordLaneKeepsBrought ==
  ASSUME NEW b \in Backends, Types, BroughtInv, [Next]_vars, RecordLane(b) PROVE BroughtInv'
<1>1. pc = "record" /\ pc' = pc /\ UNCHANGED <<acts, todo>> /\ pc \in Applying
  BY DEF RecordLane, Applying
<1>2. AddedRefs(b) \subseteq Brought
  BY <1>1 DEF AddedRefs, LaneActions, BroughtInv, InstalledIsBrought
<1>3. CASE NoWrite
  BY <1>1, <1>3, QuietKeepsBrought DEF NoWrite
<1>4. ASSUME NEW removed, NEW native, NEW hm, WriteProvisioningGeneration(b, removed, native, hm)
      PROVE  BroughtInv'
  <2> DEFINE g == [run |-> run, backend |-> b, added |-> AddedRefs(b), removed |-> removed,
                   native |-> native, rollback |-> FALSE, home |-> hm, partial |-> Partial(b)]
  <2>1. CASE NoWrite
    BY <1>3, <2>1
  <2>2. CASE WriteTo(g)
    <3>1. g.added \subseteq Brought
      BY <1>2
    <3> HIDE DEF g
    <3> QED
      BY <1>1, <2>2, <3>1, WriteKeepsBrought
  <2> QED
    BY <1>4, <2>1, <2>2 DEF WriteProvisioningGeneration
<1> QED
  BY <1>3, <1>4 DEF RecordLane

\* A rollback records nothing as added.
LEMMA RollbackRecordsKeepBrought ==
  ASSUME Types, BroughtInv, [Next]_vars, AppendRollbackGeneration \/ \E b \in Backends : RecordGroup(b)
  PROVE  BroughtInv'
<1>1. pc \in Rolling /\ pc' \in Rolling /\ UNCHANGED <<acts, todo>> /\ pc' \notin Applying
  BY DEF AppendRollbackGeneration, RecordGroup, Applying, Rolling
<1>2. \/ NoWrite
      \/ \E g : g.added = {} /\ WriteTo(g)
  <2>1. CASE AppendRollbackGeneration
    <3> DEFINE g == [run |-> run, backend |-> "nix", added |-> {}, removed |-> {},
                     native |-> IF HasPackageTarget THEN active ELSE 0,
                     rollback |-> TRUE, home |-> RollbackHomeRef, partial |-> FALSE]
    <3>1. g.added = {} /\ (NoWrite \/ WriteTo(g))
      BY <2>1 DEF AppendRollbackGeneration
    <3> HIDE DEF g
    <3> QED
      BY <3>1
  <2>2. ASSUME NEW b \in Backends, RecordGroup(b) PROVE NoWrite \/ \E g : g.added = {} /\ WriteTo(g)
    <3> DEFINE g == [run |-> run, backend |-> b, added |-> {}, removed |-> gone, native |-> 0,
                     rollback |-> TRUE, home |-> 0, partial |-> kept # {}]
    <3>1. g.added = {} /\ (NoWrite \/ WriteTo(g))
      BY <2>2 DEF RecordGroup
    <3> HIDE DEF g
    <3> QED
      BY <3>1
  <2> QED
    BY <2>1, <2>2
<1>3. CASE NoWrite
  BY <1>1, <1>3, QuietKeepsBrought DEF NoWrite
<1>4. CASE \E g : g.added = {} /\ WriteTo(g)
  BY <1>1, <1>4, WriteKeepsBrought
<1> QED
  BY <1>2, <1>3, <1>4

\* What a rollback selects was brought.
LEMMA SelectionKeepsBrought ==
  ASSUME Types, BroughtInv, [Next]_vars, SelectGroups \/ RealizerRollback PROVE BroughtInv'
<1>1. gens' = gens /\ DOMAIN gens = 1..Len(gens)
  BY DEF SelectGroups, RealizerRollback, machine, Types, StoreOK
<1>2. CASE \E end : Return(end)
  BY <1>1, <1>2, ReturnKeepsBrought
<1>3. ASSUME NEW G \in SUBSET DOMAIN gens, NEW x \in GroupRollback(G) PROVE x[2] \in Brought
  BY <1>1 DEF GroupRollback, BroughtInv, RecordedIsBrought
<1>4. CASE ~\E end : Return(end)
  <2>1. todo' \in {GroupRollback(SelectedGens), RealizerRefs} /\ pc' \notin Applying
    BY <1>4 DEF SelectGroups, RealizerRollback, RealizerRefs, Applying
  <2>2. \A x \in todo' : x[2] \in Brought
    BY <1>3, <2>1 DEF SelectedGens, RealizerRefs, BrewRefs, NewestRun, NonRollback
  <2> QED
    BY <1>1, <2>1, <2>2, BroughtGrows DEF BroughtInv, InstalledIsBrought, RecordedIsBrought
<1> QED
  BY <1>2, <1>4

\* Every step keeps the records to what an apply brought.
LEMMA NextKeepsBrought == Types /\ BroughtInv /\ [Next]_vars => BroughtInv'
<1> SUFFICES ASSUME Types, BroughtInv, [Next]_vars PROVE BroughtInv'
  OBVIOUS
<1>1. CASE (\E f \in ApplyFlags : StartApply(f)) \/ (\E c \in Consents : StartRebuild(c[1], c[3], c[2]))
           \/ (\E to \in 0..Len(gens), c \in Consents : StartRollback(to, c[1], c[2], c[3]))
  BY <1>1, QuietKeepsBrought DEF StartApply, StartRebuild, StartRollback, machine, Applying
<1>2. CASE Refuse \/ FinishApply \/ FinishRollback \/ Crash
  BY <1>2, ReturnKeepsBrought DEF Refuse, FinishApply, FinishRollback, Crash, machine
<1>3. CASE EnsureBackends \/ ConfigRestore
  BY <1>3, QuietKeepsBrought DEF EnsureBackends, ConfigRestore, machine, Applying
<1>4. CASE Plan \/ Realize
  BY <1>4, PlanKeepsBrought
<1>5. CASE Prune \/ AfterInstall \/ ActivateHome \/ RollbackHome
  <2>1. gens' = gens
    BY <1>5 DEF Prune, AfterInstall, ActivateHome, RollbackHome, machine
  <2>2. CASE \E end : Return(end)
    BY <2>1, <2>2, ReturnKeepsBrought
  <2>3. CASE ~\E end : Return(end)
    <3>1. todo' = todo /\ acts' = acts /\ (pc' \in Applying => pc \in Applying)
      BY <1>5, <2>3 DEF Prune, AfterInstall, ActivateHome, RollbackHome, Applying
    <3> QED
      BY <2>1, <3>1, QuietKeepsBrought
  <2> QED
    BY <2>2, <2>3
<1>6. CASE PassOver \/ ReinstallDrifted \/ InstallMissing
  BY <1>6, AppStepsKeepBrought
<1>7. CASE Verify
  BY <1>7, VerifyKeepsBrought
<1>8. CASE \E b \in Backends : RecordLane(b)
  BY <1>8, RecordLaneKeepsBrought
<1>9. CASE SelectGroups \/ RealizerRollback
  BY <1>9, SelectionKeepsBrought
<1>10. CASE AppendRollbackGeneration \/ \E b \in Backends : RecordGroup(b)
  BY <1>10, RollbackRecordsKeepBrought
<1>11. CASE \E b \in Backends, r \in Refs : UninstallNext(b, r)
  <2>1. gens' = gens /\ pc \notin Applying
    BY <1>11 DEF UninstallNext, Applying
  <2>2. CASE \E end : Return(end)
    BY <2>1, <2>2, ReturnKeepsBrought
  <2>3. CASE ~\E end : Return(end)
    <3>1. todo' \subseteq todo /\ pc' = pc
      BY <1>11, <2>3 DEF UninstallNext
    <3> QED
      BY <2>1, <3>1, QuietKeepsBrought
  <2> QED
    BY <2>2, <2>3
<1>12. CASE (\E i \in Idx : UserEdit(i)) \/ UNCHANGED vars
  BY <1>12, QuietKeepsBrought DEF UserEdit, process, vars, machine
<1> QED
  BY <1>1, <1>2, <1>3, <1>4, <1>5, <1>6, <1>7, <1>8, <1>9, <1>10, <1>11, <1>12
     DEF Next, ApplyNext, RollbackNext

\* A rollback uninstalls only packages some apply brought onto the host, for any
\* profile, flags and edits by the user in between; chocolatey packages with a
\* pin, which the code takes for its own without looking, are the exception.
THEOREM RollbackKeepsForeignPackages == Spec => RollbackKeepsForeign
<1>1. Init => BroughtInv
  BY DEF Init, BroughtInv, InstalledIsBrought, RecordedIsBrought, Applying
<1>2. Types /\ BroughtInv /\ [Next]_vars =>
        [cmd.kind = "rollback" /\ edits' = edits =>
           \A r \in Refs : inst[r] # Absent /\ inst'[r] = Absent => r \in engine \cup PinnedChocolatey]_vars
  <2> SUFFICES ASSUME Types, BroughtInv, Next, cmd.kind = "rollback", edits' = edits,
                      NEW r \in Refs, inst[r] # Absent, inst'[r] = Absent
               PROVE  r \in engine \cup PinnedChocolatey
    OBVIOUS
  <2>1. pc \in Rolling /\ edits \in Nat /\ inst \in [Refs -> Versions \cup {Absent}]
    BY DEF Types, PhaseOK, HostOK
  <2>2. inst' # inst /\ edits' # edits + 1
    BY <2>1
  <2>3. CASE \E b \in Backends, q \in Refs : UninstallNext(b, q)
    <3>1. PICK b \in Backends, q \in Refs : UninstallNext(b, q)
      BY <2>3
    <3>2. <<b, q>> \in todo /\ inst' = [inst EXCEPT ![q] = Absent]
      BY <2>2, <3>1 DEF UninstallNext, Uninstall, WingetUninstall, ChocolateyUninstall, BrewUninstall
    <3>3. q = r
      BY <2>1, <3>2
    <3> QED
      BY <3>2, <3>3 DEF BroughtInv, RecordedIsBrought, Brought
  <2>4. CASE RollbackNext /\ ~\E b \in Backends, q \in Refs : UninstallNext(b, q)
    BY <2>2, <2>4 DEF RollbackNext, StartRollback, SelectGroups, RealizerRollback, RollbackHome,
       AppendRollbackGeneration, RecordGroup, FinishRollback, machine
  <2>5. CASE ApplyNext
    <3>1. CASE PassOver \/ ReinstallDrifted \/ InstallMissing
      BY <2>1, <3>1 DEF PassOver, ReinstallDrifted, InstallMissing, InstallOne, Rolling
    <3>2. CASE ~(PassOver \/ ReinstallDrifted \/ InstallMissing)
      BY <2>2, <2>5, <3>2 DEF ApplyNext, StartApply, StartRebuild, Refuse, EnsureBackends, Plan, Realize,
         Prune, AfterInstall, ConfigRestore, Verify, ActivateHome, RecordLane, FinishApply, machine
    <3> QED
      BY <3>1, <3>2
  <2>6. CASE (\E i \in Idx : UserEdit(i)) \/ Crash
    BY <2>2, <2>6 DEF UserEdit, Crash, machine
  <2> QED
    BY <2>3, <2>4, <2>5, <2>6 DEF Next
<1> QED
  BY <1>1, <1>2, InitTypes, NextKeepsTypes, NextKeepsBrought, PTL DEF Spec, RollbackKeepsForeign

-----------------------------------------------------------------------------
(* A rollback reaches the Nix set of its target *)

AnchorInv == SwitchedIsActive /\ AnchorIsSet

\* A step that switches nothing and writes nothing.
LEMMA QuietKeepsAnchors ==
  ASSUME AnchorInv, UNCHANGED <<natives, gens, setAt>>,
         \/ pc' \notin Planning \cup Applying
         \/ reg'.install = 0 /\ reg'.prune = 0
         \/ /\ UNCHANGED <<active, reg.install, reg.prune>> /\ pc \in Planning \cup Applying
            /\ pc' \in Planning \cup {"realize"} => pc \in Planning
  PROVE  AnchorInv'
<1>1. SwitchedIsActive'
  BY DEF AnchorInv, SwitchedIsActive, Planning, Applying
<1>2. AnchorIsSet'
  BY DEF AnchorInv, AnchorIsSet
<1> QED
  BY <1>1, <1>2 DEF AnchorInv

\* A command that returns switches nothing and writes nothing.
LEMMA ReturnKeepsAnchors ==
  ASSUME AnchorInv, UNCHANGED <<natives, gens, setAt>>, NEW end, Return(end) PROVE AnchorInv'
BY QuietKeepsAnchors DEF Return, Forget, Planning, Applying

\* A switch leaves the sets that records anchor at alone.
LEMMA SwitchKeepsAnchors ==
  ASSUME Types, AnchorInv, NEW s \in SUBSET Refs, Switch(s), UNCHANGED <<gens, setAt>>,
         pc' \in {"prune", "install"}, reg'.prune \in {0, active'}, reg'.prune = 0 => reg'.install = active'
  PROVE  AnchorInv'
<1>1. Len(natives) \in Nat /\ \A n \in 1..Len(natives) : natives'[n] = natives[n]
  BY SwitchAppends DEF Types
<1>2. ASSUME NEW n \in 1..Len(gens), gens[n].native # 0 PROVE natives'[gens[n].native] = setAt[n]
  <2>1. gens[n] \in Gens /\ gens[n].native <= Len(natives)
    BY DEF Types, StoreOK
  <2>2. gens[n].native \in 1..Len(natives)
    BY <1>1, <1>2, <2>1 DEF Gens
  <2> QED
    BY <1>1, <1>2, <2>2 DEF AnchorInv, AnchorIsSet
<1>3. AnchorIsSet'
  BY <1>2 DEF AnchorIsSet
<1> QED
  BY <1>3 DEF AnchorInv, SwitchedIsActive, Planning, Applying

\* A record that anchors at the active generation.
LEMMA WriteKeepsAnchors ==
  ASSUME Types, AnchorInv, UNCHANGED <<natives, active>>, pc' \in {"record", "uninstall"},
         pc' = "record" => pc = "record",
         UNCHANGED <<reg.install, reg.prune>>, NEW g, g.native \in {0, active}, WriteTo(g)
  PROVE  AnchorInv'
<1>1. SwitchedIsActive'
  BY DEF AnchorInv, SwitchedIsActive, Planning, Applying
<1>2. gens \in Seq(Gens) /\ setAt \in Seq(SUBSET Refs) /\ Len(gens) \in Nat /\ Len(setAt) = Len(gens)
  BY DEF Types, StoreOK
<1>3. CASE UNCHANGED <<gens, setAt>>
  BY <1>1, <1>3 DEF AnchorInv, AnchorIsSet
<1>4. CASE gens' = Append(gens, g) /\ setAt' = Append(setAt, IF active = 0 THEN {} ELSE natives[active])
  <2>1. Len(gens') = Len(gens) + 1 /\ gens'[Len(gens) + 1] = g /\ \A n \in 1..Len(gens) : gens'[n] = gens[n]
    BY <1>2, <1>4
  <2>2. setAt'[Len(gens) + 1] = (IF active = 0 THEN {} ELSE natives[active])
        /\ \A n \in 1..Len(gens) : setAt'[n] = setAt[n]
    BY <1>2, <1>4
  <2>3. ASSUME NEW n \in 1..Len(gens'), gens'[n].native # 0 PROVE natives[gens'[n].native] = setAt'[n]
    <3>1. CASE n = Len(gens) + 1
      BY <2>1, <2>2, <2>3, <3>1
    <3>2. CASE n \in 1..Len(gens)
      BY <2>1, <2>2, <2>3, <3>2 DEF AnchorInv, AnchorIsSet
    <3> QED
      BY <1>2, <2>1, <3>1, <3>2
  <2> QED
    BY <1>1, <2>3 DEF AnchorInv, AnchorIsSet
<1> QED
  BY <1>3, <1>4 DEF WriteTo

\* The realizer.
LEMMA RealizeKeepsAnchors == ASSUME Types, AnchorInv, Realize PROVE AnchorInv'
<1>1. pc = "realize" /\ UNCHANGED <<gens, setAt>> /\ Current \subseteq Refs /\ reg \in Regs
  BY CurrentTyped DEF Realize, Types, RegOK
<1>2. CASE \E end : Return(end)
  <2>1. natives' = natives
    BY <1>2 DEF Realize, Return, Forget
  <2> QED
    BY <1>1, <1>2, <2>1, ReturnKeepsAnchors
<1>3. CASE pc' = "prune" /\ UNCHANGED <<natives, active, reg>>
  BY <1>1, <1>3, QuietKeepsAnchors DEF Planning, Applying
<1>4. CASE pc' = "prune" /\ Switch(Current \cup AddRefs) /\ reg' = [reg EXCEPT !.install = active']
  <2>1. Current \cup AddRefs \in SUBSET Refs
    BY <1>1, AppTyped DEF AddRefs, ToAdd, Types, HostOK
  <2>2. reg'.install = active' /\ reg'.prune = reg.prune
    BY <1>1, <1>4 DEF Regs
  <2>3. reg.prune = 0
    BY <1>1 DEF AnchorInv, SwitchedIsActive
  <2> QED
    BY <1>1, <1>4, <2>1, <2>2, <2>3, SwitchKeepsAnchors
<1> QED
  BY <1>2, <1>3, <1>4 DEF Realize

\* So does the removal of what is not declared.
LEMMA PruneKeepsAnchors == ASSUME Types, AnchorInv, Prune PROVE AnchorInv'
<1>1. pc = "prune" /\ UNCHANGED <<gens, setAt>> /\ Current \subseteq Refs /\ reg \in Regs
  BY CurrentTyped DEF Prune, Types, RegOK
<1>2. CASE \E end : Return(end)
  <2>1. natives' = natives
    BY <1>2 DEF Prune, Return, Forget
  <2> QED
    BY <1>1, <1>2, <2>1, ReturnKeepsAnchors
<1>3. CASE pc' = "install" /\ UNCHANGED <<natives, active, reg>>
  BY <1>1, <1>3, QuietKeepsAnchors DEF Planning, Applying
<1>4. CASE pc' = "install" /\ Switch(Current \ ComputeDrift)
           /\ reg' = [reg EXCEPT !.prune = active', !.removed = ComputeDrift]
  <2>1. Current \ ComputeDrift \in SUBSET Refs
    BY <1>1
  <2>2. reg'.prune = active'
    BY <1>1, <1>4 DEF Regs
  <2>3. active' # 0
    BY <1>4, <2>1, SwitchAppends DEF Types
  <2> QED
    BY <1>1, <1>4, <2>1, <2>2, <2>3, SwitchKeepsAnchors
<1> QED
  BY <1>2, <1>3, <1>4 DEF Prune

\* A lane records the last switch, a rollback the active generation.
LEMMA RecordsKeepAnchors ==
  ASSUME Types, AnchorInv,
         (\E b \in Backends : RecordLane(b)) \/ AppendRollbackGeneration \/ (\E b \in Backends : RecordGroup(b))
  PROVE  AnchorInv'
<1>1. UNCHANGED <<natives, active>> /\ pc' \in {"record", "uninstall"} /\ (pc' = "record" => pc = "record")
  BY DEF RecordLane, AppendRollbackGeneration, RecordGroup
<1>2. UNCHANGED <<reg.install, reg.prune>>
  BY DEF RecordLane, AppendRollbackGeneration, RecordGroup, Types, RegOK, Regs
<1>3. CASE NoWrite
  <2>1. pc \in {"record", "rerecord", "uninstall"}
    BY DEF RecordLane, AppendRollbackGeneration, RecordGroup
  <2> QED
    BY <1>1, <1>2, <1>3, <2>1, QuietKeepsAnchors DEF NoWrite, Planning, Applying
<1>4. ASSUME NEW b \in Backends, RecordLane(b) PROVE NoWrite \/ \E g : g.native \in {0, active} /\ WriteTo(g)
  <2>1. FinalNative \in {0, active}
    <3>1. pc \in Applying
      BY <1>4 DEF RecordLane, Applying
    <3> QED
      BY <3>1 DEF FinalNative, AnchorInv, SwitchedIsActive
  <2>2. ASSUME NEW removed, NEW native \in {0, active}, NEW hm, WriteProvisioningGeneration(b, removed, native, hm)
        PROVE  NoWrite \/ \E g : g.native \in {0, active} /\ WriteTo(g)
    <3> DEFINE g == [run |-> run, backend |-> b, added |-> AddedRefs(b), removed |-> removed,
                     native |-> native, rollback |-> FALSE, home |-> hm, partial |-> Partial(b)]
    <3>1. g.native = native /\ (NoWrite \/ WriteTo(g))
      BY <2>2 DEF WriteProvisioningGeneration
    <3> HIDE DEF g
    <3> QED
      BY <3>1
  <2> QED
    BY <1>4, <2>1, <2>2 DEF RecordLane
<1>5. CASE AppendRollbackGeneration
  <2> DEFINE g == [run |-> run, backend |-> "nix", added |-> {}, removed |-> {},
                   native |-> IF HasPackageTarget THEN active ELSE 0,
                   rollback |-> TRUE, home |-> RollbackHomeRef, partial |-> FALSE]
  <2>1. g.native \in {0, active} /\ (NoWrite \/ WriteTo(g))
    BY <1>5 DEF AppendRollbackGeneration
  <2> HIDE DEF g
  <2> QED
    BY <1>1, <1>2, <1>3, <2>1, WriteKeepsAnchors
<1>6. ASSUME NEW b \in Backends, RecordGroup(b) PROVE NoWrite \/ \E g : g.native \in {0, active} /\ WriteTo(g)
  <2> DEFINE g == [run |-> run, backend |-> b, added |-> {}, removed |-> gone, native |-> 0,
                   rollback |-> TRUE, home |-> 0, partial |-> kept # {}]
  <2>1. g.native = 0 /\ (NoWrite \/ WriteTo(g))
    BY <1>6 DEF RecordGroup
  <2> HIDE DEF g
  <2> QED
    BY <2>1
<1> QED
  BY <1>1, <1>2, <1>3, <1>4, <1>5, <1>6, WriteKeepsAnchors

\* Every step keeps the anchors.
LEMMA NextKeepsAnchors == Types /\ AnchorInv /\ [Next]_vars => AnchorInv'
<1> SUFFICES ASSUME Types, AnchorInv, [Next]_vars PROVE AnchorInv'
  OBVIOUS
<1>1. CASE (\E f \in ApplyFlags : StartApply(f)) \/ (\E c \in Consents : StartRebuild(c[1], c[3], c[2]))
           \/ (\E to \in 0..Len(gens), c \in Consents : StartRollback(to, c[1], c[2], c[3]))
  <2>1. reg' = NoReg /\ UNCHANGED <<natives, gens, setAt>>
    BY <1>1 DEF StartApply, StartRebuild, StartRollback, machine
  <2>2. NoReg.install = 0 /\ NoReg.prune = 0
    BY DEF NoReg
  <2> QED
    BY <2>1, <2>2, QuietKeepsAnchors
<1>2. CASE Refuse \/ FinishApply \/ FinishRollback \/ Crash
  BY <1>2, ReturnKeepsAnchors DEF Refuse, FinishApply, FinishRollback, Crash, machine
<1>3. CASE EnsureBackends \/ Plan \/ AfterInstall \/ ConfigRestore \/ Verify \/ ActivateHome
           \/ PassOver \/ ReinstallDrifted \/ InstallMissing
  <2>1. UNCHANGED <<natives, active, gens, setAt>>
    BY <1>3 DEF EnsureBackends, Plan, AfterInstall, ConfigRestore, Verify, ActivateHome, PassOver,
       ReinstallDrifted, InstallMissing, AppUnchanged, ghosts, machine
  <2>2. CASE \E end : Return(end)
    BY <2>1, <2>2, ReturnKeepsAnchors
  <2>3. CASE ~\E end : Return(end)
    <3>1. UNCHANGED <<reg.install, reg.prune>>
      BY <1>3, <2>3 DEF EnsureBackends, Plan, AfterInstall, ConfigRestore, Verify, ActivateHome, PassOver,
         ReinstallDrifted, InstallMissing, AppUnchanged, Types, RegOK, Regs
    <3>2. pc \in Planning \cup Applying /\ (pc' \in Planning \cup {"realize"} => pc \in Planning)
      BY <1>3, <2>3 DEF EnsureBackends, Plan, AfterInstall, ConfigRestore, Verify, ActivateHome, PassOver,
         ReinstallDrifted, InstallMissing, InstallOne, AppUnchanged, Planning, Applying
    <3> QED
      BY <2>1, <3>1, <3>2, QuietKeepsAnchors
  <2> QED
    BY <2>2, <2>3
<1>4. CASE Realize
  BY <1>4, RealizeKeepsAnchors
<1>5. CASE Prune
  BY <1>5, PruneKeepsAnchors
<1>6. CASE SelectGroups \/ RealizerRollback \/ RollbackHome \/ \E b \in Backends, r \in Refs : UninstallNext(b, r)
  <2>1. UNCHANGED <<natives, gens, setAt>>
    BY <1>6 DEF SelectGroups, RealizerRollback, NativeStep, RollbackHome, UninstallNext, machine
  <2>2. pc' \notin Planning \cup Applying
    BY <1>6 DEF SelectGroups, RealizerRollback, RollbackHome, UninstallNext, Return, Forget, Planning, Applying
  <2> QED
    BY <2>1, <2>2, QuietKeepsAnchors
<1>7. CASE (\E b \in Backends : RecordLane(b)) \/ AppendRollbackGeneration \/ (\E b \in Backends : RecordGroup(b))
  BY <1>7, RecordsKeepAnchors
<1>8. CASE (\E i \in Idx : UserEdit(i)) \/ UNCHANGED vars
  <2>1. UNCHANGED <<natives, active, gens, setAt, pc, reg>>
    BY <1>8 DEF UserEdit, process, vars, machine, ghosts
  <2> QED
    BY <2>1 DEF AnchorInv, SwitchedIsActive, AnchorIsSet
<1> QED
  BY <1>1, <1>2, <1>3, <1>4, <1>5, <1>6, <1>7, <1>8 DEF Next, ApplyNext, RollbackNext

\* A rollback to generation g activates exactly the Nix set that was active when
\* g was recorded, whatever was installed, pruned or rolled back since.
THEOREM RollbackReachesItsTarget == Spec => RollbackReachesTarget
<1>1. Init => AnchorInv
  BY DEF Init, AnchorInv, SwitchedIsActive, AnchorIsSet, Planning, Applying
<1>2. Types /\ AnchorInv /\ [Next]_vars =>
        [active' # active /\ cmd.kind = "rollback" /\ cmd.to # 0 => natives'[active'] = setAt[cmd.to]]_vars
  <2> SUFFICES ASSUME Types, AnchorInv, Next, active' # active, cmd.kind = "rollback", cmd.to # 0
               PROVE  natives'[active'] = setAt[cmd.to]
    OBVIOUS
  <2>1. pc \in Rolling /\ cmd.to \in 1..Len(gens)
    BY DEF Types, PhaseOK, Cmds, StoreOK
  <2>2. CASE RealizerRollback
    <3>1. HasPackageTarget /\ active' = NativeTarget /\ natives' = natives
      BY <2>2 DEF RealizerRollback, NativeStep
    <3>2. gens[cmd.to].native # 0 /\ active' = gens[cmd.to].native
      BY <3>1 DEF HasPackageTarget, NativeTarget
    <3> QED
      BY <2>1, <3>1, <3>2 DEF AnchorInv, AnchorIsSet
  <2>3. CASE RollbackNext /\ ~RealizerRollback
    BY <2>3 DEF RollbackNext, StartRollback, SelectGroups, RollbackHome, AppendRollbackGeneration,
       UninstallNext, RecordGroup, FinishRollback, machine
  <2>4. CASE ApplyNext
    <3>1. CASE Realize \/ Prune
      BY <2>1, <3>1 DEF Realize, Prune, Rolling
    <3>2. CASE ~(Realize \/ Prune)
      BY <2>4, <3>2 DEF ApplyNext, StartApply, StartRebuild, Refuse, EnsureBackends, Plan, PassOver,
         ReinstallDrifted, InstallMissing, AppUnchanged, AfterInstall, ConfigRestore, Verify, ActivateHome,
         RecordLane, FinishApply, machine
    <3> QED
      BY <3>1, <3>2
  <2>5. CASE (\E i \in Idx : UserEdit(i)) \/ Crash
    BY <2>5 DEF UserEdit, Crash, machine
  <2> QED
    BY <2>2, <2>3, <2>4, <2>5 DEF Next
<1> QED
  BY <1>1, <1>2, InitTypes, NextKeepsTypes, NextKeepsAnchors, PTL DEF Spec, RollbackReachesTarget

-----------------------------------------------------------------------------
(* The newest record names the active home-manager generation *)

\* The generations that record one.
HomeRecords == {n \in DOMAIN gens : gens[n].home # 0}

\* Of the numbers up to a bound, a set that is not empty has a largest.
LEMMA SetHasLargest ==
  ASSUME NEW top \in Nat, NEW S \in SUBSET (1..top), S # {}
  PROVE  \E n \in S : \A m \in S : m <= n
<1> DEFINE D == {k \in Nat : top - k \in S}
           R == {ss \in Nat \X Nat : ss[1] < ss[2]}
<1>1. IsWellFoundedOn(R, Nat)
  BY NatLessThanWellFounded, Zenon DEF OpToRel
<1>2. \A u \in S : u \in Nat /\ top - u \in D /\ top - (top - u) = u
  OBVIOUS
<1>3. D # {} /\ D \in SUBSET Nat
  BY <1>2
<1>4. PICK x \in D : \A y \in D : ~(<<y, x>> \in R)
  <2> HIDE DEF R, D
  <2> QED
    BY <1>1, <1>3, WFMin, Zenon
<1>5. \A y \in D : ~(y < x)
  BY <1>4
<1>6. top - x \in S
  OBVIOUS
<1>7. ASSUME NEW u \in S PROVE u <= top - x
  <2>1. top - u \in Nat /\ u \in Nat /\ x \in Nat /\ ~(top - u < x)
    BY <1>2, <1>5
  <2> QED
    BY <2>1
<1> QED
  BY <1>6, <1>7

\* A record without a home-manager generation does not change the newest one;
\* a record with one becomes it.
LEMMA WriteRecordsHome ==
  ASSUME Types, NEW g, gens' = Append(gens, g)
  PROVE  RecordedHome' = IF g.home = 0 THEN RecordedHome ELSE g.home
<1>1. gens \in Seq(Gens) /\ Len(gens) \in Nat /\ DOMAIN gens = 1..Len(gens)
  BY DEF Types, StoreOK
<1>2. DOMAIN gens' = 1..(Len(gens) + 1) /\ gens'[Len(gens) + 1] = g
      /\ \A n \in DOMAIN gens : gens'[n] = gens[n]
  BY <1>1
<1>3. /\ RecordedHome = IF HomeRecords = {} THEN 0
                        ELSE gens[CHOOSE n \in HomeRecords : \A m \in HomeRecords : m <= n].home
      /\ RecordedHome' = IF HomeRecords' = {} THEN 0
                         ELSE gens'[CHOOSE n \in HomeRecords' : \A m \in HomeRecords' : m <= n].home
  BY DEF RecordedHome, HomeRecords
<1>4. CASE g.home = 0
  <2>1. HomeRecords' = HomeRecords
    BY <1>1, <1>2, <1>4 DEF HomeRecords
  <2>2. CASE HomeRecords = {}
    BY <1>3, <1>4, <2>1, <2>2
  <2>3. CASE HomeRecords # {}
    <3>1. HomeRecords \in SUBSET (1..Len(gens))
      BY <1>1 DEF HomeRecords
    <3>2. \E n \in HomeRecords : \A m \in HomeRecords : m <= n
      BY <1>1, <2>3, <3>1, SetHasLargest
    <3> DEFINE best == CHOOSE n \in HomeRecords : \A m \in HomeRecords : m <= n
    <3>3. best \in HomeRecords
      BY <3>2
    <3>4. best \in DOMAIN gens
      BY <1>1, <3>1, <3>3
    <3>5. RecordedHome = gens[best].home /\ RecordedHome' = gens'[best].home
      BY <1>3, <2>1, <2>3
    <3> HIDE DEF best
    <3> QED
      BY <1>2, <1>4, <3>4, <3>5
  <2> QED
    BY <2>2, <2>3
<1>5. CASE g.home # 0
  <2> DEFINE last == Len(gens) + 1
             best == CHOOSE n \in HomeRecords' : \A m \in HomeRecords' : m <= n
  <2>1. last \in HomeRecords' /\ \A m \in HomeRecords' : m <= last /\ m \in Nat
    BY <1>1, <1>2, <1>5 DEF HomeRecords
  <2>2. best \in HomeRecords' /\ \A m \in HomeRecords' : m <= best
    BY <2>1
  <2>3. best = last
    <3>1. best <= last /\ last <= best /\ best \in Nat /\ last \in Nat
      BY <1>1, <2>1, <2>2
    <3> QED
      BY <3>1
  <2>4. RecordedHome' = gens'[best].home
    BY <1>3, <2>1
  <2> HIDE DEF best
  <2> QED
    BY <1>2, <1>5, <2>3, <2>4
<1> QED
  BY <1>4, <1>5

\* A step that activates nothing and writes nothing, with nothing left to record.
LEMMA QuietKeepsHome ==
  ASSUME HomeIsTracked, UNCHANGED <<gens, home>>,
         crashes' # 0 \/ (UNCHANGED <<crashes, lost>> /\ ~HomeUnrecorded /\ ~HomeUnrecorded'),
         pc' \in {"idle", "uninstall", "record"} \/ reg'.home = 0
  PROVE  HomeIsTracked'
<1>1. RecordedHome' = RecordedHome
  BY DEF RecordedHome
<1> QED
  BY <1>1 DEF HomeIsTracked, Planning, Applying

\* A command that returns has recorded what it activated.
LEMMA ReturnKeepsHome ==
  ASSUME HomeIsTracked, UNCHANGED <<gens, home, crashes, lost>>, ~HomeUnrecorded, NEW end, Return(end)
  PROVE  HomeIsTracked'
<1>1. pc' = "idle"
  BY DEF Return, Forget
<1>2. ~HomeUnrecorded'
  BY <1>1 DEF HomeUnrecorded
<1> QED
  BY <1>1, <1>2, QuietKeepsHome

\* A record written, lost or not needed.
LEMMA RecordKeepsHome ==
  ASSUME Types, HomeIsTracked, UNCHANGED <<home, crashes>>, pc' \in {"record", "uninstall"},
         UNCHANGED reg.home, NEW g,
         NoWrite \/ WriteTo(g),
         NoWrite => (HomeUnrecorded' <=> HomeUnrecorded),
         g.home = 0 => (HomeUnrecorded' <=> HomeUnrecorded),
         g.home # 0 => HomeUnrecorded /\ ~HomeUnrecorded' /\ g.home = reg.home
  PROVE  HomeIsTracked'
<1>1. CASE NoWrite
  <2>1. RecordedHome' = RecordedHome
    BY <1>1 DEF RecordedHome, NoWrite
  <2> QED
    BY <1>1, <2>1 DEF HomeIsTracked, NoWrite, Planning, Applying
<1>2. CASE lost' = TRUE
  BY <1>2 DEF HomeIsTracked, Planning, Applying
<1>3. CASE gens' = Append(gens, g) /\ UNCHANGED lost
  BY <1>3, WriteRecordsHome DEF HomeIsTracked, Planning, Applying
<1> QED
  BY <1>1, <1>2, <1>3 DEF WriteTo

\* An activation leaves the generation it made to be recorded.
LEMMA ActivationKeepsHome ==
  ASSUME Types, HomeIsTracked, ActivateHome \/ RollbackHome
  PROVE  HomeIsTracked'
<1>1. /\ UNCHANGED <<gens, crashes, lost>> /\ homes \in Nat /\ reg \in Regs /\ pc \in {"home", "rehome"}
      /\ reg.home = 0 /\ ~HomeUnrecorded
  BY DEF ActivateHome, RollbackHome, Types, HostOK, RegOK, HomeIsTracked, HomeUnrecorded, Applying
<1>2. CASE \E end : Return(end)
  <2>1. home' = home
    BY <1>2 DEF ActivateHome, RollbackHome, Return, Forget
  <2> QED
    BY <1>1, <1>2, <2>1, ReturnKeepsHome
<1>3. CASE UNCHANGED <<home, reg>> /\ pc' = "rerecord"
  BY <1>1, <1>3, QuietKeepsHome DEF HomeUnrecorded
<1>4. CASE home' = home /\ pc' = "record" /\ reg' = [reg EXCEPT !.lanes = PackageLanes]
  <2>1. reg'.home = 0
    BY <1>1, <1>4 DEF Regs
  <2> QED
    BY <1>1, <1>4, <2>1, QuietKeepsHome DEF HomeUnrecorded
<1>5. CASE home' = homes + 1 /\ \/ /\ pc' = "record"
                                   /\ reg' = [reg EXCEPT !.lanes = PackageLanes \cup {"nix"}, !.home = homes + 1]
                                \/ pc' = "rerecord" /\ reg' = [reg EXCEPT !.home = homes + 1]
  <2>1. reg'.home = homes + 1 /\ (pc' = "record" => "nix" \in reg'.lanes)
    <3>1. CASE pc' = "record"
      BY <1>1, <1>5, <3>1 DEF Regs
    <3>2. CASE pc' = "rerecord"
      BY <1>1, <1>5, <3>2 DEF Regs
    <3> QED
      BY <1>5, <3>1, <3>2
  <2>2. HomeUnrecorded'
    BY <1>1, <1>5, <2>1 DEF HomeUnrecorded
  <2> QED
    BY <1>5, <2>1, <2>2 DEF HomeIsTracked, Planning, Applying
<1> QED
  BY <1>2, <1>3, <1>4, <1>5 DEF ActivateHome, RollbackHome

\* The record of the Nix lane names what the home stage activated, the records
\* of the other lanes name none.
LEMMA RecordLaneKeepsHome ==
  ASSUME Types, HomeIsTracked, NEW b \in Backends, RecordLane(b)
  PROVE  HomeIsTracked'
<1>1. /\ UNCHANGED <<home, crashes>> /\ pc = "record" /\ pc' = "record" /\ reg \in Regs
      /\ reg' = [reg EXCEPT !.lanes = @ \ {b}] /\ b \in reg.lanes
  BY DEF RecordLane, Types, RegOK
<1>2. reg'.home = reg.home /\ reg'.lanes = reg.lanes \ {b}
  BY <1>1 DEF Regs
<1> DEFINE G(removed, native, hm) ==
       [run |-> run, backend |-> b, added |-> AddedRefs(b), removed |-> removed,
        native |-> native, rollback |-> FALSE, home |-> hm, partial |-> Partial(b)]
<1>3. ASSUME NEW removed, NEW native, NEW hm, WriteProvisioningGeneration(b, removed, native, hm)
      PROVE  \E g : g.home = hm /\ (NoWrite \/ WriteTo(g)) /\ (hm # 0 => WriteTo(g))
  <2>1. G(removed, native, hm).home = hm
    OBVIOUS
  <2>2. /\ NoWrite \/ WriteTo(G(removed, native, hm))
        /\ hm # 0 => WriteTo(G(removed, native, hm))
    BY <1>3 DEF WriteProvisioningGeneration
  <2> HIDE DEF G
  <2> QED
    BY <2>1, <2>2
<1>4. CASE b # "nix"
  <2>1. PICK g : g.home = 0 /\ (NoWrite \/ WriteTo(g))
    BY <1>3, <1>4 DEF RecordLane
  <2>2. HomeUnrecorded' <=> HomeUnrecorded
    BY <1>1, <1>2, <1>4 DEF HomeUnrecorded
  <2> QED
    BY <1>1, <1>2, <2>1, <2>2, RecordKeepsHome
<1>5. CASE b = "nix" /\ reg.home = 0
  <2>1. HomeUnrecorded' <=> HomeUnrecorded
    BY <1>1, <1>2, <1>5 DEF HomeUnrecorded
  <2>2. CASE NoWrite
    <3>1. G({}, 0, 0).home = 0
      OBVIOUS
    <3> HIDE DEF G
    <3> QED
      BY <1>1, <1>2, <2>1, <2>2, <3>1, RecordKeepsHome
  <2>3. CASE ~NoWrite
    <3>1. PICK g : g.home = 0 /\ (NoWrite \/ WriteTo(g))
      BY <1>3, <1>5, <2>3 DEF RecordLane
    <3> QED
      BY <1>1, <1>2, <2>1, <3>1, RecordKeepsHome
  <2> QED
    BY <2>2, <2>3
<1>6. CASE b = "nix" /\ reg.home # 0
  <2>1. PICK g : g.home = reg.home /\ WriteTo(g)
    BY <1>3, <1>6 DEF RecordLane
  <2>2. HomeUnrecorded /\ ~HomeUnrecorded'
    BY <1>1, <1>2, <1>6 DEF HomeUnrecorded
  <2>3. RecordedHome' = reg.home \/ lost' = TRUE
    BY <1>6, <2>1, WriteRecordsHome DEF WriteTo
  <2> QED
    BY <1>1, <1>2, <2>1, <2>2, <2>3 DEF HomeIsTracked, Planning, Applying, WriteTo
<1> QED
  BY <1>4, <1>5, <1>6

\* So does the record a rollback appends; the records of its groups name none.
LEMMA RollbackRecordsKeepHome ==
  ASSUME Types, HomeIsTracked, AppendRollbackGeneration \/ (\E b \in Backends : RecordGroup(b))
  PROVE  HomeIsTracked'
<1>1. UNCHANGED <<home, crashes>> /\ pc' = "uninstall" /\ pc \in {"rerecord", "uninstall"} /\ ~HomeUnrecorded'
  BY DEF AppendRollbackGeneration, RecordGroup, HomeUnrecorded
<1>2. reg'.home = reg.home
  BY DEF AppendRollbackGeneration, RecordGroup, Types, RegOK, Regs
<1>3. CASE AppendRollbackGeneration
  <2> DEFINE g == [run |-> run, backend |-> "nix", added |-> {}, removed |-> {},
                   native |-> IF HasPackageTarget THEN active ELSE 0,
                   rollback |-> TRUE, home |-> RollbackHomeRef, partial |-> FALSE]
  <2>1. g.home = reg.home /\ (NoWrite \/ WriteTo(g)) /\ (reg.home # 0 => WriteTo(g))
    BY <1>3 DEF AppendRollbackGeneration, RollbackHomeRef
  <2>2. HomeUnrecorded <=> reg.home # 0
    BY <1>3 DEF HomeUnrecorded, AppendRollbackGeneration
  <2> HIDE DEF g
  <2>3. CASE reg.home = 0
    BY <1>1, <1>2, <2>1, <2>2, <2>3, RecordKeepsHome
  <2>4. CASE reg.home # 0
    <3>1. RecordedHome' = reg.home \/ lost' = TRUE
      BY <2>1, <2>4, WriteRecordsHome DEF WriteTo
    <3> QED
      BY <1>1, <1>2, <2>1, <2>2, <2>4, <3>1 DEF HomeIsTracked, Planning, Applying, WriteTo
  <2> QED
    BY <2>3, <2>4
<1>4. ASSUME NEW b \in Backends, RecordGroup(b) PROVE HomeIsTracked'
  <2> DEFINE g == [run |-> run, backend |-> b, added |-> {}, removed |-> gone, native |-> 0,
                   rollback |-> TRUE, home |-> 0, partial |-> kept # {}]
  <2>1. g.home = 0 /\ (NoWrite \/ WriteTo(g))
    BY <1>4 DEF RecordGroup
  <2>2. ~HomeUnrecorded
    BY <1>4 DEF HomeUnrecorded, RecordGroup
  <2> HIDE DEF g
  <2> QED
    BY <1>1, <1>2, <2>1, <2>2, RecordKeepsHome
<1> QED
  BY <1>3, <1>4

\* Every step of the commands keeps the record and the host together.
LEMMA NextKeepsHome == Types /\ HomeIsTracked /\ [Next]_vars => HomeIsTracked'
<1> SUFFICES ASSUME Types, HomeIsTracked, [Next]_vars PROVE HomeIsTracked'
  OBVIOUS
<1>1. CASE (\E f \in ApplyFlags : StartApply(f)) \/ (\E c \in Consents : StartRebuild(c[1], c[3], c[2]))
           \/ (\E to \in 0..Len(gens), c \in Consents : StartRollback(to, c[1], c[2], c[3]))
  <2>1. reg' = NoReg /\ UNCHANGED <<gens, home, crashes, lost>> /\ pc = "idle"
    BY <1>1 DEF StartApply, StartRebuild, StartRollback, machine
  <2>2. NoReg.home = 0
    BY DEF NoReg
  <2>3. ~HomeUnrecorded /\ ~HomeUnrecorded'
    BY <2>1, <2>2 DEF HomeUnrecorded
  <2> QED
    BY <2>1, <2>2, <2>3, QuietKeepsHome
<1>2. CASE Refuse \/ FinishApply \/ FinishRollback
  <2>1. ~HomeUnrecorded
    BY <1>2 DEF Refuse, FinishApply, FinishRollback, HomeUnrecorded
  <2> QED
    BY <1>2, <2>1, ReturnKeepsHome DEF Refuse, FinishApply, FinishRollback, machine
<1>3. CASE Crash
  <2>1. pc' = "idle" /\ crashes' # 0 /\ UNCHANGED <<gens, home>>
    BY <1>3 DEF Crash, Return, Forget, machine, Types, HostOK
  <2> QED
    BY <2>1, QuietKeepsHome
<1>4. CASE EnsureBackends \/ Plan \/ Realize \/ Prune \/ AfterInstall \/ ConfigRestore \/ Verify
           \/ PassOver \/ ReinstallDrifted \/ InstallMissing
  <2>1. UNCHANGED <<gens, home, crashes, lost>>
    BY <1>4 DEF EnsureBackends, Plan, Realize, Prune, AfterInstall, ConfigRestore, Verify, PassOver,
       ReinstallDrifted, InstallMissing, AppUnchanged, ghosts, machine
  <2>2. pc \in Planning \cup (Applying \ {"record"})
    BY <1>4 DEF EnsureBackends, Plan, Realize, Prune, AfterInstall, ConfigRestore, Verify, PassOver,
       ReinstallDrifted, InstallMissing, InstallOne, Planning, Applying
  <2>3. reg.home = 0 /\ ~HomeUnrecorded
    BY <2>2 DEF HomeIsTracked, HomeUnrecorded
  <2>4. CASE \E end : Return(end)
    BY <2>1, <2>3, <2>4, ReturnKeepsHome
  <2>5. CASE ~\E end : Return(end)
    <3>1. reg'.home = reg.home
      BY <1>4, <2>5 DEF EnsureBackends, Plan, Realize, Prune, AfterInstall, ConfigRestore, Verify, PassOver,
         ReinstallDrifted, InstallMissing, AppUnchanged, Types, RegOK, Regs
    <3> QED
      BY <2>1, <2>3, <3>1, QuietKeepsHome DEF HomeUnrecorded
  <2> QED
    BY <2>4, <2>5
<1>5. CASE ActivateHome \/ RollbackHome
  BY <1>5, ActivationKeepsHome
<1>6. CASE SelectGroups \/ RealizerRollback \/ \E b \in Backends, r \in Refs : UninstallNext(b, r)
  <2>1. UNCHANGED <<gens, home, crashes, lost>> /\ ~HomeUnrecorded
    BY <1>6 DEF SelectGroups, RealizerRollback, UninstallNext, machine, HomeUnrecorded
  <2>2. CASE \E end : Return(end)
    BY <2>1, <2>2, ReturnKeepsHome
  <2>3. CASE ~\E end : Return(end)
    <3>1. pc' = "uninstall" \/ (pc' = "rehome" /\ pc = "native" /\ reg' = reg)
      BY <1>6, <2>3 DEF SelectGroups, RealizerRollback, UninstallNext
    <3>2. ~HomeUnrecorded' /\ (pc' = "rehome" => reg'.home = 0)
      BY <3>1 DEF HomeUnrecorded, HomeIsTracked
    <3> QED
      BY <2>1, <3>1, <3>2, QuietKeepsHome
  <2> QED
    BY <2>2, <2>3
<1>7. CASE \E b \in Backends : RecordLane(b)
  BY <1>7, RecordLaneKeepsHome
<1>8. CASE AppendRollbackGeneration \/ (\E b \in Backends : RecordGroup(b))
  BY <1>8, RollbackRecordsKeepHome
<1>9. CASE (\E i \in Idx : UserEdit(i)) \/ UNCHANGED vars
  <2>1. UNCHANGED <<gens, home, crashes, lost, pc, reg>>
    BY <1>9 DEF UserEdit, process, vars, machine, ghosts
  <2> QED
    BY <2>1 DEF HomeIsTracked, HomeUnrecorded, RecordedHome
<1> QED
  BY <1>1, <1>2, <1>3, <1>4, <1>5, <1>6, <1>7, <1>8, <1>9 DEF Next, ApplyNext, RollbackNext

\* Whatever applies and rollbacks did, the active home-manager generation is the
\* one the newest record names; a death between activation and record, or a
\* record that cannot be written, is the exception.
THEOREM NewestHomeRecordIsActive == Spec => []HomeRecordIsActive
<1>1. Init => HomeIsTracked
  <2> SUFFICES ASSUME Init PROVE HomeIsTracked
    OBVIOUS
  <2>1. DOMAIN gens = {} /\ pc = "idle" /\ home = 0
    BY DEF Init
  <2> QED
    BY <2>1 DEF HomeIsTracked, HomeUnrecorded, RecordedHome, Planning, Applying
<1>2. HomeIsTracked => HomeRecordIsActive
  BY DEF HomeIsTracked, HomeUnrecorded, HomeRecordIsActive
<1> QED
  BY <1>1, <1>2, InitTypes, NextKeepsTypes, NextKeepsHome, PTL DEF Spec

=============================================================================
