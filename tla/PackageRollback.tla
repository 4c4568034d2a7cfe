-------------------------- MODULE PackageRollback --------------------------
(***************************************************************************)
(* The rollback command (commands/rollback.go): Nix switches back to a     *)
(* recorded generation, the other package managers uninstall what later    *)
(* generations added.                                                      *)
(***************************************************************************)
EXTENDS ProvisionState

\* The generations whose additions go: of the newest run, or all later ones.
SelectedGens ==
  IF cmd.to = 0 THEN NewestRun ELSE {n \in NonRollback : n > cmd.to}

\* groupRollbackGenerations: every ref once, under the backend that added it.
GroupRollback(G) == UNION {{<<gens[n].backend, r>> : r \in gens[n].added} : n \in G}

\* brewRollbackRefs, brewRollbackRefsFromGenerations
BrewRefs(G) == {x \in GroupRollback(G) : x[1] = "brew"}

\* The native generation to go back to; 0 when Nix has none before this one.
PreviousNative == IF active > 1 THEN active - 1 ELSE 0
NativeTarget == IF cmd.to # 0 THEN gens[cmd.to].native ELSE PreviousNative

\* Whether the target names a native generation at all.
HasPackageTarget ==
  IF cmd.to # 0 THEN gens[cmd.to].native # 0
  ELSE NewestRun = {} \/ \E n \in NewestRun : gens[n].backend = "nix" /\ gens[n].native # 0

HomeTarget == IF cmd.restore /\ cmd.to # 0 THEN gens[cmd.to].home ELSE 0

\* RunRollback; --to names an existing generation, 0 stands for none given.
StartRollback(to, dry, confirm, restore) ==
  /\ pc = "idle" /\ run < MaxRuns /\ run' = run + 1 /\ to \in 0..Len(gens)
  /\ cmd' = [NoCmd EXCEPT !.kind = "rollback", !.to = to, !.dry = dry, !.confirm = confirm,
                          !.restore = restore]
  /\ pc' = IF OnDriverHost THEN "select" ELSE "native"
  /\ acts' = <<>> /\ idx' = 0 /\ reg' = NoReg /\ todo' = {} /\ gone' = {} /\ kept' = {}
  /\ told' = "running" /\ report' = {}
  /\ UNCHANGED <<profile, machine, errors, edits, crashes, fresh, engine, setAt, lost>>

\* runDriverRollback up to the uninstalls.
SelectGroups ==
  /\ pc = "select" /\ Fine
  /\ LET refs == GroupRollback(SelectedGens) IN
     \/ (refs = {} \/ cmd.dry) /\ Return("ok")
     \/ refs # {} /\ ~cmd.dry /\ ~cmd.confirm /\ Return("error")
     \/ /\ refs # {} /\ ~cmd.dry /\ cmd.confirm
        /\ pc' = "uninstall" /\ todo' = refs
        /\ UNCHANGED <<cmd, run, acts, idx, reg, gone, kept, told>>
  /\ UNCHANGED <<profile, machine, edits, crashes, report, fresh, engine, setAt, lost>>

\* runRealizerRollback up to the brew lane: the profile switches back, then
\* home-manager, then the set that is active now is recorded.
NativeStep(target) == active' = target /\ UNCHANGED natives

RealizerRollback ==
  /\ pc = "native"
  /\ LET refs == IF cmd.to = 0 THEN BrewRefs(NewestRun) ELSE BrewRefs({n \in DOMAIN gens : n > cmd.to})
         nothing == ~HasPackageTarget /\ HomeTarget = 0 /\ refs = {}
         unbound == cmd.restore /\ cmd.to = 0
     IN  \/ (nothing \/ unbound) /\ Fine /\ Return("error") /\ UNCHANGED <<natives, active>>
         \/ ~nothing /\ ~unbound /\ cmd.dry /\ Fine /\ Return("ok") /\ UNCHANGED <<natives, active>>
         \/ /\ ~nothing /\ ~unbound /\ ~cmd.dry /\ ~cmd.confirm /\ Fine /\ Return("error")
            /\ UNCHANGED <<natives, active>>
         \/ /\ ~nothing /\ ~unbound /\ ~cmd.dry /\ cmd.confirm /\ Fine
            /\ IF HasPackageTarget
               THEN /\ NativeTarget > 0 /\ NativeStep(NativeTarget)
               ELSE UNCHANGED <<natives, active>>
            /\ pc' = "rehome" /\ todo' = refs /\ UNCHANGED <<cmd, run, acts, idx, reg, gone, kept, told>>
         \/ /\ ~nothing /\ ~unbound /\ ~cmd.dry /\ cmd.confirm /\ HasPackageTarget
            /\ \/ NativeTarget = 0 /\ Fine       \* there is no previous generation
               \/ Err
            /\ Return("error") /\ UNCHANGED <<natives, active>>
  /\ UNCHANGED <<profile, inst, homes, home, avail, gens, edits, crashes, report, fresh, engine, setAt, lost>>

\* rollbackHomeConfig: re-activating a recorded generation makes a new one;
\* where its snapshot is gone the recorded flake is activated instead.
RollbackHome ==
  /\ pc = "rehome"
  /\ \/ HomeTarget = 0 /\ Fine /\ UNCHANGED <<homes, home>> /\ pc' = "rerecord"
        /\ UNCHANGED <<cmd, run, acts, idx, reg, todo, gone, kept, told>>
     \/ HomeTarget # 0 /\ Fine /\ homes' = homes + 1 /\ home' = homes + 1 /\ pc' = "rerecord"
        /\ reg' = [reg EXCEPT !.home = homes + 1]
        /\ UNCHANGED <<cmd, run, acts, idx, todo, gone, kept, told>>
     \/ HomeTarget # 0 /\ Err /\ Return("error") /\ UNCHANGED <<homes, home>>
  /\ UNCHANGED <<profile, inst, natives, active, avail, gens, edits, crashes, report, fresh, engine, setAt, lost>>

\* appendRollbackGeneration: the set that is active now, and the home
\* generation the command activated.
RollbackHomeRef_Dropped == 0
RollbackHomeRef == reg.home

AppendRollbackGeneration ==
  /\ pc = "rerecord" /\ pc' = "uninstall"
  /\ IF HasPackageTarget \/ reg.home # 0
     THEN WriteTo([run |-> run, backend |-> "nix", added |-> {}, removed |-> {},
                   native |-> IF HasPackageTarget THEN active ELSE 0,
                   rollback |-> TRUE, home |-> RollbackHomeRef, partial |-> FALSE])
     ELSE NoWrite
  /\ UNCHANGED <<profile, inst, natives, active, homes, home, avail, edits, crashes, told, report, fresh, engine>>
  /\ UNCHANGED <<cmd, run, acts, idx, reg, todo, gone, kept>>

Group == {x[1] : x \in todo}
Groups == IF cmd.to = 0 THEN GroupRollback(NewestRun) ELSE GroupRollback({n \in NonRollback : n > cmd.to})

\* One package after the other, group by group.  A winget that cannot be run
\* ends the command when it is the only group.
UninstallNext(b, r) ==
  /\ pc = "uninstall" /\ <<b, r>> \in todo /\ (reg.lanes # {} => reg.lanes = {b})
  /\ \E st \in {"removed", "failed", "unavailable"} :
       /\ Uninstall(b, r, st)
       /\ IF st = "unavailable" /\ OnDriverHost /\ b = "winget" /\ {x[1] : x \in Groups} = {b}
          THEN Return("error")
          ELSE /\ todo' = todo \ {<<b, r>>} /\ reg' = [reg EXCEPT !.lanes = {b}]
               /\ gone' = IF st = "removed" THEN gone \cup {r} ELSE gone
               /\ kept' = IF st = "removed" THEN kept ELSE kept \cup {r}
               /\ UNCHANGED <<pc, cmd, run, acts, idx, told>>
  /\ UNCHANGED <<profile, natives, active, homes, home, avail, gens, edits, crashes, report, fresh, engine, setAt, lost>>

\* appendRollbackGenerationRemoved
RecordGroup(b) ==
  /\ pc = "uninstall" /\ reg.lanes = {b} /\ b \notin Group
  /\ IF gone = {} THEN NoWrite
     ELSE WriteTo([run |-> run, backend |-> b, added |-> {}, removed |-> gone, native |-> 0,
                   rollback |-> TRUE, home |-> 0, partial |-> kept # {}])
  /\ reg' = [reg EXCEPT !.lanes = {}, !.removed = @ \cup gone] /\ gone' = {} /\ kept' = {}
  /\ UNCHANGED <<profile, inst, natives, active, homes, home, avail, edits, crashes, told, report, fresh, engine>>
  /\ UNCHANGED <<pc, cmd, run, acts, idx, todo>>

FinishRollback ==
  /\ pc = "uninstall" /\ todo = {} /\ reg.lanes = {} /\ Fine
  /\ Return(IF reg.removed = {} /\ (OnDriverHost \/ ~(HasPackageTarget \/ reg.home # 0))
            THEN "error" ELSE "ok")
  /\ UNCHANGED <<profile, machine, edits, crashes, report, fresh, engine, setAt, lost>>

RollbackNext ==
  \/ \E to \in 0..Len(gens), c \in Consents : StartRollback(to, c[1], c[2], c[3])
  \/ SelectGroups \/ RealizerRollback \/ RollbackHome \/ AppendRollbackGeneration
  \/ \E b \in Backends, r \in Refs : UninstallNext(b, r)
  \/ \E b \in Backends : RecordGroup(b)
  \/ FinishRollback
=============================================================================
