--------------------------- MODULE ConfigRestoreRun ---------------------------
(***************************************************************************)
(* One configuration restore of a command (restore, apply or rebuild):     *)
(* commands/config_restore_{runtime,inputs,coordinator,planning,           *)
(* execution,legacy,live_set}.go.  The inputs are frozen, the catalog is   *)
(* pinned once, a preview may be shown, packages are installed, the plan   *)
(* is made again from fresh evidence, and only then the guard is taken,    *)
(* the sets are staged, checked against each other and against the legacy  *)
(* lanes, and executed one by one.  The transaction of one set is          *)
(* ConfigTransaction's subject and a single step here; the legacy actions  *)
(* are LegacyRestore's.                                                    *)
(*                                                                         *)
(* An input is [sources, selected, mappings, lanes, ordinary, enabled,     *)
(* dryRun].  sources maps a capture to the source record of ConfigPlanning *)
(* with its payload; lanes maps a lane to [selected, entries]; an entry of *)
(* a lane or of ordinary is [claim, valid, missing].                       *)
(***************************************************************************)
EXTENDS ConfigStaging

CONSTANTS
    Inputs,      \* the command lines and manifests considered
    Catalogs,    \* the states of the catalog directory (sequences of files)
    Hosts,       \* the states of the host a detection pass can see
    Available,   \* the drivers this platform has
    Apps,        \* the manifest's packages, [driver, ref]
    Starts,      \* [live, pending]: what the targets hold when the run starts, and
                 \* None or the contents an interrupted run must put back
    Processes,   \* the sets of processes that may be running
    MaxFaults    \* bound on injected failures and tamperings

ASSUME FaultsAreBounded == MaxFaults \in Nat

\* Captures are numbered in the order of their ids; only captures are selected.
ASSUME InputsAreTyped ==
    \A i \in Inputs :
        /\ DOMAIN i.sources \subseteq Nat
        /\ i.selected \subseteq DOMAIN i.sources
        /\ \A c \in DOMAIN i.sources : i.sources[c].cap = c

\* A set of a module file has finitely many generations, and their order is a
\* number.
ASSUME CatalogsAreTyped ==
    \A files \in Catalogs : \A i \in DOMAIN files : \A s \in DOMAIN files[i].sets :
        /\ IsFiniteSet(files[i].sets[s].gens)
        /\ \A g \in files[i].sets[s].gens : g.order \in Int

VARIABLES
    pc, in, disk, catalog, host, running, payload, faults,
    live,        \* contents of files and registry values
    pending,     \* prior contents of an unfinished transaction, or None
    plan,        \* capture -> resolution
    laneOf,      \* lane -> [status, reason]
    todo,        \* captures still to be staged, executed / lanes to be run
    stage,       \* capture -> staged tree
    actions,     \* capture -> concrete actions
    roots,       \* captures with a transaction root, and those with an intent
    blocked,     \* claims of lanes and ordinary actions that were refused
    stopped,     \* failStop
    items,       \* results of legacy and ordinary actions
    journaled,   \* the legacy journal is written and registered
    err, lease,
    wrote        \* who has written what: <<owner, claim>>

vars == <<pc, in, disk, catalog, host, running, payload, faults, live, pending, plan,
          laneOf, todo, stage, actions, roots, blocked, stopped, items, journaled,
          err, lease, wrote>>

inputVars == <<in, host, running, payload, disk>>
workVars == <<stage, actions, roots, blocked, stopped>>
legacyVars == <<items, journaled>>

EmptyMap == [x \in {} |-> << >>]

Captures == DOMAIN in.sources
Lanes == DOMAIN in.lanes
Payload(c) == in.sources[c].payload

Init ==
    /\ pc = "load"
    /\ in \in Inputs
    /\ disk \in Catalogs
    /\ host \in Hosts
    /\ running \in Processes
    /\ \E s \in Starts : live = s.live /\ pending = s.pending
    /\ payload = [c \in Captures |-> Payload(c)]
    /\ faults = 0
    /\ catalog = [modules |-> {}, rejected |-> {}]
    /\ plan = EmptyMap /\ laneOf = EmptyMap
    /\ todo = {} /\ stage = EmptyMap /\ actions = EmptyMap
    /\ roots = [root |-> {}, intent |-> {}] /\ blocked = EmptyMap
    /\ stopped = FALSE /\ items = << >> /\ journaled = FALSE
    /\ err = "none" /\ lease = FALSE /\ wrote = {}

Fault == faults < MaxFaults /\ faults' = faults + 1

(***************************************************************************)
(* The world around the run: the catalog on disk is edited, a payload file *)
(* of the extracted bundle is changed, a target is brought up to date.     *)
(***************************************************************************)
EditCatalog ==
    /\ pc \notin {"load", "done"}
    /\ disk' \in Catalogs \ {disk}
    /\ Fault
    /\ UNCHANGED <<pc, in, catalog, host, running, payload, live, pending, plan, laneOf,
                   todo, workVars, legacyVars, err, lease, wrote>>

TamperPayload ==
    /\ pc \in {"stage", "copy"}
    /\ \E c \in Captures : \E f \in DOMAIN payload[c] :
         \E changed \in {payload[c], Prune(payload[c], f),
                         [payload[c] EXCEPT ![f] = (<<"tampered">> :> "x")]} \ {payload[c]} :
            payload' = [payload EXCEPT ![c] = changed]
    /\ Fault
    /\ UNCHANGED <<pc, in, disk, catalog, host, running, live, pending, plan, laneOf,
                   todo, workVars, legacyVars, err, lease, wrote>>

\* Someone else brings the targets of a waiting set to what it wants.
EditTargets ==
    /\ pc = "execute"
    /\ \E c \in todo : live' = WriteActions(live, actions[c])
    /\ Fault
    /\ UNCHANGED <<pc, inputVars, catalog, pending, plan, laneOf, todo, workVars, legacyVars,
                   err, lease, wrote>>

(***************************************************************************)
(* Inputs, catalog, preview, installation                                  *)
(***************************************************************************)
Return(error) == pc' = "close" /\ err' = error

parseRestoreTargetMappings == DOMAIN in.mappings \subseteq Captures

SelectedMappings == [c \in DOMAIN in.mappings \cap in.selected |-> in.mappings[c]]

Load ==
    /\ pc = "load"
    /\ IF ~parseRestoreTargetMappings
       THEN Return("invalid_input") /\ UNCHANGED catalog
       ELSE /\ pc' = "preview"
            /\ catalog' = IF Captures = {} THEN catalog ELSE LoadCatalogWithDiagnostics(disk)
            /\ UNCHANGED err
    /\ UNCHANGED <<inputVars, faults, live, pending, plan, laneOf, todo, workVars,
                   legacyVars, lease, wrote>>

FreshPlan ==
    buildFreshPlan(catalog, in.sources, in.selected, SelectedMappings,
        Snapshot({in.sources[c].module : c \in in.selected}, catalog, Apps, Available, host))

\* Only apply shows a preview; the other commands go straight to Execute.
Preview ==
    /\ pc = "preview"
    /\ pc' = "install"
    /\ plan' \in {FreshPlan, EmptyMap}
    /\ UNCHANGED <<inputVars, faults, catalog, live, pending, laneOf, todo, workVars,
                   legacyVars, err, lease, wrote>>

\* Packages installed by the same command change what can be detected.
Install ==
    /\ pc = "install"
    /\ pc' = "final"
    /\ host' \in Hosts
    /\ UNCHANGED <<in, running, payload, disk, faults, catalog, live, pending, plan, laneOf,
                   todo, workVars, legacyVars, err, lease, wrote>>

(***************************************************************************)
(* Final plan                                                              *)
(***************************************************************************)
previewLegacyConfigRestorePlan ==
    [l \in Lanes |->
        CASE ~in.lanes[l].selected -> [status |-> "skipped", reason |-> "restore_filtered"]
          [] in.lanes[l].selected /\ ~in.enabled ->
               [status |-> "skipped", reason |-> "restore_not_enabled"]
          [] OTHER -> [status |-> "planned", reason |-> "none"]]

selectedConfigRestorePlanSet(p, c) ==
    p[c].status = "planned" /\ p[c].resolution \in {"direct", "migrate"}

SelectedSets(p) == {c \in DOMAIN p : selectedConfigRestorePlanSet(p, c)}

LanesToRun == {l \in Lanes : in.lanes[l].selected}

\* mutated form: the preview is executed
FinalKeepsPreview == IF DOMAIN plan # {} THEN plan ELSE FreshPlan

FinalPlan == FreshPlan

EnabledPlan(fresh) ==
    IF in.enabled THEN markSelectedConfigRestoreSetsPlanned(fresh)
    ELSE overlayConfigRestoreNotEnabled(fresh)

AfterFinal(selected) ==
    CASE ~in.enabled -> "close"
      [] in.enabled /\ in.dryRun -> "stage"
      [] in.enabled /\ ~in.dryRun /\ selected = {} /\ LanesToRun = {} /\ in.ordinary = << >> ->
           "close"
      [] OTHER -> "begin"

Final ==
    /\ pc = "final"
    /\ plan' = EnabledPlan(FinalPlan)
    /\ laneOf' = previewLegacyConfigRestorePlan
    /\ todo' = SelectedSets(plan')
    /\ pc' = AfterFinal(todo')
    /\ UNCHANGED <<inputVars, faults, catalog, live, pending, workVars, legacyVars, err,
                   lease, wrote>>

\* A detection pass that is cancelled leaves no plan at all.
FinalFails ==
    /\ pc = "final" /\ Fault
    /\ plan' = EmptyMap
    /\ Return("internal")
    /\ UNCHANGED <<inputVars, catalog, live, pending, laneOf, todo, workVars, legacyVars,
                   lease, wrote>>

(***************************************************************************)
(* The guard.  Whatever an interrupted run left is put back first.         *)
(***************************************************************************)
\* mutated form: the lease alone
BeginWithoutRecovery == live' = live /\ pending' = pending

recoverPending ==
    /\ live' = IF pending = None THEN live ELSE pending
    /\ pending' = None

Begin ==
    /\ pc = "begin"
    /\ recoverPending
    /\ lease' = TRUE
    /\ pc' = "stage"
    /\ UNCHANGED <<inputVars, faults, catalog, plan, laneOf, todo, workVars, legacyVars,
                   err, wrote>>

BeginFails ==
    /\ pc = "begin" /\ Fault
    /\ Return(IF pending = None THEN "recovery_failed" ELSE "recovery_required")
    /\ UNCHANGED <<inputVars, catalog, live, pending, plan, laneOf, todo, workVars,
                   legacyVars, lease, wrote>>

(***************************************************************************)
(* Staging and materialisation, one set at a time in capture order         *)
(***************************************************************************)
Next1 == Min(todo)

markConfigRestoreFailure(p, c, reason, status) ==
    [p EXCEPT ![c].reason = reason, ![c].status = status]

SetFails(c, reason, status) ==
    /\ plan' = markConfigRestoreFailure(plan, c, reason, status)
    /\ todo' = todo \ {c}
    /\ UNCHANGED <<stage, actions>>

TargetGen(c) ==
    GenerationById(ModuleById(catalog, in.sources[c].module).sets[in.sources[c].set], plan[c].gen)

EdgesOf(c) ==
    PinnedEdges(ModuleById(catalog, in.sources[c].module).sets[in.sources[c].set], plan[c].path)

\* The instance is pinned by the plan: its id carries its locator.
TargetRoot(c) == IF plan[c].target[3][1] = "path" THEN plan[c].target[3][2] ELSE NoRoot

VerifySource ==
    /\ pc = "stage" /\ todo # {}
    /\ IF payload[Next1] = Payload(Next1)
       THEN pc' = "copy" /\ UNCHANGED <<plan, todo, stage, actions>>
       ELSE pc' = "stage" /\ SetFails(Next1, "payload_integrity_failed", "failed")
    /\ UNCHANGED <<inputVars, faults, catalog, live, pending, laneOf, roots, blocked, stopped,
                   legacyVars, err, lease, wrote>>

\* Only the files of the payload manifest are copied.
copyStagePayloadFile(c) ==
    [f \in DOMAIN Payload(c) \cap DOMAIN payload[c] |-> payload[c][f]]

\* mutated form: the copy is trusted
StagedUnverified(c, copied) == TRUE

VerifyStaged(c, copied) == copied = Payload(c)

With(f, c, v) == [x \in DOMAIN f \cup {c} |-> IF x = c THEN v ELSE f[x]]

\* The staged tree of the set, once copied: refused, or ready with its actions.
Materialized(c, tree, refusal) ==
    IF refusal # "none"
    THEN SetFails(c, refusal, IF refusal = "app_running" THEN "skipped" ELSE "failed")
    ELSE /\ stage' = With(stage, c, tree)
         /\ actions' = With(actions, c, Materialize(TargetGen(c), tree, live.file, TargetRoot(c)))
         /\ todo' = todo \ {c}
         /\ UNCHANGED plan

MaterializeSet(c, moved) ==
    IF moved.ok
    THEN Materialized(c, moved.tree,
           MaterializeRefusal(ModuleById(catalog, in.sources[c].module), TargetGen(c),
                              moved.tree, live.file, TargetRoot(c), running))
    ELSE SetFails(c, "staging_validation_failed", "failed")

StageCopied(c, copied) ==
    CASE DOMAIN copied # DOMAIN Payload(c) -> SetFails(c, "staging_validation_failed", "failed")
      [] DOMAIN copied = DOMAIN Payload(c) /\ ~VerifyStaged(c, copied) ->
           SetFails(c, "payload_integrity_failed", "failed")
      [] OTHER -> MaterializeSet(c, Migrate(copied, EdgesOf(c), in.sources[c].gen, TargetGen(c)))

StageSet ==
    /\ pc = "copy"
    /\ pc' = "stage"
    /\ StageCopied(Next1, copyStagePayloadFile(Next1))
    /\ UNCHANGED <<inputVars, faults, catalog, live, pending, laneOf, roots, blocked, stopped,
                   legacyVars, err, lease, wrote>>

(***************************************************************************)
(* Collisions between everything that is about to be written               *)
(***************************************************************************)
concreteClaim(claim) ==
    IF claim.kind = "file"
    THEN [claim EXCEPT !.path = ConcreteFilesystemTarget(claim.path)] ELSE claim

\* registry values carry their key and name, a registry key covers its subtree
registryConfigRestoreClaimsOverlap(x, y) ==
    CASE x.kind = "registry" /\ y.kind = "registry" -> x.path = y.path
      [] x.kind = "registry-key" /\ y.kind = "registry-key" ->
           IsPrefix(x.path, y.path) \/ IsPrefix(y.path, x.path)
      [] x.kind = "registry-key" /\ y.kind = "registry" -> IsPrefix(x.path, Front(y.path))
      [] x.kind = "registry" /\ y.kind = "registry-key" -> IsPrefix(y.path, Front(x.path))

concreteConfigRestoreClaimsOverlap(x, y) ==
    IF x.kind = "file" /\ y.kind = "file"
    THEN IsPrefix(x.path, y.path) \/ IsPrefix(y.path, x.path)
    ELSE x.kind # "file" /\ y.kind # "file" /\ registryConfigRestoreClaimsOverlap(x, y)

\* owners are <<"set", capture>>, <<"lane", lane>> and <<"ordinary", index>>
LaneValid(l) == \A i \in DOMAIN in.lanes[l].entries : in.lanes[l].entries[i].valid

OwnedClaims ==
    (UNION {{[owner |-> <<"set", c>>, nr |-> a.claim, claim |-> concreteClaim(a.claim)] :
                a \in actions[c]} : c \in DOMAIN actions})
    \cup
    (UNION {{[owner |-> <<"lane", l>>, nr |-> i, claim |-> concreteClaim(in.lanes[l].entries[i].claim)] :
                i \in DOMAIN in.lanes[l].entries} : l \in {k \in LanesToRun : LaneValid(k)}})
    \cup
    {[owner |-> <<"ordinary", i>>, nr |-> i, claim |-> concreteClaim(in.ordinary[i].claim)] :
        i \in {j \in DOMAIN in.ordinary : in.ordinary[j].valid}}

\* Repetitions of one target inside an owner are an ordered chain.
CollidingOwners(claims) ==
    {x.owner : x \in {y \in claims : \E z \in claims \ {y} :
        /\ concreteConfigRestoreClaimsOverlap(y.claim, z.claim)
        /\ ~(y.owner = z.owner /\ y.claim = z.claim)}}

\* mutated form: only the sets are compared
GenerationClaims == {x \in OwnedClaims : x.owner[1] = "set"}

AllClaims == OwnedClaims

InvalidOwners ==
    {<<"lane", l>> : l \in {k \in LanesToRun : ~LaneValid(k)}}
    \cup {<<"ordinary", i>> : i \in {j \in DOMAIN in.ordinary : ~in.ordinary[j].valid}}

RefusedOwners(hit) ==
    [o \in hit \cup InvalidOwners |->
        IF o \in hit THEN "target_collision" ELSE "staging_validation_failed"]

applyUnifiedConcreteConfigRestoreCollisions == RefusedOwners(CollidingOwners(AllClaims))

Collide ==
    /\ pc = "stage" /\ todo = {}
    /\ pc' = "inspect"
    /\ blocked' = applyUnifiedConcreteConfigRestoreCollisions
    /\ plan' = [c \in DOMAIN plan |->
                   IF <<"set", c>> \in DOMAIN blocked'
                   THEN markTargetCollision(plan[c]) ELSE plan[c]]
    /\ laneOf' = [l \in Lanes |->
                     IF <<"lane", l>> \in DOMAIN blocked'
                     THEN [status |-> "failed", reason |-> blocked'[<<"lane", l>>]]
                     ELSE laneOf[l]]
    /\ UNCHANGED <<inputVars, faults, catalog, live, pending, todo, stage, actions, roots,
                   stopped, legacyVars, err, lease, wrote>>

(***************************************************************************)
(* Inspection and transaction roots                                        *)
(***************************************************************************)
Snapshots(c, broken) ==
    IF c \in broken \/ snapshotFails(actions[c], live) THEN "backup_failed"
    ELSE IF preparedConfigRestoreAlreadyCurrent(actions[c], live) THEN "already_up_to_date"
    ELSE "none"

Prepared(p) == SelectedSets(p) \cap DOMAIN actions

AtMostOneFault(broken) ==
    IF broken = {} THEN UNCHANGED faults ELSE Cardinality(broken) = 1 /\ Fault

InspectedAs(r, reason) ==
    IF reason = "none" THEN r
    ELSE [r EXCEPT !.reason = reason,
                   !.status = IF reason = "backup_failed" THEN "failed" ELSE "skipped"]

Inspected(broken) ==
    [c \in DOMAIN plan |->
        IF c \in Prepared(plan) THEN InspectedAs(plan[c], Snapshots(c, broken)) ELSE plan[c]]

Inspect ==
    /\ pc = "inspect"
    /\ \E broken \in SUBSET Prepared(plan) :
         AtMostOneFault(broken) /\ plan' = Inspected(broken)
    /\ pc' = IF in.dryRun THEN "lanes" ELSE "roots"
    /\ todo' = IF in.dryRun THEN LanesToRun ELSE todo
    /\ UNCHANGED <<inputVars, catalog, live, pending, laneOf, workVars, legacyVars, err,
                   lease, wrote>>

CreateTransactionRoots ==
    /\ pc = "roots"
    /\ \E broken \in SUBSET Prepared(plan) :
         /\ AtMostOneFault(broken)
         /\ plan' = [c \in DOMAIN plan |->
                        IF c \in broken
                        THEN [plan[c] EXCEPT !.reason = "backup_failed", !.status = "failed"]
                        ELSE plan[c]]
         /\ roots' = [roots EXCEPT !.root = Prepared(plan) \ broken]
         /\ todo' = Prepared(plan) \ broken
    /\ pc' = "execute"
    /\ UNCHANGED <<inputVars, catalog, live, pending, laneOf, stage, actions, blocked, stopped,
                   legacyVars, err, lease, wrote>>

(***************************************************************************)
(* Execution of the sets (executeLiveConfigRestoreSet).  The last three    *)
(* outcomes are what ConfigTransaction allows one transaction to end with. *)
(***************************************************************************)
Outcome(c, status, reason) ==
    plan' = [plan EXCEPT ![c].status = status, ![c].reason = reason]

WithIntent(c) == roots' = [roots EXCEPT !.intent = @ \cup {c}]

Written(c) == {<<<<"set", c>>, concreteClaim(a.claim)>> : a \in actions[c]}

NoMutation == UNCHANGED <<live, pending, wrote>>

SkipOrBackupFails(c) ==
    \E broken \in {{}, {c}} :
        /\ AtMostOneFault(broken)
        /\ plan' = [plan EXCEPT ![c] = InspectedAs(@, Snapshots(c, broken))]
        /\ plan' # plan
        /\ UNCHANGED <<roots, stopped>> /\ NoMutation

Restores(c) ==
    /\ Snapshots(c, {}) = "none"
    /\ Outcome(c, "restored", "none")
    /\ WithIntent(c)
    /\ live' = WriteActions(live, actions[c])
    /\ wrote' = wrote \cup Written(c)
    /\ UNCHANGED <<pending, stopped, faults>>

RollsBack(c) ==
    /\ Snapshots(c, {}) = "none" /\ Fault
    /\ Outcome(c, "rolled_back", "commit_failed")
    /\ WithIntent(c)
    /\ UNCHANGED stopped /\ NoMutation

CanContinue(status) == status \notin {"rollback_failed", "failed"}

\* The rollback fails too, or the transaction ends without an answer: some
\* targets are changed and the journal has no terminal record.
LeavesPending(c) ==
    /\ Snapshots(c, {}) = "none" /\ Fault
    /\ \E status \in {"rollback_failed", "failed"} :
         /\ Outcome(c, status, IF status = "failed" THEN "commit_failed" ELSE "rollback_failed")
         /\ stopped' = ~CanContinue(status)
    /\ WithIntent(c)
    /\ \E some \in SUBSET actions[c] : live' = WriteActions(live, some)
    /\ pending' = live
    /\ wrote' = wrote \cup Written(c)

markConfigRestoreRecoveryRequired(p, sets) ==
    [c \in DOMAIN p |->
        IF c \in sets THEN [p[c] EXCEPT !.reason = "recovery_required", !.status = "skipped"]
        ELSE p[c]]

overlayLegacyRecoveryRequired ==
    [l \in Lanes |->
        IF in.lanes[l].selected /\ laneOf[l].status = "planned"
        THEN [status |-> "skipped", reason |-> "recovery_required"] ELSE laneOf[l]]

ExecuteSet ==
    /\ pc = "execute" /\ todo # {} /\ ~stopped
    /\ \/ SkipOrBackupFails(Next1) \/ Restores(Next1)
       \/ RollsBack(Next1) \/ LeavesPending(Next1)
    /\ todo' = todo \ {Next1}
    /\ UNCHANGED <<pc, inputVars, catalog, laneOf, stage, actions, blocked, legacyVars, err, lease>>

\* Nothing of the set is written (its intent may have reached the disk), and
\* the rest of the run is called off.
IntentFails ==
    /\ pc = "execute" /\ todo # {} /\ ~stopped
    /\ Snapshots(Next1, {}) = "none" /\ Fault
    /\ plan' = markConfigRestoreRecoveryRequired(
                 markConfigRestoreFailure(plan, Next1, "journal_intent_failed", "failed"),
                 SelectedSets(plan) \ {Next1})
    /\ laneOf' = overlayLegacyRecoveryRequired
    /\ roots' \in {roots, [roots EXCEPT !.intent = @ \cup {Next1}]}
    /\ todo' = {}
    /\ Return("journal_intent_failed")
    /\ UNCHANGED <<inputVars, catalog, live, pending, stage, actions, blocked, stopped,
                   legacyVars, lease, wrote>>

RecoveryRequiredPlan == markConfigRestoreRecoveryRequired(plan, SelectedSets(plan))

FailStop ==
    /\ pc = "execute" /\ stopped
    /\ plan' = RecoveryRequiredPlan
    /\ laneOf' = overlayLegacyRecoveryRequired
    /\ todo' = {}
    /\ Return("none")
    /\ UNCHANGED <<inputVars, faults, catalog, live, pending, workVars, legacyVars, lease, wrote>>

SetsDone ==
    /\ pc = "execute" /\ todo = {} /\ ~stopped
    /\ pc' = "lanes"
    /\ todo' = LanesToRun
    /\ UNCHANGED <<inputVars, faults, catalog, live, pending, plan, laneOf, workVars,
                   legacyVars, err, lease, wrote>>

(***************************************************************************)
(* Legacy lanes and ordinary restores                                      *)
(***************************************************************************)
\* What a legacy action writes: its owner's own value.
LegacyContent(owner) == << >> :> (<<"by">> :> owner)

FileOrRegistry(claim) == IF claim.kind = "file" THEN "file" ELSE "registry"

LegacyWrite(l, owner, entry) ==
    LET claim == concreteClaim(entry.claim)
        k == FileOrRegistry(claim)
    IN [l EXCEPT ![k] = Graft(Prune(@, claim.path), claim.path, LegacyContent(owner))]

LegacyCurrent(l, owner, entry) ==
    Subtree(l[FileOrRegistry(entry.claim)], concreteClaim(entry.claim).path) = LegacyContent(owner)

\* One entry: r is [live, results, wrote]; a broken entry fails.
EntryStatus(r, owner, entry, broken) ==
    CASE entry.missing -> "skipped_missing_source"
      [] ~entry.missing /\ broken -> "failed"
      [] ~entry.missing /\ ~broken /\ LegacyCurrent(r.live, owner, entry) -> "skipped_up_to_date"
      [] OTHER -> "restored"

WithEntry(r, owner, entry, status) ==
    IF status = "restored" /\ ~in.dryRun
    THEN [results |-> Append(r.results, status),
          live |-> LegacyWrite(r.live, owner, entry),
          wrote |-> r.wrote \cup {<<owner, concreteClaim(entry.claim)>>}]
    ELSE [r EXCEPT !.results = Append(@, status)]

RunEntry(r, owner, entry, broken) ==
    WithEntry(r, owner, entry, EntryStatus(r, owner, entry, broken))

RunEntries(owner, entries, broken) ==
    FoldLeft(LAMBDA r, i : RunEntry(r, owner, entries[i], i \in broken),
             [results |-> << >>, live |-> live, wrote |-> wrote],
             [i \in 1 .. Len(entries) |-> i])

legacyConfigTerminalOutcome(results) ==
    LET restored == "restored" \in ToSet(results)
        failed == "failed" \in ToSet(results)
    IN CASE failed /\ restored /\ ~in.dryRun -> [status |-> "rollback_failed", reason |-> "none"]
         [] failed /\ ~(restored /\ ~in.dryRun) -> [status |-> "failed", reason |-> "none"]
         [] ~failed /\ restored ->
              [status |-> IF in.dryRun THEN "planned" ELSE "restored", reason |-> "none"]
         [] OTHER -> [status |-> "skipped",
                      reason |-> IF \A s \in ToSet(results) : s = "skipped_up_to_date"
                                 THEN "already_up_to_date" ELSE "none"]

LaneRan(l, r) ==
    /\ live' = r.live /\ wrote' = r.wrote
    /\ items' = items \o r.results
    /\ laneOf' = [laneOf EXCEPT ![l] = legacyConfigTerminalOutcome(r.results)]

RunLane ==
    /\ pc = "lanes" /\ todo # {}
    /\ todo' = todo \ {Next1}
    /\ IF <<"lane", Next1>> \in DOMAIN blocked
       THEN UNCHANGED <<faults, live, laneOf, items, wrote>>
       ELSE \E broken \in SUBSET DOMAIN in.lanes[Next1].entries :
              /\ AtMostOneFault(broken)
              /\ LaneRan(Next1, RunEntries(<<"lane", Next1>>, in.lanes[Next1].entries, broken))
    /\ UNCHANGED <<pc, inputVars, catalog, pending, plan, workVars, journaled, err, lease>>

\* A legacy action that returns an error ends the command at once.
LaneAborts ==
    /\ pc = "lanes" /\ todo # {} /\ Fault
    /\ <<"lane", Next1>> \notin DOMAIN blocked
    /\ Return("restore_failed")
    /\ UNCHANGED <<inputVars, catalog, live, pending, plan, laneOf, todo, workVars, legacyVars,
                   lease, wrote>>

RunOrdinaryEntry(r, i, broken) ==
    IF <<"ordinary", i>> \in DOMAIN blocked THEN [r EXCEPT !.results = Append(@, "failed")]
    ELSE RunEntry(r, <<"ordinary", i>>, in.ordinary[i], broken)

OrdinaryRan(r) ==
    live' = r.live /\ wrote' = r.wrote /\ items' = items \o r.results

RunOrdinary ==
    /\ pc = "lanes" /\ todo = {}
    /\ pc' = "journal"
    /\ \E broken \in SUBSET DOMAIN in.ordinary :
         /\ AtMostOneFault(broken)
         /\ OrdinaryRan(FoldLeft(LAMBDA q, i : RunOrdinaryEntry(q, i, i \in broken),
                                 [results |-> << >>, live |-> live, wrote |-> wrote],
                                 [i \in 1 .. Len(in.ordinary) |-> i]))
    /\ UNCHANGED <<inputVars, catalog, pending, plan, laneOf, todo, workVars, journaled, err, lease>>

allLegacyConfigRestoreResultsUpToDate == \A s \in ToSet(items) : s = "skipped_up_to_date"

WriteJournal ==
    /\ pc = "journal"
    /\ IF in.dryRun \/ items = << >> \/ allLegacyConfigRestoreResultsUpToDate
       THEN Return("none") /\ UNCHANGED <<journaled, faults>>
       ELSE \/ Return("none") /\ journaled' = TRUE /\ UNCHANGED faults
            \/ Return("journal_failed") /\ Fault /\ UNCHANGED journaled
    /\ UNCHANGED <<inputVars, catalog, live, pending, plan, laneOf, todo, workVars, items,
                   lease, wrote>>

(***************************************************************************)
(* The deferred calls, last to first: roots, stages, guard                 *)
(***************************************************************************)
DiscardTransactionRoots == [roots EXCEPT !.root = @ \cap roots.intent]

Close ==
    /\ pc = "close"
    /\ pc' = "done"
    /\ roots' = DiscardTransactionRoots
    /\ stage' = EmptyMap
    /\ lease' = FALSE
    /\ UNCHANGED <<inputVars, faults, catalog, live, pending, plan, laneOf, todo, actions,
                   blocked, stopped, legacyVars, err, wrote>>

World == EditCatalog \/ TamperPayload \/ EditTargets

Step ==
    \/ Load \/ Preview \/ Install \/ Final \/ FinalFails
    \/ Begin \/ BeginFails \/ VerifySource \/ StageSet \/ Collide
    \/ Inspect \/ CreateTransactionRoots
    \/ ExecuteSet \/ IntentFails \/ FailStop \/ SetsDone
    \/ RunLane \/ LaneAborts \/ RunOrdinary \/ WriteJournal
    \/ Close

\* The command has returned.
Returned == pc = "done" /\ UNCHANGED vars

Next == World \/ Step \/ Returned

Spec == Init /\ [][Next]_vars

(***************************************************************************)
(* Properties                                                              *)
(***************************************************************************)
Statuses == {"none", "planned", "restored", "skipped", "failed", "rolled_back", "rollback_failed"}

\* Every variable holds a value of its kind, plans and stages are about known
\* captures, and an intent belongs to a created root or to no root at all.
PlanTypeOK ==
    /\ pc \in {"load", "preview", "install", "final", "begin", "stage", "copy", "inspect",
               "roots", "execute", "lanes", "journal", "close", "done"}
    /\ DOMAIN plan \subseteq Captures
    /\ \A c \in DOMAIN plan : plan[c].status \in Statuses
    /\ \A l \in DOMAIN laneOf : laneOf[l].status \in Statuses
    /\ DOMAIN stage \subseteq DOMAIN actions /\ DOMAIN actions \subseteq Captures
    /\ roots.intent \subseteq roots.root
    /\ stopped \in BOOLEAN /\ lease \in BOOLEAN /\ journaled \in BOOLEAN

Restored == {c \in DOMAIN plan : plan[c].status = "restored"}

(* A restored set went to an instance that the host had after the packages *)
(* were installed, in the one generation that instance's version selects,  *)
(* forward along the only migration path, from a definition the pinned     *)
(* catalog accepts; a mapping of the user is obeyed (Final replans from    *)
(* scratch, config_restore_planning.go).                                   *)
RestoredWhereDetected ==
    \A c \in Restored :
        LET source == in.sources[c]
            m == ModuleById(catalog, source.module)
            set == m.sets[source.set]
            target == {t \in DiscoverInstances(m, PackagesOf(m, Apps, Available, host), host) :
                          t.id = plan[c].target}
        IN /\ HasModule(catalog, source.module)
           /\ Cardinality(target) = 1
           /\ \A t \in target : {g.id : g \in MatchingGenerations(set, t.version)} = {plan[c].gen}
           /\ GenerationById(set, plan[c].gen).order >= GenerationById(set, source.gen).order
           /\ plan[c].gen # source.gen =>
                Cardinality(MigrationPaths(set, source.gen, plan[c].gen)) = 1
           /\ source.fp \in {GenerationById(set, source.gen).fp}
                            \cup GenerationById(set, source.gen).accepts
           /\ c \in DOMAIN in.mappings => in.mappings[c] = plan[c].target

(* What a restored set wrote is still what its targets hold when the       *)
(* command returns: no later set, legacy lane or ordinary restore writes   *)
(* over it, whichever spelling of the path it uses                         *)
(* (applyUnifiedConcreteConfigRestoreCollisions).                          *)
RestoredStays ==
    pc = "done" =>
        \A c \in Restored : preparedConfigRestoreAlreadyCurrent(actions[c], live)

(* Whatever is staged for a restore is the captured payload, carried along *)
(* the planned migration: files changed in the extracted bundle while the  *)
(* run is staging never reach a target (migration/stage.go verifies both   *)
(* before and after the copy).                                             *)
StagedIsCaptured ==
    \A c \in DOMAIN stage :
        /\ stage[c] = Migrate(Payload(c), EdgesOf(c), in.sources[c].gen, TargetGen(c)).tree
        /\ ValidateStaging(stage[c], TargetGen(c).validate)

(* The unfinished content of an interrupted run never becomes part of what *)
(* a restore writes: merges read their targets only after recovery.        *)
HalfWritten(doc) == \E a \in DOMAIN doc : a = <<"half">>

NoHalfStateRestored ==
    \A c \in Restored : \A a \in actions[c] :
        \A r \in DOMAIN a.desired : a.claim.kind = "file" => ~HalfWritten(a.desired[r])
=============================================================================
