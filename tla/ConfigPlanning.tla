---------------------------- MODULE ConfigPlanning ----------------------------
(***************************************************************************)
(* The configuration planner (internal/planner) and the evidence and input *)
(* layers above it (internal/commands/config_restore_*.go): which captured *)
(* config set goes to which detected instance, directly or by migration,   *)
(* and why the others do not.  A pure function of the manifest, the pinned *)
(* catalog, the evidence of one detection pass and the user's mappings.    *)
(*                                                                         *)
(* A captured set (source) is [cap, module, set, gen, fp, version, schema, *)
(* broken]; broken marks a capture-time module snapshot that no longer     *)
(* verifies.  The resolution of a source is the record made by Unresolved, *)
(* Finished and Viable below; "none" stands for Go's nil reason and empty  *)
(* status.                                                                 *)
(* Captures are numbered in the order of their ids.                        *)
(***************************************************************************)
EXTENDS ModuleCatalog

CONSTANTS
    None,        \* no target instance / no generation
    ConcreteOf   \* links of this host: directory -> the directory it stands for

\* Where a path really leads once the link it starts with is followed.
ConcreteFilesystemTarget(path) ==
    LET links == {l \in DOMAIN ConcreteOf : IsPrefix(l, path)}
        link == CHOOSE l \in links : TRUE
    IN IF links = {} THEN path
       ELSE ConcreteOf[link] \o SubSeq(path, Len(link) + 1, Len(path))

(***************************************************************************)
(* Evidence of one detection pass: the packages of every requested module  *)
(* and the modules whose evidence is not to be trusted.  apps are the      *)
(* manifest's [driver, ref]; available the drivers this host has.          *)
(***************************************************************************)
appsForModule(m, apps) == apps \cap m.refs

detectDriverConfigRestoreApps(host, apps) ==
    {p \in host.packages : \E a \in apps : a.driver = p.driver /\ a.ref = p.ref}

LaneFailed(m, apps, driver, available, host) ==
    LET mine == {a \in appsForModule(m, apps) : a.driver = driver}
    IN mine # {} /\ (driver \notin available \/ driver \in host.broken)

ModuleDetectionFailed(m, apps, available, host) ==
    \E driver \in {a.driver : a \in apps} : LaneFailed(m, apps, driver, available, host)

PackagesOf(m, apps, available, host) ==
    detectDriverConfigRestoreApps(host,
        {a \in appsForModule(m, apps) :
            a.driver \in available \ host.broken})

\* Only the selected modules the catalog knows are asked about.
Snapshot(moduleIds, catalog, apps, available, host) ==
    LET known == {id \in moduleIds : HasModule(catalog, id)}
        Mod(id) == ModuleById(catalog, id)
    IN [failed |-> {id \in known : ModuleDetectionFailed(Mod(id), apps, available, host)},
        packages |-> [id \in known |-> PackagesOf(Mod(id), apps, available, host)],
        host |-> host]

DiscoverTargets(catalog, id, evidence) ==
    IF \/ ~HasModule(catalog, id)
       \/ ModuleById(catalog, id).schema # 2
       \/ ModuleById(catalog, id).detectors = {}
    THEN {}
    ELSE DiscoverInstances(ModuleById(catalog, id), evidence.packages[id], evidence.host)

(***************************************************************************)
(* One source against one candidate instance                               *)
(***************************************************************************)
Finished(resolution, reason, status, target) ==
    [resolution |-> resolution, reason |-> reason, status |-> status,
     target |-> target, gen |-> None, path |-> << >>, claims |-> {}]

Viable(resolution, target, gen, path) ==
    [resolution |-> resolution, reason |-> "none", status |-> "none",
     target |-> target, gen |-> gen, path |-> path, claims |-> {}]

Unresolved(reason) == Finished("unknown", reason, "skipped", None)

isViableCompatibility(r) == r.reason = "none" /\ r.resolution \in {"direct", "migrate"}

\* Against a generation of the set, once the source itself is understood.
RouteOf(paths) == IF Cardinality(paths) = 1 THEN CHOOSE p \in paths : TRUE ELSE << >>

uniqueMigrationRoute(set, from, to) == RouteOf(MigrationPaths(set, from, to))

Incompatible(reason, target, to) ==
    [Finished("incompatible", reason, "skipped", target.id) EXCEPT !.gen = to.id]

MigrationOutcome(target, to, path) ==
    IF path = << >> THEN Incompatible("migration_path_missing", target, to)
    ELSE Viable("migrate", target.id, to.id, path)

ResolveTo(set, from, to, target) ==
    CASE to.id = from.id -> Viable("direct", target.id, to.id, << >>)
      [] to.id # from.id /\ to.order < from.order ->
           Incompatible("downgrade_unsupported", target, to)
      [] OTHER -> MigrationOutcome(target, to, uniqueMigrationRoute(set, from.id, to.id))

ResolveMatching(set, from, target, matching) ==
    CASE matching = {} -> Finished("unknown", "unknown_generation", "skipped", target.id)
      [] Cardinality(matching) > 1 ->
           Finished("unknown", "ambiguous_generation", "skipped", target.id)
      [] OTHER -> ResolveTo(set, from, CHOOSE g \in matching : TRUE, target)

ResolveGeneration(set, source, target) ==
    ResolveMatching(set, GenerationById(set, source.gen), target,
                    MatchingGenerations(set, target.version))

\* Why the source cannot be understood at all: the checks come in this order.
SetReason(set, source) ==
    IF source.gen \notin GenerationIds(set) THEN "source_generation_unknown"
    ELSE IF source.fp \notin {GenerationById(set, source.gen).fp}
                            \cup GenerationById(set, source.gen).accepts
         THEN "source_generation_definition_changed"
    ELSE "none"

ModuleReason(m, source) ==
    CASE m.schema # 2 -> "unsupported_module_schema"
      [] m.schema = 2 /\ source.set \notin DOMAIN m.sets -> "config_set_missing"
      [] OTHER -> SetReason(m.sets[source.set], source)

SourceReason(catalog, source) ==
    CASE source.schema # 2 -> "unsupported_module_schema"
      [] source.schema = 2 /\ source.broken -> "payload_integrity_failed"
      [] source.schema = 2 /\ ~source.broken /\ ~HasModule(catalog, source.module) ->
           IF source.module \in catalog.rejected
           THEN "unsupported_module_schema" ELSE "catalog_module_missing"
      [] OTHER -> ModuleReason(ModuleById(catalog, source.module), source)

ResolveUnderstood(catalog, source, target, reason) ==
    IF reason # "none"
    THEN Finished("unknown", reason,
                  IF reason = "payload_integrity_failed" THEN "failed" ELSE "skipped",
                  target.id)
    ELSE ResolveGeneration(ModuleById(catalog, source.module).sets[source.set], source, target)

ResolveCandidate(catalog, source, target) ==
    ResolveUnderstood(catalog, source, target, SourceReason(catalog, source))

(***************************************************************************)
(* One source against all the instances of its module                      *)
(***************************************************************************)
isTargetCompatibilityReason(reason) ==
    reason \in {"unknown_generation", "ambiguous_generation",
                "downgrade_unsupported", "migration_path_missing"}

exactVersionMatch(source, target) ==
    LET own == NewVersionEvidence(source.version)
    IN \/ own.raw # UnknownVersion /\ own.raw = target.version.raw
       \/ own.numeric /\ target.version.numeric
          /\ own.normalized = target.version.normalized

clearSelectedTarget(r) == [r EXCEPT !.target = None, !.gen = None, !.path = << >>]

MappedOutcome(r) ==
    IF isTargetCompatibilityReason(r.reason)
    THEN [r EXCEPT !.reason = "mapped_target_incompatible", !.status = "skipped"] ELSE r

ResolveMapped(catalog, source, targets, mapped) ==
    IF \E t \in targets : t.id = mapped
    THEN MappedOutcome(ResolveCandidate(catalog, source, CHOOSE t \in targets : t.id = mapped))
    ELSE Finished("unknown", "mapped_target_not_detected", "skipped", mapped)

\* outcome maps every candidate instance to its resolution.
SelectOutcome(outcome, viable, exact) ==
    CASE DOMAIN outcome = {} -> Unresolved("target_not_detected")
      [] Cardinality(viable) = 1 -> outcome[CHOOSE t \in viable : TRUE]
      [] Cardinality(viable) > 1 /\ Cardinality(exact) = 1 -> outcome[CHOOSE t \in exact : TRUE]
      [] DOMAIN outcome # {} /\ viable = {}
           /\ Cardinality({<<outcome[t].resolution, outcome[t].reason>> : t \in DOMAIN outcome}) = 1 ->
           clearSelectedTarget(outcome[CHOOSE t \in DOMAIN outcome : TRUE])
      [] OTHER -> Unresolved("ambiguous_target_instance")

SelectCandidate(source, outcome, viable) ==
    SelectOutcome(outcome, viable, {t \in viable : exactVersionMatch(source, t)})

SelectAmong(source, outcome) ==
    SelectCandidate(source, outcome,
                    {t \in DOMAIN outcome : isViableCompatibility(outcome[t])})

ResolveUnmapped(catalog, source, targets) ==
    SelectAmong(source, [t \in targets |-> ResolveCandidate(catalog, source, t)])

resolveSourceTargets(catalog, source, targets, mappings) ==
    IF source.cap \in DOMAIN mappings
    THEN ResolveMapped(catalog, source, targets, mappings[source.cap])
    ELSE ResolveUnmapped(catalog, source, targets)

(***************************************************************************)
(* Collisions between the sets of one plan.  A restore declaration is      *)
(* [type, src, inRoot, rel, optional]; inRoot targets start at the root of *)
(* the instance and cannot be expanded for an instance that has none.      *)
(***************************************************************************)
RestoresOf(catalog, source, r) ==
    GenerationById(ModuleById(catalog, source.module).sets[source.set], r.gen).restore

RootOf(targets, r) == (CHOOSE t \in targets : t.id = r.target).root

ExpandInstancePath(d, root) == IF d.inRoot THEN root \o d.rel ELSE d.rel

KindOf(d) == IF d.type = "registry-set" THEN "registry" ELSE "file"

resolveRestoreTarget(d, root) == [kind |-> KindOf(d), path |-> ExpandInstancePath(d, root)]

SafeTargets(restores, root) == \A d \in ToSet(restores) : d.inRoot => root # NoRoot

resolvePlanSetTargets(restores, root) == {resolveRestoreTarget(d, root) : d \in ToSet(restores)}

ClaimsOverlap(left, right) ==
    /\ left.kind = right.kind
    /\ IF left.kind = "registry" THEN left.path = right.path
       ELSE IsPrefix(left.path, right.path) \/ IsPrefix(right.path, left.path)

markTargetCollision(r) == [r EXCEPT !.reason = "target_collision", !.status = "failed"]

\* plan maps a capture to its resolution, sources and targets to its source
\* and to the instances of its module.
markTargetInstanceCompetition(plan, sources, c, d) ==
    /\ sources[c].module = sources[d].module
    /\ sources[c].set = sources[d].set
    /\ plan[c].target = plan[d].target

CollisionMarks(plan, sources, viable, claims) ==
    LET Hit(c) == \E d \in DOMAIN claims \ {c} :
                    \/ markTargetInstanceCompetition(plan, sources, c, d)
                    \/ \E x \in claims[c], y \in claims[d] : ClaimsOverlap(x, y)
    IN [c \in DOMAIN plan |->
          CASE c \notin viable -> plan[c]
            [] c \in viable \ DOMAIN claims -> markTargetCollision(plan[c])
            [] c \in DOMAIN claims /\ Hit(c) ->
                 markTargetCollision([plan[c] EXCEPT !.claims = claims[c]])
            [] OTHER -> [plan[c] EXCEPT !.claims = claims[c]]]

\* The sets whose targets can be expanded, with what they claim.
SetClaims(plan, catalog, sources, targets, viable) ==
    [c \in {d \in viable : SafeTargets(RestoresOf(catalog, sources[d], plan[d]),
                                      RootOf(targets[d], plan[d]))} |->
        resolvePlanSetTargets(RestoresOf(catalog, sources[c], plan[c]),
                              RootOf(targets[c], plan[c]))]

PlanWithCollisions(plan, catalog, sources, targets, viable) ==
    CollisionMarks(plan, sources, viable, SetClaims(plan, catalog, sources, targets, viable))

resolvePlanCollisions(plan, catalog, sources, targets) ==
    PlanWithCollisions(plan, catalog, sources, targets,
                       {c \in DOMAIN plan : isViableCompatibility(plan[c])})

ResolveSources(catalog, sources, targets, mappings) ==
    resolvePlanCollisions(
        [c \in DOMAIN sources |->
            resolveSourceTargets(catalog, sources[c], targets[c], mappings)],
        catalog, sources, targets)

(***************************************************************************)
(* The plan of one detection pass (buildFreshPlan)                         *)
(***************************************************************************)
applyTargetDetectionFailures(plan, sources, failed) ==
    [c \in DOMAIN plan |->
        IF sources[c].module \in failed THEN Unresolved("target_detection_failed")
        ELSE plan[c]]

filteredConfigRestorePlanSet == Unresolved("restore_filtered")

mergeFilteredConfigRestoreSources(plan, sources) ==
    [c \in DOMAIN sources |->
        IF c \in DOMAIN plan THEN plan[c] ELSE filteredConfigRestorePlanSet]

TargetsByCapture(catalog, sources, selected, evidence) ==
    [c \in selected |->
        IF sources[c].module \in evidence.failed THEN {}
        ELSE DiscoverTargets(catalog, sources[c].module, evidence)]

buildFreshPlan(catalog, sources, selected, mappings, evidence) ==
    mergeFilteredConfigRestoreSources(
        applyTargetDetectionFailures(
            ResolveSources(catalog, [c \in selected |-> sources[c]],
                           TargetsByCapture(catalog, sources, selected, evidence), mappings),
            sources, evidence.failed),
        sources)

overlayConfigRestoreNotEnabled(plan) ==
    [c \in DOMAIN plan |->
        IF plan[c].reason = "restore_filtered" THEN plan[c]
        ELSE [plan[c] EXCEPT !.reason = "restore_not_enabled", !.status = "skipped"]]

markSelectedConfigRestoreSetsPlanned(plan) ==
    [c \in DOMAIN plan |->
        IF plan[c].status = "none" /\ isViableCompatibility(plan[c])
        THEN [plan[c] EXCEPT !.status = "planned"] ELSE plan[c]]

=============================================================================
