---------------------------- MODULE ModuleCatalog ----------------------------
(***************************************************************************)
(* The configuration module catalog (internal/modules): the validation a   *)
(* module passes before it is trusted, the numeric version algebra, the    *)
(* selection of a generation by version and the discovery of application   *)
(* instances on a host.  Everything here is a pure function of the module  *)
(* files and of the host; ConfigPlanning and ConfigRestoreRun use it.      *)
(*                                                                         *)
(* A module file is a record                                               *)
(*   [id, json, schema, detectors, refs, exe, sets]                        *)
(* json is FALSE for a file that does not parse.  sets maps a set id to    *)
(*   [gens, edges]; a generation is                                        *)
(*   [id, order, fp, accepts, matches, restore, validate, closed] and an   *)
(* edge is [from, to, ops, validate].                                      *)
(* A vendor version is [num, parts]: num is FALSE for a text that is not   *)
(* numeric dotted (the unknown version is one), parts are its components.  *)
(***************************************************************************)
EXTENDS Integers, Sequences, FiniteSets, SequencesExt, FiniteSetsExt

(***************************************************************************)
(* Versions                                                                *)
(***************************************************************************)
UnknownVersion == [num |-> FALSE, parts |-> << >>]

NormalizeNumericVersion(parts) ==
    SubSeq(parts, 1, Max({1} \cup {i \in DOMAIN parts : parts[i] # 0}))

NewVersionEvidence(raw) ==
    [raw |-> raw,
     numeric |-> raw.num,
     normalized |-> IF raw.num THEN NormalizeNumericVersion(raw.parts) ELSE << >>]

Component(parts, i) == IF i \in DOMAIN parts THEN parts[i] ELSE 0

CompareNumericVersions(left, right) ==
    LET differ == {i \in 1 .. Max({Len(left), Len(right)}) :
                     Component(left, i) # Component(right, i)}
    IN IF differ = {} THEN 0
       ELSE IF Component(left, Min(differ)) < Component(right, Min(differ))
            THEN -1 ELSE 1

MatchesConstraint(version, constraint) ==
    LET c == CompareNumericVersions(version, constraint.version)
    IN CASE constraint.op = ">"  -> c > 0
         [] constraint.op = ">=" -> c >= 0
         [] constraint.op = "<"  -> c < 0
         [] constraint.op = "<=" -> c <= 0
         [] constraint.op = "="  -> c = 0
         [] constraint.op = "!=" -> c # 0

MatchNumericVersionRange(version, constraints) ==
    \A c \in constraints : MatchesConstraint(version, c)

\* A selector is a range over the normalized version or an anchored pattern
\* over the vendor's own text (the set of the texts it accepts).
MatchVersionSelector(selector, evidence) ==
    IF selector.kind = "range"
    THEN evidence.numeric
         /\ MatchNumericVersionRange(evidence.normalized, selector.range)
    ELSE evidence.raw \in selector.accepts

MatchingGenerations(set, evidence) ==
    {g \in set.gens : \/ g.matches = {}
                      \/ \E s \in g.matches : MatchVersionSelector(s, evidence)}

(***************************************************************************)
(* The migration graph of a config set                                     *)
(***************************************************************************)
GenerationIds(set) == {g.id : g \in set.gens}

GenerationById(set, id) == CHOOSE g \in set.gens : g.id = id

EdgesBetween(set, from, to) == {e \in set.edges : e.from = from /\ e.to = to}

\* Every way from one generation to another that repeats none.
MigrationPaths(set, from, to) ==
    {p \in UNION {[1 .. n -> GenerationIds(set)] : n \in 1 .. Cardinality(set.gens)} :
        /\ p[1] = from /\ p[Len(p)] = to
        /\ IsInjective(p)
        /\ \A i \in 1 .. Len(p) - 1 : EdgesBetween(set, p[i], p[i + 1]) # {}}

hasMigrationCycle(set) ==
    \E e \in set.edges : MigrationPaths(set, e.to, e.from) # {}

findAmbiguousRoute(set) ==
    \E from, to \in GenerationIds(set) :
        from # to /\ Cardinality(MigrationPaths(set, from, to)) > 1

\* Paths of the module file.  The component ".." leaves the directory, a path
\* that starts with "/" is absolute.
hasTraversal(path) == ".." \in ToSet(path)

isHostAbsolute(path) == path # << >> /\ Head(path) = "/"

validateStagingPath(path) == path # << >> /\ ~hasTraversal(path) /\ ~isHostAbsolute(path)

validateHostTemplatePath(d) ==
    /\ d.inRoot \/ d.rel # << >>
    /\ ~hasTraversal(d.rel) /\ ~isHostAbsolute(d.rel)

validateGenerationPaths(g) ==
    /\ \A d \in ToSet(g.restore) :
         (d.src = << >> \/ validateStagingPath(d.src)) /\ validateHostTemplatePath(d)
    /\ \A v \in g.validate : validateStagingPath(v.path)

isAllowedMigrationOperation(type) ==
    type \in {"file-copy", "file-move", "file-delete", "set", "delete", "move"}

\* A document operation addresses a place inside the document, never its root.
validateMigrationOperation(op) ==
    /\ isAllowedMigrationOperation(op.type)
    /\ \A f \in DOMAIN op \cap {"source", "target", "path"} : validateStagingPath(op[f])
    /\ \A f \in DOMAIN op \cap {"at", "to"} : op[f] # << >> \/ op.type = "set"

validateMigrationGraph(set) ==
    /\ \A e \in set.edges :
         /\ {e.from, e.to} \subseteq GenerationIds(set)
         /\ e.from # e.to
         /\ EdgesBetween(set, e.from, e.to) = {e}
         /\ e.ops # << >> /\ e.validate # {}
         /\ \A op \in ToSet(e.ops) : validateMigrationOperation(op)
         /\ \A v \in e.validate : validateStagingPath(v.path)
    /\ ~hasMigrationCycle(set)
    /\ \A e \in set.edges :
         GenerationById(set, e.to).order > GenerationById(set, e.from).order
    /\ ~findAmbiguousRoute(set)

validateConfigSet(set) ==
    /\ set.gens # {}
    /\ \A g, h \in set.gens : g.id = h.id => g = h
    /\ \A g \in set.gens : g.order > 0
    /\ \A g, h \in set.gens : g.order = h.order => g = h
    /\ \A g \in set.gens : validateGenerationPaths(g)
    /\ validateMigrationGraph(set)

(***************************************************************************)
(* Loading: a rejected module leaves its id behind as a diagnostic         *)
(***************************************************************************)
validateModuleV2(m) ==
    /\ m.schema \in {1, 2}
    /\ DOMAIN m.sets # {} => m.schema = 2
    /\ m.schema = 2 /\ DOMAIN m.sets # {} =>
         /\ m.detectors # {}
         /\ \A d, e \in m.detectors : d.id = e.id => d = e
         /\ \A d \in m.detectors : d.type \in {"package", "path"}
         /\ \A s \in DOMAIN m.sets : validateConfigSet(m.sets[s])

Accepted(m) == m.json /\ validateModuleV2(m)

\* The first accepted file of an id wins; files come in directory order.
LoadCatalogWithDiagnostics(files) ==
    LET good == {i \in DOMAIN files : Accepted(files[i])}
        first == {i \in good : \A j \in good : files[j].id = files[i].id => i <= j}
    IN [modules |-> {files[i] : i \in first},
        rejected |-> {files[i].id : i \in DOMAIN files \ first}]

HasModule(catalog, id) == \E m \in catalog.modules : m.id = id

ModuleById(catalog, id) == CHOOSE m \in catalog.modules : m.id = id

(***************************************************************************)
(* Discovery.  A host is [packages, paths, broken]: the installed packages *)
(* [driver, ref, version], the directories [glob, root, version] a path    *)
(* detector can find, and the drivers whose detection fails.               *)
(***************************************************************************)
NoRoot == << >>

packageInstance(m, d, p) ==
    [module |-> m.id, detector |-> d.id, root |-> NoRoot,
     locator |-> <<"package", p.driver, p.ref>>, raw |-> p.version]

discoverPathInstances(m, d, host) ==
    {[module |-> m.id, detector |-> d.id, root |-> p.root,
      locator |-> <<"path", p.root>>, raw |-> p.version] :
        p \in {q \in host.paths : q.glob = d.glob}}

Sightings(m, packages, host) ==
    UNION {IF d.type = "package" THEN {packageInstance(m, d, p) : p \in packages}
           ELSE discoverPathInstances(m, d, host) : d \in m.detectors}

InstanceKey(i) == <<i.module, i.detector, i.locator>>

\* Conflicting versions of one instance leave its version unknown.
MergedVersion(sightings, key) ==
    LET raws == {i.raw : i \in {j \in sightings : InstanceKey(j) = key}} \ {UnknownVersion}
    IN IF Cardinality(raws) = 1 THEN CHOOSE v \in raws : TRUE ELSE UnknownVersion

DiscoverInstances(m, packages, host) ==
    LET sightings == Sightings(m, packages, host)
    IN {[id |-> InstanceKey(i), module |-> i.module, root |-> i.root,
         version |-> NewVersionEvidence(MergedVersion(sightings, InstanceKey(i)))] :
           i \in sightings}
=============================================================================
