----------------------- MODULE ConfigRestoreRunProofs -----------------------
(***************************************************************************)
(* Proofs about one configuration restore: a set goes only where the final *)
(* plan detected an instance for it (RestoredWhereDetected), and what is   *)
(* staged for it is the captured payload carried along that plan           *)
(* (StagedIsCaptured).  The first half is about the planner's operators,   *)
(* for every catalog, host, source and mapping; the second is the          *)
(* induction over the steps of the command.                                *)
(***************************************************************************)
EXTENDS ConfigRestoreRun, FiniteSetTheorems, WellFoundedInduction, TLAPS

(***************************************************************************)
(* Resolutions                                                             *)
(***************************************************************************)
\* r has the fields of a resolution and no others.
IsResolution(r) ==
    r = [resolution |-> r.resolution, reason |-> r.reason, status |-> r.status,
         target |-> r.target, gen |-> r.gen, path |-> r.path, claims |-> r.claims]

Routes == {"direct", "migrate"}

PlannerStatuses == {"none", "skipped", "failed"}

\* The files a catalog is made of have passed validation and are typed.
CatalogSound(cat) ==
    \A m \in cat.modules :
        /\ Accepted(m)
        /\ \A s \in DOMAIN m.sets :
             /\ IsFiniteSet(m.sets[s].gens)
             /\ \A g \in m.sets[s].gens : g.order \in Int

SetOf(cat, source) == ModuleById(cat, source.module).sets[source.set]

\* Resolution r takes the source to instance t by the one generation that the
\* version of t selects, forward and along one path.
Fits(cat, source, t, r) ==
    /\ HasModule(cat, source.module)
    /\ ModuleById(cat, source.module).schema = 2
    /\ source.set \in DOMAIN ModuleById(cat, source.module).sets
    /\ r.target = t.id
    /\ {g.id : g \in MatchingGenerations(SetOf(cat, source), t.version)} = {r.gen}
    /\ GenerationById(SetOf(cat, source), r.gen).order
         >= GenerationById(SetOf(cat, source), source.gen).order
    /\ r.gen # source.gen =>
         Cardinality(MigrationPaths(SetOf(cat, source), source.gen, r.gen)) = 1
    /\ source.fp \in {GenerationById(SetOf(cat, source), source.gen).fp}
                       \cup GenerationById(SetOf(cat, source), source.gen).accepts

\* The constructors of the planner make resolutions with these fields.
LEMMA FinishedFields ==
    ASSUME NEW res, NEW reason, NEW status, NEW target
    PROVE  LET r == Finished(res, reason, status, target)
           IN /\ IsResolution(r) /\ r.resolution = res /\ r.reason = reason
              /\ r.status = status /\ r.target = target
BY DEF Finished, IsResolution

(* The fields of a viable candidate. *)
LEMMA ViableFields ==
    ASSUME NEW res, NEW target, NEW gen, NEW path
    PROVE  LET r == Viable(res, target, gen, path)
           IN /\ IsResolution(r) /\ r.resolution = res /\ r.reason = "none" /\ r.status = "none"
              /\ r.target = target /\ r.gen = gen /\ r.path = path
BY DEF Viable, IsResolution

\* Changing reason, status or claims leaves where a set goes alone.
SameRoute(r, q) ==
    /\ IsResolution(q)
    /\ q.resolution = r.resolution /\ q.target = r.target /\ q.gen = r.gen /\ q.path = r.path

(* Claiming a target does not change the route of a candidate. *)
LEMMA ClaimsKeepRoute ==
    ASSUME NEW r, IsResolution(r), NEW claims
    PROVE  LET q == [r EXCEPT !.claims = claims]
           IN SameRoute(r, q) /\ q.reason = r.reason /\ q.status = r.status
BY DEF IsResolution, SameRoute

(* Nor does the reason it is refused for, *)
LEMMA ReasonKeepsRoute ==
    ASSUME NEW r, IsResolution(r), NEW reason
    PROVE  LET q == [r EXCEPT !.reason = reason]
           IN SameRoute(r, q) /\ q.reason = reason /\ q.status = r.status
BY DEF IsResolution, SameRoute

(* the status it gets, *)
LEMMA StatusKeepsRoute ==
    ASSUME NEW r, IsResolution(r), NEW status
    PROVE  LET q == [r EXCEPT !.status = status]
           IN SameRoute(r, q) /\ q.reason = r.reason /\ q.status = status
BY DEF IsResolution, SameRoute

(* or its outcome. *)
LEMMA OutcomeKeepsRoute ==
    ASSUME NEW r, IsResolution(r), NEW reason, NEW status,
           NEW q, q = [r EXCEPT !.reason = reason, !.status = status]
    PROVE  SameRoute(r, q) /\ q.reason = reason /\ q.status = status
<1> DEFINE p == [r EXCEPT !.reason = reason]
<1>1. SameRoute(r, p) /\ p.reason = reason
  BY ReasonKeepsRoute
<1>2. q = [p EXCEPT !.status = status]
  OBVIOUS
<1> HIDE DEF p
<1>3. SameRoute(p, q) /\ q.reason = reason /\ q.status = status
  BY <1>1, <1>2 DEF SameRoute, IsResolution
<1> QED
  BY <1>1, <1>3 DEF SameRoute

(* A resolution whose target is cleared is still one of its set. *)
LEMMA ClearedFields ==
    ASSUME NEW r, IsResolution(r)
    PROVE  LET q == clearSelectedTarget(r)
           IN IsResolution(q) /\ q.resolution = r.resolution /\ q.status = r.status
<1> DEFINE q1 == [r EXCEPT !.target = None]
           q2 == [q1 EXCEPT !.gen = None]
           q3 == [q2 EXCEPT !.path = << >>]
           kept(q) == IsResolution(q) /\ q.resolution = r.resolution /\ q.status = r.status
<1>1. clearSelectedTarget(r) = q3
  BY DEF clearSelectedTarget
<1>2. kept(q1)
  BY DEF IsResolution
<1> HIDE DEF q1
<1>3. kept(q2)
  BY <1>2 DEF IsResolution
<1> HIDE DEF q2
<1>4. kept(q3)
  BY <1>3 DEF IsResolution
<1> QED
  BY <1>1, <1>4

(***************************************************************************)
(* The planner                                                             *)
(***************************************************************************)
\* A source that is understood has a module, a set and a generation whose
\* definition the catalog accepts.
LEMMA UnderstoodSource ==
    ASSUME NEW cat, NEW source, SourceReason(cat, source) = "none"
    PROVE  /\ HasModule(cat, source.module)
           /\ ModuleById(cat, source.module).schema = 2
           /\ source.set \in DOMAIN ModuleById(cat, source.module).sets
           /\ source.gen \in GenerationIds(SetOf(cat, source))
           /\ source.fp \in {GenerationById(SetOf(cat, source), source.gen).fp}
                              \cup GenerationById(SetOf(cat, source), source.gen).accepts
<1> DEFINE m == ModuleById(cat, source.module)
<1>1. HasModule(cat, source.module) /\ ModuleReason(m, source) = "none"
  BY DEF SourceReason
<1>2. /\ m.schema = 2 /\ source.set \in DOMAIN m.sets
      /\ SetReason(m.sets[source.set], source) = "none"
  BY <1>1 DEF ModuleReason
<1>3. /\ source.gen \in GenerationIds(SetOf(cat, source))
      /\ source.fp \in {GenerationById(SetOf(cat, source), source.gen).fp}
                         \cup GenerationById(SetOf(cat, source), source.gen).accepts
  BY <1>2 DEF SetReason, SetOf
<1> QED
  BY <1>1, <1>2, <1>3

\* A module the catalog has is one of its modules.
LEMMA ModuleFound ==
    ASSUME NEW cat, NEW id, HasModule(cat, id)
    PROVE  ModuleById(cat, id) \in cat.modules /\ ModuleById(cat, id).id = id
BY DEF HasModule, ModuleById

\* The ids of an accepted set's generations tell them apart.
LEMMA GenerationFound ==
    ASSUME NEW cat, CatalogSound(cat), NEW source, HasModule(cat, source.module),
           ModuleById(cat, source.module).schema = 2,
           source.set \in DOMAIN ModuleById(cat, source.module).sets
    PROVE  /\ IsFiniteSet(SetOf(cat, source).gens)
           /\ \A g \in SetOf(cat, source).gens :
                g.order \in Int /\ GenerationById(SetOf(cat, source), g.id) = g
<1> DEFINE m == ModuleById(cat, source.module)
<1>1. m \in cat.modules
  BY ModuleFound
<1>2. validateConfigSet(SetOf(cat, source))
  BY <1>1 DEF CatalogSound, Accepted, validateModuleV2, SetOf
<1>3. IsFiniteSet(SetOf(cat, source).gens) /\ \A g \in SetOf(cat, source).gens : g.order \in Int
  BY <1>1 DEF CatalogSound, SetOf
<1>4. \A g, h \in SetOf(cat, source).gens : g.id = h.id => g = h
  BY <1>2 DEF validateConfigSet
<1> QED
  BY <1>3, <1>4 DEF GenerationById

\* The version of t selects one generation of the set.
OnlyMatch(set, t, g) == MatchingGenerations(set, t.version) = {g}

\* The resolution against one generation: a route to it, forward, or none.
LEMMA ResolvedTo ==
    ASSUME NEW cat, CatalogSound(cat), NEW source, SourceReason(cat, source) = "none",
           NEW t, NEW to, OnlyMatch(SetOf(cat, source), t, to)
    PROVE  LET r == ResolveTo(SetOf(cat, source), GenerationById(SetOf(cat, source), source.gen),
                              to, t)
           IN /\ IsResolution(r) /\ r.status \in PlannerStatuses
              /\ r.resolution \in Routes => r.reason = "none" /\ Fits(cat, source, t, r)
<1> DEFINE set == SetOf(cat, source)
           from == GenerationById(set, source.gen)
           paths == MigrationPaths(set, source.gen, to.id)
           r == ResolveTo(set, from, to, t)
<1>1. /\ HasModule(cat, source.module)
      /\ ModuleById(cat, source.module).schema = 2
      /\ source.set \in DOMAIN ModuleById(cat, source.module).sets
      /\ source.gen \in GenerationIds(set)
      /\ source.fp \in {from.fp} \cup from.accepts
  BY UnderstoodSource
<1>2. from \in set.gens /\ from.id = source.gen
  BY <1>1 DEF GenerationIds, GenerationById
<1>3. to \in set.gens
  BY DEF OnlyMatch, MatchingGenerations
<1>4. from.order \in Int /\ to.order \in Int
  BY <1>1, <1>2, <1>3, GenerationFound
<1>11. GenerationById(set, to.id) = to
  BY <1>1, <1>3, GenerationFound
<1>5. {g.id : g \in MatchingGenerations(set, t.version)} = {to.id}
  BY DEF OnlyMatch
<1>6. ASSUME NEW q, q.target = t.id, q.gen = to.id, to.order >= from.order,
             to.id # source.gen => Cardinality(paths) = 1
      PROVE  Fits(cat, source, t, q)
  <2> HIDE DEF set, from, paths
  <2> QED BY <1>1, <1>11, <1>5, <1>6 DEF Fits, set, from, paths
<1>7. CASE to.id = from.id
  <2>1. r = Viable("direct", t.id, to.id, << >>)
    BY <1>7 DEF ResolveTo
  <2>2. to = from
    BY <1>7, <1>2, <1>11
  <2>3. /\ IsResolution(r) /\ r.reason = "none" /\ r.status = "none"
        /\ r.target = t.id /\ r.gen = to.id
    BY <2>1 DEF Viable, IsResolution
  <2>4. to.order >= from.order
    BY <2>2, <1>4
  <2> HIDE DEF r, set, from, paths
  <2> QED BY <2>3, <2>4, <1>6, <1>7, <1>2 DEF PlannerStatuses, r, set, from
<1>8. ASSUME NEW reason
      PROVE  LET q == Incompatible(reason, t, to)
             IN IsResolution(q) /\ q.status \in PlannerStatuses /\ q.resolution \notin Routes
  <2> DEFINE f == Finished("incompatible", reason, "skipped", t.id)
  <2>1. IsResolution(f) /\ f.resolution = "incompatible" /\ f.status = "skipped"
    BY DEF Finished, IsResolution
  <2>2. LET q == [f EXCEPT !.gen = to.id]
        IN IsResolution(q) /\ q.status = "skipped" /\ q.resolution = "incompatible"
    <3> HIDE DEF f
    <3> QED BY <2>1 DEF IsResolution
  <2> QED BY <2>2 DEF Incompatible, PlannerStatuses, Routes
<1>9. CASE to.id # from.id /\ to.order < from.order
  <2>1. r = Incompatible("downgrade_unsupported", t, to)
    BY <1>9 DEF ResolveTo
  <2> HIDE DEF r, set, from, paths
  <2> QED BY <2>1, <1>8 DEF r, set, from
<1>10. CASE to.id # from.id /\ ~(to.order < from.order)
  <2>1. r = MigrationOutcome(t, to, RouteOf(paths))
    BY <1>10, <1>2 DEF ResolveTo, uniqueMigrationRoute
  <2>2. CASE RouteOf(paths) = << >>
    <3>1. r = Incompatible("migration_path_missing", t, to)
      BY <2>1, <2>2 DEF MigrationOutcome
    <3> HIDE DEF r, set, from, paths
    <3> QED BY <3>1, <1>8 DEF r, set, from
  <2>3. CASE RouteOf(paths) # << >>
    <3>1. r = Viable("migrate", t.id, to.id, RouteOf(paths))
      BY <2>1, <2>3 DEF MigrationOutcome
    <3>2. Cardinality(paths) = 1
      BY <2>3 DEF RouteOf
    <3>3. /\ IsResolution(r) /\ r.reason = "none" /\ r.status = "none"
          /\ r.target = t.id /\ r.gen = to.id
      BY <3>1 DEF Viable, IsResolution
    <3>4. to.order >= from.order
      BY <1>10, <1>4
    <3> HIDE DEF r, set, from, paths
    <3> QED BY <3>2, <3>3, <3>4, <1>6 DEF PlannerStatuses, r, set, from
  <2> QED BY <2>2, <2>3
<1> QED
  BY <1>7, <1>9, <1>10

\* The resolution of a source against one instance.
LEMMA CandidateFits ==
    ASSUME NEW cat, CatalogSound(cat), NEW source, NEW t
    PROVE  LET r == ResolveCandidate(cat, source, t)
           IN /\ IsResolution(r) /\ r.status \in PlannerStatuses
              /\ r.resolution \in Routes => r.reason = "none" /\ Fits(cat, source, t, r)
<1> DEFINE reason == SourceReason(cat, source)
           set == SetOf(cat, source)
           matching == MatchingGenerations(set, t.version)
           r == ResolveCandidate(cat, source, t)
<1>1. ASSUME NEW res, res \notin Routes, NEW why, NEW status, status \in PlannerStatuses
      PROVE  LET q == Finished(res, why, status, t.id)
             IN /\ IsResolution(q) /\ q.status \in PlannerStatuses
                /\ q.resolution \notin Routes
  BY <1>1 DEF Finished, IsResolution
<1>2. CASE reason # "none"
  <2>1. PICK status \in PlannerStatuses : r = Finished("unknown", reason, status, t.id)
    BY <1>2 DEF ResolveCandidate, ResolveUnderstood, PlannerStatuses
  <2> HIDE DEF r, reason
  <2> QED BY <2>1, <1>1 DEF Routes, r
<1>3. CASE reason = "none"
  <2>1. r = ResolveMatching(set, GenerationById(set, source.gen), t, matching)
    BY <1>3 DEF ResolveCandidate, ResolveUnderstood, ResolveGeneration, SetOf
  <2>2. IsFiniteSet(matching)
    <3>1. IsFiniteSet(set.gens)
      BY <1>3, UnderstoodSource, GenerationFound
    <3> QED BY <3>1, FS_Subset DEF MatchingGenerations
  <2>3. CASE matching = {} \/ Cardinality(matching) > 1
    <3>1. PICK why : r = Finished("unknown", why, "skipped", t.id)
      BY <2>1, <2>3 DEF ResolveMatching
    <3> HIDE DEF r
    <3> QED BY <3>1, <1>1 DEF Routes, PlannerStatuses, r
  <2>4. CASE ~(matching = {} \/ Cardinality(matching) > 1)
    <3> DEFINE to == CHOOSE g \in matching : TRUE
    <3>1. r = ResolveTo(set, GenerationById(set, source.gen), to, t)
      BY <2>1, <2>4 DEF ResolveMatching
    <3>2. Cardinality(matching) \in Nat /\ Cardinality(matching) # 0
      BY <2>2, <2>4, FS_CardinalityType, FS_EmptySet
    <3>3. Cardinality(matching) = 1
      BY <3>2, <2>4
    <3>4. OnlyMatch(set, t, to)
      <4>1. PICK g : matching = {g}
        <5> HIDE DEF matching
        <5> QED BY <2>2, <3>3, FS_Singleton
      <4> QED BY <4>1 DEF OnlyMatch
    <3> HIDE DEF to, r, set, matching, reason
    <3> QED BY <1>3, <3>1, <3>4, ResolvedTo DEF r, set, reason
  <2> QED BY <2>3, <2>4
<1> QED
  BY <1>2, <1>3

\* A mapping that names an incompatible instance changes only what is reported.
LEMMA MappedFields ==
    ASSUME NEW r, IsResolution(r)
    PROVE  SameRoute(r, MappedOutcome(r)) /\ MappedOutcome(r).status \in {r.status, "skipped"}
<1>1. CASE isTargetCompatibilityReason(r.reason)
  <2> DEFINE p == [r EXCEPT !.reason = "mapped_target_incompatible"]
             q == MappedOutcome(r)
  <2>1. q = [p EXCEPT !.status = "skipped"]
    BY <1>1 DEF MappedOutcome
  <2>2. SameRoute(r, p)
    BY DEF SameRoute, IsResolution
  <2> HIDE DEF p, q
  <2>3. SameRoute(p, q) /\ q.status = "skipped"
    BY <2>1, <2>2 DEF SameRoute, IsResolution
  <2> QED BY <2>2, <2>3 DEF SameRoute, q
<1>2. CASE ~isTargetCompatibilityReason(r.reason)
  BY <1>2 DEF MappedOutcome, SameRoute
<1> QED
  BY <1>1, <1>2

\* The resolution of a source among the instances of its module.
LEMMA SourceFits ==
    ASSUME NEW cat, CatalogSound(cat), NEW source, NEW targets, NEW mappings
    PROVE  LET r == resolveSourceTargets(cat, source, targets, mappings)
           IN /\ IsResolution(r) /\ r.status \in PlannerStatuses
              /\ r.resolution \in Routes =>
                   /\ \E t \in targets : Fits(cat, source, t, r)
                   /\ source.cap \in DOMAIN mappings => r.target = mappings[source.cap]
<1> DEFINE r == resolveSourceTargets(cat, source, targets, mappings)
           of(t) == ResolveCandidate(cat, source, t)
<1>1. ASSUME NEW t \in targets
      PROVE  /\ IsResolution(of(t)) /\ of(t).status \in PlannerStatuses
             /\ of(t).resolution \in Routes => of(t).reason = "none" /\ Fits(cat, source, t, of(t))
  BY CandidateFits
<1>2. ASSUME NEW res, res \notin Routes, NEW why, NEW id
      PROVE  LET q == Finished(res, why, "skipped", id)
             IN /\ IsResolution(q) /\ q.status \in PlannerStatuses /\ q.resolution \notin Routes
  BY <1>2 DEF Finished, IsResolution, PlannerStatuses
<1> HIDE DEF of
<1>3. CASE source.cap \in DOMAIN mappings
  <2> DEFINE mapped == mappings[source.cap]
             t == CHOOSE u \in targets : u.id = mapped
  <2>1. r = ResolveMapped(cat, source, targets, mapped)
    BY <1>3 DEF resolveSourceTargets
  <2>2. CASE \E u \in targets : u.id = mapped
    <3>1. t \in targets /\ t.id = mapped
      BY <2>2
    <3>2. r = MappedOutcome(of(t))
      BY <2>1, <2>2 DEF ResolveMapped, of
    <3> HIDE DEF t, r
    <3>3. SameRoute(of(t), r) /\ r.status \in PlannerStatuses
      BY <3>1, <3>2, <1>1, MappedFields DEF PlannerStatuses
    <3>4. r.resolution \in Routes => of(t).resolution \in Routes /\ r = of(t)
      <4>1. r.resolution = of(t).resolution
        BY <3>3 DEF SameRoute
      <4> QED BY <4>1, <3>1, <3>2, <1>1 DEF MappedOutcome, isTargetCompatibilityReason
    <3>5. r.resolution \in Routes => Fits(cat, source, t, r) /\ r.target = mapped
      BY <3>1, <3>4, <1>1 DEF Fits
    <3> QED BY <3>1, <3>3, <3>5 DEF SameRoute, r
  <2>3. CASE ~(\E u \in targets : u.id = mapped)
    <3>1. r = Finished("unknown", "mapped_target_not_detected", "skipped", mapped)
      BY <2>1, <2>3 DEF ResolveMapped
    <3> HIDE DEF r
    <3> QED BY <3>1, <1>2 DEF Routes, r
  <2> QED BY <2>2, <2>3
<1>4. CASE source.cap \notin DOMAIN mappings
  <2> DEFINE outcome == [t \in targets |-> of(t)]
             viable == {t \in DOMAIN outcome : isViableCompatibility(outcome[t])}
             exact == {t \in viable : exactVersionMatch(source, t)}
  <2>1. r = SelectOutcome(outcome, viable, exact)
    BY <1>4 DEF resolveSourceTargets, ResolveUnmapped, SelectAmong, SelectCandidate, of
  <2>2. exact \subseteq viable /\ viable \subseteq targets
    OBVIOUS
  <2>3. ASSUME NEW S, Cardinality(S) >= 1
        PROVE  (CHOOSE t \in S : TRUE) \in S
    BY <2>3, FS_EmptySet
  <2>4. \/ \E t \in targets : r = of(t)
        \/ \E t \in targets : viable = {} /\ r = clearSelectedTarget(of(t))
        \/ \E why : r = Unresolved(why)
    <3>1. CASE DOMAIN outcome = {}
      <4>1. Cardinality(viable) = 0 /\ Cardinality(exact) = 0
        <5>1. viable = {} /\ exact = {}
          BY <3>1
        <5> HIDE DEF viable, exact
        <5> QED BY <5>1, FS_EmptySet
      <4>2. r = Unresolved("target_not_detected")
        <5> HIDE DEF viable, outcome, exact, r
        <5> QED BY <2>1, <3>1, <4>1 DEF SelectOutcome
      <4> QED BY <4>2
    <3>2. CASE DOMAIN outcome # {} /\ Cardinality(viable) = 1
      <4>1. (CHOOSE t \in viable : TRUE) \in viable
        <5> HIDE DEF viable
        <5> QED BY <3>2, <2>3
      <4>2. r = outcome[CHOOSE t \in viable : TRUE]
        <5> HIDE DEF viable, outcome, exact, r
        <5>1. DOMAIN outcome # {} /\ viable # {}
          BY <3>2, FS_EmptySet
        <5> QED BY <2>1, <3>2, <5>1 DEF SelectOutcome
      <4> HIDE DEF r
      <4> QED BY <4>1, <4>2
    <3>3. CASE DOMAIN outcome # {} /\ Cardinality(viable) > 1 /\ Cardinality(exact) = 1
      <4>1. (CHOOSE t \in exact : TRUE) \in exact
        <5> HIDE DEF exact
        <5> QED BY <3>3, <2>3
      <4>2. r = outcome[CHOOSE t \in exact : TRUE]
        <5> HIDE DEF viable, outcome, exact, r
        <5>1. DOMAIN outcome # {} /\ viable # {}
          BY <3>3, FS_EmptySet
        <5> QED BY <2>1, <3>3, <5>1 DEF SelectOutcome
      <4> HIDE DEF r
      <4> QED BY <4>1, <4>2
    <3>4. CASE /\ DOMAIN outcome # {} /\ Cardinality(viable) # 1
               /\ ~(Cardinality(viable) > 1 /\ Cardinality(exact) = 1)
      <4>1. \/ r = Unresolved("ambiguous_target_instance")
            \/ viable = {} /\ r = clearSelectedTarget(outcome[CHOOSE t \in DOMAIN outcome : TRUE])
        <5> HIDE DEF viable, outcome, exact, r
        <5> QED BY <2>1, <3>4 DEF SelectOutcome
      <4>2. (CHOOSE t \in DOMAIN outcome : TRUE) \in targets
        BY <3>4
      <4> HIDE DEF r
      <4> QED BY <4>1, <4>2
    <3> QED BY <3>1, <3>2, <3>3, <3>4
  <2> HIDE DEF r
  <2>5. CASE \E t \in targets : r = of(t)
    BY <2>5, <1>1, <1>4 DEF r
  <2>6. CASE \E t \in targets : viable = {} /\ r = clearSelectedTarget(of(t))
    <3>1. PICK t \in targets : viable = {} /\ r = clearSelectedTarget(of(t))
      BY <2>6
    <3>2. of(t).resolution \notin Routes
      BY <3>1, <1>1 DEF isViableCompatibility, Routes
    <3>3. IsResolution(r) /\ r.resolution = of(t).resolution /\ r.status = of(t).status
      BY <3>1, <1>1, ClearedFields
    <3> QED BY <3>2, <3>3, <1>1 DEF r
  <2>7. CASE \E why : r = Unresolved(why)
    BY <2>7, <1>2 DEF Unresolved, Routes, r
  <2> QED BY <2>4, <2>5, <2>6, <2>7
<1> QED
  BY <1>3, <1>4

\* A collision changes what is reported of a set, not where it would go.
LEMMA CollisionFields ==
    ASSUME NEW r, IsResolution(r)
    PROVE  SameRoute(r, markTargetCollision(r)) /\ markTargetCollision(r).status = "failed"
<1> DEFINE p == [r EXCEPT !.reason = "target_collision"]
           q == markTargetCollision(r)
<1>1. q = [p EXCEPT !.status = "failed"]
  BY DEF markTargetCollision
<1>2. SameRoute(r, p)
  BY DEF SameRoute, IsResolution
<1> HIDE DEF p, q
<1>3. SameRoute(p, q) /\ q.status = "failed"
  BY <1>1, <1>2 DEF SameRoute, IsResolution
<1> QED
  BY <1>2, <1>3 DEF SameRoute, q

(* The collision check refuses plans; it reroutes none. *)
LEMMA CollisionsKeepRoutes ==
    ASSUME NEW p, NEW sources, NEW viable, NEW claims, NEW c \in DOMAIN p, IsResolution(p[c])
    PROVE  LET marks == CollisionMarks(p, sources, viable, claims)
           IN SameRoute(p[c], marks[c]) /\ marks[c].status \in {p[c].status, "failed"}
<1> DEFINE r == p[c]
           q == [r EXCEPT !.claims = claims[c]]
           mark == CollisionMarks(p, sources, viable, claims)[c]
<1>1. mark \in {r, markTargetCollision(r), markTargetCollision(q), q}
  BY DEF CollisionMarks
<1>2. SameRoute(r, q) /\ q.status = r.status
  <2> HIDE DEF r
  <2> QED BY DEF SameRoute, IsResolution, r
<1> HIDE DEF q, r, mark
<1>3. IsResolution(r) /\ IsResolution(q)
  BY <1>2 DEF SameRoute, r
<1>4. /\ SameRoute(r, markTargetCollision(r)) /\ markTargetCollision(r).status = "failed"
      /\ SameRoute(q, markTargetCollision(q)) /\ markTargetCollision(q).status = "failed"
  BY <1>3, CollisionFields
<1>5. SameRoute(r, mark) /\ mark.status \in {r.status, "failed"}
  BY <1>1, <1>2, <1>3, <1>4 DEF SameRoute
<1> QED
  BY <1>5 DEF r, mark

\* What a fresh plan says of a capture that it takes somewhere.
Reaches(cat, sources, selected, mappings, evidence, c, r) ==
    /\ c \in selected
    /\ \E t \in DiscoverTargets(cat, sources[c].module, evidence) : Fits(cat, sources[c], t, r)
    /\ sources[c].cap \in DOMAIN mappings => r.target = mappings[sources[c].cap]

(* A plan just made leads every set to where its application was found. *)
LEMMA FreshPlanReaches ==
    ASSUME NEW cat, CatalogSound(cat), NEW sources, NEW selected \in SUBSET DOMAIN sources,
           NEW mappings, NEW evidence
    PROVE  LET p == buildFreshPlan(cat, sources, selected, mappings, evidence)
           IN /\ p = [c \in DOMAIN sources |-> p[c]]
              /\ \A c \in DOMAIN sources :
                   /\ IsResolution(p[c]) /\ p[c].status \in PlannerStatuses
                   /\ p[c].resolution \in Routes =>
                        Reaches(cat, sources, selected, mappings, evidence, c, p[c])
<1> DEFINE picked == [c \in selected |-> sources[c]]
           targets == TargetsByCapture(cat, sources, selected, evidence)
           base == [c \in DOMAIN picked |->
                      resolveSourceTargets(cat, picked[c], targets[c], mappings)]
           viable == {c \in DOMAIN base : isViableCompatibility(base[c])}
           claims == SetClaims(base, cat, picked, targets, viable)
           marked == CollisionMarks(base, picked, viable, claims)
           failed == applyTargetDetectionFailures(marked, sources, evidence.failed)
           p == buildFreshPlan(cat, sources, selected, mappings, evidence)
<1>1. p = mergeFilteredConfigRestoreSources(failed, sources)
  BY DEF buildFreshPlan, ResolveSources, resolvePlanCollisions, PlanWithCollisions
<1>2. DOMAIN base = selected /\ DOMAIN marked = selected /\ DOMAIN failed = selected
  BY DEF CollisionMarks, applyTargetDetectionFailures
<1>3. p = [c \in DOMAIN sources |-> p[c]]
  <2> HIDE DEF failed, p
  <2> QED BY <1>1 DEF mergeFilteredConfigRestoreSources
<1>4. ASSUME NEW why
      PROVE  LET r == Unresolved(why)
             IN IsResolution(r) /\ r.status \in PlannerStatuses /\ r.resolution \notin Routes
  BY DEF Unresolved, Finished, IsResolution, PlannerStatuses, Routes
<1>5. ASSUME NEW c \in DOMAIN sources
      PROVE  /\ IsResolution(p[c]) /\ p[c].status \in PlannerStatuses
             /\ p[c].resolution \in Routes =>
                  Reaches(cat, sources, selected, mappings, evidence, c, p[c])
  <2>1. CASE c \notin selected
    <3>1. p[c] = Unresolved("restore_filtered")
      <4> HIDE DEF failed, p
      <4> QED BY <1>1, <1>2, <2>1
              DEF mergeFilteredConfigRestoreSources, filteredConfigRestorePlanSet
    <3> HIDE DEF p
    <3> QED BY <3>1, <1>4
  <2>2. CASE c \in selected /\ sources[c].module \in evidence.failed
    <3>1. p[c] = failed[c]
      <4> HIDE DEF failed, p
      <4> QED BY <1>1, <1>2, <2>2 DEF mergeFilteredConfigRestoreSources
    <3>2. failed[c] = Unresolved("target_detection_failed")
      <4> HIDE DEF marked
      <4> QED BY <1>2, <2>2 DEF applyTargetDetectionFailures
    <3> HIDE DEF p, failed
    <3> QED BY <3>1, <3>2, <1>4
  <2>3. CASE c \in selected /\ sources[c].module \notin evidence.failed
    <3>1. p[c] = failed[c]
      <4> HIDE DEF failed, p
      <4> QED BY <1>1, <1>2, <2>3 DEF mergeFilteredConfigRestoreSources
    <3>2. failed[c] = marked[c]
      <4> HIDE DEF marked
      <4> QED BY <1>2, <2>3 DEF applyTargetDetectionFailures
    <3>3. /\ base[c] = resolveSourceTargets(cat, sources[c], targets[c], mappings)
          /\ targets[c] = DiscoverTargets(cat, sources[c].module, evidence)
      BY <2>3 DEF TargetsByCapture
    <3>4. /\ IsResolution(base[c]) /\ base[c].status \in PlannerStatuses
          /\ base[c].resolution \in Routes =>
               /\ \E t \in targets[c] : Fits(cat, sources[c], t, base[c])
               /\ sources[c].cap \in DOMAIN mappings => base[c].target = mappings[sources[c].cap]
      <4> HIDE DEF base, targets
      <4> QED BY <3>3, SourceFits
    <3>5. SameRoute(base[c], marked[c]) /\ marked[c].status \in {base[c].status, "failed"}
      <4> HIDE DEF base, viable, claims
      <4> QED BY <3>4, <1>2, <2>3, CollisionsKeepRoutes
    <3> HIDE DEF p, failed, marked, base, targets
    <3>6. p[c] = marked[c]
      BY <3>1, <3>2
    <3>7. IsResolution(p[c]) /\ p[c].status \in PlannerStatuses
      BY <3>4, <3>5, <3>6 DEF SameRoute, PlannerStatuses
    <3>8. ASSUME NEW t, Fits(cat, sources[c], t, base[c])
          PROVE  Fits(cat, sources[c], t, p[c])
      BY <3>5, <3>6, <3>8 DEF SameRoute, Fits
    <3> QED BY <2>3, <3>3, <3>4, <3>5, <3>6, <3>7, <3>8 DEF SameRoute, Reaches
  <2> QED BY <2>1, <2>2, <2>3
<1> HIDE DEF p
<1> QED
  BY <1>3, <1>5 DEF p

(***************************************************************************)
(* Detection                                                               *)
(***************************************************************************)
\* No two instances of a module share an id: the detectors of an accepted
\* module have different ids, and a locator names a package or a directory.
LEMMA InstanceIdsDiffer ==
    ASSUME NEW m, Accepted(m), m.schema = 2, DOMAIN m.sets # {}, NEW packages, NEW h,
           NEW t \in DiscoverInstances(m, packages, h),
           NEW u \in DiscoverInstances(m, packages, h), t.id = u.id
    PROVE  t = u
<1> DEFINE seen == Sightings(m, packages, h)
           made(i) == [id |-> InstanceKey(i), module |-> i.module, root |-> i.root,
                       version |-> NewVersionEvidence(MergedVersion(seen, InstanceKey(i)))]
<1>1. \A d, e \in m.detectors : d.id = e.id => d = e
  BY DEF Accepted, validateModuleV2
<1>2. PICK i \in seen : t = made(i)
  BY DEF DiscoverInstances
<1>3. PICK j \in seen : u = made(j)
  BY DEF DiscoverInstances
<1>4. i.module = j.module /\ i.detector = j.detector /\ i.locator = j.locator
  BY <1>2, <1>3 DEF InstanceKey
<1>5. ASSUME NEW k \in seen
      PROVE  \E d \in m.detectors :
               /\ k.detector = d.id
               /\ d.type = "package" => k.root = NoRoot
               /\ d.type # "package" => k.locator = <<"path", k.root>>
  <2>1. PICK d \in m.detectors :
          k \in IF d.type = "package" THEN {packageInstance(m, d, p) : p \in packages}
                ELSE discoverPathInstances(m, d, h)
    BY DEF Sightings
  <2>2. CASE d.type = "package"
    BY <2>1, <2>2 DEF packageInstance
  <2>3. CASE d.type # "package"
    BY <2>1, <2>3 DEF discoverPathInstances
  <2> QED BY <2>2, <2>3
<1>6. i.root = j.root
  <2>1. PICK d \in m.detectors :
          /\ i.detector = d.id /\ (d.type = "package" => i.root = NoRoot)
          /\ d.type # "package" => i.locator = <<"path", i.root>>
    BY <1>5
  <2>2. PICK e \in m.detectors :
          /\ j.detector = e.id /\ (e.type = "package" => j.root = NoRoot)
          /\ e.type # "package" => j.locator = <<"path", j.root>>
    BY <1>5
  <2>3. d = e
    BY <1>1, <1>4, <2>1, <2>2
  <2> QED BY <1>4, <2>1, <2>2, <2>3
<1>7. InstanceKey(i) = InstanceKey(j)
  BY <1>4 DEF InstanceKey
<1> QED
  BY <1>2, <1>3, <1>4, <1>6, <1>7

\* RestoredWhereDetected for one capture and its resolution.
DetectedAs(c, r) ==
    LET source == in.sources[c]
        m == ModuleById(catalog, source.module)
        set == m.sets[source.set]
        target == {t \in DiscoverInstances(m, PackagesOf(m, Apps, Available, host), host) :
                      t.id = r.target}
    IN /\ HasModule(catalog, source.module)
       /\ Cardinality(target) = 1
       /\ \A t \in target : {g.id : g \in MatchingGenerations(set, t.version)} = {r.gen}
       /\ GenerationById(set, r.gen).order >= GenerationById(set, source.gen).order
       /\ r.gen # source.gen => Cardinality(MigrationPaths(set, source.gen, r.gen)) = 1
       /\ source.fp \in {GenerationById(set, source.gen).fp}
                        \cup GenerationById(set, source.gen).accepts
       /\ c \in DOMAIN in.mappings => in.mappings[c] = r.target

Evidence == Snapshot({in.sources[c].module : c \in in.selected}, catalog, Apps, Available, host)

(* And where a set leads, its application was detected. *)
LEMMA ReachedIsDetected ==
    ASSUME CatalogSound(catalog), in \in Inputs, NEW c \in Captures, NEW r,
           Reaches(catalog, in.sources, in.selected, SelectedMappings, Evidence, c, r)
    PROVE  DetectedAs(c, r)
<1> DEFINE source == in.sources[c]
           m == ModuleById(catalog, source.module)
           seen == DiscoverInstances(m, PackagesOf(m, Apps, Available, host), host)
           target == {u \in seen : u.id = r.target}
<1>1. /\ c \in in.selected /\ source.cap = c
      /\ c \in DOMAIN SelectedMappings => r.target = SelectedMappings[c]
  BY InputsAreTyped DEF Reaches, Captures
<1>2. PICK t \in DiscoverTargets(catalog, source.module, Evidence) : Fits(catalog, source, t, r)
  BY DEF Reaches
<1>3. HasModule(catalog, source.module)
  BY <1>2 DEF Fits
<1>4. Evidence.packages[source.module] = PackagesOf(m, Apps, Available, host)
      /\ Evidence.host = host
  BY <1>1, <1>3 DEF Evidence, Snapshot
<1>5. t \in seen
  BY <1>2, <1>3, <1>4 DEF DiscoverTargets
<1>6. m \in catalog.modules
  BY <1>3, ModuleFound
<1>7. Accepted(m) /\ m.schema = 2 /\ DOMAIN m.sets # {}
  BY <1>2, <1>6 DEF CatalogSound, Fits
<1>8. target = {t}
  <2>1. t.id = r.target
    BY <1>2 DEF Fits
  <2>2. ASSUME NEW u \in seen, u.id = t.id PROVE u = t
    <3> HIDE DEF m
    <3> QED BY <1>5, <1>7, <2>2, InstanceIdsDiffer
  <2> HIDE DEF seen
  <2> QED BY <1>5, <2>1, <2>2
<1>9. Cardinality(target) = 1
  <2> HIDE DEF target
  <2> QED BY <1>8, FS_Singleton
<1>10. c \in DOMAIN in.mappings => in.mappings[c] = r.target
  BY <1>1 DEF SelectedMappings
<1>11. \A u \in target :
         {g.id : g \in MatchingGenerations(m.sets[source.set], u.version)} = {r.gen}
  <2>1. {g.id : g \in MatchingGenerations(m.sets[source.set], t.version)} = {r.gen}
    BY <1>2 DEF Fits, SetOf
  <2> HIDE DEF target
  <2> QED BY <1>8, <2>1
<1>12. /\ GenerationById(m.sets[source.set], r.gen).order
            >= GenerationById(m.sets[source.set], source.gen).order
       /\ r.gen # source.gen =>
            Cardinality(MigrationPaths(m.sets[source.set], source.gen, r.gen)) = 1
       /\ source.fp \in {GenerationById(m.sets[source.set], source.gen).fp}
                          \cup GenerationById(m.sets[source.set], source.gen).accepts
  BY <1>2 DEF Fits, SetOf
<1> HIDE DEF target
<1> QED
  BY <1>3, <1>9, <1>10, <1>11, <1>12 DEF DetectedAs, target

-----------------------------------------------------------------------------
(* The inductive invariant *)

\* Until the final plan is made nothing that is planned counts.
Early == {"load", "preview", "install", "final"}

\* A plan maps captures to resolutions.
IsPlan(p) ==
    /\ p = [c \in DOMAIN p |-> p[c]]
    /\ \A c \in DOMAIN p : IsResolution(p[c])

Chosen == {"planned", "restored"}

\* The catalog was validated when it was pinned.
InputsKnown == in \in Inputs /\ disk \in Catalogs /\ CatalogSound(catalog)

PlanKnown ==
    /\ IsPlan(plan) /\ DOMAIN plan \subseteq Captures
    /\ \A c \in DOMAIN plan : plan[c].status \in Chosen => plan[c].resolution \in Routes
    /\ pc = "load" => plan = EmptyMap
    /\ pc \in Early => \A c \in DOMAIN plan : plan[c].status \in PlannerStatuses

\* Wherever the final plan goes, the host had it when the plan was made.
RoutesDetected ==
    pc \notin Early =>
        \A c \in DOMAIN plan : plan[c].resolution \in Routes => DetectedAs(c, plan[c])

\* The sets in hand are planned ones.
TodoKnown ==
    /\ pc \in {"begin", "stage", "copy", "inspect", "roots", "execute"} =>
         \A c \in todo : c \in DOMAIN plan /\ plan[c].resolution \in Routes
    /\ pc = "copy" => todo # {}

StagedAs(c) ==
    /\ stage[c] = Migrate(Payload(c), EdgesOf(c), in.sources[c].gen, TargetGen(c)).tree
    /\ ValidateStaging(stage[c], TargetGen(c).validate)

StageKnown ==
    /\ pc \in Early \cup {"begin"} => stage = EmptyMap
    /\ \A c \in DOMAIN stage : c \in DOMAIN plan /\ StagedAs(c)

Inv == InputsKnown /\ PlanKnown /\ RoutesDetected /\ TodoKnown /\ StageKnown

(***************************************************************************)
(* Plans change only in what they report                                   *)
(***************************************************************************)
\* q goes where p goes, and chooses no set that p does not take somewhere.
KeepsRoutes(p, q) ==
    /\ q = [c \in DOMAIN p |-> q[c]]
    /\ \A c \in DOMAIN p : SameRoute(p[c], q[c])
    /\ \A c \in DOMAIN p : q[c].status \in Chosen =>
         p[c].status \in Chosen \/ p[c].resolution \in Routes

(* Steps that leave the plan alone keep its routes. *)
LEMMA UnchangedKeepsRoutes ==
    ASSUME NEW p, IsPlan(p)
    PROVE  KeepsRoutes(p, p)
BY DEF IsPlan, KeepsRoutes, SameRoute

\* One set gets another status and reason.
LEMMA OutcomeKeepsRoutes ==
    ASSUME NEW p, IsPlan(p), NEW c \in DOMAIN p, NEW status, NEW reason,
           status \in Chosen => p[c].resolution \in Routes
    PROVE  KeepsRoutes(p, [p EXCEPT ![c].status = status, ![c].reason = reason])
<1> DEFINE p1 == [p EXCEPT ![c].status = status]
           q == [p EXCEPT ![c].status = status, ![c].reason = reason]
<1>1. q = [p1 EXCEPT ![c].reason = reason]
  OBVIOUS
<1>2. /\ p1 = [x \in DOMAIN p |-> p1[x]]
      /\ SameRoute(p[c], p1[c]) /\ p1[c].status = status
      /\ \A x \in DOMAIN p \ {c} : p1[x] = p[x]
  BY DEF IsPlan, IsResolution, SameRoute
<1> HIDE DEF p1, q
<1>3. /\ q = [x \in DOMAIN p |-> q[x]]
      /\ SameRoute(p1[c], q[c]) /\ q[c].status = status
      /\ \A x \in DOMAIN p \ {c} : q[x] = p1[x]
  BY <1>1, <1>2 DEF IsResolution, SameRoute
<1>4. \A x \in DOMAIN p : SameRoute(p[x], q[x])
  BY <1>2, <1>3 DEF SameRoute, IsPlan
<1>5. KeepsRoutes(p, q)
  BY <1>2, <1>3, <1>4 DEF KeepsRoutes
<1> QED
  BY <1>5 DEF q

(* So does the failure of a set. *)
LEMMA FailureKeepsRoutes ==
    ASSUME NEW p, IsPlan(p), NEW c \in DOMAIN p, NEW status, status \notin Chosen, NEW reason
    PROVE  KeepsRoutes(p, markConfigRestoreFailure(p, c, reason, status))
<1> DEFINE p1 == [p EXCEPT ![c].reason = reason]
           q == markConfigRestoreFailure(p, c, reason, status)
<1>1. q = [p1 EXCEPT ![c].status = status]
  BY DEF markConfigRestoreFailure
<1>2. /\ p1 = [x \in DOMAIN p |-> p1[x]]
      /\ SameRoute(p[c], p1[c])
      /\ \A x \in DOMAIN p \ {c} : p1[x] = p[x]
  BY DEF IsPlan, IsResolution, SameRoute
<1> HIDE DEF p1, q
<1>3. /\ q = [x \in DOMAIN p |-> q[x]]
      /\ SameRoute(p1[c], q[c]) /\ q[c].status = status
      /\ \A x \in DOMAIN p \ {c} : q[x] = p1[x]
  BY <1>1, <1>2 DEF IsResolution, SameRoute
<1>4. \A x \in DOMAIN p : SameRoute(p[x], q[x])
  BY <1>2, <1>3 DEF SameRoute, IsPlan
<1>5. KeepsRoutes(p, q)
  BY <1>2, <1>3, <1>4 DEF KeepsRoutes
<1> QED
  BY <1>5 DEF q

\* The reason and the status of a resolution, changed by an inspection.
LEMMA InspectedFields ==
    ASSUME NEW r, IsResolution(r), NEW reason
    PROVE  /\ SameRoute(r, InspectedAs(r, reason))
           /\ InspectedAs(r, reason).status \in {r.status, "failed", "skipped"}
<1>1. CASE reason = "none"
  BY <1>1 DEF InspectedAs, SameRoute
<1>2. CASE reason # "none"
  <2> DEFINE p == [r EXCEPT !.reason = reason]
             status == IF reason = "backup_failed" THEN "failed" ELSE "skipped"
             q == InspectedAs(r, reason)
  <2>1. q = [p EXCEPT !.status = status]
    BY <1>2 DEF InspectedAs
  <2>2. SameRoute(r, p)
    BY DEF SameRoute, IsResolution
  <2>3. status \in {"failed", "skipped"}
    OBVIOUS
  <2> HIDE DEF p, q, status
  <2>4. SameRoute(p, q) /\ q.status = status
    BY <2>1, <2>2 DEF SameRoute, IsResolution
  <2> QED BY <2>2, <2>3, <2>4 DEF SameRoute, q
<1> QED
  BY <1>1, <1>2

(* Keeping is transitive. *)
LEMMA KeptTwice ==
    ASSUME NEW p, NEW q, NEW r, KeepsRoutes(p, q), KeepsRoutes(q, r)
    PROVE  KeepsRoutes(p, r)
<1>1. DOMAIN q = DOMAIN p /\ DOMAIN r = DOMAIN p
  BY DEF KeepsRoutes
<1>2. r = [c \in DOMAIN p |-> r[c]]
  BY <1>1 DEF KeepsRoutes
<1>3. ASSUME NEW c \in DOMAIN p
      PROVE  /\ SameRoute(p[c], r[c])
             /\ r[c].status \in Chosen => p[c].status \in Chosen \/ p[c].resolution \in Routes
  BY <1>1, <1>3 DEF KeepsRoutes, SameRoute
<1> QED
  BY <1>2, <1>3 DEF KeepsRoutes

(* What keeps a plan is a plan. *)
LEMMA KeptPlanIsPlan ==
    ASSUME NEW p, NEW q, KeepsRoutes(p, q)
    PROVE  IsPlan(q) /\ DOMAIN q = DOMAIN p
BY DEF KeepsRoutes, IsPlan, SameRoute

\* Sets that are called off.
LEMMA RecoveryRequiredKeepsRoutes ==
    ASSUME NEW p, IsPlan(p), NEW sets
    PROVE  KeepsRoutes(p, markConfigRestoreRecoveryRequired(p, sets))
<1> DEFINE q == markConfigRestoreRecoveryRequired(p, sets)
           marked(r) == [r EXCEPT !.reason = "recovery_required", !.status = "skipped"]
<1>1. ASSUME NEW r, IsResolution(r)
      PROVE  SameRoute(r, marked(r)) /\ marked(r).status = "skipped"
  <2> DEFINE p1 == [r EXCEPT !.reason = "recovery_required"]
             p2 == marked(r)
  <2>1. p2 = [p1 EXCEPT !.status = "skipped"]
    OBVIOUS
  <2>2. SameRoute(r, p1)
    BY <1>1 DEF SameRoute, IsResolution
  <2> HIDE DEF p1, p2, marked
  <2>3. SameRoute(p1, p2) /\ p2.status = "skipped"
    BY <2>1, <2>2 DEF SameRoute, IsResolution
  <2> QED BY <2>2, <2>3 DEF SameRoute, p2
<1> HIDE DEF marked
<1>2. q = [c \in DOMAIN p |-> IF c \in sets THEN marked(p[c]) ELSE p[c]]
  BY DEF markConfigRestoreRecoveryRequired, marked
<1> HIDE DEF q
<1>3. q = [c \in DOMAIN p |-> q[c]]
  BY <1>2
<1>4. ASSUME NEW c \in DOMAIN p
      PROVE  SameRoute(p[c], q[c]) /\ (q[c].status \in Chosen => p[c].status \in Chosen)
  BY <1>1, <1>2 DEF IsPlan, SameRoute, Chosen
<1>5. KeepsRoutes(p, q)
  BY <1>3, <1>4 DEF KeepsRoutes
<1> QED
  BY <1>5 DEF q

-----------------------------------------------------------------------------
(* What keeps the invariant *)

\* Where a capture was detected depends on its target and its generation.
LEMMA DetectionKept ==
    ASSUME UNCHANGED <<in, catalog, host>>, NEW c \in DOMAIN plan,
           SameRoute(plan[c], plan'[c]), DetectedAs(c, plan[c])
    PROVE  DetectedAs(c, plan[c])'
BY DEF DetectedAs, SameRoute

(* A staged set stays staged as captured while its route is kept. *)
LEMMA StagingKept ==
    ASSUME UNCHANGED <<in, catalog>>, NEW c \in DOMAIN plan,
           SameRoute(plan[c], plan'[c]), stage'[c] = stage[c], StagedAs(c)
    PROVE  StagedAs(c)'
BY DEF StagedAs, SameRoute, Payload, EdgesOf, TargetGen

\* A step that leaves routes, catalog, host and stages alone.
QuietStep ==
    /\ KeepsRoutes(plan, plan')
    /\ UNCHANGED <<in, catalog, host>> /\ disk' \in Catalogs

(* Such a step keeps the plan known, *)
LEMMA QuietStepKeepsPlan ==
    ASSUME Inv, QuietStep, pc \notin Early, pc' \notin Early
    PROVE  (InputsKnown /\ PlanKnown /\ RoutesDetected)'
<1> USE DEF Inv
<1>1. InputsKnown'
  BY DEF InputsKnown, QuietStep, CatalogSound
<1>2. IsPlan(plan') /\ DOMAIN plan' = DOMAIN plan
  BY KeptPlanIsPlan DEF QuietStep
<1>3. PlanKnown'
  <2>1. Captures' = Captures
    BY DEF QuietStep, Captures
  <2>2. ASSUME NEW c \in DOMAIN plan', plan'[c].status \in Chosen
        PROVE  plan'[c].resolution \in Routes
    BY <1>2, <2>2 DEF QuietStep, KeepsRoutes, SameRoute, PlanKnown
  <2>3. pc' # "load"
    BY DEF Early
  <2>4. IsPlan(plan)'
    BY <1>2 DEF IsPlan
  <2> QED BY <1>2, <2>1, <2>2, <2>3, <2>4 DEF PlanKnown
<1>4. RoutesDetected'
  <2> SUFFICES ASSUME NEW c \in DOMAIN plan', plan'[c].resolution \in Routes
               PROVE  DetectedAs(c, plan[c])'
    BY DEF RoutesDetected
  <2>1. c \in DOMAIN plan /\ SameRoute(plan[c], plan'[c])
    BY <1>2 DEF QuietStep, KeepsRoutes
  <2>2. DetectedAs(c, plan[c])
    BY <2>1 DEF RoutesDetected, SameRoute
  <2> QED BY <2>1, <2>2, DetectionKept DEF QuietStep
<1> QED
  BY <1>1, <1>3, <1>4

(* and the staged sets. *)
LEMMA QuietStepKeepsStages ==
    ASSUME Inv, QuietStep, pc' \notin Early \cup {"begin"}, stage' \in {stage, EmptyMap}
    PROVE  StageKnown'
<1> SUFFICES ASSUME NEW c \in DOMAIN stage'
             PROVE  c \in DOMAIN plan' /\ StagedAs(c)'
  BY DEF StageKnown
<1>1. stage' = stage
  BY DEF EmptyMap
<1>2. c \in DOMAIN plan /\ StagedAs(c)
  BY <1>1 DEF Inv, StageKnown
<1>3. SameRoute(plan[c], plan'[c]) /\ DOMAIN plan' = DOMAIN plan
  BY <1>2 DEF QuietStep, KeepsRoutes
<1> QED
  BY <1>1, <1>2, <1>3, StagingKept DEF QuietStep

\* The sets that remain are some of those in hand.
LEMMA QuietStepKeepsTodo ==
    ASSUME Inv, QuietStep, pc \in {"begin", "stage", "copy", "inspect", "roots", "execute"},
           todo' \subseteq todo, pc' = "copy" => todo' # {}
    PROVE  TodoKnown'
BY DEF Inv, TodoKnown, QuietStep, KeepsRoutes, SameRoute

\* After the sets nothing is claimed of what is left to do.
LEMMA LateTodo ==
    ASSUME pc' \in {"lanes", "journal", "close", "done"}
    PROVE  TodoKnown'
BY DEF TodoKnown

-----------------------------------------------------------------------------
(* The steps up to the final plan *)

(* A run begins in the invariant. *)
LEMMA InitInv ==
    Init => Inv
<1> SUFFICES ASSUME Init PROVE Inv
  OBVIOUS
<1>1. DOMAIN plan = {} /\ DOMAIN stage = {} /\ plan = EmptyMap /\ stage = EmptyMap
  BY DEF Init, EmptyMap
<1>2. IsPlan(plan)
  BY <1>1 DEF IsPlan, EmptyMap
<1>3. InputsKnown
  BY DEF Init, InputsKnown, CatalogSound
<1>4. pc = "load"
  BY DEF Init
<1> QED
  BY <1>1, <1>2, <1>3, <1>4
     DEF Inv, PlanKnown, RoutesDetected, TodoKnown, StageKnown, Early

\* With no plan nothing is planned.
LEMMA NoPlan ==
    ASSUME NEW p, p = EmptyMap
    PROVE  IsPlan(p) /\ DOMAIN p = {}
BY DEF IsPlan, EmptyMap

\* What is loaded has been validated.
LEMMA LoadedIsSound ==
    ASSUME NEW files \in Catalogs
    PROVE  CatalogSound(LoadCatalogWithDiagnostics(files))
BY CatalogsAreTyped DEF CatalogSound, LoadCatalogWithDiagnostics

(* Loading the bundle keeps it. *)
LEMMA LoadStep ==
    ASSUME Inv, Load
    PROVE  Inv'
<1>1. /\ UNCHANGED <<in, disk, plan, stage>> /\ plan = EmptyMap /\ stage = EmptyMap
      /\ pc' \in {"close", "preview"}
      /\ catalog' \in {catalog, LoadCatalogWithDiagnostics(disk)}
  BY DEF Load, Return, inputVars, workVars, Inv, PlanKnown, StageKnown, Early
<1>2. IsPlan(plan) /\ DOMAIN plan = {}
  BY <1>1, NoPlan
<1>3. DOMAIN stage = {}
  BY <1>1 DEF EmptyMap
<1>4. InputsKnown'
  BY <1>1, LoadedIsSound DEF Inv, InputsKnown, CatalogSound
<1>5. PlanKnown'
  BY <1>1, <1>2 DEF PlanKnown, IsPlan
<1> QED
  BY <1>1, <1>2, <1>3, <1>4, <1>5 DEF Inv, RoutesDetected, TodoKnown, StageKnown

\* A fresh plan is about the captures, chooses nothing yet, and its routes
\* lead where the host has an instance now.
LEMMA FreshPlanKnown ==
    ASSUME InputsKnown
    PROVE  /\ IsPlan(FreshPlan) /\ DOMAIN FreshPlan = Captures
           /\ \A c \in Captures :
                /\ FreshPlan[c].status \in PlannerStatuses
                /\ FreshPlan[c].resolution \in Routes => DetectedAs(c, FreshPlan[c])
<1> DEFINE p == FreshPlan
<1>1. p = buildFreshPlan(catalog, in.sources, in.selected, SelectedMappings, Evidence)
  BY DEF FreshPlan, Evidence
<1>2. in.selected \in SUBSET DOMAIN in.sources
  BY InputsAreTyped DEF InputsKnown
<1>3. /\ p = [c \in Captures |-> p[c]]
      /\ \A c \in Captures :
           /\ IsResolution(p[c]) /\ p[c].status \in PlannerStatuses
           /\ p[c].resolution \in Routes =>
                Reaches(catalog, in.sources, in.selected, SelectedMappings, Evidence, c, p[c])
  <2> HIDE DEF p
  <2> QED BY <1>1, <1>2, FreshPlanReaches DEF InputsKnown, Captures
<1> HIDE DEF p
<1>4. ASSUME NEW c \in Captures, p[c].resolution \in Routes
      PROVE  DetectedAs(c, p[c])
  BY <1>3, <1>4, ReachedIsDetected DEF InputsKnown
<1>5. IsPlan(p) /\ DOMAIN p = Captures
  BY <1>3 DEF IsPlan
<1> QED
  BY <1>3, <1>4, <1>5 DEF p

(* Planning the preview keeps it. *)
LEMMA PreviewStep ==
    ASSUME Inv, Preview
    PROVE  Inv'
<1>1. /\ UNCHANGED <<in, disk, catalog, stage, todo>> /\ stage = EmptyMap
      /\ pc' = "install" /\ plan' \in {FreshPlan, EmptyMap}
  BY DEF Preview, inputVars, workVars, Inv, StageKnown, Early
<1>2. InputsKnown /\ InputsKnown' /\ Captures' = Captures
  BY <1>1 DEF Inv, InputsKnown, CatalogSound, Captures
<1>3. IsPlan(plan') /\ DOMAIN plan' \subseteq Captures
      /\ \A c \in DOMAIN plan' : plan'[c].status \in PlannerStatuses
  BY <1>1, <1>2, FreshPlanKnown, NoPlan
<1>4. PlanKnown'
  BY <1>1, <1>2, <1>3 DEF PlanKnown, IsPlan, Chosen, PlannerStatuses
<1> QED
  BY <1>1, <1>2, <1>4 DEF Inv, RoutesDetected, TodoKnown, StageKnown, Early, EmptyMap

(* Installing packages keeps it. *)
LEMMA InstallStep ==
    ASSUME Inv, Install
    PROVE  Inv'
<1>1. /\ UNCHANGED <<in, disk, catalog, plan, stage, todo>> /\ stage = EmptyMap
      /\ pc = "install" /\ pc' = "final"
  BY DEF Install, workVars, Inv, StageKnown, Early
<1>2. InputsKnown' /\ Captures' = Captures
  BY <1>1 DEF Inv, InputsKnown, CatalogSound, Captures
<1>3. PlanKnown'
  BY <1>1, <1>2 DEF Inv, PlanKnown, IsPlan, Early
<1> QED
  BY <1>1, <1>2, <1>3 DEF Inv, RoutesDetected, TodoKnown, StageKnown, Early, EmptyMap

\* Enabling a plan chooses sets that it takes somewhere.
LEMMA EnabledKeepsRoutes ==
    ASSUME NEW p, IsPlan(p), \A c \in DOMAIN p : p[c].status \in PlannerStatuses
    PROVE  KeepsRoutes(p, EnabledPlan(p))
<1> DEFINE off(r) == [r EXCEPT !.reason = "restore_not_enabled", !.status = "skipped"]
           on(r) == [r EXCEPT !.status = "planned"]
           q == EnabledPlan(p)
<1>1. ASSUME NEW r, IsResolution(r)
      PROVE  SameRoute(r, off(r)) /\ off(r).status = "skipped"
  <2> DEFINE p1 == [r EXCEPT !.reason = "restore_not_enabled"]
             p2 == off(r)
  <2>1. p2 = [p1 EXCEPT !.status = "skipped"]
    OBVIOUS
  <2>2. SameRoute(r, p1)
    BY <1>1 DEF SameRoute, IsResolution
  <2> HIDE DEF p1, p2, off
  <2>3. SameRoute(p1, p2) /\ p2.status = "skipped"
    BY <2>1, <2>2 DEF SameRoute, IsResolution
  <2> QED BY <2>2, <2>3 DEF SameRoute, p2
<1>2. ASSUME NEW r, IsResolution(r)
      PROVE  SameRoute(r, on(r))
  BY <1>2 DEF SameRoute, IsResolution
<1> HIDE DEF off, on
<1>3. \/ q = [c \in DOMAIN p |-> IF p[c].status = "none" /\ isViableCompatibility(p[c])
                                 THEN on(p[c]) ELSE p[c]]
      \/ q = [c \in DOMAIN p |-> IF p[c].reason = "restore_filtered" THEN p[c] ELSE off(p[c])]
  BY DEF EnabledPlan, markSelectedConfigRestoreSetsPlanned, overlayConfigRestoreNotEnabled,
         off, on
<1> HIDE DEF q
<1>4. q = [c \in DOMAIN p |-> q[c]]
  BY <1>3
<1>5. ASSUME NEW c \in DOMAIN p
      PROVE  SameRoute(p[c], q[c])
             /\ (q[c].status \in Chosen => p[c].resolution \in Routes)
  <2>1. IsResolution(p[c]) /\ p[c].status \notin Chosen
    BY DEF IsPlan, PlannerStatuses, Chosen
  <2>2. \/ q[c] = on(p[c]) /\ isViableCompatibility(p[c])
        \/ q[c] = p[c]
        \/ q[c] = off(p[c])
    BY <1>3
  <2>3. CASE q[c] = on(p[c]) /\ isViableCompatibility(p[c])
    BY <2>1, <2>3, <1>2 DEF isViableCompatibility, Routes
  <2>4. CASE q[c] = p[c]
    BY <2>1, <2>4 DEF SameRoute
  <2>5. CASE q[c] = off(p[c])
    BY <2>1, <2>5, <1>1 DEF Chosen
  <2> QED BY <2>2, <2>3, <2>4, <2>5
<1>6. KeepsRoutes(p, q)
  BY <1>4, <1>5 DEF KeepsRoutes
<1> QED
  BY <1>6 DEF q

(* The final plan keeps it. *)
LEMMA FinalStep ==
    ASSUME Inv, Final
    PROVE  Inv'
<1>1. /\ UNCHANGED <<in, disk, catalog, host, stage>> /\ stage = EmptyMap
      /\ plan' = EnabledPlan(FreshPlan) /\ todo' = SelectedSets(plan')
      /\ pc' \in {"close", "stage", "begin"}
  BY DEF Final, FinalPlan, AfterFinal, inputVars, workVars, Inv, StageKnown, Early
<1>2. InputsKnown /\ InputsKnown' /\ Captures' = Captures
  BY <1>1 DEF Inv, InputsKnown, CatalogSound, Captures
<1> DEFINE p == FreshPlan
<1>3. /\ IsPlan(p) /\ DOMAIN p = Captures
      /\ \A c \in Captures : p[c].status \in PlannerStatuses
                             /\ (p[c].resolution \in Routes => DetectedAs(c, p[c]))
  BY <1>2, FreshPlanKnown
<1>4. KeepsRoutes(p, plan')
  BY <1>1, <1>3, EnabledKeepsRoutes
<1> HIDE DEF p
<1>5. IsPlan(plan') /\ DOMAIN plan' = Captures
  BY <1>3, <1>4, KeptPlanIsPlan
<1>6. PlanKnown'
  <2>1. \A c \in DOMAIN plan' : plan'[c].status \in Chosen => plan'[c].resolution \in Routes
    BY <1>3, <1>4, <1>5 DEF KeepsRoutes, SameRoute, PlannerStatuses, Chosen
  <2> QED BY <1>1, <1>2, <1>5, <2>1 DEF PlanKnown, IsPlan, Early
<1>7. RoutesDetected'
  <2> SUFFICES ASSUME NEW c \in DOMAIN plan', plan'[c].resolution \in Routes
               PROVE  DetectedAs(c, plan[c])'
    BY DEF RoutesDetected
  <2>1. SameRoute(p[c], plan'[c]) /\ DetectedAs(c, p[c])
    BY <1>3, <1>4, <1>5 DEF KeepsRoutes, SameRoute
  <2> QED BY <1>1, <2>1 DEF DetectedAs, SameRoute
<1>8. TodoKnown'
  BY <1>1 DEF TodoKnown, SelectedSets, selectedConfigRestorePlanSet, Routes
<1> QED
  BY <1>1, <1>2, <1>6, <1>7, <1>8 DEF Inv, StageKnown, EmptyMap

(* A final plan that fails keeps it. *)
LEMMA FinalFailsStep ==
    ASSUME Inv, FinalFails
    PROVE  Inv'
<1>1. /\ UNCHANGED <<in, disk, catalog, host, stage>> /\ stage = EmptyMap
      /\ plan' = EmptyMap /\ pc' = "close"
  BY DEF FinalFails, Return, inputVars, workVars, Inv, StageKnown, Early
<1>2. InputsKnown'
  BY <1>1 DEF Inv, InputsKnown, CatalogSound
<1>3. IsPlan(plan') /\ DOMAIN plan' = {}
  BY <1>1, NoPlan
<1>4. PlanKnown'
  BY <1>1, <1>3 DEF PlanKnown, IsPlan, Early
<1> QED
  BY <1>1, <1>2, <1>3, <1>4 DEF Inv, RoutesDetected, TodoKnown, StageKnown, EmptyMap

-----------------------------------------------------------------------------
(* The steps after the final plan *)

\* A step of the world, or one that changes nothing the invariant is about.
LEMMA IdleStep ==
    ASSUME Inv, UNCHANGED <<pc, in, catalog, host, plan, todo, stage>>, disk' \in Catalogs
    PROVE  Inv'
<1>1. InputsKnown' /\ Captures' = Captures
  BY DEF Inv, InputsKnown, CatalogSound, Captures
<1>2. PlanKnown'
  BY <1>1 DEF Inv, PlanKnown, IsPlan
<1>3. RoutesDetected'
  <2> SUFFICES ASSUME pc \notin Early, NEW c \in DOMAIN plan, plan[c].resolution \in Routes
               PROVE  DetectedAs(c, plan[c])'
    BY DEF RoutesDetected
  <2>1. DetectedAs(c, plan[c]) /\ SameRoute(plan[c], plan'[c])
    BY DEF Inv, RoutesDetected, PlanKnown, IsPlan, SameRoute
  <2> QED BY <2>1, DetectionKept
<1>4. TodoKnown'
  BY DEF Inv, TodoKnown
<1>5. StageKnown'
  BY DEF Inv, StageKnown, StagedAs, Payload, EdgesOf, TargetGen
<1> QED
  BY <1>1, <1>2, <1>3, <1>4, <1>5 DEF Inv

(* A quiet step after the final plan keeps it. *)
LEMMA LateStep ==
    ASSUME Inv, QuietStep, pc \notin Early, pc' \notin Early \cup {"begin"},
           stage' \in {stage, EmptyMap}, TodoKnown'
    PROVE  Inv'
BY QuietStepKeepsPlan, QuietStepKeepsStages DEF Inv

\* Sets are taken in the order of their numbers.
LEMMA NextIsInHand ==
    ASSUME Inv, pc \in {"stage", "copy", "execute"}, todo # {}
    PROVE  Next1 \in todo /\ Next1 \in DOMAIN plan /\ plan[Next1].resolution \in Routes
<1>1. todo \subseteq Nat
  BY InputsAreTyped DEF Inv, TodoKnown, PlanKnown, InputsKnown, Captures
<1>2. \E m \in todo : \A n \in todo : ~(n < m)
  <2>1. PICK m \in todo : \A n \in todo : ~(<<n, m>> \in OpToRel(<, Nat))
    BY <1>1, NatLessThanWellFounded, WFMin
  <2> QED BY <1>1, <2>1 DEF OpToRel
<1>3. PICK m \in todo : \A n \in todo : m =< n
  BY <1>1, <1>2
<1>4. Next1 \in todo
  BY <1>3 DEF Next1, Min
<1> QED
  BY <1>4 DEF Inv, TodoKnown

\* A step that leaves the plan alone.
LEMMA PlanStays ==
    ASSUME Inv, UNCHANGED <<plan, in, catalog, host, disk>>
    PROVE  QuietStep
BY UnchangedKeepsRoutes DEF Inv, PlanKnown, InputsKnown, QuietStep

(* Beginning the restore keeps it. *)
LEMMA BeginSteps ==
    ASSUME Inv, Begin \/ BeginFails
    PROVE  Inv'
<1>1. UNCHANGED <<plan, in, catalog, host, disk, stage, todo>>
      /\ pc = "begin" /\ pc' \in {"stage", "close"}
  BY DEF Begin, BeginFails, Return, inputVars, workVars
<1>2. QuietStep
  BY <1>1, PlanStays
<1>3. TodoKnown'
  BY <1>1, <1>2, QuietStepKeepsTodo
<1> QED
  BY <1>1, <1>2, <1>3, LateStep DEF Early

\* A set that is refused is out of hand.
LEMMA SetFailsStep ==
    ASSUME Inv, pc \in {"stage", "copy"}, todo # {}, pc' = "stage",
           UNCHANGED <<in, catalog, host, disk>>,
           NEW status, status \notin Chosen, NEW reason, SetFails(Next1, reason, status)
    PROVE  Inv'
<1>1. Next1 \in DOMAIN plan
  BY NextIsInHand
<1>2. stage' = stage /\ todo' \subseteq todo
      /\ plan' = markConfigRestoreFailure(plan, Next1, reason, status)
  BY DEF SetFails
<1>3. QuietStep
  BY <1>1, <1>2, FailureKeepsRoutes DEF QuietStep, Inv, PlanKnown, InputsKnown
<1>4. TodoKnown'
  BY <1>2, <1>3, QuietStepKeepsTodo
<1> QED
  BY <1>2, <1>3, <1>4, LateStep DEF Early

(* Verifying a source keeps it. *)
LEMMA VerifySourceStep ==
    ASSUME Inv, VerifySource
    PROVE  Inv'
<1>1. pc = "stage" /\ todo # {} /\ UNCHANGED <<in, catalog, host, disk>>
  BY DEF VerifySource, inputVars
<1>2. CASE payload[Next1] = Payload(Next1)
  <2>1. UNCHANGED <<plan, todo, stage>> /\ pc' = "copy"
    BY <1>2 DEF VerifySource
  <2>2. QuietStep
    BY <1>1, <2>1, PlanStays
  <2>3. TodoKnown'
    BY <1>1, <2>1, <2>2, QuietStepKeepsTodo
  <2> QED BY <1>1, <2>1, <2>2, <2>3, LateStep DEF Early
<1>3. CASE payload[Next1] # Payload(Next1)
  <2>1. pc' = "stage" /\ SetFails(Next1, "payload_integrity_failed", "failed")
    BY <1>3 DEF VerifySource
  <2> QED BY <1>1, <2>1, SetFailsStep DEF Chosen
<1> QED
  BY <1>2, <1>3

\* A migration that succeeds has validated its result.
LEMMA MigratedIsValid ==
    ASSUME NEW copied, NEW edges, NEW from, NEW gen, Migrate(copied, edges, from, gen).ok
    PROVE  ValidateStaging(Migrate(copied, edges, from, gen).tree, gen.validate)
<1> DEFINE r == FoldLeft(ApplyEdge, Done(copied), edges)
<1>1. ~Failed.ok
  BY DEF Failed
<1>2. Migrate(copied, edges, from, gen) \in {Validated(r, gen.validate), Failed}
  BY DEF Migrate
<1> HIDE DEF r
<1>3. Migrate(copied, edges, from, gen) = r /\ ValidateStaging(r.tree, gen.validate)
  BY <1>1, <1>2 DEF Validated
<1> QED
  BY <1>3

(* Staging a set keeps it. *)
LEMMA StageSetStep ==
    ASSUME Inv, StageSet
    PROVE  Inv'
<1> SUFFICES ASSUME NEW c, c = Next1 PROVE Inv'
  OBVIOUS
<1> DEFINE copied == copyStagePayloadFile(c)
           moved == Migrate(copied, EdgesOf(c), in.sources[c].gen, TargetGen(c))
<1>1. /\ pc = "copy" /\ pc' = "stage" /\ todo # {} /\ UNCHANGED <<in, catalog, host, disk>>
      /\ StageCopied(c, copied)
  BY DEF StageSet, inputVars, Inv, TodoKnown
<1>2. CASE \E reason, status : status \notin Chosen /\ SetFails(c, reason, status)
  BY <1>1, <1>2, SetFailsStep
<1>3. CASE /\ copied = Payload(c) /\ moved.ok
           /\ stage' = With(stage, c, moved.tree) /\ todo' = todo \ {c} /\ plan' = plan
  <2>1. QuietStep
    BY <1>1, <1>3, PlanStays
  <2>2. (InputsKnown /\ PlanKnown /\ RoutesDetected)'
    BY <1>1, <2>1, QuietStepKeepsPlan DEF Early
  <2>3. TodoKnown'
    BY <1>1, <1>3, <2>1, QuietStepKeepsTodo
  <2>4. c \in DOMAIN plan
    BY <1>1, NextIsInHand
  <2>5. StagedAs(c)'
    <3>1. stage'[c] = moved.tree
      <4> HIDE DEF moved
      <4> QED BY <1>3 DEF With
    <3>2. ValidateStaging(moved.tree, TargetGen(c).validate)
      BY <1>3, MigratedIsValid
    <3>3. moved = Migrate(Payload(c), EdgesOf(c), in.sources[c].gen, TargetGen(c))
      BY <1>3
    <3>4. /\ Payload(c)' = Payload(c) /\ EdgesOf(c)' = EdgesOf(c)
          /\ TargetGen(c)' = TargetGen(c) /\ in' = in
      BY <1>1, <1>3 DEF Payload, EdgesOf, TargetGen
    <3> HIDE DEF moved
    <3> QED BY <3>1, <3>2, <3>3, <3>4 DEF StagedAs
  <2>6. ASSUME NEW x \in DOMAIN stage'
        PROVE  x \in DOMAIN plan' /\ StagedAs(x)'
    <3>1. CASE x = c
      <4> HIDE DEF moved
      <4> QED BY <3>1, <2>4, <2>5, <1>3
    <3>2. CASE x # c
      <4>1. x \in DOMAIN stage /\ stage'[x] = stage[x]
        <5> HIDE DEF moved
        <5> QED BY <1>3, <2>6, <3>2 DEF With
      <4>2. x \in DOMAIN plan /\ StagedAs(x)
        BY <4>1 DEF Inv, StageKnown
      <4>3. SameRoute(plan[x], plan'[x])
        BY <2>1, <4>2 DEF QuietStep, KeepsRoutes
      <4> QED BY <1>1, <1>3, <4>1, <4>2, <4>3, StagingKept
    <3> QED BY <3>1, <3>2
  <2>7. StageKnown'
    BY <1>1, <2>6 DEF StageKnown, Early
  <2> QED BY <2>2, <2>3, <2>7 DEF Inv
<1>4. \/ \E reason, status : status \notin Chosen /\ SetFails(c, reason, status)
      \/ copied = Payload(c) /\ MaterializeSet(c, moved)
  BY <1>1 DEF StageCopied, VerifyStaged, Chosen
<1>5. CASE copied = Payload(c) /\ MaterializeSet(c, moved)
  <2>1. CASE moved.ok
    <3>1. PICK refusal : Materialized(c, moved.tree, refusal)
      BY <1>5, <2>1 DEF MaterializeSet
    <3> HIDE DEF moved
    <3>2. CASE refusal # "none"
      <4>1. PICK status \in {"skipped", "failed"} : SetFails(c, refusal, status)
        BY <3>1, <3>2 DEF Materialized
      <4> QED BY <4>1, <1>2 DEF Chosen
    <3>3. CASE refusal = "none"
      BY <3>1, <3>3, <1>5, <2>1, <1>3 DEF Materialized
    <3> QED BY <3>2, <3>3
  <2>2. CASE ~moved.ok
    <3>1. SetFails(c, "staging_validation_failed", "failed")
      BY <1>5, <2>2 DEF MaterializeSet
    <3> HIDE DEF moved
    <3> QED BY <3>1, <1>2 DEF Chosen
  <2> QED BY <2>1, <2>2
<1> QED
  BY <1>2, <1>4, <1>5

\* A plan that is changed set by set, each set keeping its route.
LEMMA PointwiseKeepsRoutes ==
    ASSUME NEW p, NEW q, q = [c \in DOMAIN p |-> q[c]],
           \A c \in DOMAIN p : SameRoute(p[c], q[c])
                               /\ q[c].status \in {p[c].status, "failed", "skipped"}
    PROVE  KeepsRoutes(p, q)
BY DEF KeepsRoutes, Chosen

(* Marking the target collisions keeps it. *)
LEMMA CollideStep ==
    ASSUME Inv, Collide
    PROVE  Inv'
<1>1. /\ pc = "stage" /\ pc' = "inspect" /\ todo = {}
      /\ UNCHANGED <<in, catalog, host, disk, stage, todo>>
  BY DEF Collide, inputVars
<1>2. plan' = [c \in DOMAIN plan |->
                  IF <<"set", c>> \in DOMAIN blocked' THEN markTargetCollision(plan[c])
                  ELSE plan[c]]
  BY DEF Collide
<1>3. ASSUME NEW c \in DOMAIN plan
      PROVE  SameRoute(plan[c], plan'[c])
             /\ plan'[c].status \in {plan[c].status, "failed", "skipped"}
  <2>1. IsResolution(plan[c])
    BY DEF Inv, PlanKnown, IsPlan
  <2> QED BY <1>2, <2>1, CollisionFields DEF SameRoute
<1>4. plan' = [c \in DOMAIN plan |-> plan'[c]]
  BY <1>2
<1>5. QuietStep
  BY <1>1, <1>3, <1>4, PointwiseKeepsRoutes DEF QuietStep, Inv, InputsKnown
<1>6. TodoKnown'
  BY <1>1, <1>5, QuietStepKeepsTodo
<1> QED
  BY <1>1, <1>5, <1>6, LateStep DEF Early

(* Inspecting a set keeps it. *)
LEMMA InspectStep ==
    ASSUME Inv, Inspect
    PROVE  Inv'
<1>1. /\ pc = "inspect" /\ UNCHANGED <<in, catalog, host, disk, stage>>
      /\ \/ pc' = "lanes"
         \/ pc' = "roots" /\ todo' = todo
  BY DEF Inspect, inputVars, workVars
<1>2. PICK broken : plan' = Inspected(broken)
  BY DEF Inspect
<1>3. ASSUME NEW c \in DOMAIN plan
      PROVE  SameRoute(plan[c], plan'[c])
             /\ plan'[c].status \in {plan[c].status, "failed", "skipped"}
  <2>1. IsResolution(plan[c])
    BY DEF Inv, PlanKnown, IsPlan
  <2>2. plan'[c] \in {plan[c], InspectedAs(plan[c], Snapshots(c, broken))}
    BY <1>2 DEF Inspected
  <2> QED BY <2>1, <2>2, InspectedFields DEF SameRoute
<1>4. plan' = [c \in DOMAIN plan |-> plan'[c]]
  BY <1>2 DEF Inspected
<1>5. QuietStep
  BY <1>1, <1>3, <1>4, PointwiseKeepsRoutes DEF QuietStep, Inv, InputsKnown
<1>6. TodoKnown'
  BY <1>1, <1>5, QuietStepKeepsTodo, LateTodo
<1> QED
  BY <1>1, <1>5, <1>6, LateStep DEF Early

(* Creating the transaction roots keeps it. *)
LEMMA CreateTransactionRootsStep ==
    ASSUME Inv, CreateTransactionRoots
    PROVE  Inv'
<1> DEFINE failed(r) == [r EXCEPT !.reason = "backup_failed", !.status = "failed"]
<1>1. /\ pc = "roots" /\ pc' = "execute" /\ UNCHANGED <<in, catalog, host, disk, stage>>
  BY DEF CreateTransactionRoots, inputVars
<1>2. PICK broken \in SUBSET Prepared(plan) :
        /\ plan' = [c \in DOMAIN plan |-> IF c \in broken THEN failed(plan[c]) ELSE plan[c]]
        /\ todo' = Prepared(plan) \ broken
  BY DEF CreateTransactionRoots
<1>3. ASSUME NEW r, IsResolution(r)
      PROVE  SameRoute(r, failed(r)) /\ failed(r).status = "failed"
  <2> DEFINE p1 == [r EXCEPT !.reason = "backup_failed"]
             p2 == failed(r)
  <2>1. p2 = [p1 EXCEPT !.status = "failed"]
    OBVIOUS
  <2>2. SameRoute(r, p1)
    BY <1>3 DEF SameRoute, IsResolution
  <2> HIDE DEF p1, p2, failed
  <2>3. SameRoute(p1, p2) /\ p2.status = "failed"
    BY <2>1, <2>2 DEF SameRoute, IsResolution
  <2> QED BY <2>2, <2>3 DEF SameRoute, p2
<1> HIDE DEF failed
<1>4. ASSUME NEW c \in DOMAIN plan
      PROVE  SameRoute(plan[c], plan'[c])
             /\ plan'[c].status \in {plan[c].status, "failed", "skipped"}
  <2>1. IsResolution(plan[c])
    BY DEF Inv, PlanKnown, IsPlan
  <2> QED BY <1>2, <1>3, <2>1 DEF SameRoute
<1>5. plan' = [c \in DOMAIN plan |-> plan'[c]]
  BY <1>2
<1>6. QuietStep
  BY <1>1, <1>4, <1>5, PointwiseKeepsRoutes DEF QuietStep, Inv, InputsKnown
<1>7. TodoKnown'
  <2> SUFFICES ASSUME NEW c \in todo'
               PROVE  c \in DOMAIN plan' /\ plan'[c].resolution \in Routes
    BY <1>1 DEF TodoKnown
  <2>1. c \in DOMAIN plan /\ plan[c].resolution \in Routes
    BY <1>2 DEF Prepared, SelectedSets, selectedConfigRestorePlanSet, Routes
  <2> QED BY <1>4, <1>5, <2>1 DEF SameRoute
<1> QED
  BY <1>1, <1>6, <1>7, LateStep DEF Early

(***************************************************************************)
(* The set loop                                                            *)
(***************************************************************************)
\* Whatever becomes of a set, it went where the plan said.
LEMMA OutcomesKeepRoutes ==
    ASSUME IsPlan(plan), NEW c \in DOMAIN plan, plan[c].resolution \in Routes,
           SkipOrBackupFails(c) \/ Restores(c) \/ RollsBack(c) \/ LeavesPending(c)
    PROVE  KeepsRoutes(plan, plan')
<1>1. ASSUME NEW status, NEW reason, Outcome(c, status, reason)
      PROVE  KeepsRoutes(plan, plan')
  BY <1>1, OutcomeKeepsRoutes DEF Outcome
<1>2. CASE SkipOrBackupFails(c)
  <2>1. PICK reason : plan' = [plan EXCEPT ![c] = InspectedAs(@, reason)]
    BY <1>2 DEF SkipOrBackupFails
  <2> DEFINE new == InspectedAs(plan[c], reason)
  <2>2. SameRoute(plan[c], new) /\ new.status \in {plan[c].status, "failed", "skipped"}
    BY InspectedFields DEF IsPlan
  <2>3. plan' = [plan EXCEPT ![c] = new]
    BY <2>1
  <2> HIDE DEF new
  <2>4. /\ plan' = [x \in DOMAIN plan |-> plan'[x]]
        /\ \A x \in DOMAIN plan : SameRoute(plan[x], plan'[x])
                                 /\ plan'[x].status \in {plan[x].status, "failed", "skipped"}
    BY <2>2, <2>3 DEF IsPlan, SameRoute
  <2> QED BY <2>4, PointwiseKeepsRoutes
<1>3. CASE Restores(c)
  BY <1>1, <1>3 DEF Restores
<1>4. CASE RollsBack(c)
  BY <1>1, <1>4 DEF RollsBack
<1>5. CASE LeavesPending(c)
  BY <1>1, <1>5 DEF LeavesPending
<1> QED
  BY <1>2, <1>3, <1>4, <1>5

(* Executing a set keeps it. *)
LEMMA ExecuteSetStep ==
    ASSUME Inv, ExecuteSet
    PROVE  Inv'
<1>1. /\ pc = "execute" /\ pc' = pc /\ todo # {} /\ todo' \subseteq todo
      /\ UNCHANGED <<in, catalog, host, disk, stage>>
      /\ \/ SkipOrBackupFails(Next1) \/ Restores(Next1)
         \/ RollsBack(Next1) \/ LeavesPending(Next1)
  BY DEF ExecuteSet, inputVars
<1>2. IsPlan(plan) /\ Next1 \in DOMAIN plan /\ plan[Next1].resolution \in Routes
  BY <1>1, NextIsInHand DEF Inv, PlanKnown
<1>3. QuietStep
  BY <1>1, <1>2, OutcomesKeepRoutes DEF QuietStep, Inv, InputsKnown
<1>4. TodoKnown'
  BY <1>1, <1>3, QuietStepKeepsTodo
<1> QED
  BY <1>1, <1>3, <1>4, LateStep DEF Early

(* An intent that cannot be written keeps it. *)
LEMMA IntentFailsStep ==
    ASSUME Inv, IntentFails
    PROVE  Inv'
<1> DEFINE p == markConfigRestoreFailure(plan, Next1, "journal_intent_failed", "failed")
<1>1. /\ pc = "execute" /\ pc' = "close" /\ todo # {}
      /\ UNCHANGED <<in, catalog, host, disk, stage>>
      /\ plan' = markConfigRestoreRecoveryRequired(p, SelectedSets(plan) \ {Next1})
  BY DEF IntentFails, Return, inputVars
<1>2. IsPlan(plan) /\ Next1 \in DOMAIN plan
  BY <1>1, NextIsInHand DEF Inv, PlanKnown
<1>3. KeepsRoutes(plan, p)
  BY <1>2, FailureKeepsRoutes DEF Chosen
<1>4. IsPlan(p)
  BY <1>3, KeptPlanIsPlan
<1> HIDE DEF p
<1>5. KeepsRoutes(p, plan')
  BY <1>1, <1>4, RecoveryRequiredKeepsRoutes
<1>6. QuietStep
  BY <1>1, <1>3, <1>5, KeptTwice DEF QuietStep, Inv, InputsKnown
<1> QED
  BY <1>1, <1>6, LateTodo, LateStep DEF Early

(* Stopping after a failure keeps it. *)
LEMMA FailStopStep ==
    ASSUME Inv, FailStop
    PROVE  Inv'
<1>1. /\ pc = "execute" /\ pc' = "close" /\ UNCHANGED <<in, catalog, host, disk, stage>>
      /\ plan' = markConfigRestoreRecoveryRequired(plan, SelectedSets(plan))
  BY DEF FailStop, Return, RecoveryRequiredPlan, inputVars, workVars
<1>2. QuietStep
  BY <1>1, RecoveryRequiredKeepsRoutes DEF QuietStep, Inv, InputsKnown, PlanKnown
<1> QED
  BY <1>1, <1>2, LateTodo, LateStep DEF Early

\* The legacy lanes, the ordinary entries, their journal and the clean-up do
\* not touch the plan.
LEMMA LegacySteps ==
    ASSUME Inv, SetsDone \/ RunLane \/ LaneAborts \/ RunOrdinary \/ WriteJournal \/ Close
    PROVE  Inv'
<1>1. /\ pc \in {"execute", "lanes", "journal", "close"}
      /\ pc' \in {"lanes", "journal", "close", "done"}
      /\ UNCHANGED <<plan, in, catalog, host, disk>>
      /\ stage' \in {stage, EmptyMap}
  BY DEF SetsDone, RunLane, LaneAborts, RunOrdinary, WriteJournal, Close, Return, inputVars,
         workVars
<1>2. QuietStep
  BY <1>1, PlanStays
<1> QED
  BY <1>1, <1>2, LateTodo, LateStep DEF Early

-----------------------------------------------------------------------------
(* The theorems *)

(* Every step keeps the invariant. *)
LEMMA InvStep ==
    Inv /\ [Next]_vars => Inv'
<1> SUFFICES ASSUME Inv, [Next]_vars PROVE Inv'
  OBVIOUS
<1>1. CASE World
  BY <1>1, IdleStep
     DEF World, EditCatalog, TamperPayload, EditTargets, inputVars, workVars, Inv, InputsKnown
<1>2. CASE Load \/ Preview \/ Install \/ Final \/ FinalFails
  BY <1>2, LoadStep, PreviewStep, InstallStep, FinalStep, FinalFailsStep
<1>3. CASE Begin \/ BeginFails \/ VerifySource \/ StageSet \/ Collide
  BY <1>3, BeginSteps, VerifySourceStep, StageSetStep, CollideStep
<1>4. CASE Inspect \/ CreateTransactionRoots
  BY <1>4, InspectStep, CreateTransactionRootsStep
<1>5. CASE ExecuteSet \/ IntentFails \/ FailStop
  BY <1>5, ExecuteSetStep, IntentFailsStep, FailStopStep
<1>6. CASE SetsDone \/ RunLane \/ LaneAborts \/ RunOrdinary \/ WriteJournal \/ Close
  BY <1>6, LegacySteps
<1>7. CASE UNCHANGED vars
  BY <1>7, IdleStep DEF vars, Inv, InputsKnown
<1> QED
  BY <1>1, <1>2, <1>3, <1>4, <1>5, <1>6, <1>7 DEF Next, Step, Returned

(* The invariant holds in every state of a run. *)
LEMMA InvHolds ==
    Spec => []Inv
BY InitInv, InvStep, PTL DEF Spec

\* A restored set is in a plan that chose it, and the chosen routes lead to
\* instances the host has.
LEMMA InvDetects ==
    Inv => RestoredWhereDetected
<1> SUFFICES ASSUME Inv, NEW c \in Restored PROVE DetectedAs(c, plan[c])
  BY DEF RestoredWhereDetected, DetectedAs
<1>1. c \in DOMAIN plan /\ plan[c].status = "restored"
  BY DEF Restored
<1>2. pc \notin Early
  BY <1>1 DEF Inv, PlanKnown, PlannerStatuses
<1>3. plan[c].resolution \in Routes
  BY <1>1 DEF Inv, PlanKnown, Chosen
<1> QED
  BY <1>1, <1>2, <1>3 DEF Inv, RoutesDetected

(* A set is restored only to an instance the host had after the packages   *)
(* were installed, in the one generation that instance's version selects,  *)
(* forward along the only migration path, whatever the catalogs, hosts,    *)
(* inputs and mappings are, and whatever happens around the command.       *)
THEOREM RestoredWhereDetectedCorrect ==
    Spec => []RestoredWhereDetected
BY InvHolds, InvDetects, PTL

(* What is staged for a set is its captured payload carried along the      *)
(* planned migration and validated: a file changed in the extracted bundle *)
(* while the command runs never reaches a stage.                           *)
THEOREM StagedIsCapturedCorrect ==
    Spec => []StagedIsCaptured
<1>1. Inv => StagedIsCaptured
  BY DEF Inv, StageKnown, StagedAs, StagedIsCaptured
<1> QED
  BY <1>1, InvHolds, PTL
=============================================================================
