--------------------------- MODULE CaptureBundle ----------------------------
(***************************************************************************)
(* What goes into a capture bundle: which modules attach, what each config *)
(* set collects, which module restores a target two of them claim, what a  *)
(* share bundle leaves out or rewrites.                                    *)
(*   go-engine/internal/commands/capture_config.go and                     *)
(*   go-engine/internal/bundle.                                            *)
(*                                                                         *)
(* A module is [id, schema, match, prec, denied, verify, claims, files,    *)
(* keys, values, unsafe, sets, probe]: match says an installed package     *)
(* matches it, probe what its detector finds; claims is the sequence of    *)
(* its restore targets, files, keys and values what a schema-1 module      *)
(* collects, sets the config sets of a schema-2 module, each [gen, files,  *)
(* invalid].  A declared file is [f, optional, secret, excluded] (a        *)
(* directory is the files below it); its content is [v, red], the version  *)
(* and whether share mode rewrote it.  The catalog is a set of modules,    *)
(* one for an id; the code goes through it in the order of the ids.        *)
(***************************************************************************)
EXTENDS CaptureInventory

CONSTANTS
    Absent,
    Overlaps(_, _)      \* configtarget.ClaimsOverlap on two restore targets

----------------------------------------------------------------------------
(* Planning (capture_config.go). *)

\* With --only, the catalog is the modules matched to the selected apps and
\* the ones named; a name that is not in the catalog refuses the capture.
selectionUnknown(only, mods) ==
    only # None /\ ~(only.mods \subseteq {m.id : m \in mods})

scopeCatalogToSelection(only, mods) ==
    {m \in mods : only = None \/ m.match \/ m.id \in only.mods}

Named(only, m) == only # None /\ m.id \in only.mods

\* Legacy modules attach by application match, or by name.
legacyModules(only, mods) ==
    {m \in mods : m.schema = 1 /\ (m.match \/ Named(only, m))}

\* Generation-aware modules attach wherever a detector finds an instance.
discovered(m) == m.schema = 2 /\ m.probe # "none"

generationCandidates(mods) ==
    UNION {{<<m, i>> : i \in 1..Len(m.sets)} : m \in {n \in mods : discovered(n) /\ n.probe # "error"}}

\* A set whose generation cannot be selected, or that declares no capture,
\* is reported and not collected; a failed discovery is reported.
planDiagnostic(m, i) ==
    CASE m.sets[i].gen = "unmatched" -> "skipped"
      [] m.sets[i].gen = "error"     -> "failed"
      [] m.sets[i].gen = "nocapture" -> "skipped"
      [] OTHER -> None

preplanningDiagnostics(mods) ==
    {<<c[1].id, c[2], planDiagnostic(c[1], c[2])>> :
        c \in {d \in generationCandidates(mods) : planDiagnostic(d[1], d[2]) # None}}
    \cup {<<m.id, 0, "failed">> : m \in {n \in mods : n.schema = 2 /\ n.probe = "error"}}

CaptureOrder(p, q) == p[1].id < q[1].id \/ (p[1].id = q[1].id /\ p[2] < q[2])

generationPlans(mods) ==
    {c \in generationCandidates(mods) : planDiagnostic(c[1], c[2]) = None}

----------------------------------------------------------------------------
(* Collecting one config set (config_capture.go). *)

captureMatchesSecrets(d) == d.secret
matchesExcludeGlobs(d) == d.excluded

\* The declared files a collector looks at, by their places in the declaration.
Wanted(files) ==
    {i \in 1..Len(files) : ~captureMatchesSecrets(files[i]) /\ ~matchesExcludeGlobs(files[i])}

\* What the preflight makes of a declared file: a digest to copy against,
\* nothing for an optional file that is missing, or a failure.
fingerprintConfigCaptureSource(d, live) ==
    CASE live[d.f] # Absent -> live[d.f]
      [] live[d.f] = Absent /\ d.optional -> None
      [] OTHER -> Absent

\* Mutant: the copy takes what is there.
CopyUnchecked(f, digest, live) == live[f]

\* A copy is refused when the content is no longer the one fingerprinted.
copyRegularFile(f, digest, live) ==
    IF live[f] = Absent \/ live[f] # digest THEN Absent ELSE live[f]

BuildPayloadManifest(payload) == payload

VerifyPayloadManifest(payload, digests) == payload = digests

\* The rules a restore will enforce on the payload: failing them is a
\* warning, the payload stays.
validateCapturedPayload(set, payload) == \A f \in DOMAIN payload : f \notin set.invalid

----------------------------------------------------------------------------
(* Schema-1 modules (capture_bundle.go, collect.go). *)

CollectedFiles(m, live) ==
    {d \in {m.files[i] : i \in Wanted(m.files)} : live[d.f] # Absent}

\* A required file that is missing fails the module.
CollectConfigFiles(m, live) ==
    IF \E i \in Wanted(m.files) : live[m.files[i].f] = Absent /\ ~m.files[i].optional
    THEN None
    ELSE [f \in {d.f : d \in CollectedFiles(m, live)} |-> live[f]]

\* Registry keys are exported one by one; the first required one that fails
\* ends it, and what was exported before stays.
CollectRegistryKeys(m, exports) ==
    LET bad == {i \in 1..Len(m.keys) : m.keys[i].k \notin exports /\ ~m.keys[i].optional}
        done == IF bad = {} THEN Len(m.keys) ELSE Min(bad) - 1
    IN [got |-> {m.keys[i].k : i \in {j \in 1..done : m.keys[j].k \in exports}},
        failed |-> bad # {}]

\* The named values go into one snapshot file, present or not.
CollectRegistryValues(m) == IF m.values THEN {"registry-values"} ELSE {}

\* A module that would export a key overlapping its own secret ones fails
\* the capture before anything is collected.
validateRegistryCaptureBoundary(m) == ~m.unsafe

\* The module's outcome and payload; in a mixed bundle a module without a
\* restore entry is skipped before anything is read.  A registry export that
\* fails is a warning, and decides the status only when nothing was collected.
collectLegacyModule(m, live, mixed, exports) ==
    LET files == CollectConfigFiles(m, live)
        keys == CollectRegistryKeys(m, exports)
        registry == keys.got \cup CollectRegistryValues(m)
        none == [f \in {} |-> Absent]
        unread == mixed /\ m.claims = << >>
    IN CASE unread -> [status |-> "skipped", payload |-> none]
         [] ~unread /\ files = None -> [status |-> "failed", payload |-> none]
         [] ~unread /\ files # None /\ DOMAIN files \cup registry = {} ->
              [status |-> IF keys.failed THEN "failed" ELSE "skipped", payload |-> none]
         [] OTHER -> [status |-> "captured",
                      payload |-> [f \in DOMAIN files \cup registry |->
                                     IF f \in DOMAIN files THEN files[f] ELSE [v |-> 0, red |-> FALSE]]]

\* Mutant: the tie between two modules of the same rank is left open.
BeatsByRank(m, n) == m.prec > n.prec

\* Which of two modules keeps a target both claim: the one identified more
\* specifically, then the one with the smaller id.
legacyModuleBeats(m, n) == m.prec > n.prec \/ (m.prec = n.prec /\ m.id < n.id)

\* The claims of module m that some other staged module takes.
droppedClaims(m, staged) ==
    {i \in 1..Len(m.claims) :
        \E n \in staged : /\ n.id # m.id
                          /\ legacyModuleBeats(n, m)
                          /\ \E j \in 1..Len(n.claims) : Overlaps(m.claims[i], n.claims[j])}

keptClaims(m, staged) == {m.claims[i] : i \in (1..Len(m.claims)) \ droppedClaims(m, staged)}

\* A module that declared restores and lost them all: its lane, its listing
\* and its payload are dropped and it is reported as skipped.
dropLegacyLane(m, staged) == m.claims # << >> /\ keptClaims(m, staged) = {}

\* The verify entries come from every module that was collected.
capturedModuleVerifies(collected) == {m.id : m \in {n \in collected : n.verify}}

----------------------------------------------------------------------------
(* Share mode (share_redact.go, share_merge.go). *)

partitionShareDeniedModules(share, mods) ==
    {m \in mods : share => ~m.denied}

\* The text payloads are rewritten in the staging tree.
redactShareTree(share, pii, payload) ==
    [f \in DOMAIN payload |->
        IF share /\ f \in pii THEN [payload[f] EXCEPT !.red = TRUE] ELSE payload[f]]

\* Restore entries of a share bundle merge where they can, and back up.
preferMergeForShare(share, entries) ==
    {[m |-> e[1], target |-> e[2], backup |-> share] : e \in entries}
=============================================================================
