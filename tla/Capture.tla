------------------------------ MODULE Capture -------------------------------
(***************************************************************************)
(* `endstate capture` as a process that races the user's editors, may fail *)
(* at each of its steps and may die anywhere: it enumerates packages,      *)
(* merges them into the manifest, writes the manifest, collects settings   *)
(* into a staging tree and publishes one bundle.                           *)
(*   go-engine/internal/commands/capture.go (RunCapture),                  *)
(*   capture_config.go (finalizeCaptureConfig),                            *)
(*   go-engine/internal/bundle/capture_bundle.go (CreateCaptureBundle).    *)
(*                                                                         *)
(* A scenario sc gives, run by run, the flags, what the package managers   *)
(* list and the ARP inventory; and the module catalog.                     *)
(***************************************************************************)
EXTENDS CaptureBundle

CONSTANTS
    Scenarios,
    MaxRuns,        \* captures started
    MaxEdits        \* edits of live settings files by other programs

\* The content of a settings file, and what is at a path.
Contents == [v : Nat, red : BOOLEAN]
IsBundle(x) == x # Absent /\ x.kind = "bundle"
IsManifest(x) == x # Absent /\ x.kind = "manifest"

\* What a bundle restores it also carries, and no two of its modules restore
\* overlapping targets.
RestoresOwned(b) ==
    /\ \A e \in b.restores : \E l \in b.lanes : l.m = e.m /\ DOMAIN l.payload # {}
    /\ \A e, g \in b.restores : e.m # g.m => ~Overlaps(e.target, g.target)

\* The targets a module restores.
Claims(m) == {m.claims[i] : i \in 1..Len(m.claims)}

ASSUME BoundsAssumption == MaxRuns \in Nat \ {0} /\ MaxEdits \in Nat

\* A module says which files of the host it collects.
ModuleIsTyped(m, files) ==
    /\ m.id \in Nat /\ m.prec \in Nat /\ Len(m.sets) \in Nat /\ Len(m.claims) \in Nat
    /\ \A i \in Wanted(m.files) : m.files[i].f \in files
    /\ \A s \in 1..Len(m.sets) : \A i \in Wanted(m.sets[s].files) : m.sets[s].files[i].f \in files

\* The catalog has one module for an id, the files of the host are there or
\* not, the bundle that is there already was published by a capture, and
\* overlapping is mutual.
ASSUME ScenariosAreTyped ==
    \A s \in Scenarios :
        /\ \A m \in s.mods : ModuleIsTyped(m, DOMAIN s.live)
        /\ \A m, n \in s.mods : m.id = n.id => m = n
        /\ \A m, n \in s.mods : \A t \in Claims(m), u \in Claims(n) : Overlaps(t, u) => Overlaps(u, t)
        /\ s.live \in [DOMAIN s.live -> {Absent} \cup [v : {0, 1}, red : BOOLEAN]]
        /\ Absent \notin Contents
        /\ s.disk = [p \in {"jsonc", "bundle"} |-> s.disk[p]]
        /\ IsBundle(s.disk["bundle"]) => RestoresOwned(s.disk["bundle"])

VARIABLES
    sc,
    run,        \* number of captures started
    pc,
    live,       \* live settings files: content or Absent
    edits,
    hist,       \* the states `live` went through since the capture started
    apps,       \* the entries being captured
    disk,       \* the manifest path and the bundle path
    staging,    \* the staging tree exists
    plans,      \* generation plans left, the one being collected included
    todo,       \* declared files of that plan left to fingerprint
    items,      \* <<file, digest>> to copy
    payload,    \* what has been copied of it
    captures,   \* config sets captured
    diags,      \* <<module, set, status>> reported
    legacy,     \* schema-1 modules left
    lanes,      \* outcomes of the ones collected
    result,     \* what the last command reported
    report      \* and of each module: captured, skipped or error

bundleVars == <<staging, plans, todo, items, payload, captures, diags, legacy, lanes>>
vars == <<sc, run, pc, live, edits, hist, apps, disk, bundleVars, result, report>>

fl == sc.flags[run]
Empty == [f \in {} |-> Absent]
Fresh(v) == [v |-> v, red |-> FALSE]

ClearBundle ==
    /\ plans' = {} /\ todo' = {} /\ items' = << >> /\ payload' = Empty
    /\ captures' = {} /\ diags' = {} /\ legacy' = {} /\ lanes' = {}

Init ==
    /\ sc \in Scenarios
    /\ run = 0 /\ pc = "idle" /\ edits = 0
    /\ live = sc.live /\ hist = {}
    /\ apps = << >> /\ disk = sc.disk
    /\ staging = FALSE /\ plans = {} /\ todo = {} /\ items = << >> /\ payload = Empty
    /\ captures = {} /\ diags = {} /\ legacy = {} /\ lanes = {}
    /\ result = None /\ report = None

\* The command returns an error: the staging tree is removed on the way out.
Fail(why) ==
    /\ pc' = "idle" /\ result' = why /\ staging' = FALSE
    /\ ClearBundle

----------------------------------------------------------------------------
(* Inventory. *)

resolveOutputPath(f) == IF f.out = "bundle" THEN "bundle" ELSE "jsonc"

\* --share needs --only, and excludes --sanitize.
validateShareFlags(f) == f.share => f.only # None /\ ~f.sanitize

Start ==
    /\ pc = "idle" /\ run < Len(sc.flags) /\ run < MaxRuns
    /\ run' = run + 1
    /\ LET f == sc.flags[run + 1]
       IN IF validateShareFlags(f)
          THEN pc' = "enumerate" /\ result' = None
          ELSE pc' = "idle" /\ result' = "rejected"
    /\ hist' = {live}
    /\ apps' = << >> /\ staging' = FALSE
    /\ ClearBundle
    /\ report' = None
    /\ UNCHANGED <<sc, live, edits, disk>>

Rows == sc.rows[run]

\* Windows: the managers answer or not; winget that lists nothing is asked
\* a second time before it counts.
EnumerateWindows ==
    /\ pc = "enumerate" /\ sc.host = "windows"
    /\ \E failed \in SUBSET (fl.drivers \cup {"msstore"}) :
         LET e == enumerateWindowsCapturePackages(fl, Rows, failed)
         IN IF e.failed
            THEN Fail("failed") /\ UNCHANGED apps
            ELSE /\ apps' = assignDeterministicCaptureIDs(ConvertRows(fl, e.rows, sc.arp[run]))
                 /\ pc' = "merge" /\ UNCHANGED <<result, bundleVars>>
    /\ UNCHANGED <<sc, report, run, live, edits, hist, disk>>

EnumerateRealizer ==
    /\ pc = "enumerate" /\ sc.host = "realizer"
    /\ \E answers \in [{"nix", "brew"} -> {"ok", "systemic", "error"}] :
         IF realizerFails(fl, answers)
         THEN Fail("failed") /\ UNCHANGED apps
         ELSE /\ apps' = runCaptureRealizerSelected(fl, Rows, answers)
              /\ pc' = "merge" /\ UNCHANGED <<result, bundleVars>>
    /\ UNCHANGED <<sc, report, run, live, edits, hist, disk>>

\* The manifest --update reads.
Loadable == \/ IsBundle(disk[fl.from]) /\ fl.from = "bundle"
            \/ IsManifest(disk[fl.from]) /\ fl.from = "jsonc"
Declared == disk[fl.from].apps

Merge(captured) ==
    CASE ~fl.update -> captured
      [] fl.update /\ sc.host = "windows" -> MergeUpdate(fl, Declared, captured)
      [] OTHER -> realizerMerge(Declared, captured)

\* The evidence of this run is not part of the manifest.
Written(as) == [i \in 1..Len(as) |-> [as[i] EXCEPT !.seen = FALSE, !.cur = None]]

SelectAndMerge ==
    /\ pc = "merge"
    /\ IF onlyRejected(fl.only, apps) \/ (fl.update /\ ~Loadable)
       THEN Fail("failed") /\ UNCHANGED apps
       ELSE /\ apps' = Merge(validateCaptureOnly(fl.only, apps))
            /\ pc' = "write" /\ UNCHANGED <<result, bundleVars>>
    /\ UNCHANGED <<sc, report, run, live, edits, hist, disk>>

\* os.WriteFile truncates first; both halves may fail, and the process may
\* die between them.
TruncateManifest ==
    /\ pc = "write"
    /\ disk' = [disk EXCEPT ![resolveOutputPath(fl)] = [kind |-> "partial"]]
    /\ pc' = "writing"
    /\ UNCHANGED <<sc, report, run, live, edits, hist, apps, bundleVars, result>>

WriteManifest ==
    /\ pc = "writing"
    /\ disk' = [disk EXCEPT ![resolveOutputPath(fl)] = [kind |-> "manifest", apps |-> Written(apps)]]
    /\ IF fl.sanitize THEN pc' = "idle" /\ result' = "ok" ELSE pc' = "prepare" /\ UNCHANGED result
    /\ UNCHANGED <<sc, report, run, live, edits, hist, apps, bundleVars>>

WriteFails ==
    /\ pc \in {"write", "writing"}
    /\ Fail("failed")
    /\ UNCHANGED <<sc, report, run, live, edits, hist, apps, disk>>

----------------------------------------------------------------------------
(* Settings. *)

Catalog == scopeCatalogToSelection(fl.only, sc.mods)

\* The catalog cannot be loaded, a selected module does not exist, the
\* manifest does not load back: the capture fails.
prepareCaptureConfig ==
    /\ pc = "prepare"
    /\ \/ /\ ~selectionUnknown(fl.only, sc.mods)
          /\ \A m \in Catalog : validateRegistryCaptureBoundary(m)
          /\ plans' = generationPlans(Catalog)
          /\ diags' = preplanningDiagnostics(Catalog)
          /\ legacy' = partitionShareDeniedModules(fl.share, legacyModules(fl.only, Catalog))
          /\ staging' = TRUE
          /\ pc' = "plan" /\ UNCHANGED <<todo, items, payload, captures, lanes, result>>
       \/ Fail("failed")
    /\ UNCHANGED <<sc, report, run, live, edits, hist, apps, disk>>

\* The plan that is collected: the first one left.
PlanNow == CHOOSE p \in plans : \A q \in plans \ {p} : CaptureOrder(p, q)
SetNow == PlanNow[1].sets[PlanNow[2]]

\* Begin with the next plan: all its files are fingerprinted before any of
\* them is copied.
BeginPlan ==
    /\ pc = "plan" /\ plans # {}
    /\ todo' = Wanted(SetNow.files)
    /\ items' = << >> /\ payload' = Empty
    /\ pc' = "preflight"
    /\ UNCHANGED <<sc, report, run, live, edits, hist, apps, disk, staging, plans, captures, diags, legacy,
                   lanes, result>>

Report(status) == diags' = diags \cup {<<PlanNow[1].id, PlanNow[2], status>>}

\* The plan is over without a capture; what it had copied is removed.
EndPlan(status) ==
    /\ Report(status)
    /\ plans' = plans \ {PlanNow} /\ todo' = {} /\ items' = << >> /\ payload' = Empty
    /\ pc' = "plan"
    /\ UNCHANGED <<captures, legacy, lanes, staging, result>>

preflightConfigCopies ==
    /\ pc = "preflight"
    /\ \E i \in todo :
         LET d == SetNow.files[i]
             digest == fingerprintConfigCaptureSource(d, live)
         IN /\ \A j \in todo : i <= j
            /\ IF digest = Absent
               THEN EndPlan("failed")
               ELSE /\ items' = IF digest = None THEN items ELSE Append(items, <<d.f, digest>>)
                    /\ todo' = todo \ {i}
                    /\ UNCHANGED <<staging, plans, payload, captures, diags, legacy, lanes, pc, result>>
    /\ UNCHANGED <<sc, report, run, live, edits, hist, apps, disk>>

CollectConfigSet ==
    /\ pc = "preflight" /\ todo = {} /\ items # << >>
    /\ LET f == Head(items)[1]
           content == copyRegularFile(f, Head(items)[2], live)
       IN IF content = Absent
          THEN EndPlan("failed")
          ELSE /\ payload' = [g \in DOMAIN payload \cup {f} |-> IF g = f THEN content ELSE payload[g]]
               /\ items' = Tail(items)
               /\ UNCHANGED <<staging, plans, todo, captures, diags, legacy, lanes, pc, result>>
    /\ UNCHANGED <<sc, report, run, live, edits, hist, apps, disk>>

\* All copied: the payload manifest is built and verified and the module
\* snapshot written; an empty payload is skipped, a failed check reported.
collectGenerationCapture ==
    /\ pc = "preflight" /\ todo = {} /\ items = << >>
    /\ LET digests == BuildPayloadManifest(payload)
       IN \/ /\ DOMAIN payload = {} /\ EndPlan("skipped")
          \/ /\ DOMAIN payload # {} /\ VerifyPayloadManifest(payload, digests)
             /\ captures' = captures \cup
                  {[m |-> PlanNow[1], i |-> PlanNow[2], payload |-> payload,
                    digests |-> digests, valid |-> validateCapturedPayload(SetNow, payload)]}
             /\ plans' = plans \ {PlanNow} /\ payload' = Empty
             /\ pc' = "plan"
             /\ UNCHANGED <<staging, todo, items, diags, legacy, lanes, result>>
          \/ /\ DOMAIN payload # {} /\ EndPlan("failed")
    /\ UNCHANGED <<sc, report, run, live, edits, hist, apps, disk>>

\* A captured generation makes the bundle a mixed one (manifest version 2).
Mixed == captures # {}

collectLegacyCaptureLanes ==
    /\ pc = "plan" /\ plans = {}
    /\ \E m \in legacy :
         /\ \A n \in legacy : m.id <= n.id
         /\ \E exports \in SUBSET {m.keys[i].k : i \in 1..Len(m.keys)} :
              LET r == collectLegacyModule(m, live, Mixed, exports)
              IN lanes' = lanes \cup {[m |-> m, status |-> r.status, payload |-> r.payload]}
         /\ legacy' = legacy \ {m}
    /\ UNCHANGED <<sc, report, run, pc, live, edits, hist, apps, disk, staging, plans, todo, items, payload,
                   captures, diags, result>>

----------------------------------------------------------------------------
(* Assembly and publication. *)

Staged == {l.m : l \in {x \in lanes : x.status = "captured"}}
Kept == {m \in Staged : ~dropLegacyLane(m, Staged)}
PayloadOf(m) == (CHOOSE l \in lanes : l.m = m /\ l.status = "captured").payload

restoreEntries == UNION {{<<m.id, t>> : t \in keptClaims(m, Staged)} : m \in Kept}

NewBundle ==
    [kind |-> "bundle",
     apps |-> Written(apps),
     version |-> IF Mixed THEN 2 ELSE 1,
     captures |-> {[id |-> <<c.m.id, c.i>>, m |-> c.m.id,
                    payload |-> redactShareTree(fl.share, sc.pii, c.payload),
                    digests |-> c.digests] : c \in captures},
     lanes |-> {[m |-> m.id, payload |-> redactShareTree(fl.share, sc.pii, PayloadOf(m))] : m \in Kept},
     restores |-> preferMergeForShare(fl.share, restoreEntries),
     verifies |-> capturedModuleVerifies(Staged \cup {c.m : c \in captures}),
     share |-> fl.share]

\* The summary of a module: captured when the bundle carries a lane or a
\* config set of it, an error when something of it failed; the ones share
\* mode left out and the ones that lost every claim read as skipped.
buildCaptureModuleResults ==
    [id \in {m.id : m \in Catalog} |->
        CASE \/ \E m \in Kept : m.id = id
             \/ \E c \in captures : c.m.id = id -> "captured"
          [] /\ ~\E m \in Kept : m.id = id
             /\ ~\E c \in captures : c.m.id = id
             /\ \/ \E l \in lanes : l.m.id = id /\ l.status = "failed"
                \/ \E d \in diags : d[1] = id /\ d[2] # 0 /\ d[3] = "failed" -> "error"
          [] OTHER -> "skipped"]

\* The staged manifest is loaded back, the zip is written beside the output
\* and replaces it in one rename.
writeCaptureZipAtomically ==
    /\ pc = "plan" /\ plans = {} /\ legacy = {}
    /\ disk' = [disk EXCEPT !["bundle"] = NewBundle]
    /\ staging' = FALSE
    /\ pc' = "published"
    /\ UNCHANGED <<sc, report, run, live, edits, hist, apps, plans, todo, items, payload, captures, diags, legacy,
                   lanes, result>>

\* Staging, the manifest, the metadata or the zip cannot be written.
CreateCaptureBundleFails ==
    /\ pc \in {"plan", "preflight"}
    /\ Fail("failed")
    /\ UNCHANGED <<sc, report, run, live, edits, hist, apps, disk>>

\* The intermediate manifest goes and the summary is returned; failing to
\* remove the manifest fails the command although the bundle is out.
finalizeCaptureConfig ==
    /\ pc = "published"
    /\ \/ /\ disk' = IF resolveOutputPath(fl) = "bundle" THEN disk
                     ELSE [disk EXCEPT !["jsonc"] = Absent]
          /\ pc' = "idle" /\ result' = "ok" /\ report' = buildCaptureModuleResults
          /\ UNCHANGED bundleVars
       \/ /\ resolveOutputPath(fl) # "bundle"
          /\ Fail("failed") /\ UNCHANGED <<disk, report>>
    /\ UNCHANGED <<sc, run, live, edits, hist, apps>>

----------------------------------------------------------------------------
(* The environment. *)

\* Another program writes, creates or deletes a settings file.  What it writes
\* was not there before: a file that is changed and changed back between
\* fingerprint and copy is left out.
Edit ==
    /\ edits < MaxEdits /\ pc \notin {"idle", "published"}
    /\ \E f \in DOMAIN live :
         \/ live' = [live EXCEPT ![f] = Fresh(edits + 2)]
         \/ live[f] # Absent /\ live' = [live EXCEPT ![f] = Absent]
    /\ edits' = edits + 1
    /\ hist' = hist \cup {live'}
    /\ UNCHANGED <<sc, report, run, pc, apps, disk, bundleVars, result>>

\* The process dies: the staging tree stays behind.
Crash ==
    /\ pc # "idle"
    /\ pc' = "idle" /\ result' = None
    /\ ClearBundle
    /\ UNCHANGED <<sc, report, run, live, edits, hist, apps, disk, staging>>

Next ==
    \/ Start \/ EnumerateWindows \/ EnumerateRealizer \/ SelectAndMerge
    \/ TruncateManifest \/ WriteManifest \/ WriteFails
    \/ prepareCaptureConfig \/ BeginPlan \/ preflightConfigCopies \/ CollectConfigSet
    \/ collectGenerationCapture \/ collectLegacyCaptureLanes
    \/ writeCaptureZipAtomically \/ CreateCaptureBundleFails \/ finalizeCaptureConfig
    \/ Edit \/ Crash

Spec == Init /\ [][Next]_vars

----------------------------------------------------------------------------
(* Properties. *)

Seqs(as) == \A i \in 1..Len(as) : DOMAIN as[i] = {"id", "drv", "ref", "src", "fp", "ver", "cur", "seen"}

\* The state is of the shape the commands leave it in.
CaptureTypeOK ==
    /\ pc \in {"idle", "enumerate", "merge", "write", "writing", "prepare", "plan", "preflight",
               "published"}
    /\ run \in 0..MaxRuns /\ edits \in 0..MaxEdits
    /\ \A f \in DOMAIN live : live[f] = Absent \/ live[f] \in Contents
    /\ Seqs(apps)
    /\ \A p \in {"jsonc", "bundle"} : disk[p] = Absent \/ disk[p].kind \in {"partial", "manifest", "bundle"}
    /\ staging \in BOOLEAN /\ result \in {None, "ok", "failed", "rejected"}
    /\ plans # {} \/ (todo = {} /\ items = << >>)

\* A captured config set is a picture of one moment: however other programs
\* write while it is collected (config_capture.go fingerprints every file
\* before it copies the first, and refuses a copy that no longer matches),
\* all the files it holds had these contents at the same time.
CapturedSetIsSnapshot ==
    \A c \in captures : \E h \in hist : \A f \in DOMAIN c.payload : h[f] = c.payload[f]

\* Entries i and j of a list declare one package.
SamePackage(as, i, j) ==
    as[i].ref # None /\ as[j].ref # None /\ captureIdentity(as[i]) = captureIdentity(as[j])

\* The manifest that is updated had entries i and j: for one package already, or
\* one of them has just been bound by its fingerprint to what the other names.
BoundByFingerprint(i, j) ==
    /\ fl.update /\ {i, j} \subseteq 1..Len(Declared)
    /\ \/ SamePackage(Declared, i, j)
       \/ apps[i].fp # None /\ apps[i].fp = apps[j].fp

\* No package is declared twice: a capture does not list one twice, and an
\* --update that joined a detected package to an entry did not make another
\* entry for it.  Two entries the manifest had already may end up at one package,
\* if a fingerprint binds the one to what the other names (RunCapture does not
\* ask whether a detected package was joined before).
NoPackageTwice ==
    pc = "write" =>
        \A i, j \in 1..Len(apps) :
            i # j /\ SamePackage(apps, i, j) => BoundByFingerprint(i, j)

\* What a reader of RunCapture may expect: without that exception.
PackagesDeclaredOnce ==
    \A p \in {"jsonc", "bundle"} :
        IsManifest(disk[p]) \/ IsBundle(disk[p]) =>
            LET as == disk[p].apps
            IN \A i, j \in 1..Len(as) : i # j => ~SamePackage(as, i, j)

\* What a published bundle restores it also carries, and no two of its
\* modules restore overlapping targets: the planner would refuse both.
BundleRestoresAreOwned ==
    IsBundle(disk["bundle"]) => RestoresOwned(disk["bundle"])

\* A payload of a published bundle is the one its payload manifest lists:
\* restore verifies it before it stages anything.  A share bundle does not have
\* this property: README, Known divergences.
PayloadsVerify ==
    LET b == disk["bundle"]
    IN IsBundle(b) => \A c \in b.captures : VerifyPayloadManifest(c.payload, c.digests)

=============================================================================
