---------------------------- MODULE CaptureProofs ----------------------------
(***************************************************************************)
(* Capture, for any catalogs, hosts, package lists and bounds: a captured  *)
(* config set is a picture of one moment, and what a published bundle      *)
(* restores it carries, without two of its modules restoring overlapping   *)
(* targets.                                                                *)
(***************************************************************************)
EXTENDS Capture, WellFoundedInduction, TLAPS

-----------------------------------------------------------------------------
(* The inductive invariant *)

\* The contents written so far: the next edit writes another one.
Known == [v : 0..(edits + 1), red : BOOLEAN]

\* The host, and the states it went through while the capture runs.
HostOK ==
    /\ sc \in Scenarios /\ edits \in Nat
    /\ live \in [DOMAIN sc.live -> {Absent} \cup Known]
    /\ pc # "idle" => live \in hist

\* Plans are config sets of catalog modules, and what is fingerprinted and
\* copied are files of the host.
PlansOK ==
    /\ \A p \in plans : p = <<p[1], p[2]>> /\ p[1] \in sc.mods /\ p[2] \in 1..Len(p[1].sets)
    /\ pc = "preflight" => plans # {} /\ todo \subseteq Wanted(SetNow.files)
    /\ items \in Seq((DOMAIN sc.live) \X Contents)
    /\ \A k \in 1..Len(items) : items[k][2] \in Known

\* One state held what has been copied, and those of the files left to copy
\* that still have the content they were fingerprinted with.
HeldAt(h) ==
    /\ \A k \in 1..Len(items) : live[items[k][1]] = items[k][2] => h[items[k][1]] = items[k][2]
    /\ \A f \in DOMAIN payload : h[f] = payload[f]

CopyOK ==
    pc = "preflight" => /\ todo # {} => DOMAIN payload = {}
                        /\ todo = {} => \E h \in hist : HeldAt(h)

\* A lane that was captured carries something.
LanesOK ==
    /\ legacy \subseteq sc.mods
    /\ \A l \in lanes : l.m \in sc.mods /\ (l.status = "captured" => DOMAIN l.payload # {})

DiskOK == disk = [p \in {"jsonc", "bundle"} |-> disk[p]] /\ BundleRestoresAreOwned

CaptureInv == HostOK /\ PlansOK /\ CopyOK /\ CapturedSetIsSnapshot /\ LanesOK /\ DiskOK

-----------------------------------------------------------------------------
(* What the operators return *)

\* A set of numbers that is not empty has a least.
LEMMA SetHasLeast ==
  ASSUME NEW S \in SUBSET Nat, S # {}
  PROVE  \E n \in S : \A m \in S : n <= m
<1> DEFINE R == {ss \in Nat \X Nat : ss[1] < ss[2]}
<1>1. IsWellFoundedOn(R, Nat)
  BY NatLessThanWellFounded, Zenon DEF OpToRel
<1>2. PICK x \in S : \A y \in S : ~(<<y, x>> \in R)
  <2> HIDE DEF R
  <2> QED
    BY <1>1, WFMin, Zenon
<1>3. \A y \in S : ~(y < x)
  BY <1>2
<1>4. x \in Nat
  OBVIOUS
<1>5. ASSUME NEW y \in S PROVE x <= y
  BY <1>3, <1>4
<1> QED
  BY <1>5

\* The modules of the catalog that is scoped are modules of the catalog.
LEMMA CatalogScoped == Catalog \subseteq sc.mods
BY DEF Catalog, scopeCatalogToSelection

\* The plan being collected is one of the plans left.
LEMMA PlanNowIsLeft ==
  ASSUME HostOK, PlansOK, plans # {}
  PROVE  PlanNow \in plans
<1>1. \A m \in sc.mods : m.id \in Nat /\ Len(m.sets) \in Nat
  BY ScenariosAreTyped DEF HostOK, ModuleIsTyped
<1>2. \A p \in plans : p = <<p[1], p[2]>> /\ p[1] \in sc.mods /\ p[1].id \in Nat /\ p[2] \in Nat
  BY <1>1 DEF PlansOK
<1> DEFINE ids == {p[1].id : p \in plans}
<1>3. PICK x \in ids : \A y \in ids : x <= y
  BY <1>2, SetHasLeast
<1> DEFINE places == {p[2] : p \in {q \in plans : q[1].id = x}}
<1>4. places \in SUBSET Nat /\ places # {}
  BY <1>2
<1>5. PICK k \in places : \A y \in places : k <= y
  <2> HIDE DEF places
  <2> QED
    BY <1>4, SetHasLeast
<1>6. PICK p \in plans : p[1].id = x /\ p[2] = k
  OBVIOUS
<1>7. ASSUME NEW q \in plans \ {p} PROVE CaptureOrder(p, q)
  <2>1. x <= q[1].id /\ x \in Nat /\ k \in Nat /\ q[1].id \in Nat /\ q[2] \in Nat
    BY <1>2, <1>3, <1>4
  <2>2. CASE q[1].id = x
    <3>1. k <= q[2]
      BY <1>5, <2>2
    <3>2. q[1] = p[1]
      BY <1>2, <1>6, <2>2, ScenariosAreTyped DEF HostOK
    <3>3. q[2] # k
      BY <1>2, <1>6, <3>2
    <3> QED
      BY <1>6, <2>1, <2>2, <3>1, <3>3 DEF CaptureOrder
  <2>3. CASE q[1].id # x
    BY <1>6, <2>1, <2>3 DEF CaptureOrder
  <2> QED
    BY <2>2, <2>3
<1> QED
  BY <1>6, <1>7 DEF PlanNow

\* A file that is fingerprinted is a file of the host.
LEMMA WantedIsOnHost ==
  ASSUME HostOK, PlansOK, plans # {}, NEW i \in Wanted(SetNow.files)
  PROVE  SetNow.files[i].f \in DOMAIN sc.live
<1>1. PlanNow \in plans
  BY PlanNowIsLeft
<1>2. PlanNow[1] \in sc.mods /\ PlanNow[2] \in 1..Len(PlanNow[1].sets)
  BY <1>1 DEF PlansOK
<1>3. ModuleIsTyped(PlanNow[1], DOMAIN sc.live)
  BY <1>2, ScenariosAreTyped DEF HostOK
<1> QED
  BY <1>2, <1>3 DEF ModuleIsTyped, SetNow

\* A schema-1 module that is captured has a payload.
LEMMA CollectedIsNotEmpty ==
  ASSUME NEW m, NEW mixed, NEW exports, collectLegacyModule(m, live, mixed, exports).status = "captured"
  PROVE  DOMAIN collectLegacyModule(m, live, mixed, exports).payload # {}
<1> DEFINE files == CollectConfigFiles(m, live)
           keys == CollectRegistryKeys(m, exports)
           registry == keys.got \cup CollectRegistryValues(m)
           none == [f \in {} |-> Absent]
           unread == mixed /\ m.claims = << >>
           full == [f \in DOMAIN files \cup registry |->
                      IF f \in DOMAIN files THEN files[f] ELSE [v |-> 0, red |-> FALSE]]
<1>1. collectLegacyModule(m, live, mixed, exports) =
        CASE unread -> [status |-> "skipped", payload |-> none]
          [] ~unread /\ files = None -> [status |-> "failed", payload |-> none]
          [] ~unread /\ files # None /\ DOMAIN files \cup registry = {} ->
               [status |-> IF keys.failed THEN "failed" ELSE "skipped", payload |-> none]
          [] OTHER -> [status |-> "captured", payload |-> full]
  BY DEF collectLegacyModule
<1>2. DOMAIN full = DOMAIN files \cup registry
  OBVIOUS
<1> HIDE DEF files, keys, registry, none, unread, full
<1>3. CASE unread
  BY <1>1, <1>3
<1>4. CASE ~unread /\ files = None
  BY <1>1, <1>4
<1>5. CASE ~unread /\ files # None /\ DOMAIN files \cup registry = {}
  BY <1>1, <1>5
<1>6. CASE ~unread /\ files # None /\ DOMAIN files \cup registry # {}
  BY <1>1, <1>2, <1>6
<1> QED
  BY <1>3, <1>4, <1>5, <1>6

-----------------------------------------------------------------------------
(* The steps *)

\* The host does not change, and the capture goes on or has ended.
LEMMA HostStays ==
  ASSUME HostOK, UNCHANGED <<sc, live, edits, hist>>, pc' # "idle" => pc # "idle"
  PROVE  HostOK'
BY DEF HostOK, Known

\* A capture that starts, fails or dies has nothing collected.
LEMMA NothingCollected ==
  ASSUME HostOK, sc' = sc, ClearBundle, pc' # "preflight"
  PROVE  PlansOK' /\ CopyOK' /\ CapturedSetIsSnapshot' /\ LanesOK'
<1>1. plans' = {} /\ items' = << >> /\ captures' = {} /\ legacy' = {} /\ lanes' = {}
  BY DEF ClearBundle
<1>2. PlansOK'
  BY <1>1 DEF PlansOK
<1> QED
  BY <1>1, <1>2 DEF CopyOK, CapturedSetIsSnapshot, LanesOK

\* A step that collects nothing.
LEMMA QuietStep ==
  ASSUME CaptureInv, UNCHANGED <<sc, live, edits, hist, bundleVars>>, pc' # "idle" => pc # "idle",
         pc # "preflight", pc' # "preflight", DiskOK'
  PROVE  CaptureInv'
<1>1. UNCHANGED <<plans, todo, items, payload, captures, diags, legacy, lanes>>
  BY DEF bundleVars
<1>2. HostOK'
  BY HostStays DEF CaptureInv
<1>3. PlansOK'
  BY <1>1 DEF CaptureInv, PlansOK, Known
<1>4. CopyOK' /\ CapturedSetIsSnapshot' /\ LanesOK'
  BY <1>1 DEF CaptureInv, CopyOK, CapturedSetIsSnapshot, LanesOK
<1> QED
  BY <1>2, <1>3, <1>4 DEF CaptureInv

\* A failing command.
LEMMA FailStep ==
  ASSUME CaptureInv, NEW why, Fail(why), UNCHANGED <<sc, live, edits, hist>>, DiskOK'
  PROVE  CaptureInv'
<1>1. pc' = "idle" /\ ClearBundle
  BY DEF Fail
<1>2. HostOK'
  BY <1>1, HostStays DEF CaptureInv
<1> QED
  BY <1>1, <1>2, NothingCollected DEF CaptureInv

\* Nothing is written.
LEMMA DiskStays == ASSUME DiskOK, disk' = disk PROVE DiskOK'
BY DEF DiskOK, BundleRestoresAreOwned

\* Start and Crash.
LEMMA StartAndCrash == ASSUME CaptureInv, Start \/ Crash PROVE CaptureInv'
<1>1. sc' = sc /\ ClearBundle /\ disk' = disk /\ UNCHANGED <<live, edits>> /\ pc' \in {"idle", "enumerate"}
  BY DEF Start, Crash
<1>2. hist' = {live} \/ pc' = "idle"
  BY DEF Start, Crash
<1>3. HostOK'
  BY <1>1, <1>2 DEF CaptureInv, HostOK, Known
<1> QED
  BY <1>1, <1>3, NothingCollected, DiskStays DEF CaptureInv

\* The inventory, the merge and the manifest.
LEMMA InventorySteps ==
  ASSUME CaptureInv, EnumerateWindows \/ EnumerateRealizer \/ SelectAndMerge \/ WriteFails \/ CreateCaptureBundleFails
  PROVE  CaptureInv'
<1>1. UNCHANGED <<sc, live, edits, hist, disk>>
  BY DEF EnumerateWindows, EnumerateRealizer, SelectAndMerge, WriteFails, CreateCaptureBundleFails
<1>2. DiskOK'
  BY <1>1, DiskStays DEF CaptureInv
<1>3. CASE \E why : Fail(why)
  BY <1>1, <1>2, <1>3, FailStep
<1>4. CASE pc \in {"enumerate", "merge"} /\ pc' \in {"merge", "write"} /\ UNCHANGED bundleVars
  BY <1>1, <1>2, <1>4, QuietStep
<1> QED
  BY <1>3, <1>4 DEF EnumerateWindows, EnumerateRealizer, SelectAndMerge, WriteFails, CreateCaptureBundleFails

\* A manifest at either path is no bundle.
LEMMA ManifestSteps == ASSUME CaptureInv, TruncateManifest \/ WriteManifest PROVE CaptureInv'
<1> DEFINE path == resolveOutputPath(fl)
           part == [kind |-> "partial"]
           all == [kind |-> "manifest", apps |-> Written(apps)]
<1>1. UNCHANGED <<sc, live, edits, hist, bundleVars>> /\ pc \in {"write", "writing"}
      /\ pc' \in {"idle", "prepare", "writing"}
  BY DEF TruncateManifest, WriteManifest
<1>2. path \in {"jsonc", "bundle"} /\ ~IsBundle(part) /\ ~IsBundle(all)
  BY DEF resolveOutputPath, IsBundle
<1>3. disk' = [disk EXCEPT ![path] = part] \/ disk' = [disk EXCEPT ![path] = all]
  BY DEF TruncateManifest, WriteManifest
<1> HIDE DEF path, part, all
<1>4. disk = [p \in {"jsonc", "bundle"} |-> disk[p]]
  BY DEF CaptureInv, DiskOK
<1>5. /\ disk' = [p \in {"jsonc", "bundle"} |-> disk'[p]]
      /\ disk'["bundle"] = disk["bundle"] \/ disk'["bundle"] \in {part, all}
  BY <1>2, <1>3, <1>4
<1>6. DiskOK'
  BY <1>2, <1>5 DEF CaptureInv, DiskOK, BundleRestoresAreOwned
<1> QED
  BY <1>1, <1>6, QuietStep

\* What is planned are config sets and schema-1 modules of the catalog.
LEMMA PrepareStep == ASSUME CaptureInv, prepareCaptureConfig PROVE CaptureInv'
<1>1. UNCHANGED <<sc, live, edits, hist, disk>> /\ pc = "prepare"
  BY DEF prepareCaptureConfig
<1>2. DiskOK'
  BY <1>1, DiskStays DEF CaptureInv
<1>3. CASE Fail("failed")
  BY <1>1, <1>2, <1>3, FailStep
<1>4. CASE /\ plans' = generationPlans(Catalog) /\ pc' = "plan" /\ UNCHANGED <<items, captures, lanes>>
           /\ legacy' = partitionShareDeniedModules(fl.share, legacyModules(fl.only, Catalog))
  <2>1. HostOK'
    BY <1>1, <1>4, HostStays DEF CaptureInv
  <2>2. \A p \in generationPlans(Catalog) :
          p = <<p[1], p[2]>> /\ p[1] \in sc.mods /\ p[2] \in 1..Len(p[1].sets)
    BY CatalogScoped DEF generationPlans, generationCandidates
  <2>3. PlansOK'
    BY <1>1, <1>4, <2>2 DEF CaptureInv, PlansOK, Known
  <2>4. LanesOK'
    BY <1>1, <1>4, CatalogScoped DEF CaptureInv, LanesOK, partitionShareDeniedModules, legacyModules
  <2>5. CopyOK' /\ CapturedSetIsSnapshot'
    BY <1>1, <1>4 DEF CaptureInv, CopyOK, CapturedSetIsSnapshot
  <2> QED
    BY <1>2, <2>1, <2>3, <2>4, <2>5 DEF CaptureInv
<1> QED
  BY <1>3, <1>4 DEF prepareCaptureConfig

\* Fingerprinting starts with nothing copied.
LEMMA BeginPlanStep == ASSUME CaptureInv, BeginPlan PROVE CaptureInv'
<1>1. /\ UNCHANGED <<sc, live, edits, hist, disk, plans, captures, legacy, lanes>> /\ pc = "plan" /\ pc' = "preflight"
      /\ plans # {} /\ items' = << >> /\ payload' = Empty /\ todo' = Wanted(SetNow.files)
  BY DEF BeginPlan
<1>2. HostOK' /\ DiskOK'
  BY <1>1, HostStays, DiskStays DEF CaptureInv
<1>3. SetNow' = SetNow
  BY <1>1 DEF SetNow, PlanNow
<1>4. PlansOK'
  BY <1>1, <1>3 DEF CaptureInv, PlansOK
<1>5. CopyOK'
  <2>1. live' \in hist' /\ DOMAIN payload' = {}
    BY <1>1 DEF CaptureInv, HostOK, Empty
  <2>2. HeldAt(live)'
    BY <1>1, <2>1 DEF HeldAt
  <2> QED
    BY <1>1, <2>1, <2>2 DEF CopyOK, HeldAt
<1> QED
  BY <1>1, <1>2, <1>4, <1>5 DEF CaptureInv, CapturedSetIsSnapshot, LanesOK

\* A plan that is over without a capture.
LEMMA EndPlanStep ==
  ASSUME CaptureInv, NEW status, EndPlan(status), pc = "preflight", UNCHANGED <<sc, live, edits, hist, disk>>
  PROVE  CaptureInv'
<1>1. /\ pc' = "plan" /\ plans' \subseteq plans /\ items' = << >> /\ UNCHANGED <<captures, legacy, lanes>>
  BY DEF EndPlan
<1>2. HostOK' /\ DiskOK'
  BY <1>1, HostStays, DiskStays DEF CaptureInv
<1>3. PlansOK'
  BY <1>1 DEF CaptureInv, PlansOK
<1> QED
  BY <1>1, <1>2, <1>3 DEF CaptureInv, CopyOK, CapturedSetIsSnapshot, LanesOK

\* When the last file is fingerprinted, the state of that moment is the one
\* every copy will be a copy of.
LEMMA PreflightStep == ASSUME CaptureInv, preflightConfigCopies PROVE CaptureInv'
<1>1. UNCHANGED <<sc, live, edits, hist, disk>> /\ pc = "preflight"
  BY DEF preflightConfigCopies
<1>2. PICK i \in todo :
        LET d == SetNow.files[i]
            digest == fingerprintConfigCaptureSource(d, live)
        IN IF digest = Absent
           THEN EndPlan("failed")
           ELSE /\ items' = IF digest = None THEN items ELSE Append(items, <<d.f, digest>>)
                /\ todo' = todo \ {i}
                /\ UNCHANGED <<staging, plans, payload, captures, diags, legacy, lanes, pc, result>>
  BY DEF preflightConfigCopies
<1> DEFINE f == SetNow.files[i].f
           digest == fingerprintConfigCaptureSource(SetNow.files[i], live)
<1>3. CASE EndPlan("failed")
  BY <1>1, <1>3, EndPlanStep
<1>4. CASE ~EndPlan("failed")
  <2>1. /\ digest # Absent
        /\ items' = IF digest = None THEN items ELSE Append(items, <<f, digest>>)
        /\ todo' = todo \ {i} /\ UNCHANGED <<plans, payload, captures, legacy, lanes, pc>>
    BY <1>2, <1>4
  <2>2. HostOK' /\ DiskOK'
    BY <1>1, <2>1, HostStays, DiskStays DEF CaptureInv
  <2>3. f \in DOMAIN sc.live
    BY <1>1, WantedIsOnHost DEF CaptureInv, PlansOK
  <2>4. live[f] \in {Absent} \cup Known
    BY <2>3 DEF CaptureInv, HostOK
  <2>5. digest = live[f] \/ digest = None
    BY <2>1 DEF fingerprintConfigCaptureSource
  <2> HIDE DEF f, digest
  <2>7. digest # None => digest \in Known /\ digest \in Contents
    BY <2>1, <2>4, <2>5 DEF Known, Contents, CaptureInv, HostOK
  <2>8. items \in Seq((DOMAIN sc.live) \X Contents) /\ \A k \in 1..Len(items) : items[k][2] \in Known
    BY DEF CaptureInv, PlansOK
  <2>9. items' \in Seq((DOMAIN sc.live) \X Contents) /\ \A k \in 1..Len(items') : items'[k][2] \in Known
    <3>1. CASE digest = None
      BY <2>1, <2>8, <3>1
    <3>2. CASE digest # None
      <4>1. <<f, digest>> \in (DOMAIN sc.live) \X Contents /\ <<f, digest>>[2] \in Known
        BY <2>3, <2>7, <3>2
      <4>2. items' = Append(items, <<f, digest>>)
        BY <2>1, <3>2
      <4> QED
        BY <2>8, <4>1, <4>2
    <3> QED
      BY <3>1, <3>2
  <2>10. PlansOK'
    <3>1. SetNow' = SetNow
      BY <2>1 DEF SetNow, PlanNow
    <3>2. Known' = Known
      BY <1>1 DEF Known
    <3> QED
      BY <1>1, <2>1, <2>9, <3>1, <3>2 DEF CaptureInv, PlansOK
  <2>11. CopyOK'
    <3>1. DOMAIN payload = {} /\ live \in hist
      BY <1>1 DEF CaptureInv, CopyOK, HostOK
    <3>2. (\E h \in hist : HeldAt(h))'
      BY <1>1, <2>1, <3>1 DEF HeldAt
    <3> QED
      BY <1>1, <2>1, <3>1, <3>2 DEF CopyOK
  <2> QED
    BY <1>1, <2>1, <2>2, <2>10, <2>11 DEF CaptureInv, CapturedSetIsSnapshot, LanesOK
<1> QED
  BY <1>3, <1>4

\* A copy that is accepted is of a content that state held.
LEMMA CopyStep == ASSUME CaptureInv, CollectConfigSet PROVE CaptureInv'
<1> DEFINE f == Head(items)[1]
           x == Head(items)[2]
           content == copyRegularFile(f, x, live)
<1>1. UNCHANGED <<sc, live, edits, hist, disk>> /\ pc = "preflight" /\ todo = {} /\ items # << >>
  BY DEF CollectConfigSet
<1>2. CASE EndPlan("failed")
  BY <1>1, <1>2, EndPlanStep
<1>3. CASE ~EndPlan("failed")
  <2>1. /\ content # Absent /\ items' = Tail(items)
        /\ payload' = [g \in DOMAIN payload \cup {f} |-> IF g = f THEN content ELSE payload[g]]
        /\ UNCHANGED <<plans, todo, captures, legacy, lanes, pc>>
    BY <1>3 DEF CollectConfigSet
  <2>2. content = x /\ live[f] = x
    BY <2>1 DEF copyRegularFile
  <2>3. HostOK' /\ DiskOK'
    BY <1>1, <2>1, HostStays, DiskStays DEF CaptureInv
  <2>4. items \in Seq((DOMAIN sc.live) \X Contents) /\ \A k \in 1..Len(items) : items[k][2] \in Known
    BY DEF CaptureInv, PlansOK
  <2>5. /\ Len(items) \in Nat \ {0} /\ items[1] = Head(items) /\ Len(items') = Len(items) - 1
        /\ items' \in Seq((DOMAIN sc.live) \X Contents)
        /\ \A k \in 1..Len(items') : k + 1 \in 1..Len(items) /\ items'[k] = items[k + 1]
    BY <1>1, <2>1, <2>4
  <2> HIDE DEF f, x, content
  <2>6. PlansOK'
    <3>1. SetNow' = SetNow /\ Known' = Known
      BY <1>1, <2>1 DEF SetNow, PlanNow, Known
    <3>2. \A k \in 1..Len(items') : items'[k][2] \in Known
      BY <2>4, <2>5
    <3> QED
      BY <1>1, <2>1, <2>5, <3>1, <3>2 DEF CaptureInv, PlansOK
  <2>7. PICK h \in hist : HeldAt(h)
    BY <1>1 DEF CaptureInv, CopyOK
  <2>8. h[f] = x
    BY <2>2, <2>5, <2>7 DEF HeldAt, f, x
  <2>9. \A g \in DOMAIN payload' : h[g] = payload'[g]
    BY <2>1, <2>2, <2>7, <2>8 DEF HeldAt
  <2>10. \A k \in 1..Len(items') : live[items'[k][1]] = items'[k][2] => h[items'[k][1]] = items'[k][2]
    BY <2>5, <2>7 DEF HeldAt
  <2>11. CopyOK'
    BY <1>1, <2>1, <2>9, <2>10 DEF CopyOK, HeldAt
  <2> QED
    BY <1>1, <2>1, <2>3, <2>6, <2>11 DEF CaptureInv, CapturedSetIsSnapshot, LanesOK
<1> QED
  BY <1>2, <1>3

\* With everything copied, the set is what that state held.
LEMMA CapturedStep == ASSUME CaptureInv, collectGenerationCapture PROVE CaptureInv'
<1>1. UNCHANGED <<sc, live, edits, hist, disk>> /\ pc = "preflight" /\ todo = {} /\ items = << >>
  BY DEF collectGenerationCapture
<1>2. CASE \E status : EndPlan(status)
  BY <1>1, <1>2, EndPlanStep
<1>3. CASE ~\E status : EndPlan(status)
  <2> DEFINE c == [m |-> PlanNow[1], i |-> PlanNow[2], payload |-> payload,
                   digests |-> BuildPayloadManifest(payload),
                   valid |-> validateCapturedPayload(SetNow, payload)]
  <2>1. /\ captures' = captures \cup {c} /\ plans' \subseteq plans /\ pc' = "plan"
        /\ UNCHANGED <<items, legacy, lanes>>
    BY <1>3 DEF collectGenerationCapture
  <2>2. HostOK' /\ DiskOK'
    BY <1>1, <2>1, HostStays, DiskStays DEF CaptureInv
  <2>3. PICK h \in hist : HeldAt(h)
    BY <1>1 DEF CaptureInv, CopyOK
  <2>4. c.payload = payload
    OBVIOUS
  <2> HIDE DEF c
  <2>5. CapturedSetIsSnapshot'
    BY <1>1, <2>1, <2>3, <2>4 DEF CaptureInv, CapturedSetIsSnapshot, HeldAt
  <2>6. PlansOK'
    BY <1>1, <2>1 DEF CaptureInv, PlansOK, Known
  <2> QED
    BY <1>1, <2>1, <2>2, <2>5, <2>6 DEF CaptureInv, CopyOK, LanesOK
<1> QED
  BY <1>2, <1>3

\* Another program writes a content that was not there before: no file gets
\* back the content it was fingerprinted with.
LEMMA EditStep == ASSUME CaptureInv, Edit PROVE CaptureInv'
<1>1. /\ UNCHANGED <<sc, pc, disk, bundleVars>> /\ edits' = edits + 1 /\ edits \in Nat
      /\ hist' = hist \cup {live'}
  BY DEF Edit, CaptureInv, HostOK
<1>2. UNCHANGED <<plans, todo, items, payload, captures, legacy, lanes>>
  BY <1>1 DEF bundleVars
<1>3. PICK g \in DOMAIN live :
        live' = [live EXCEPT ![g] = Fresh(edits + 2)] \/ live' = [live EXCEPT ![g] = Absent]
  BY DEF Edit
<1>4. Known \subseteq Known' /\ Fresh(edits + 2) \in Known' /\ Fresh(edits + 2) \notin Known /\ Absent \notin Known
  <2>1. Absent \notin Contents
    BY ScenariosAreTyped DEF CaptureInv, HostOK
  <2>2. Fresh(edits + 2).v = edits + 2
    BY DEF Fresh
  <2> QED
    BY <1>1, <2>1, <2>2 DEF Known, Fresh, Contents
<1>5. live \in [DOMAIN sc.live -> {Absent} \cup Known] /\ DOMAIN live = DOMAIN sc.live
  BY DEF CaptureInv, HostOK
<1>6. /\ live' \in [DOMAIN sc.live -> {Absent} \cup Known']
      /\ \A f \in DOMAIN sc.live : live'[f] \in Known => live'[f] = live[f]
  BY <1>3, <1>4, <1>5
<1>7. HostOK'
  BY <1>1, <1>6 DEF CaptureInv, HostOK
<1>8. PlansOK'
  <2>1. SetNow' = SetNow
    BY <1>2 DEF SetNow, PlanNow
  <2> QED
    BY <1>1, <1>2, <1>4, <2>1 DEF CaptureInv, PlansOK
<1>9. ASSUME NEW h, HeldAt(h) PROVE HeldAt(h)'
  <2>1. ASSUME NEW k \in 1..Len(items), live'[items[k][1]] = items[k][2]
        PROVE  h[items[k][1]] = items[k][2]
    <3>1. items[k][2] \in Known /\ items[k][1] \in DOMAIN sc.live
      BY DEF CaptureInv, PlansOK
    <3> QED
      BY <1>6, <1>9, <2>1, <3>1 DEF HeldAt
  <2> QED
    BY <1>2, <1>9, <2>1 DEF HeldAt
<1>10. CopyOK'
  BY <1>1, <1>2, <1>9 DEF CaptureInv, CopyOK
<1>11. CapturedSetIsSnapshot' /\ LanesOK' /\ DiskOK'
  BY <1>1, <1>2, DiskStays DEF CaptureInv, CapturedSetIsSnapshot, LanesOK
<1> QED
  BY <1>7, <1>8, <1>10, <1>11 DEF CaptureInv

\* A schema-1 module that is captured carries something.
LEMMA LegacyStep == ASSUME CaptureInv, collectLegacyCaptureLanes PROVE CaptureInv'
<1>1. /\ UNCHANGED <<sc, live, edits, hist, disk, pc, plans, todo, items, payload, captures>>
      /\ pc = "plan"
  BY DEF collectLegacyCaptureLanes
<1>2. PICK m \in legacy : \E exports :
        LET r == collectLegacyModule(m, live, Mixed, exports)
        IN lanes' = lanes \cup {[m |-> m, status |-> r.status, payload |-> r.payload]} /\ legacy' = legacy \ {m}
  BY DEF collectLegacyCaptureLanes
<1>3. PICK exports :
        LET r == collectLegacyModule(m, live, Mixed, exports)
        IN lanes' = lanes \cup {[m |-> m, status |-> r.status, payload |-> r.payload]} /\ legacy' = legacy \ {m}
  BY <1>2
<1> DEFINE r == collectLegacyModule(m, live, Mixed, exports)
           l == [m |-> m, status |-> r.status, payload |-> r.payload]
<1>4. r.status = "captured" => DOMAIN r.payload # {}
  BY CollectedIsNotEmpty
<1>5. l.m = m /\ l.status = r.status /\ l.payload = r.payload
  OBVIOUS
<1>6. lanes' = lanes \cup {l} /\ legacy' = legacy \ {m}
  BY <1>3
<1> HIDE DEF l, r
<1>7. LanesOK'
  BY <1>1, <1>4, <1>5, <1>6 DEF CaptureInv, LanesOK
<1>8. HostOK' /\ DiskOK'
  BY <1>1, HostStays, DiskStays DEF CaptureInv
<1>9. PlansOK' /\ CopyOK' /\ CapturedSetIsSnapshot'
  BY <1>1 DEF CaptureInv, PlansOK, CopyOK, CapturedSetIsSnapshot, Known
<1> QED
  BY <1>7, <1>8, <1>9 DEF CaptureInv

\* Of two modules that claim overlapping targets one beats the other, and the
\* other drops its claim.
LEMMA KeptClaimsAreApart ==
  ASSUME CaptureInv, NEW m \in Staged, NEW n \in Staged, m.id # n.id,
         NEW t \in keptClaims(m, Staged), NEW u \in keptClaims(n, Staged)
  PROVE  ~Overlaps(t, u)
<1>1. Staged \subseteq sc.mods
  BY DEF Staged, CaptureInv, LanesOK
<1>2. m.id \in Nat /\ n.id \in Nat /\ m.prec \in Nat /\ n.prec \in Nat
  BY <1>1, ScenariosAreTyped DEF CaptureInv, HostOK, ModuleIsTyped
<1>3. legacyModuleBeats(m, n) \/ legacyModuleBeats(n, m)
  BY <1>2 DEF legacyModuleBeats
<1>4. t \in Claims(m) /\ u \in Claims(n)
  BY DEF keptClaims, Claims
<1>5. Overlaps(t, u) => Overlaps(u, t)
  BY <1>1, <1>4, ScenariosAreTyped DEF CaptureInv, HostOK
<1>6. CASE legacyModuleBeats(n, m)
  BY <1>4, <1>6 DEF keptClaims, droppedClaims, Claims
<1>7. CASE legacyModuleBeats(m, n)
  BY <1>4, <1>5, <1>7 DEF keptClaims, droppedClaims, Claims
<1> QED
  BY <1>3, <1>6, <1>7

\* A bundle owns what it restores.
LEMMA NewBundleIsOwned == CaptureInv => RestoresOwned(NewBundle)
<1> SUFFICES ASSUME CaptureInv PROVE RestoresOwned(NewBundle)
  OBVIOUS
<1> DEFINE carried == {[m |-> m.id, payload |-> redactShareTree(fl.share, sc.pii, PayloadOf(m))] : m \in Kept}
<1>1. NewBundle.restores = preferMergeForShare(fl.share, restoreEntries) /\ NewBundle.lanes = carried
  BY DEF NewBundle
<1>2. ASSUME NEW e \in NewBundle.restores
      PROVE  \E m \in Kept : e.m = m.id /\ e.target \in keptClaims(m, Staged)
  <2>1. PICK x \in restoreEntries : e = [m |-> x[1], target |-> x[2], backup |-> fl.share]
    BY <1>1, <1>2 DEF preferMergeForShare
  <2>2. PICK m \in Kept : \E t \in keptClaims(m, Staged) : x = <<m.id, t>>
    BY <2>1 DEF restoreEntries
  <2> QED
    BY <2>1, <2>2
<1>3. ASSUME NEW e \in NewBundle.restores
      PROVE  \E l \in NewBundle.lanes : l.m = e.m /\ DOMAIN l.payload # {}
  <2>1. PICK m \in Kept : e.m = m.id
    BY <1>2
  <2> DEFINE l == [m |-> m.id, payload |-> redactShareTree(fl.share, sc.pii, PayloadOf(m))]
  <2>2. l \in NewBundle.lanes /\ l.m = e.m
    BY <1>1, <2>1
  <2>3. DOMAIN l.payload = DOMAIN PayloadOf(m)
    BY DEF redactShareTree
  <2>4. DOMAIN PayloadOf(m) # {}
    <3>1. \E x \in lanes : x.m = m /\ x.status = "captured"
      BY DEF Kept, Staged
    <3>2. \A x \in lanes : x.status = "captured" => DOMAIN x.payload # {}
      BY DEF CaptureInv, LanesOK
    <3> DEFINE x == CHOOSE y \in lanes : y.m = m /\ y.status = "captured"
    <3>3. x \in lanes /\ x.status = "captured"
      BY <3>1
    <3>4. PayloadOf(m) = x.payload
      BY DEF PayloadOf
    <3> HIDE DEF x
    <3> QED
      BY <3>2, <3>3, <3>4
  <2> HIDE DEF l
  <2> QED
    BY <2>2, <2>3, <2>4
<1>4. ASSUME NEW e \in NewBundle.restores, NEW g \in NewBundle.restores, e.m # g.m
      PROVE  ~Overlaps(e.target, g.target)
  <2>1. PICK m \in Kept : e.m = m.id /\ e.target \in keptClaims(m, Staged)
    BY <1>2
  <2>2. PICK n \in Kept : g.m = n.id /\ g.target \in keptClaims(n, Staged)
    BY <1>2
  <2>3. m \in Staged /\ n \in Staged /\ m.id # n.id
    BY <1>4, <2>1, <2>2 DEF Kept
  <2> QED
    BY <2>1, <2>2, <2>3, KeptClaimsAreApart
<1> QED
  BY <1>3, <1>4 DEF RestoresOwned

\* Publication, and the removal of the manifest after it.
LEMMA PublishSteps == ASSUME CaptureInv, writeCaptureZipAtomically \/ finalizeCaptureConfig PROVE CaptureInv'
<1>1. UNCHANGED <<sc, live, edits, hist>> /\ pc \in {"plan", "published"} /\ pc' \in {"published", "idle"}
  BY DEF writeCaptureZipAtomically, finalizeCaptureConfig, Fail
<1>2. disk = [p \in {"jsonc", "bundle"} |-> disk[p]]
  BY DEF CaptureInv, DiskOK
<1>3. disk' = disk \/ disk' = [disk EXCEPT !["bundle"] = NewBundle] \/ disk' = [disk EXCEPT !["jsonc"] = Absent]
  BY DEF writeCaptureZipAtomically, finalizeCaptureConfig
<1>4. disk' = [p \in {"jsonc", "bundle"} |-> disk'[p]] /\ disk'["bundle"] \in {disk["bundle"], NewBundle}
  BY <1>2, <1>3
<1>5. DiskOK'
  BY <1>4, NewBundleIsOwned DEF CaptureInv, DiskOK, BundleRestoresAreOwned
<1>6. CASE Fail("failed")
  BY <1>1, <1>5, <1>6, FailStep
<1>7. CASE ~Fail("failed")
  <2>1. UNCHANGED <<plans, todo, items, payload, captures, legacy, lanes>>
    BY <1>7 DEF writeCaptureZipAtomically, finalizeCaptureConfig, bundleVars
  <2>2. HostOK'
    BY <1>1, HostStays DEF CaptureInv
  <2>3. PlansOK'
    BY <1>1, <2>1 DEF CaptureInv, PlansOK, Known
  <2>4. CopyOK' /\ CapturedSetIsSnapshot' /\ LanesOK'
    BY <1>1, <2>1 DEF CaptureInv, CopyOK, CapturedSetIsSnapshot, LanesOK
  <2> QED
    BY <1>5, <2>2, <2>3, <2>4 DEF CaptureInv
<1> QED
  BY <1>6, <1>7

\* The invariant holds initially.
LEMMA InitInv == Init => CaptureInv
<1> SUFFICES ASSUME Init PROVE CaptureInv
  OBVIOUS
<1>1. sc \in Scenarios /\ live = sc.live /\ edits = 0 /\ pc = "idle" /\ disk = sc.disk
      /\ plans = {} /\ items = << >> /\ captures = {} /\ legacy = {} /\ lanes = {}
  BY DEF Init
<1>2. HostOK
  <2>1. Known = [v : {0, 1}, red : BOOLEAN]
    BY <1>1 DEF Known
  <2> QED
    BY <1>1, <2>1, ScenariosAreTyped DEF HostOK
<1>3. PlansOK
  BY <1>1 DEF PlansOK
<1>4. DiskOK
  BY <1>1, ScenariosAreTyped DEF DiskOK, BundleRestoresAreOwned
<1> QED
  BY <1>1, <1>2, <1>3, <1>4 DEF CaptureInv, CopyOK, CapturedSetIsSnapshot, LanesOK

\* Every step keeps it.
LEMMA NextKeepsInv == CaptureInv /\ [Next]_vars => CaptureInv'
<1> SUFFICES ASSUME CaptureInv, [Next]_vars PROVE CaptureInv'
  OBVIOUS
<1>1. CASE UNCHANGED vars
  <2>1. UNCHANGED <<sc, live, edits, hist, disk, pc, plans, todo, items, payload, captures, legacy, lanes>>
    BY <1>1 DEF vars, bundleVars
  <2>2. HostOK' /\ DiskOK'
    BY <2>1, HostStays, DiskStays DEF CaptureInv
  <2>3. PlansOK'
    BY <2>1 DEF CaptureInv, PlansOK, Known, SetNow, PlanNow
  <2> QED
    BY <2>1, <2>2, <2>3 DEF CaptureInv, CopyOK, HeldAt, CapturedSetIsSnapshot, LanesOK
<1> QED
  BY <1>1, StartAndCrash, InventorySteps, ManifestSteps, PrepareStep, BeginPlanStep, PreflightStep, CopyStep,
     CapturedStep, EditStep, LegacyStep, PublishSteps DEF Next

-----------------------------------------------------------------------------
(* The theorems *)

\* A captured config set is a picture of one moment, however other programs
\* write while it is collected: every file is fingerprinted before the first is
\* copied, and a copy that no longer matches is refused (config_capture.go).
THEOREM CapturedSetsAreSnapshots == Spec => []CapturedSetIsSnapshot
<1>1. CaptureInv => CapturedSetIsSnapshot
  BY DEF CaptureInv
<1> QED
  BY <1>1, InitInv, NextKeepsInv, PTL DEF Spec

\* What a published bundle restores it also carries, and no two of its modules
\* restore overlapping targets (resolveLegacyTargetCollisions).
THEOREM PublishedBundlesOwnTheirRestores == Spec => []BundleRestoresAreOwned
<1>1. CaptureInv => BundleRestoresAreOwned
  BY DEF CaptureInv, DiskOK
<1> QED
  BY <1>1, InitInv, NextKeepsInv, PTL DEF Spec
=============================================================================
