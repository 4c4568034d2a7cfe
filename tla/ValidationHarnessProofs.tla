---------------------- MODULE ValidationHarnessProofs ----------------------
(***************************************************************************)
(* Proofs about the validation harness, for every set of targets, any      *)
(* number of deviations of the engine and any number of failing calls.     *)
(***************************************************************************)
EXTENDS ValidationHarness, FiniteSetTheorems, TLAPS

-----------------------------------------------------------------------------
(* What a deviation can and cannot do *)

Trees == [payload : Contents, kept : Contents, left : Contents]

WorldFields == {"live", "bundle", "spare", "projects", "backups", "journals", "members",
                "stray", "outside", "descriptor", "state", "tool"}

\* A host: its fields, a tree for every target and for every target of the bundle.
IsWorld(w) ==
  /\ w = [f \in WorldFields |-> w[f]]
  /\ w.live = [t \in Targets |-> w.live[t]]
  /\ w.bundle \in [Targets -> Trees]

IsOutcome(o) == o = [f \in {"w", "r"} |-> o[f]] /\ IsWorld(o.w)

\* q differs from o by things gone wrong: a payload of the bundle is not repaired, and
\* no record of the store appears.
Fades(o, q) ==
  /\ IsOutcome(q)
  /\ \A t \in Targets \ Registry : q.w.bundle[t] = PackedTree(t) => o.w.bundle[t] = PackedTree(t)
  /\ DOMAIN q.w.members \subseteq DOMAIN o.w.members
  /\ DOMAIN q.w.journals \subseteq DOMAIN o.w.journals

(* A scenario works on targets of the module. *)
LEMMA ScopeInTargets == ASSUME NEW m PROVE Scope(m) \subseteq Targets
BY FixtureAssumption DEF Scope

(* The tree a capture packs for a target that is no registry key. *)
LEMMA PackedIs ==
  ASSUME NEW t \in Targets \ Registry
  PROVE  PackedTree(t).payload = "captured" /\ PackedTree(t).kept = "captured"
         /\ PackedTree(t).left = "absent"
BY DEF PackedTree, CapturedTree, Tree, Witness

(* A change of the live host leaves bundle and store alone. *)
LEMMA LiveDeviationsFade ==
  ASSUME NEW m, NEW o, IsOutcome(o), NEW q \in LiveDeviations(m, o)
  PROVE  Fades(o, q)
<1>1. ASSUME NEW t \in Scope(m), NEW p \in Parts, NEW c \in Wrong,
             q = [o EXCEPT !.w.live[t][p] = c]
      PROVE  Fades(o, q)
  BY <1>1 DEF Fades, IsOutcome, IsWorld, WorldFields
<1>2. CASE q = [o EXCEPT !.w.tool = ~@]
  BY <1>2 DEF Fades, IsOutcome, IsWorld, WorldFields
<1> QED
  BY <1>1, <1>2 DEF LiveDeviations

(* A tree of the bundle is only ever put out of order. *)
LEMMA TreeFades ==
  ASSUME NEW o, IsOutcome(o), NEW t \in Targets, NEW v \in Trees,
         t \notin Registry => v # PackedTree(t),
         NEW q, q = [o EXCEPT !.w.bundle[t] = v]
  PROVE  Fades(o, q)
<1>1. /\ q.w.bundle = [o.w.bundle EXCEPT ![t] = v]
      /\ q.w.members = o.w.members /\ q.w.journals = o.w.journals
      /\ q = [f \in {"w", "r"} |-> q[f]] /\ q.w = [f \in WorldFields |-> q.w[f]]
      /\ q.w.live = o.w.live
  BY DEF IsOutcome, IsWorld, WorldFields
<1>2. o.w.bundle \in [Targets -> Trees] /\ o.w.live = [s \in Targets |-> o.w.live[s]]
  BY DEF IsOutcome, IsWorld
<1>3. IsOutcome(q)
  <2>1. q.w.bundle \in [Targets -> Trees]
    BY <1>1, <1>2
  <2>2. q.w.live = [s \in Targets |-> q.w.live[s]]
    BY <1>1, <1>2
  <2>3. q = [f \in {"w", "r"} |-> q[f]] /\ q.w = [f \in WorldFields |-> q.w[f]]
    BY <1>1
  <2> QED
    BY <2>1, <2>2, <2>3 DEF IsOutcome, IsWorld
<1>4. \A s \in Targets \ Registry : q.w.bundle[s] = PackedTree(s) => o.w.bundle[s] = PackedTree(s)
  BY <1>1, <1>2
<1> QED
  BY <1>1, <1>3, <1>4 DEF Fades

(* No deviation repairs a bundle or adds a target to it.                    *)
LEMMA BundleDeviationsFade ==
  ASSUME NEW m, NEW o, IsOutcome(o), NEW q \in BundleDeviations(m, o)
  PROVE  Fades(o, q)
<1>1. ASSUME NEW t \in Scope(m),
             \/ q = [o EXCEPT !.w.bundle[t].payload = "foreign"]
             \/ q = [o EXCEPT !.w.bundle[t].kept = "absent"]
             \/ q = [o EXCEPT !.w.bundle[t].left = "captured"]
      PROVE  Fades(o, q)
  <2> DEFINE tree == o.w.bundle[t]
  <2>1. t \in Targets /\ tree \in Trees
    BY ScopeInTargets DEF IsOutcome, IsWorld
  <2>2. PICK v : /\ q = [o EXCEPT !.w.bundle[t] = v]
                 /\ \/ v = [tree EXCEPT !.payload = "foreign"]
                    \/ v = [tree EXCEPT !.kept = "absent"]
                    \/ v = [tree EXCEPT !.left = "captured"]
    BY <1>1
  <2>3. v \in Trees /\ (v.payload = "foreign" \/ v.kept = "absent" \/ v.left = "captured")
    BY <2>1, <2>2 DEF Trees, Contents
  <2>4. t \notin Registry => v # PackedTree(t)
    BY <2>1, <2>3, PackedIs
  <2> QED
    BY <2>1, <2>2, <2>3, <2>4, TreeFades
<1>2. ASSUME NEW t \in Scope(m), q = [o EXCEPT !.w.spare[t].payload = "foreign"]
      PROVE  Fades(o, q)
  BY <1>2 DEF Fades, IsOutcome, IsWorld, WorldFields
<1>3. CASE q = [o EXCEPT !.w.projects = FALSE]
  BY <1>3 DEF Fades, IsOutcome, IsWorld, WorldFields
<1>4. \/ \E t \in Scope(m) : \/ q = [o EXCEPT !.w.bundle[t].payload = "foreign"]
                            \/ q = [o EXCEPT !.w.bundle[t].kept = "absent"]
                            \/ q = [o EXCEPT !.w.bundle[t].left = "captured"]
                            \/ q = [o EXCEPT !.w.spare[t].payload = "foreign"]
      \/ q = [o EXCEPT !.w.projects = FALSE]
  <2> DEFINE D(t) == {[o EXCEPT !.w.bundle[t].payload = "foreign"],
                      [o EXCEPT !.w.bundle[t].kept = "absent"],
                      [o EXCEPT !.w.bundle[t].left = "captured"],
                      [o EXCEPT !.w.spare[t].payload = "foreign"]}
  <2>1. q \in UNION {D(t) : t \in Scope(m)} \/ q = [o EXCEPT !.w.projects = FALSE]
    BY Zenon DEF BundleDeviations
  <2>2. ASSUME q \in UNION {D(t) : t \in Scope(m)} PROVE \E t \in Scope(m) : q \in D(t)
    <3> HIDE DEF D
    <3> QED
      BY <2>2
  <2> QED
    BY <2>1, <2>2
<1> QED
  BY <1>1, <1>2, <1>3, <1>4

(* No deviation adds a journal or a member.                                 *)
LEMMA StorageDeviationsFade ==
  ASSUME NEW m, NEW o, IsOutcome(o), NEW q \in StorageDeviations(o)
  PROVE  Fades(o, q)
<1> USE DEF Fades, IsOutcome, IsWorld, WorldFields
<1>1. ASSUME NEW p, q \in BackupDeviations(o, p)
      PROVE  Fades(o, q)
  <2>1. CASE q = [o EXCEPT !.w.backups[p].payload = "foreign"]
    BY <2>1
  <2>2. CASE q = [o EXCEPT !.w.backups[p].kept = "absent"]
    BY <2>2
  <2>3. CASE q = [o EXCEPT !.w.backups = [x \in DOMAIN @ \ {p} |-> @[x]]]
    BY <2>3
  <2> QED
    BY <1>1, <2>1, <2>2, <2>3 DEF BackupDeviations
<1>2. ASSUME NEW j \in DOMAIN o.w.members \cap DOMAIN o.w.journals, q \in RecordDeviations(o, j)
      PROVE  Fades(o, q)
  <2>1. CASE q = [o EXCEPT !.w.journals = [i \in DOMAIN @ \ {j} |-> @[i]]]
    BY <2>1
  <2>2. CASE q = [o EXCEPT !.w.members[j].reverted = ~@]
    BY <2>2
  <2>3. CASE q = [o EXCEPT !.w.members[j].journal = 0]
    BY <2>3
  <2>4. CASE q = [o EXCEPT !.w.members = [i \in DOMAIN @ \ {j} |-> @[i]]]
    BY <2>4
  <2> QED
    BY <1>2, <2>1, <2>2, <2>3, <2>4 DEF RecordDeviations
<1>3. ASSUME NEW s, q = [o EXCEPT !.w.stray = @ \cup {s}]
      PROVE  Fades(o, q)
  BY <1>3
<1>4. \/ \E p : q \in BackupDeviations(o, p)
      \/ \E j \in DOMAIN o.w.members \cap DOMAIN o.w.journals : q \in RecordDeviations(o, j)
      \/ \E s : q = [o EXCEPT !.w.stray = @ \cup {s}]
  <2> HIDE DEF Fades, IsOutcome, IsWorld, WorldFields
  <2>1. \/ q \in UNION {BackupDeviations(o, p) : p \in DOMAIN o.w.backups}
        \/ q \in UNION {RecordDeviations(o, j) : j \in DOMAIN o.w.members \cap DOMAIN o.w.journals}
        \/ q \in {[o EXCEPT !.w.stray = @ \cup {s}] : s \in {"backups", "logs", "store"}}
    BY Zenon DEF StorageDeviations
  <2> QED
    BY <2>1
<1> HIDE DEF Fades, IsOutcome, IsWorld, WorldFields
<1> QED
  BY <1>1, <1>2, <1>3, <1>4

(* A report that says something else leaves the host alone.                 *)
LEMMA ReportDeviationsFade ==
  ASSUME NEW o, IsOutcome(o), NEW q \in ReportDeviations(o)
  PROVE  Fades(o, q)
<1>1. PICK r : q = [o EXCEPT !.r = r]
  <2>1. \/ \E x : q = [o EXCEPT !.r.outcome = x]
        \/ \E t, p : q = [o EXCEPT !.r.cites[t] = p]
        \/ \E e : q = [o EXCEPT !.r.end = e]
        \/ \E e : q = [o EXCEPT !.r.events = e]
        \/ q = [o EXCEPT !.r.form = FALSE]
        \/ q = [o EXCEPT !.r.journal = 0]
    BY DEF ReportDeviations
  <2> QED
    BY <2>1
<1> QED
  BY <1>1 DEF Fades, IsOutcome, IsWorld

(* Nor does a change outside the scenario reach bundle or store.            *)
LEMMA HostDeviationsFade ==
  ASSUME NEW o, IsOutcome(o), NEW q \in HostDeviations(o)
  PROVE  Fades(o, q)
<1> USE DEF Fades, IsOutcome, IsWorld, WorldFields
<1>1. CASE q = [o EXCEPT !.w.outside = FALSE]
  BY <1>1
<1>2. CASE q = [o EXCEPT !.w.descriptor = "foreign"]
  BY <1>2
<1>3. CASE q = [o EXCEPT !.w.state = "foreign"]
  BY <1>3
<1> QED
  BY <1>1, <1>2, <1>3 DEF HostDeviations

(* So no deviation repairs a bundle or adds a record. *)
LEMMA DeviationsFade ==
  ASSUME NEW m, NEW o, IsOutcome(o), NEW q \in Deviations(m, o)
  PROVE  Fades(o, q)
BY LiveDeviationsFade, BundleDeviationsFade, StorageDeviationsFade, ReportDeviationsFade,
   HostDeviationsFade DEF Deviations

(* Nor do two of them. *)
LEMMA FadesOn ==
  ASSUME NEW o, NEW q, Fades(o, q), NEW p, Fades(q, p)
  PROVE  Fades(o, p)
BY DEF Fades

-----------------------------------------------------------------------------
(* What the engine does to bundle and store *)

\* What a command leaves, whatever it does wrong.
Leaves(c, b, o) ==
  /\ IsOutcome(o)
  /\ c # "capture" => \A t \in Targets \ Registry :
                         o.w.bundle[t] = PackedTree(t) => b.bundle[t] = PackedTree(t)
  /\ c = "rebuild" => \E run : /\ DOMAIN o.w.members \subseteq DOMAIN b.members \cup {run}
                               /\ DOMAIN o.w.journals \subseteq DOMAIN b.journals \cup {run}

(* The parts of an outcome. *)
LEMMA OutcomeFields ==
  ASSUME NEW w, IsWorld(w), NEW r
  PROVE  IsOutcome(Outcome(w, r)) /\ Outcome(w, r).w = w /\ Outcome(w, r).r = r
BY DEF Outcome, IsOutcome

(* A capture packs the trees of its scope. *)
LEMMA CaptureLeaves ==
  ASSUME NEW m, NEW b, IsWorld(b), \A t \in Scope(m) : b.live[t] \in Trees
  PROVE  Leaves("capture", b, Captured(m, b))
<1> DEFINE g == [t \in Targets |-> IF t \in Scope(m) THEN Packed(m, b, t) ELSE Gone]
           w == [b EXCEPT !.bundle = g, !.state = IF @ = "absent" THEN b.descriptor ELSE @]
<1>1. Gone \in Trees
  BY DEF Gone, Tree, Trees, Contents
<1>2. ASSUME NEW t \in Scope(m) PROVE Packed(m, b, t) \in Trees
  <2>1. [b.live[t] EXCEPT !.left = "absent"] \in Trees
    BY DEF Trees, Contents
  <2> QED
    BY <1>1, <2>1 DEF Packed
<1>3. g \in [Targets -> Trees]
  BY <1>1, <1>2
<1> HIDE DEF g
<1>4. IsWorld(w)
  BY <1>3 DEF IsWorld, WorldFields
<1> QED
  BY <1>4, OutcomeFields DEF Leaves, Captured, g

(* The spare capture writes a bundle of its own. *)
LEMMA CaptureSpareLeaves ==
  ASSUME NEW m, NEW b, IsWorld(b)
  PROVE  Leaves("captureSpare", b, CapturedSpare(m, b))
<1> DEFINE g == [t \in Targets |-> IF t \in Scope(m) THEN Packed(m, b, t) ELSE Gone]
           w == [b EXCEPT !.spare = g]
<1>1. IsWorld(w) /\ w.bundle = b.bundle
  BY DEF IsWorld, WorldFields
<1>2. CapturedSpare(m, b) = Outcome(w, Report("captured", NoCites, 0))
  BY DEF CapturedSpare
<1> HIDE DEF w
<1> QED
  BY <1>1, <1>2, OutcomeFields DEF Leaves

(* A restore records its run, and no other. *)
LEMMA RestoreLeaves ==
  ASSUME NEW m, NEW b, IsWorld(b), NEW S, NEW run
  PROVE  Leaves("rebuild", b, Restored(m, b, S, run))
<1> DEFINE live == [t \in Targets |-> IF t \in S THEN Applied(m, b, t) ELSE b.live[t]]
           backups == Extend(b.backups, {<<run, t>> : t \in S}, LAMBDA p : b.live[p[2]])
           journals == Extend(b.journals, {run}, LAMBDA j : Cites(run, S))
           members == Extend(b.members, {run}, LAMBDA j : [journal |-> run, reverted |-> FALSE])
           w == [b EXCEPT !.live = live, !.backups = backups, !.journals = journals,
                          !.members = members, !.state = b.descriptor]
<1>1. DOMAIN journals = DOMAIN b.journals \cup {run} /\ DOMAIN members = DOMAIN b.members \cup {run}
  BY DEF Extend
<1>2. Restored(m, b, S, run) = Outcome(w, Report("restored", Cites(run, S), 0))
  BY DEF Restored
<1>3. live = [t \in Targets |-> live[t]]
  OBVIOUS
<1> HIDE DEF live, backups, journals, members
<1>4. IsWorld(w) /\ w.bundle = b.bundle /\ w.members = members /\ w.journals = journals
  BY <1>3 DEF IsWorld, WorldFields
<1> HIDE DEF w
<1> QED
  BY <1>1, <1>2, <1>4, OutcomeFields DEF Leaves

(* A revert leaves the bundle alone. *)
LEMMA UndoLeaves ==
  ASSUME NEW b, IsWorld(b), NEW j, NEW cites
  PROVE  Leaves("revert", b, Undone(b, j, cites))
<1> DEFINE live == [t \in Targets |-> IF t \in DOMAIN cites THEN b.backups[cites[t]] ELSE b.live[t]]
           w == [b EXCEPT !.live = live, !.members[j].reverted = TRUE]
<1>1. live = [t \in Targets |-> live[t]]
  OBVIOUS
<1>2. Undone(b, j, cites) = Outcome(w, Report("reverted", cites, j))
  BY DEF Undone
<1> HIDE DEF live
<1>3. IsWorld(w) /\ w.bundle = b.bundle
  BY <1>1 DEF IsWorld, WorldFields
<1> HIDE DEF w
<1> QED
  BY <1>2, <1>3, OutcomeFields DEF Leaves

(* Commands that write nothing. *)
LEMMA QuietLeaves ==
  ASSUME NEW c, c # "rebuild", NEW b, IsWorld(b), NEW r
  PROVE  Leaves(c, b, Outcome(b, r))
BY OutcomeFields DEF Leaves

(* Every command of the engine leaves what Leaves says. *)
LEMMA EngineLeaves ==
  ASSUME NEW c \in Commands, NEW m, NEW b, IsWorld(b),
         c = "capture" => \A t \in Scope(m) : b.live[t] \in Trees
  PROVE  Leaves(c, b, Engine(c, m, b))
<1>1. CASE c = "capture"
  BY <1>1, CaptureLeaves DEF Engine
<1>2. CASE c = "captureSpare"
  BY <1>2, CaptureSpareLeaves DEF Engine
<1>3. CASE c = "rebuild"
  <2>1. Leaves("rebuild", b, Outcome(b, Report("skipped", NoCites, 0)))
    BY OutcomeFields DEF Leaves
  <2> QED
    BY <1>3, <2>1, RestoreLeaves DEF Engine, Rebuilt
<1>4. CASE c = "revert"
  <2>1. Reverted(b) = Outcome(b, Report("skipped", NoCites, 0))
        \/ Reverted(b) = Undone(b, Latest(b), b.journals[Latest(b)])
    BY DEF Reverted
  <2> QED
    BY <1>4, <2>1, UndoLeaves, QuietLeaves DEF Engine
<1>5. CASE c \in {"verify", "applyDryRun", "verifyAbsent", "verifyPresent"}
  <2>1. PICK r : Engine(c, m, b) = Outcome(b, r)
    BY <1>5 DEF Engine, Verified, DryRun, VerifiedTool
  <2> QED
    BY <1>5, <2>1, QuietLeaves
<1> QED
  BY <1>1, <1>2, <1>3, <1>4, <1>5 DEF Commands

(* And so does one that deviates. *)
LEMMA FadedLeaves ==
  ASSUME NEW c, NEW b, NEW o, Leaves(c, b, o), NEW q, Fades(o, q)
  PROVE  Leaves(c, b, q)
<1>1. c = "rebuild" => \E run : /\ DOMAIN q.w.members \subseteq DOMAIN b.members \cup {run}
                               /\ DOMAIN q.w.journals \subseteq DOMAIN b.journals \cup {run}
  BY DEF Leaves, Fades
<1> QED
  BY <1>1 DEF Leaves, Fades

-----------------------------------------------------------------------------
(* The order of the steps *)

Rebuilding == {"roundtrip", "generation", "migration", "restore"}

\* The position of the mutation in the journeys that rebuild.
MutateAt(m) ==
  IF m = "roundtrip" THEN (IF HasOptionalTargets(m) THEN 7 ELSE 4)
  ELSE IF m = "migration" THEN 4 ELSE IF m = "generation" THEN 3 ELSE 1

\* The rebuilds before position i.
Rebuilds(m, i) ==
  LET k == MutateAt(m)
  IN  IF i <= k + 1 THEN 0 ELSE IF i <= k + 5 THEN 1 ELSE IF i <= k + 7 THEN 2 ELSE 3

\* What step s at position i says about the step n after it, and n about s.
Ordered(m, i, s, n) ==
  /\ n = "capture" => s = "materialize"
  /\ s = "capture" => m \in {"roundtrip", "generation", "migration", "capture"}
  /\ m = "roundtrip" /\ s = "capture" => n = "compareSeed"
  /\ m = "roundtrip" /\ s = "captureSpare" => n = "compareOptional"
  /\ m = "roundtrip" /\ n = "removeOptional" => s = "compareSeed"
  /\ m = "roundtrip" /\ n = "captureSpare" => s = "removeOptional"
  /\ n = "transition" => s = "capture" /\ m = "migration"
  /\ s = "captureSpare" => m \in {"roundtrip", "capture"}
  /\ s = "rebuild" => n = "compareRestored" /\ m \in Rebuilding
  /\ s = "revert" => n = "compareMutated" /\ m \in Rebuilding
  /\ s = "applyDryRun" => n = "assertAbsent"
  /\ s = "verifyAbsent" => n = "installTool"
  /\ s = "verifyPresent" => n = "assertPresent"
  /\ n = "rebuild" => m \in Rebuilding
  /\ n = "rebuild" => \/ s \in {"mutate", "compareMutated"}
                      \/ s = "compareRestored" /\ Rebuilds(m, i + 1) = 2
  /\ m = "restore" /\ n \in {"mutate", "rebuild"} => s = "mutate"
  /\ m = "restore" /\ s = "rebuild" => Rebuilds(m, i) = 0
  /\ m \in Rebuilding =>
       Rebuilds(m, i + 1) = Rebuilds(m, i) + (IF s = "rebuild" THEN 1 ELSE 0)

(* The roundtrip of a module with optional targets (journey.go). *)
LEMMA RoundtripOptionalOrder ==
  ASSUME NEW m, m = "roundtrip", HasOptionalTargets(m), NEW i \in 1..Len(Journey(m)),
         Journey(m)[i] # "evaluate"
  PROVE  i + 1 \in 1..Len(Journey(m)) /\ Ordered(m, i, Journey(m)[i], Journey(m)[i + 1])
<1> DEFINE J == <<"materialize", "capture", "compareSeed", "removeOptional",
                  "captureSpare", "compareOptional", "mutate",
                  "rebuild", "compareRestored", "revert",
                  "compareMutated", "rebuild", "compareRestored",
                  "rebuild", "compareRestored", "verify", "evaluate">>
<1>1. Journey(m) = J
  <2>1. Journey(m) = RoundtripJourney(m)
    BY DEF Journey, V2
  <2> QED
    BY <2>1 DEF RoundtripJourney
<1>2. Len(J) = 17 /\ i \in 1..17
  BY <1>1
<1>3. J[1] = "materialize" /\ J[2] = "capture" /\ J[3] = "compareSeed"
      /\ J[4] = "removeOptional" /\ J[5] = "captureSpare" /\ J[6] = "compareOptional"
      /\ J[7] = "mutate" /\ J[8] = "rebuild" /\ J[9] = "compareRestored"
      /\ J[10] = "revert" /\ J[11] = "compareMutated" /\ J[12] = "rebuild"
      /\ J[13] = "compareRestored" /\ J[14] = "rebuild" /\ J[15] = "compareRestored"
      /\ J[16] = "verify" /\ J[17] = "evaluate"
  OBVIOUS
<1>4. i = 1 \/ i = 2 \/ i = 3 \/ i = 4 \/ i = 5 \/ i = 6 \/ i = 7 \/ i = 8 \/ i = 9
      \/ i = 10 \/ i = 11 \/ i = 12 \/ i = 13 \/ i = 14 \/ i = 15 \/ i = 16 \/ i = 17
  BY <1>2
<1>5. i # 17
  BY <1>1, <1>3
<1>6. \A j \in Nat : Rebuilds(m, j) =
        IF j <= 8 THEN 0 ELSE IF j <= 12 THEN 1 ELSE IF j <= 14 THEN 2 ELSE 3
  BY DEF Rebuilds, MutateAt
<1> HIDE DEF J
<1>7. Ordered(m, i, J[i], J[i + 1])
  <2>1. CASE i = 1 \/ i = 2 \/ i = 3 \/ i = 4
    BY <1>3, <2>1, <1>6 DEF Ordered, Rebuilding
  <2>2. CASE i = 5 \/ i = 6 \/ i = 7 \/ i = 8
    BY <1>3, <2>2, <1>6 DEF Ordered, Rebuilding
  <2>3. CASE i = 9 \/ i = 10 \/ i = 11 \/ i = 12
    BY <1>3, <2>3, <1>6 DEF Ordered, Rebuilding
  <2>4. CASE i = 13 \/ i = 14 \/ i = 15 \/ i = 16
    BY <1>3, <2>4, <1>6 DEF Ordered, Rebuilding
  <2> QED
    BY <1>4, <1>5, <2>1, <2>2, <2>3, <2>4
<1> QED
  BY <1>1, <1>2, <1>5, <1>7

(* The roundtrip of a module without. *)
LEMMA RoundtripRequiredOrder ==
  ASSUME NEW m, m = "roundtrip", ~HasOptionalTargets(m), NEW i \in 1..Len(Journey(m)),
         Journey(m)[i] # "evaluate"
  PROVE  i + 1 \in 1..Len(Journey(m)) /\ Ordered(m, i, Journey(m)[i], Journey(m)[i + 1])
<1> DEFINE J == <<"materialize", "capture", "compareSeed", "mutate", "rebuild",
                  "compareRestored", "revert", "compareMutated",
                  "rebuild", "compareRestored", "rebuild",
                  "compareRestored", "verify", "evaluate">>
<1>1. Journey(m) = J
  <2>1. Journey(m) = RoundtripJourney(m)
    BY DEF Journey, V2
  <2> QED
    BY <2>1 DEF RoundtripJourney
<1>2. Len(J) = 14 /\ i \in 1..14
  BY <1>1
<1>3. J[1] = "materialize" /\ J[2] = "capture" /\ J[3] = "compareSeed"
      /\ J[4] = "mutate" /\ J[5] = "rebuild" /\ J[6] = "compareRestored"
      /\ J[7] = "revert" /\ J[8] = "compareMutated" /\ J[9] = "rebuild"
      /\ J[10] = "compareRestored" /\ J[11] = "rebuild" /\ J[12] = "compareRestored"
      /\ J[13] = "verify" /\ J[14] = "evaluate"
  OBVIOUS
<1>4. i = 1 \/ i = 2 \/ i = 3 \/ i = 4 \/ i = 5 \/ i = 6 \/ i = 7 \/ i = 8 \/ i = 9
      \/ i = 10 \/ i = 11 \/ i = 12 \/ i = 13 \/ i = 14
  BY <1>2
<1>5. i # 14
  BY <1>1, <1>3
<1>6. \A j \in Nat : Rebuilds(m, j) =
        IF j <= 5 THEN 0 ELSE IF j <= 9 THEN 1 ELSE IF j <= 11 THEN 2 ELSE 3
  BY DEF Rebuilds, MutateAt
<1> HIDE DEF J
<1>7. Ordered(m, i, J[i], J[i + 1])
  <2>1. CASE i = 1 \/ i = 2 \/ i = 3 \/ i = 4
    BY <1>3, <2>1, <1>6 DEF Ordered, Rebuilding
  <2>2. CASE i = 5 \/ i = 6 \/ i = 7 \/ i = 8
    BY <1>3, <2>2, <1>6 DEF Ordered, Rebuilding
  <2>3. CASE i = 9 \/ i = 10 \/ i = 11 \/ i = 12
    BY <1>3, <2>3, <1>6 DEF Ordered, Rebuilding
  <2>4. CASE i = 13
    BY <1>3, <2>4, <1>6 DEF Ordered, Rebuilding
  <2> QED
    BY <1>4, <1>5, <2>1, <2>2, <2>3, <2>4
<1> QED
  BY <1>1, <1>2, <1>5, <1>7

(* The migration journey (v2_journey.go). *)
LEMMA MigrationOrder ==
  ASSUME NEW m, m = "migration", NEW i \in 1..Len(Journey(m)),
         Journey(m)[i] # "evaluate"
  PROVE  i + 1 \in 1..Len(Journey(m)) /\ Ordered(m, i, Journey(m)[i], Journey(m)[i + 1])
<1> DEFINE J == <<"materialize", "capture", "transition", "mutate", "rebuild",
                  "compareRestored", "revert", "compareMutated",
                  "rebuild", "compareRestored", "rebuild",
                  "compareRestored", "verify", "evaluate">>
<1>1. Journey(m) = J
  <2>1. Journey(m) = V2Journey(m)
    BY DEF Journey, V2
  <2> QED
    BY <2>1 DEF V2Journey
<1>2. Len(J) = 14 /\ i \in 1..14
  BY <1>1
<1>3. J[1] = "materialize" /\ J[2] = "capture" /\ J[3] = "transition" /\ J[4] = "mutate"
      /\ J[5] = "rebuild" /\ J[6] = "compareRestored" /\ J[7] = "revert"
      /\ J[8] = "compareMutated" /\ J[9] = "rebuild" /\ J[10] = "compareRestored"
      /\ J[11] = "rebuild" /\ J[12] = "compareRestored" /\ J[13] = "verify"
      /\ J[14] = "evaluate"
  OBVIOUS
<1>4. i = 1 \/ i = 2 \/ i = 3 \/ i = 4 \/ i = 5 \/ i = 6 \/ i = 7 \/ i = 8 \/ i = 9
      \/ i = 10 \/ i = 11 \/ i = 12 \/ i = 13 \/ i = 14
  BY <1>2
<1>5. i # 14
  BY <1>1, <1>3
<1>6. \A j \in Nat : Rebuilds(m, j) =
        IF j <= 5 THEN 0 ELSE IF j <= 9 THEN 1 ELSE IF j <= 11 THEN 2 ELSE 3
  BY DEF Rebuilds, MutateAt
<1> HIDE DEF J
<1>7. Ordered(m, i, J[i], J[i + 1])
  <2>1. CASE i = 1 \/ i = 2 \/ i = 3 \/ i = 4
    BY <1>3, <2>1, <1>6 DEF Ordered, Rebuilding
  <2>2. CASE i = 5 \/ i = 6 \/ i = 7 \/ i = 8
    BY <1>3, <2>2, <1>6 DEF Ordered, Rebuilding
  <2>3. CASE i = 9 \/ i = 10 \/ i = 11 \/ i = 12
    BY <1>3, <2>3, <1>6 DEF Ordered, Rebuilding
  <2>4. CASE i = 13
    BY <1>3, <2>4, <1>6 DEF Ordered, Rebuilding
  <2> QED
    BY <1>4, <1>5, <2>1, <2>2, <2>3, <2>4
<1> QED
  BY <1>1, <1>2, <1>5, <1>7

(* The journey within one generation. *)
LEMMA GenerationOrder ==
  ASSUME NEW m, m = "generation", NEW i \in 1..Len(Journey(m)),
         Journey(m)[i] # "evaluate"
  PROVE  i + 1 \in 1..Len(Journey(m)) /\ Ordered(m, i, Journey(m)[i], Journey(m)[i + 1])
<1> DEFINE J == <<"materialize", "capture", "mutate", "rebuild", "compareRestored",
                  "revert", "compareMutated", "rebuild",
                  "compareRestored", "rebuild", "compareRestored",
                  "verify", "evaluate">>
<1>1. Journey(m) = J
  <2>1. Journey(m) = V2Journey(m)
    BY DEF Journey, V2
  <2> QED
    BY <2>1 DEF V2Journey
<1>2. Len(J) = 13 /\ i \in 1..13
  BY <1>1
<1>3. J[1] = "materialize" /\ J[2] = "capture" /\ J[3] = "mutate" /\ J[4] = "rebuild"
      /\ J[5] = "compareRestored" /\ J[6] = "revert" /\ J[7] = "compareMutated"
      /\ J[8] = "rebuild" /\ J[9] = "compareRestored" /\ J[10] = "rebuild"
      /\ J[11] = "compareRestored" /\ J[12] = "verify" /\ J[13] = "evaluate"
  OBVIOUS
<1>4. i = 1 \/ i = 2 \/ i = 3 \/ i = 4 \/ i = 5 \/ i = 6 \/ i = 7 \/ i = 8 \/ i = 9
      \/ i = 10 \/ i = 11 \/ i = 12 \/ i = 13
  BY <1>2
<1>5. i # 13
  BY <1>1, <1>3
<1>6. \A j \in Nat : Rebuilds(m, j) =
        IF j <= 4 THEN 0 ELSE IF j <= 8 THEN 1 ELSE IF j <= 10 THEN 2 ELSE 3
  BY DEF Rebuilds, MutateAt
<1> HIDE DEF J
<1>7. Ordered(m, i, J[i], J[i + 1])
  <2>1. CASE i = 1 \/ i = 2 \/ i = 3 \/ i = 4
    BY <1>3, <2>1, <1>6 DEF Ordered, Rebuilding
  <2>2. CASE i = 5 \/ i = 6 \/ i = 7 \/ i = 8
    BY <1>3, <2>2, <1>6 DEF Ordered, Rebuilding
  <2>3. CASE i = 9 \/ i = 10 \/ i = 11 \/ i = 12
    BY <1>3, <2>3, <1>6 DEF Ordered, Rebuilding
  <2> QED
    BY <1>4, <1>5, <2>1, <2>2, <2>3
<1> QED
  BY <1>1, <1>2, <1>5, <1>7

(* The journey of an install verifier (install_journey.go). *)
LEMMA InstallOrder ==
  ASSUME NEW m, m = "install", NEW i \in 1..Len(Journey(m)),
         Journey(m)[i] # "evaluate"
  PROVE  i + 1 \in 1..Len(Journey(m)) /\ Ordered(m, i, Journey(m)[i], Journey(m)[i + 1])
<1> DEFINE J == <<"assertAbsent", "applyDryRun", "assertAbsent", "verifyAbsent",
                  "installTool", "verifyPresent", "assertPresent",
                  "evaluate">>
<1>1. Journey(m) = J
  <2>1. Journey(m) = InstallJourney
    BY DEF Journey, V2
  <2> QED
    BY <2>1 DEF InstallJourney
<1>2. Len(J) = 8 /\ i \in 1..8
  BY <1>1
<1>3. J[1] = "assertAbsent" /\ J[2] = "applyDryRun" /\ J[3] = "assertAbsent"
      /\ J[4] = "verifyAbsent" /\ J[5] = "installTool" /\ J[6] = "verifyPresent"
      /\ J[7] = "assertPresent" /\ J[8] = "evaluate"
  OBVIOUS
<1>4. i = 1 \/ i = 2 \/ i = 3 \/ i = 4 \/ i = 5 \/ i = 6 \/ i = 7 \/ i = 8
  BY <1>2
<1>5. i # 8
  BY <1>1, <1>3
<1>6. \A j \in Nat : Rebuilds(m, j) =
        IF j <= 2 THEN 0 ELSE IF j <= 6 THEN 1 ELSE IF j <= 8 THEN 2 ELSE 3
  BY DEF Rebuilds, MutateAt
<1> HIDE DEF J
<1>7. Ordered(m, i, J[i], J[i + 1])
  BY <1>3, <1>4, <1>5, <1>6 DEF Ordered, Rebuilding
<1> QED
  BY <1>1, <1>2, <1>5, <1>7

(* The journey of a capture contract (capture_journey.go). *)
LEMMA CaptureOptionalOrder ==
  ASSUME NEW m, m = "capture", HasOptionalTargets(m), NEW i \in 1..Len(Journey(m)),
         Journey(m)[i] # "evaluate"
  PROVE  i + 1 \in 1..Len(Journey(m)) /\ Ordered(m, i, Journey(m)[i], Journey(m)[i + 1])
<1> DEFINE J == <<"materialize", "capture", "removeOptional", "captureSpare",
                  "evaluate">>
<1>1. Journey(m) = J
  <2>1. Journey(m) = CaptureJourney(m)
    BY DEF Journey, V2
  <2> QED
    BY <2>1 DEF CaptureJourney
<1>2. Len(J) = 5 /\ i \in 1..5
  BY <1>1
<1>3. J[1] = "materialize" /\ J[2] = "capture" /\ J[3] = "removeOptional"
      /\ J[4] = "captureSpare" /\ J[5] = "evaluate"
  OBVIOUS
<1>4. i = 1 \/ i = 2 \/ i = 3 \/ i = 4 \/ i = 5
  BY <1>2
<1>5. i # 5
  BY <1>1, <1>3
<1>6. \A j \in Nat : Rebuilds(m, j) =
        IF j <= 2 THEN 0 ELSE IF j <= 6 THEN 1 ELSE IF j <= 8 THEN 2 ELSE 3
  BY DEF Rebuilds, MutateAt
<1> HIDE DEF J
<1>7. Ordered(m, i, J[i], J[i + 1])
  BY <1>3, <1>4, <1>5, <1>6 DEF Ordered, Rebuilding
<1> QED
  BY <1>1, <1>2, <1>5, <1>7

(* The one that stops because no target is optional. *)
LEMMA CaptureRequiredOrder ==
  ASSUME NEW m, m = "capture", ~HasOptionalTargets(m), NEW i \in 1..Len(Journey(m)),
         Journey(m)[i] # "evaluate"
  PROVE  i + 1 \in 1..Len(Journey(m)) /\ Ordered(m, i, Journey(m)[i], Journey(m)[i + 1])
<1> DEFINE J == <<"materialize", "capture", "requireOptional", "evaluate">>
<1>1. Journey(m) = J
  <2>1. Journey(m) = CaptureJourney(m)
    BY DEF Journey, V2
  <2> QED
    BY <2>1 DEF CaptureJourney
<1>2. Len(J) = 4 /\ i \in 1..4
  BY <1>1
<1>3. J[1] = "materialize" /\ J[2] = "capture" /\ J[3] = "requireOptional"
      /\ J[4] = "evaluate"
  OBVIOUS
<1>4. i = 1 \/ i = 2 \/ i = 3 \/ i = 4
  BY <1>2
<1>5. i # 4
  BY <1>1, <1>3
<1>6. \A j \in Nat : Rebuilds(m, j) =
        IF j <= 2 THEN 0 ELSE IF j <= 6 THEN 1 ELSE IF j <= 8 THEN 2 ELSE 3
  BY DEF Rebuilds, MutateAt
<1> HIDE DEF J
<1>7. Ordered(m, i, J[i], J[i + 1])
  BY <1>3, <1>4, <1>5, <1>6 DEF Ordered, Rebuilding
<1> QED
  BY <1>1, <1>2, <1>5, <1>7

(* The journey of a restore contract (restore_journey.go). *)
LEMMA RestoreOrder ==
  ASSUME NEW m, m = "restore", NEW i \in 1..Len(Journey(m)),
         Journey(m)[i] # "evaluate"
  PROVE  i + 1 \in 1..Len(Journey(m)) /\ Ordered(m, i, Journey(m)[i], Journey(m)[i + 1])
<1> DEFINE J == <<"mutate", "rebuild", "compareRestored", "revert", "compareMutated",
                  "evaluate">>
<1>1. Journey(m) = J
  <2>1. Journey(m) = RestoreJourney
    BY DEF Journey, V2
  <2> QED
    BY <2>1 DEF RestoreJourney
<1>2. Len(J) = 6 /\ i \in 1..6
  BY <1>1
<1>3. J[1] = "mutate" /\ J[2] = "rebuild" /\ J[3] = "compareRestored" /\ J[4] = "revert"
      /\ J[5] = "compareMutated" /\ J[6] = "evaluate"
  OBVIOUS
<1>4. i = 1 \/ i = 2 \/ i = 3 \/ i = 4 \/ i = 5 \/ i = 6
  BY <1>2
<1>5. i # 6
  BY <1>1, <1>3
<1>6. \A j \in Nat : Rebuilds(m, j) =
        IF j <= 2 THEN 0 ELSE IF j <= 6 THEN 1 ELSE IF j <= 8 THEN 2 ELSE 3
  BY DEF Rebuilds, MutateAt
<1> HIDE DEF J
<1>7. Ordered(m, i, J[i], J[i + 1])
  BY <1>3, <1>4, <1>5, <1>6 DEF Ordered, Rebuilding
<1> QED
  BY <1>1, <1>2, <1>5, <1>7

(* Every step of every journey but the last has a successor, in this order.  *)
LEMMA StepOrder ==
  ASSUME NEW m \in Modes, NEW i \in 1..Len(Journey(m)), Journey(m)[i] # "evaluate"
  PROVE  i + 1 \in 1..Len(Journey(m)) /\ Ordered(m, i, Journey(m)[i], Journey(m)[i + 1])
BY RoundtripOptionalOrder, RoundtripRequiredOrder, MigrationOrder, GenerationOrder,
   InstallOrder, CaptureOptionalOrder, CaptureRequiredOrder, RestoreOrder DEF Modes

(* Where every journey begins. *)
LEMMA FirstStep ==
  ASSUME NEW m \in Modes
  PROVE  /\ 1 \in 1..Len(Journey(m)) /\ Journey(m)[1] \in {"materialize", "assertAbsent", "mutate"}
         /\ Rebuilds(m, 1) = 0
<1>1. Rebuilds(m, 1) = 0
  BY DEF Rebuilds, MutateAt
<1>2. CASE m = "roundtrip"
  <2>1. Journey(m) = RoundtripJourney(m)
    BY <1>2 DEF Journey, V2
  <2>2. CASE HasOptionalTargets(m)
    BY <1>1, <2>1, <2>2 DEF RoundtripJourney
  <2>3. CASE ~HasOptionalTargets(m)
    BY <1>1, <2>1, <2>3 DEF RoundtripJourney
  <2> QED
    BY <2>2, <2>3
<1>3. CASE m \in V2
  <2>1. Journey(m) = V2Journey(m)
    BY <1>3 DEF Journey, V2
  <2> QED
    BY <1>1, <2>1 DEF V2Journey
<1>4. CASE m = "install"
  <2>1. Journey(m) = InstallJourney
    BY <1>4 DEF Journey, V2
  <2> QED
    BY <1>1, <2>1 DEF InstallJourney
<1>5. CASE m = "capture"
  <2>1. Journey(m) = CaptureJourney(m)
    BY <1>5 DEF Journey, V2
  <2> QED
    BY <1>1, <2>1 DEF CaptureJourney
<1>6. CASE m = "restore"
  <2>1. Journey(m) = RestoreJourney
    BY <1>6 DEF Journey, V2
  <2> QED
    BY <1>1, <2>1 DEF RestoreJourney
<1> QED
  BY <1>2, <1>3, <1>4, <1>5, <1>6 DEF Modes, V2

-----------------------------------------------------------------------------
(* The inductive invariant *)

CompareSteps == {"compareSeed", "compareOptional", "compareRestored", "compareMutated",
                 "assertAbsent", "assertPresent", "requireOptional"}

Running == pc \in {"select", "setup", "journey"}

\* The run is inside its journey, on a host.
Shaped ==
  /\ mode \in Modes /\ pos \in 1..Len(Journey(mode))
  /\ IsWorld(world)
  /\ exec = [f \in {"iteration", "binding", "transition"} |-> exec[f]]
  /\ exec.iteration \in Nat

\* Step n cannot pass on host w.
Doomed(n, m, w) ==
  \/ n \in CompareSteps /\ ~Holds(n, m, w)
  \/ n = "installTool" /\ w.tool

\* The harness has not begun.
Fresh ==
  pc \in {"select", "setup"} =>
    pos = 1 /\ exec.iteration = 0 /\ ~exec.transition.applied /\ genuine

\* What the harness knows of the live host before a command that relies on it.
LiveKnown ==
  pc = "journey" =>
    /\ Step = "capture" \/ (mode = "roundtrip" /\ Step = "removeOptional") => CompareCaptureSeed(mode, world)
    /\ mode = "roundtrip" /\ Step = "captureSpare" => CompareOptionalAbsent(mode, world)
    /\ Step = "rebuild" /\ exec.iteration # 2 => CompareMutated(mode, world)

\* What it knows of the bundle: the one the transition keeps, and its own.
BundleKnown ==
  /\ pc = "journey" /\ Step = "transition" => \A t \in Scope(mode) : world.bundle[t] = PackedTree(t)
  /\ exec.transition.applied => \A t \in Scope(mode) : exec.transition.bundle[t] = PackedTree(t)
  /\ pc = "journey" /\ mode = "restore" /\ Step \in {"mutate", "rebuild"} =>
       world.bundle[Only] = PackedTree(Only)

IterationKnown ==
  pc = "journey" /\ mode \in Rebuilding => exec.iteration = Rebuilds(mode, pos)

\* A broken promise dooms the next step; the verdict is not given before the end.
Judged ==
  /\ Running => result = None
  /\ pc = "journey" => genuine \/ Doomed(Step, mode, world)
  /\ PassedIsGenuine

HarnessInv ==
  /\ Shaped /\ Fresh /\ LiveKnown /\ BundleKnown /\ IterationKnown /\ Judged

-----------------------------------------------------------------------------
(* What an accepted command has shown *)

(* An accepted capture packed the seed, or the comparison that follows fails. *)
LEMMA CaptureKept ==
  ASSUME NEW m \in {"roundtrip", "generation", "migration", "capture"},
         NEW b, IsWorld(b), CompareCaptureSeed(m, b),
         NEW o, IsOutcome(o), CapturePasses(m, o), NEW n, m = "roundtrip" => n = "compareSeed"
  PROVE  /\ \A t \in Scope(m) \ Registry : o.w.bundle[t] = PackedTree(t)
         /\ CapturePromise(m, b, o.w) \/ Doomed(n, m, o.w)
<1>1. ASSUME NEW t \in Scope(m) \ Registry PROVE o.w.bundle[t] = PackedTree(t)
  <2>1. CASE m = "roundtrip"
    <3>1. InspectCaptureArtifact(m, o.w)
      BY <2>1 DEF CapturePasses
    <3>2. o.w.bundle[t].payload = "captured" /\ o.w.bundle[t].kept = PackedTree(t).kept
          /\ o.w.bundle[t].left = "absent"
      BY <3>1 DEF InspectCaptureArtifact, PayloadSet, ArtifactPayload, ArtifactWitnesses
    <3>3. o.w.bundle[t] \in Trees
      BY ScopeInTargets DEF IsOutcome, IsWorld
    <3> QED
      BY <3>2, <3>3 DEF Trees, PackedTree, CapturedTree, Tree, Witness
  <2>2. CASE m = "capture"
    BY <2>2 DEF CapturePasses, InspectCaptureContractArtifact
  <2>3. CASE m \in V2
    BY <2>3 DEF CapturePasses, InspectV2CaptureArtifact, V2
  <2> QED
    BY <2>1, <2>2, <2>3 DEF V2
<1>2. ASSUME m = "roundtrip", ~Doomed(n, m, o.w) PROVE o.w.live = b.live
  <2>1. CompareCaptureSeed(m, o.w) /\ Scope(m) = Targets
    BY <1>2 DEF Doomed, CompareSteps, Holds, Scope
  <2>2. \A t \in Targets : o.w.live[t] = b.live[t]
    BY <2>1 DEF CompareCaptureSeed, Compare
  <2>3. o.w.live = [t \in Targets |-> o.w.live[t]] /\ b.live = [t \in Targets |-> b.live[t]]
    BY DEF IsOutcome, IsWorld
  <2> QED
    BY <2>2, <2>3, Zenon
<1> QED
  BY <1>1, <1>2 DEF CapturePromise

(* The same for the capture without the optional sources. *)
LEMMA SpareKept ==
  ASSUME NEW m \in {"roundtrip", "capture"}, NEW b, IsWorld(b),
         NEW n, m = "roundtrip" => n = "compareOptional" /\ CompareOptionalAbsent(m, b),
         NEW o, IsOutcome(o), CaptureSparePasses(m, o)
  PROVE  SparePromise(m, b, o.w) \/ Doomed(n, m, o.w)
<1>1. OptionalAbsentArtifact(m, o.w)
  BY DEF CaptureSparePasses, CaptureContractOptionalOutcome
<1>2. ASSUME m = "roundtrip", ~Doomed(n, m, o.w) PROVE o.w.live = b.live
  <2>1. CompareOptionalAbsent(m, o.w) /\ Scope(m) = Targets
    BY <1>2 DEF Doomed, CompareSteps, Holds, Scope
  <2>2. \A t \in Targets : o.w.live[t] = b.live[t]
    BY <1>2, <2>1 DEF CompareOptionalAbsent, Compare
  <2>3. o.w.live = [t \in Targets |-> o.w.live[t]] /\ b.live = [t \in Targets |-> b.live[t]]
    BY DEF IsOutcome, IsWorld
  <2> QED
    BY <2>2, <2>3, Zenon
<1> QED
  BY <1>1, <1>2 DEF SparePromise, OptionalAbsentArtifact

(* Exactly one name added, and none but `run`: it is `run`. *)
LEMMA OneAdded ==
  ASSUME NEW f, NEW g, NEW run, DOMAIN g \subseteq DOMAIN f \cup {run},
         Cardinality(Added(f, g)) = 1
  PROVE  Added(f, g) = {run}
<1>1. Added(f, g) \subseteq {run}
  BY DEF Added
<1>2. Added(f, g) # {}
  BY FS_EmptySet
<1> QED
  BY <1>1, <1>2

(* A rebuild whose storage is accepted left one record that names fresh backups *)
(* of what it replaced.                                                         *)
LEMMA RecordKept ==
  ASSUME NEW m, NEW b, NEW o, Leaves("rebuild", b, o), CompareMutated(m, b),
         BackupsBound(m, b, o.w, o.r.cites), NewRestoreJournal(b, o.w),
         \A j \in Added(b.journals, o.w.journals) :
            JournalEntries(o.w, j, o.r.cites) /\ LegacyStoreBinding(b, o.w, j)
  PROVE  \E j \in (DOMAIN o.w.journals \ DOMAIN b.journals) \cap DOMAIN o.w.members :
            /\ o.w.members[j] = [journal |-> j, reverted |-> FALSE]
            /\ \A t \in Scope(m) : LET p == o.w.journals[j][t] IN
                 /\ p \in DOMAIN o.w.backups \ DOMAIN b.backups
                 /\ t \notin Registry => o.w.backups[p] = b.live[t]
            /\ \A i \in DOMAIN b.members : i \in DOMAIN o.w.members /\ o.w.members[i] = b.members[i]
<1>1. PICK run : /\ DOMAIN o.w.members \subseteq DOMAIN b.members \cup {run}
                 /\ DOMAIN o.w.journals \subseteq DOMAIN b.journals \cup {run}
  BY DEF Leaves
<1>2. Added(b.journals, o.w.journals) = {run}
  BY <1>1, OneAdded DEF NewRestoreJournal
<1>3. JournalEntries(o.w, run, o.r.cites) /\ LegacyStoreBinding(b, o.w, run)
  BY <1>2
<1>4. Added(b.members, o.w.members) = {run}
  <2>1. Cardinality(Added(b.members, o.w.members)) = 1
    BY <1>3 DEF LegacyStoreBinding
  <2> QED
    BY <1>1, <2>1, OneAdded
<1>5. run \in (DOMAIN o.w.journals \ DOMAIN b.journals) \cap DOMAIN o.w.members
  BY <1>2, <1>4 DEF Added
<1>6. o.w.members[run] = [journal |-> run, reverted |-> FALSE]
  BY <1>3, <1>4 DEF LegacyStoreBinding
<1>7. ASSUME NEW t \in Scope(m)
      PROVE  /\ o.w.journals[run][t] \in DOMAIN o.w.backups \ DOMAIN b.backups
             /\ t \notin Registry => o.w.backups[o.w.journals[run][t]] = b.live[t]
  <2>1. o.w.journals[run] = o.r.cites
    BY <1>3 DEF JournalEntries
  <2>2. o.r.cites[t] \in Added(b.backups, o.w.backups)
        /\ FixtureBackup(m, t, o.w.backups[o.r.cites[t]])
    BY DEF BackupsBound
  <2>3. b.live[t] = MutatedTree(m, t)
    BY DEF CompareMutated, Compare
  <2> QED
    BY <2>1, <2>2, <2>3 DEF FixtureBackup, Added
<1>8. \A i \in DOMAIN b.members : i \in DOMAIN o.w.members /\ o.w.members[i] = b.members[i]
  BY <1>3 DEF LegacyStoreBinding, OnlyAdds
<1> QED
  BY <1>5, <1>6, <1>7, <1>8

(* An accepted rebuild kept the promise of one, or the comparison fails. *)
LEMMA RebuildKept ==
  ASSUME NEW m \in Rebuilding, NEW b, NEW o, Leaves("rebuild", b, o), NEW x, NEW n,
         RebuildPasses(m, b, o, x), n = "compareRestored",
         x.iteration # 2 => CompareMutated(m, b), m = "restore" => x.iteration # 2,
         m = "restore" => b.bundle[Only] = PackedTree(Only),
         x.transition.applied => \A t \in Scope(m) : x.transition.bundle[t] = PackedTree(t)
  PROVE  \/ /\ RebuildPromise(m, b, o.w, x.iteration = 2)
            /\ m = "migration" => o.w.descriptor = "new" /\ o.w.bundle = x.transition.bundle
         \/ Doomed(n, m, o.w)
<1>1. CASE ~CompareRestored(m, o.w)
  BY <1>1 DEF Doomed, CompareSteps, Holds
<1>2. ASSUME m = "roundtrip", NEW t \in Scope(m) \ Registry
      PROVE  o.w.bundle[t] = PackedTree(t) /\ b.bundle[t] = PackedTree(t)
  <2>1. InspectCaptureArtifact(m, o.w)
    BY <1>2 DEF RebuildPasses, Rebuild
  <2>2. o.w.bundle[t].payload = "captured" /\ o.w.bundle[t].kept = PackedTree(t).kept
        /\ o.w.bundle[t].left = "absent"
    BY <2>1 DEF InspectCaptureArtifact, PayloadSet, ArtifactPayload, ArtifactWitnesses
  <2>3. t \in Targets \ Registry /\ o.w.bundle[t] \in Trees
    BY ScopeInTargets DEF IsOutcome, IsWorld, Leaves
  <2>4. o.w.bundle[t] = PackedTree(t)
    BY <2>2, <2>3 DEF Trees, PackedTree, CapturedTree, Tree, Witness
  <2> QED
    BY <2>3, <2>4 DEF Leaves
<1>3. ASSUME m = "migration"
      PROVE  /\ b.bundle = x.transition.bundle /\ o.w.bundle = x.transition.bundle
             /\ o.w.descriptor = "new" /\ x.transition.applied
  BY <1>3 DEF RebuildPasses, RebuildV2, TransitionBundle, TransitionReinitialized
<1>4. \A t \in Scope(m) \ Registry : m \in {"roundtrip", "migration"} => o.w.bundle[t] = b.bundle[t]
  BY <1>2, <1>3
<1>5. ASSUME NEW t \in Scope(m) \ Registry PROVE b.bundle[t] = PackedTree(t) \/ m = "generation"
  <2>1. m = "restore" => t = Only
    BY DEF Scope
  <2> QED
    BY <1>2, <1>3, <2>1 DEF Rebuilding
<1>6. ASSUME x.iteration = 2
      PROVE  b.backups = o.w.backups /\ b.journals = o.w.journals /\ b.members = o.w.members
  BY <1>6 DEF RebuildPasses, Rebuild, RebuildV2, RebuildStorage, V2RebuildStorage, StorageUnchanged,
              Rebuilding
<1>7. ASSUME x.iteration # 2
      PROVE  /\ BackupsBound(m, b, o.w, o.r.cites) /\ NewRestoreJournal(b, o.w)
             /\ \A j \in Added(b.journals, o.w.journals) :
                  JournalEntries(o.w, j, o.r.cites) /\ LegacyStoreBinding(b, o.w, j)
  <2>1. CASE m \in {"roundtrip", "restore"}
    <3>1. RebuildStorage(m, b, o.w, o.r, FALSE)
      BY <1>7, <2>1 DEF RebuildPasses, Rebuild, RebuildRestoreContract
    <3> QED
      BY <3>1 DEF RebuildStorage
  <2>2. CASE m \in V2
    <3>1. V2RebuildStorage(m, b, o.w, o.r, FALSE)
      BY <1>7, <2>2 DEF RebuildPasses, RebuildV2, V2
    <3> QED
      BY <3>1 DEF V2RebuildStorage, V2Transaction, V2Committed
  <2> QED
    BY <2>1, <2>2 DEF Rebuilding, V2
<1>8. ASSUME CompareRestored(m, o.w), x.iteration = 2
      PROVE  RebuildPromise(m, b, o.w, x.iteration = 2)
  BY <1>4, <1>5, <1>6, <1>8 DEF RebuildPromise
<1>9. ASSUME CompareRestored(m, o.w), x.iteration # 2
      PROVE  RebuildPromise(m, b, o.w, x.iteration = 2)
  <2>1. \E j \in (DOMAIN o.w.journals \ DOMAIN b.journals) \cap DOMAIN o.w.members :
            /\ o.w.members[j] = [journal |-> j, reverted |-> FALSE]
            /\ \A t \in Scope(m) : LET p == o.w.journals[j][t] IN
                 /\ p \in DOMAIN o.w.backups \ DOMAIN b.backups
                 /\ t \notin Registry => o.w.backups[p] = b.live[t]
            /\ \A i \in DOMAIN b.members : i \in DOMAIN o.w.members /\ o.w.members[i] = b.members[i]
    BY <1>7, <1>9, RecordKept
  <2> QED
    BY <1>4, <1>5, <1>9, <2>1 DEF RebuildPromise
<1> QED
  BY <1>1, <1>3, <1>8, <1>9

(* An accepted revert consumed the member of the first rebuild. *)
LEMMA RevertKept ==
  ASSUME NEW m \in Rebuilding, NEW b, NEW o, NEW x, RevertPasses(m, b, o, x),
         NEW n, n = "compareMutated"
  PROVE  RevertPromise(m, b, o.w, x.binding) \/ Doomed(n, m, o.w)
<1>1. Marked(b, o.w, x.binding.journal)
  BY DEF RevertPasses, Revert, RevertRestoreContract, RevertV2, LegacyRevertStorage, V2RevertStorage
<1> QED
  BY <1>1 DEF RevertPromise, Marked, Doomed, CompareSteps, Holds

(* Whatever command was accepted kept its promise, or the run stops at the next step. *)
LEMMA PromiseKept ==
  ASSUME NEW c \in Commands, NEW m \in Modes, NEW b, IsWorld(b), NEW o, Leaves(c, b, o),
         NEW x, StepPasses(c, m, b, o, x), NEW i, NEW n, Ordered(m, i, c, n),
         c = "capture" => CompareCaptureSeed(m, b),
         m = "roundtrip" /\ c = "captureSpare" => CompareOptionalAbsent(m, b),
         c = "rebuild" /\ x.iteration # 2 => CompareMutated(m, b),
         c = "rebuild" /\ m = "restore" => x.iteration # 2 /\ b.bundle[Only] = PackedTree(Only),
         x.transition.applied => \A t \in Scope(m) : x.transition.bundle[t] = PackedTree(t)
  PROVE  Promise(c, m, b, o.w, o.r, x) \/ Doomed(n, m, o.w)
<1>1. o.w.outside /\ IsOutcome(o)
  BY DEF StepPasses, CommandAccepted, BoundariesIntact, Leaves
<1>2. CASE c = "capture"
  <2>1. CapturePasses(m, o)
    BY <1>2 DEF StepPasses
  <2>2. m \in {"roundtrip", "generation", "migration", "capture"} /\ (m = "roundtrip" => n = "compareSeed")
    BY <1>2 DEF Ordered
  <2>3. CapturePromise(m, b, o.w) \/ Doomed(n, m, o.w)
    BY <1>1, <1>2, <2>1, <2>2, CaptureKept
  <2> QED
    BY <1>1, <1>2, <2>3 DEF Promise
<1>3. CASE c = "captureSpare"
  <2>1. CaptureSparePasses(m, o)
    BY <1>3 DEF StepPasses
  <2>2. m \in {"roundtrip", "capture"} /\ (m = "roundtrip" => n = "compareOptional")
    BY <1>3 DEF Ordered
  <2>3. SparePromise(m, b, o.w) \/ Doomed(n, m, o.w)
    BY <1>1, <1>3, <2>1, <2>2, SpareKept
  <2> QED
    BY <1>1, <1>3, <2>3 DEF Promise
<1>4. CASE c = "rebuild"
  <2>1. RebuildPasses(m, b, o, x)
    BY <1>4 DEF StepPasses
  <2>2. n = "compareRestored" /\ m \in Rebuilding
    BY <1>4 DEF Ordered
  <2>3. \/ /\ RebuildPromise(m, b, o.w, x.iteration = 2)
           /\ m = "migration" => o.w.descriptor = "new" /\ o.w.bundle = x.transition.bundle
        \/ Doomed(n, m, o.w)
    BY <1>4, <2>1, <2>2, RebuildKept
  <2> QED
    BY <1>1, <1>4, <2>3 DEF Promise
<1>5. CASE c = "revert"
  <2>1. RevertPasses(m, b, o, x)
    BY <1>5 DEF StepPasses
  <2>2. RevertPromise(m, b, o.w, x.binding) \/ Doomed(n, m, o.w)
    BY <1>5, <2>1, RevertKept DEF Ordered
  <2> QED
    BY <1>1, <1>5, <2>2 DEF Promise
<1>6. CASE c = "verify"
  <2>1. m = "migration" => TransitionReinitialized(o.w, x.transition)
    BY <1>6 DEF StepPasses, VerifyPasses, VerifyV2, V2
  <2> QED
    BY <1>1, <1>6, <2>1 DEF Promise, TransitionReinitialized, TransitionBundle
<1>7. CASE c = "applyDryRun"
  BY <1>1, <1>7 DEF Promise, Ordered, Doomed, CompareSteps, Holds
<1>8. CASE c = "verifyAbsent"
  <2>1. o.r.outcome = "fail"
    BY <1>8 DEF StepPasses, VerifyAbsent, InstallVerifyEvidence
  <2> QED
    BY <1>1, <1>8, <2>1 DEF Promise, Ordered, Doomed
<1>9. CASE c = "verifyPresent"
  <2>1. o.r.outcome = "pass"
    BY <1>9 DEF StepPasses, VerifyPresent, InstallVerifyEvidence
  <2> QED
    BY <1>1, <1>9, <2>1 DEF Promise, Ordered, Doomed, CompareSteps, Holds
<1> QED
  BY <1>2, <1>3, <1>4, <1>5, <1>6, <1>7, <1>8, <1>9 DEF Commands

-----------------------------------------------------------------------------
(* The steps of the run *)

(* The trees of the fixture are trees. *)
LEMMA TreesFit ==
  ASSUME NEW t PROVE CapturedTree(t) \in Trees /\ PackedTree(t) \in Trees /\ Gone \in Trees
BY DEF CapturedTree, PackedTree, Gone, Tree, Trees, Contents, Witness

(* The harness writes nothing but the live host and the tool. *)
LEMMA WrittenIsWorld ==
  ASSUME NEW step, NEW m, NEW w, IsWorld(w)
  PROVE  IsWorld(Written(step, m, w)) /\ Written(step, m, w).bundle = w.bundle
<1>1. CASE step = "materialize" /\ m \in V2
  BY <1>1 DEF Written, V2Materialize, IsWorld, WorldFields
<1>2. CASE step = "materialize" /\ m \notin V2
  BY <1>2 DEF Written, MaterializeCaptured, IsWorld, WorldFields
<1>3. CASE step = "mutate" /\ m \in V2
  BY <1>3 DEF Written, V2Materialize, IsWorld, WorldFields
<1>4. CASE step = "mutate" /\ m \notin V2
  BY <1>4 DEF Written, Mutate, IsWorld, WorldFields
<1>5. CASE step = "removeOptional"
  BY <1>5 DEF Written, MaterializeOptionalAbsent, IsWorld, WorldFields
<1>6. CASE step \notin {"materialize", "mutate", "removeOptional"}
  <2>1. Written(step, m, w) = [w EXCEPT !.tool = TRUE]
    BY <1>6 DEF Written
  <2> QED
    BY <2>1 DEF IsWorld, WorldFields
<1> QED
  BY <1>1, <1>2, <1>3, <1>4, <1>5, <1>6

(* What each of its writings leaves on the live host. *)
LEMMA WrittenLive ==
  ASSUME NEW m, NEW w, IsWorld(w)
  PROVE  /\ CompareCaptureSeed(m, Written("materialize", m, w))
         /\ CompareMutated(m, Written("mutate", m, w))
         /\ CompareCaptureSeed(m, w) => CompareOptionalAbsent(m, Written("removeOptional", m, w))
<1> USE ScopeInTargets DEF IsWorld, WorldFields, Compare
<1>1. CompareCaptureSeed(m, Written("materialize", m, w))
  BY DEF Written, CompareCaptureSeed, V2Materialize, MaterializeCaptured
<1>2. CompareMutated(m, Written("mutate", m, w))
  BY DEF Written, CompareMutated, V2Materialize, Mutate
<1>3. CompareCaptureSeed(m, w) => CompareOptionalAbsent(m, Written("removeOptional", m, w))
  BY DEF Written, CompareCaptureSeed, CompareOptionalAbsent, MaterializeOptionalAbsent
<1> QED
  BY <1>1, <1>2, <1>3

(* No failure is a pass. *)
LEMMA VerdictsDiffer ==
  None # Passed /\ \A at : Failed(at) # Passed
<1>1. \A at : Failed(at).status = "failed"
  BY DEF Failed
<1>2. Passed.status = "passed"
  BY DEF Passed
<1> QED
  BY <1>1, <1>2, NoneIsNoVerdict

(* A run begins in the invariant. *)
LEMMA InitHolds ==
  Init => HarnessInv
<1> SUFFICES ASSUME Init PROVE HarnessInv
  OBVIOUS
<1>1. IsWorld(NewHost)
  BY TreesFit DEF IsWorld, WorldFields, NewHost, EmptyBundle
<1>2. Shaped
  BY <1>1, FirstStep DEF Init, Shaped
<1>3. pc = "select" /\ result = None /\ genuine /\ exec.iteration = 0 /\ ~exec.transition.applied
      /\ pos = 1
  BY DEF Init
<1> QED
  BY <1>2, <1>3 DEF HarnessInv, Fresh, LiveKnown, BundleKnown, IterationKnown, Judged, Running,
                    PassedIsGenuine

(* compileSelection keeps it: no verdict but a refusal. *)
LEMMA SelectKeeps ==
  HarnessInv /\ Select => HarnessInv'
<1> SUFFICES ASSUME HarnessInv, Select PROVE HarnessInv'
  OBVIOUS
<1>1. /\ pc = "select" /\ pc' \in {"setup", "persist", "returned"}
      /\ mode' = mode /\ pos' = pos /\ world' = world /\ exec' = exec /\ genuine' = genuine
      /\ \/ result' = result /\ pc' = "setup"
         \/ pc' # "setup" /\ \E at : result' = Failed(at)
  BY DEF Select, scenario, journey
<1>2. Shaped' /\ Fresh'
  BY <1>1 DEF HarnessInv, Shaped, Fresh
<1>3. LiveKnown' /\ IterationKnown'
  BY <1>1 DEF LiveKnown, IterationKnown
<1>4. BundleKnown'
  BY <1>1 DEF HarnessInv, BundleKnown
<1>5. Judged'
  <2>1. result = None /\ genuine
    BY <1>1 DEF HarnessInv, Fresh, Judged, Running
  <2>2. pc' # "setup" => result' # Passed
    BY <1>1, VerdictsDiffer
  <2>3. CASE pc' = "setup"
    BY <1>1, <2>1, <2>3 DEF Judged, Running, PassedIsGenuine
  <2>4. CASE pc' # "setup"
    BY <1>1, <2>2, <2>4 DEF Judged, Running, PassedIsGenuine
  <2> QED
    BY <2>3, <2>4
<1> QED
  BY <1>2, <1>3, <1>4, <1>5 DEF HarnessInv

(* prepareScenarioRuntime: the first step of the journey relies on nothing but the bundle. *)
LEMMA SetupKeeps ==
  HarnessInv /\ Setup => HarnessInv'
<1> SUFFICES ASSUME HarnessInv, Setup PROVE HarnessInv'
  OBVIOUS
<1>1. /\ pc = "setup" /\ pc' = "journey" /\ world' = MaterializeArtifact(mode, world)
      /\ mode' = mode /\ pos' = pos /\ exec' = exec /\ genuine' = genuine /\ result' = result
  BY DEF Setup, scenario
<1>2. mode \in Modes /\ pos = 1 /\ genuine /\ exec.iteration = 0 /\ ~exec.transition.applied
      /\ IsWorld(world) /\ result = None
  BY <1>1 DEF HarnessInv, Shaped, Fresh, Judged, Running
<1>3. Step' \in {"materialize", "assertAbsent", "mutate"} /\ Rebuilds(mode, pos) = 0
  BY <1>1, <1>2, FirstStep DEF Step
<1>4. /\ IsWorld(world')
      /\ mode = "restore" => world'.bundle[Only] = PackedTree(Only)
  <2>1. CASE mode = "restore"
    <3>1. world' = [world EXCEPT !.bundle[Only] = PackedTree(Only)]
      BY <1>1, <2>1 DEF MaterializeArtifact
    <3>2. /\ world'.bundle = [world.bundle EXCEPT ![Only] = PackedTree(Only)]
          /\ world'.live = world.live
          /\ world' = [f \in WorldFields |-> world'[f]]
      BY <1>2, <3>1 DEF IsWorld, WorldFields
    <3> QED
      BY <1>2, <3>2, TreesFit, FixtureAssumption DEF IsWorld
  <2>2. CASE mode # "restore"
    BY <1>1, <1>2, <2>2 DEF MaterializeArtifact
  <2> QED
    BY <2>1, <2>2
<1>5. Shaped'
  BY <1>1, <1>4 DEF HarnessInv, Shaped
<1>6. LiveKnown' /\ IterationKnown'
  BY <1>1, <1>2, <1>3 DEF LiveKnown, IterationKnown
<1>7. BundleKnown'
  BY <1>1, <1>2, <1>3, <1>4 DEF BundleKnown
<1>8. Fresh' /\ Judged'
  BY <1>1, <1>2, VerdictsDiffer DEF Fresh, Judged, Running, PassedIsGenuine
<1> QED
  BY <1>5, <1>6, <1>7, <1>8 DEF HarnessInv

(* A run that ends here: the verdict is a failure, or the one it was. *)
LEMMA EndKeeps ==
  ASSUME HarnessInv, pc' \in {"cleanup", "persist", "returned"},
         mode' = mode, pos' = pos, exec' = exec, IsWorld(world'),
         \/ \E at : result' = Failed(at)
         \/ result' = result /\ genuine' = genuine
  PROVE  HarnessInv'
<1>1. Shaped'
  BY DEF HarnessInv, Shaped
<1>2. Judged'
  BY VerdictsDiffer DEF HarnessInv, Judged, Running, PassedIsGenuine
<1>3. BundleKnown'
  BY DEF HarnessInv, BundleKnown
<1> QED
  BY <1>1, <1>2, <1>3 DEF HarnessInv, Fresh, LiveKnown, IterationKnown

(* A step that passed leads to the next one of its journey. *)
LEMMA Advances ==
  ASSUME HarnessInv, pc = "journey", Step # "evaluate", Advance, mode' = mode
  PROVE  /\ pc' = "journey" /\ pos' \in 1..Len(Journey(mode)) /\ result' = None
         /\ pos' = pos + 1 /\ Ordered(mode, pos, Step, Step')
<1>1. mode \in Modes /\ pos \in 1..Len(Journey(mode)) /\ result = None
  BY DEF HarnessInv, Shaped, Judged, Running
<1>2. pc' = pc /\ pos' = pos + 1 /\ result' = result
  BY DEF Advance
<1>3. Step' = Journey(mode)[pos + 1]
  BY <1>2 DEF Step
<1> QED
  BY <1>1, <1>2, <1>3, StepOrder DEF Step

(* A step that is not a command advances: nothing was promised, nothing broken. *)
LEMMA QuietAdvance ==
  ASSUME HarnessInv, pc = "journey", Step \notin Commands \cup {"evaluate"}, Advance,
         mode' = mode, genuine' = genuine, ~Doomed(Step, mode, world), IsWorld(world'),
         LiveKnown', BundleKnown', exec'.iteration = exec.iteration,
         exec' = [f \in {"iteration", "binding", "transition"} |-> exec'[f]]
  PROVE  HarnessInv'
<1>1. /\ pc' = "journey" /\ pos' \in 1..Len(Journey(mode)) /\ result' = None
      /\ pos' = pos + 1 /\ Ordered(mode, pos, Step, Step')
  BY Advances
<1>2. Shaped'
  BY <1>1 DEF HarnessInv, Shaped
<1>3. IterationKnown'
  <2>1. exec.iteration \in Nat /\ exec'.iteration = exec.iteration /\ Step # "rebuild"
    BY DEF HarnessInv, Shaped, Commands
  <2>2. ASSUME mode \in Rebuilding
        PROVE  /\ Rebuilds(mode, pos + 1) = Rebuilds(mode, pos) + (IF Step = "rebuild" THEN 1 ELSE 0)
               /\ exec.iteration = Rebuilds(mode, pos)
    BY <1>1, <2>2 DEF HarnessInv, IterationKnown, Ordered
  <2> QED
    BY <1>1, <2>1, <2>2 DEF IterationKnown
<1>4. genuine
  BY DEF HarnessInv, Judged
<1>5. Judged'
  BY <1>1, <1>4, VerdictsDiffer DEF Judged, PassedIsGenuine
<1>6. Fresh'
  BY <1>1 DEF Fresh
<1> QED
  BY <1>2, <1>3, <1>5, <1>6 DEF HarnessInv

(* What the harness writes is what the next command relies on. *)
LEMMA MaterializeKeeps ==
  HarnessInv /\ Materialize => HarnessInv'
<1> SUFFICES ASSUME HarnessInv, Materialize PROVE HarnessInv'
  OBVIOUS
<1>1. /\ pc = "journey" /\ Step \in {"materialize", "mutate", "removeOptional", "installTool"}
      /\ mode' = mode /\ exec' = exec /\ genuine' = genuine
  BY DEF Materialize, InJourney, Frame, scenario
<1>2. IsWorld(world)
  BY DEF HarnessInv, Shaped
<1>3. CASE Fail(Step) /\ world' = world
  BY <1>1, <1>2, <1>3, EndKeeps DEF Fail
<1>4. CASE /\ world' = Written(Step, mode, world) /\ Advance
           /\ ~(Step = "installTool" /\ world.tool)
  <2>1. ~Doomed(Step, mode, world)
    BY <1>1, <1>4 DEF Doomed, CompareSteps
  <2>2. IsWorld(world') /\ world'.bundle = world.bundle
    BY <1>2, <1>4, WrittenIsWorld
  <2>3. pc' = "journey" /\ pos' = pos + 1 /\ Ordered(mode, pos, Step, Step')
    BY <1>1, <1>4, Advances
  <2>4. LiveKnown'
    <3>1. Step' = "capture" => CompareCaptureSeed(mode, world')
      BY <1>2, <1>4, <2>3, WrittenLive DEF Ordered
    <3>2. ~(mode = "roundtrip" /\ Step' = "removeOptional")
      BY <1>1, <2>3 DEF Ordered
    <3>3. mode = "roundtrip" /\ Step' = "captureSpare" => CompareOptionalAbsent(mode, world')
      BY <1>1, <1>2, <1>4, <2>3, WrittenLive DEF Ordered, HarnessInv, LiveKnown
    <3>4. Step' = "rebuild" => CompareMutated(mode, world')
      BY <1>1, <1>2, <1>4, <2>3, WrittenLive DEF Ordered
    <3> QED
      BY <1>1, <3>1, <3>2, <3>3, <3>4 DEF LiveKnown
  <2>5. BundleKnown'
    <3>1. Step' # "transition"
      BY <1>1, <2>3 DEF Ordered
    <3>2. exec'.transition.applied =>
            \A t \in Scope(mode) : exec'.transition.bundle[t] = PackedTree(t)
      BY <1>1 DEF HarnessInv, BundleKnown
    <3>3. mode = "restore" /\ Step' \in {"mutate", "rebuild"} => world'.bundle[Only] = PackedTree(Only)
      BY <1>1, <2>2, <2>3 DEF HarnessInv, BundleKnown, Ordered
    <3> QED
      BY <1>1, <3>1, <3>2, <3>3 DEF BundleKnown
  <2>6. exec' = [f \in {"iteration", "binding", "transition"} |-> exec'[f]]
    BY <1>1 DEF HarnessInv, Shaped
  <2> QED
    BY <1>1, <1>4, <2>1, <2>2, <2>4, <2>5, <2>6, QuietAdvance DEF Commands
<1> QED
  BY <1>3, <1>4 DEF Materialize

(* A comparison that holds clears the commands before it. *)
LEMMA CompareKeeps ==
  HarnessInv /\ CompareStep => HarnessInv'
<1> SUFFICES ASSUME HarnessInv, CompareStep PROVE HarnessInv'
  OBVIOUS
<1>1. /\ pc = "journey" /\ Step \in CompareSteps
      /\ mode' = mode /\ exec' = exec /\ genuine' = genuine /\ world' = world
  BY DEF CompareStep, InJourney, Frame, scenario, CompareSteps
<1>2. IsWorld(world)
  BY DEF HarnessInv, Shaped
<1>3. CASE Fail(Step)
  BY <1>1, <1>2, <1>3, EndKeeps DEF Fail
<1>4. CASE Advance /\ Holds(Step, mode, world)
  <2>1. ~Doomed(Step, mode, world)
    BY <1>1, <1>4 DEF Doomed, CompareSteps
  <2>2. pc' = "journey" /\ pos' = pos + 1 /\ Ordered(mode, pos, Step, Step')
    BY <1>1, <1>4, Advances DEF CompareSteps
  <2>3. LiveKnown'
    <3>1. Step' # "capture" /\ ~(mode = "roundtrip" /\ Step' = "captureSpare")
      BY <1>1, <2>2 DEF Ordered, CompareSteps
    <3>2. mode = "roundtrip" /\ Step' = "removeOptional" => CompareCaptureSeed(mode, world')
      BY <1>1, <1>4, <2>2 DEF Ordered, Holds
    <3>3. Step' = "rebuild" /\ exec'.iteration # 2 => CompareMutated(mode, world')
      <4> SUFFICES ASSUME Step' = "rebuild", exec.iteration # 2 PROVE CompareMutated(mode, world)
        BY <1>1
      <4>1. CASE Step = "compareMutated"
        BY <1>4, <4>1 DEF Holds
      <4>2. CASE Step = "compareRestored" /\ Rebuilds(mode, pos + 1) = 2
        <5>1. /\ Rebuilds(mode, pos + 1) = Rebuilds(mode, pos) + (IF Step = "rebuild" THEN 1 ELSE 0)
              /\ mode \in Rebuilding
          BY <2>2 DEF Ordered
        <5>2. exec.iteration = Rebuilds(mode, pos) /\ exec.iteration \in Nat
          BY <1>1, <5>1 DEF HarnessInv, Shaped, IterationKnown
        <5> QED
          BY <4>2, <5>1, <5>2
      <4> QED
        BY <1>1, <2>2, <4>1, <4>2 DEF Ordered, CompareSteps
    <3> QED
      BY <1>1, <3>1, <3>2, <3>3 DEF LiveKnown
  <2>4. BundleKnown'
    <3>1. Step' # "transition" /\ ~(mode = "restore" /\ Step' \in {"mutate", "rebuild"})
      BY <1>1, <2>2 DEF Ordered, CompareSteps
    <3> QED
      BY <1>1, <3>1 DEF HarnessInv, BundleKnown
  <2>5. exec' = [f \in {"iteration", "binding", "transition"} |-> exec'[f]]
    BY <1>1 DEF HarnessInv, Shaped
  <2> QED
    BY <1>1, <1>2, <1>4, <2>1, <2>3, <2>4, <2>5, QuietAdvance DEF Commands, CompareSteps
<1> QED
  BY <1>3, <1>4 DEF CompareStep

(* What a command step judges is what some engine, deviating or not, has left. *)
LEMMA CommandLeaves ==
  ASSUME HarnessInv, Command \/ CommandDeviates
  PROVE  \E o : Leaves(Step, world, o) /\ Judge(o)
<1>1. pc = "journey" /\ Step \in Commands
  BY DEF Command, CommandDeviates, InJourney
<1>2. IsWorld(world)
  BY DEF HarnessInv, Shaped
<1> DEFINE e == Engine(Step, mode, world)
<1>3. Leaves(Step, world, e)
  <2>1. Step = "capture" => \A t \in Scope(mode) : world.live[t] \in Trees
    BY <1>1, TreesFit DEF HarnessInv, LiveKnown, CompareCaptureSeed, Compare
  <2> QED
    BY <1>1, <1>2, <2>1, EngineLeaves
<1> HIDE DEF e
<1>4. ASSUME NEW o, Leaves(Step, world, o), NEW q \in Deviations(mode, o)
      PROVE  Leaves(Step, world, q)
  <2>1. IsOutcome(o)
    BY <1>4 DEF Leaves
  <2>2. Fades(o, q)
    BY <1>4, <2>1, DeviationsFade
  <2> QED
    BY <1>4, <2>2, FadedLeaves
<1>5. CASE Command
  BY <1>3, <1>5 DEF Command, e
<1>6. CASE CommandDeviates
  <2>1. PICK o \in Deviations(mode, e) : Judge(o) \/ \E p \in Deviations(mode, o) : Judge(p)
    BY <1>6 DEF CommandDeviates, e
  <2>2. Leaves(Step, world, o)
    BY <1>3, <1>4
  <2>3. CASE Judge(o)
    BY <2>2, <2>3
  <2>4. ASSUME NEW p \in Deviations(mode, o), Judge(p)
        PROVE  Leaves(Step, world, p) /\ Judge(p)
    BY <1>4, <2>2, <2>4
  <2> QED
    BY <2>1, <2>3, <2>4
<1> QED
  BY <1>5, <1>6

(* What a command that passed leaves in the record of the run. *)
LEMMA ExecutedIs ==
  ASSUME Shaped, NEW c, NEW o, exec' = Executed(c, world, o)
  PROVE  /\ exec' = [f \in {"iteration", "binding", "transition"} |-> exec'[f]]
         /\ exec'.iteration = exec.iteration + (IF c = "rebuild" THEN 1 ELSE 0)
         /\ exec'.iteration \in Nat /\ exec'.transition = exec.transition
<1>1. CASE c = "rebuild"
  <2>1. PICK found : exec' = [exec EXCEPT !.binding = found, !.iteration = exec.iteration + 1]
    BY <1>1, Zenon DEF Executed
  <2>2. /\ exec = [f \in {"iteration", "binding", "transition"} |-> exec[f]]
        /\ exec.iteration \in Nat
    BY DEF Shaped
  <2>3. exec' = [f \in {"iteration", "binding", "transition"} |->
                   IF f = "iteration" THEN exec.iteration + 1
                   ELSE IF f = "binding" THEN found ELSE exec[f]]
    BY <2>1, <2>2
  <2>4. exec'.iteration = exec.iteration + 1 /\ exec'.transition = exec.transition
    BY <2>3
  <2>5. exec' = [f \in {"iteration", "binding", "transition"} |-> exec'[f]]
    BY <2>3
  <2> QED
    BY <1>1, <2>2, <2>4, <2>5
<1>2. CASE c # "rebuild"
  BY <1>2 DEF Shaped, Executed
<1> QED
  BY <1>1, <1>2

(* A command is accepted with its promise kept, or the next step fails. *)
LEMMA CommandKeeps ==
  HarnessInv /\ (Command \/ CommandDeviates) => HarnessInv'
<1> SUFFICES ASSUME HarnessInv, Command \/ CommandDeviates PROVE HarnessInv'
  OBVIOUS
<1>1. pc = "journey" /\ Step \in Commands /\ mode' = mode
  BY DEF Command, CommandDeviates, InJourney, Frame, scenario
<1>2. PICK o : Leaves(Step, world, o) /\ Judge(o)
  BY CommandLeaves
<1>3. world' = o.w /\ IsOutcome(o) /\ IsWorld(o.w) /\ Shaped /\ IsWorld(world)
  BY <1>2 DEF Judge, Leaves, IsOutcome, HarnessInv, Shaped
<1>4. CASE Fail(Step) /\ exec' = exec
  BY <1>1, <1>3, <1>4, EndKeeps DEF Fail
<1>5. CASE StepPasses(Step, mode, world, o, exec) /\ Advance /\ exec' = Executed(Step, world, o)
  <2>1. /\ pc' = "journey" /\ pos' \in 1..Len(Journey(mode)) /\ result' = None
        /\ pos' = pos + 1 /\ Ordered(mode, pos, Step, Step')
    BY <1>1, <1>5, Advances DEF Commands
  <2>2. /\ exec' = [f \in {"iteration", "binding", "transition"} |-> exec'[f]]
        /\ exec'.iteration = exec.iteration + (IF Step = "rebuild" THEN 1 ELSE 0)
        /\ exec'.iteration \in Nat /\ exec'.transition = exec.transition
    BY <1>3, <1>5, ExecutedIs
  <2>3. mode \in Rebuilding =>
          exec.iteration = Rebuilds(mode, pos) /\ exec'.iteration = Rebuilds(mode, pos')
    BY <1>1, <2>1, <2>2 DEF HarnessInv, IterationKnown, Ordered
  <2>4. /\ Step = "capture" => CompareCaptureSeed(mode, world)
        /\ mode = "roundtrip" /\ Step = "captureSpare" => CompareOptionalAbsent(mode, world)
        /\ Step = "rebuild" /\ exec.iteration # 2 => CompareMutated(mode, world)
    BY <1>1 DEF HarnessInv, LiveKnown
  <2>5. Step = "rebuild" /\ mode = "restore" =>
          exec.iteration # 2 /\ world.bundle[Only] = PackedTree(Only)
    BY <1>1, <2>1, <2>3 DEF HarnessInv, BundleKnown, Ordered
  <2>6. exec.transition.applied => \A t \in Scope(mode) : exec.transition.bundle[t] = PackedTree(t)
    BY DEF HarnessInv, BundleKnown
  <2>7. Promise(Step, mode, world, o.w, o.r, exec) \/ Doomed(Step', mode, o.w)
    BY <1>1, <1>2, <1>3, <1>5, <2>1, <2>4, <2>5, <2>6, PromiseKept DEF Shaped
  <2>8. Judged'
    <3>1. genuine
      BY <1>1 DEF HarnessInv, Judged, Doomed, Commands, CompareSteps
    <3>2. genuine' \/ Doomed(Step', mode', world')
      BY <1>1, <1>2, <1>3, <2>7, <3>1 DEF Judge
    <3> QED
      BY <2>1, <3>2, VerdictsDiffer DEF Judged, PassedIsGenuine
  <2>9. LiveKnown'
    BY <1>1, <2>1 DEF LiveKnown, Ordered, Commands
  <2>10. BundleKnown'
    <3>1. Step' = "transition" => \A t \in Scope(mode) : o.w.bundle[t] = PackedTree(t)
      <4> SUFFICES ASSUME Step' = "transition" PROVE \A t \in Scope(mode) : o.w.bundle[t] = PackedTree(t)
        OBVIOUS
      <4>1. mode = "migration" /\ Step = "capture"
        BY <2>1 DEF Ordered
      <4>2. InspectV2CaptureArtifact(mode, o.w)
        BY <1>5, <4>1 DEF StepPasses, CapturePasses
      <4> QED
        BY <4>2 DEF InspectV2CaptureArtifact
    <3>2. ~(mode = "restore" /\ Step' \in {"mutate", "rebuild"})
      BY <1>1, <2>1 DEF Ordered, Commands
    <3> QED
      BY <1>1, <1>3, <2>2, <2>6, <3>1, <3>2 DEF BundleKnown
  <2>11. Shaped' /\ Fresh' /\ IterationKnown'
    BY <1>1, <1>3, <2>1, <2>2, <2>3 DEF Shaped, Fresh, IterationKnown
  <2> QED
    BY <2>8, <2>9, <2>10, <2>11 DEF HarnessInv
<1> QED
  BY <1>2, <1>4, <1>5 DEF Judge

(* The transition keeps the bundle that was captured. *)
LEMMA TransitionKeeps ==
  HarnessInv /\ Transition => HarnessInv'
<1> SUFFICES ASSUME HarnessInv, Transition PROVE HarnessInv'
  OBVIOUS
<1>1. pc = "journey" /\ Step = "transition" /\ mode' = mode /\ genuine' = genuine
  BY DEF Transition, InJourney, Frame, scenario
<1>2. IsWorld(world) /\ exec = [f \in {"iteration", "binding", "transition"} |-> exec[f]]
  BY DEF HarnessInv, Shaped
<1>3. ASSUME Fail(Step), exec' = exec,
             world' = world \/ \E wrote \in BOOLEAN : world' \in Rolled(world, wrote)
      PROVE  HarnessInv'
  <2>1. IsWorld(world')
    BY <1>2, <1>3 DEF Rolled, IsWorld, WorldFields
  <2> QED
    BY <1>1, <1>3, <2>1, EndKeeps DEF Fail
<1>4. CASE /\ world' = [world EXCEPT !.descriptor = "new", !.state = "absent"]
           /\ exec' = [exec EXCEPT !.transition = [applied |-> TRUE, bundle |-> world.bundle]]
           /\ Advance
  <2>1. ~Doomed(Step, mode, world)
    BY <1>1 DEF Doomed, CompareSteps
  <2>2. pc' = "journey" /\ pos' = pos + 1 /\ Ordered(mode, pos, Step, Step')
    BY <1>1, <1>4, Advances
  <2>3. IsWorld(world')
    BY <1>2, <1>4 DEF IsWorld, WorldFields
  <2>4. /\ exec' = [f \in {"iteration", "binding", "transition"} |-> exec'[f]]
        /\ exec'.iteration = exec.iteration /\ exec'.transition.bundle = world.bundle
    BY <1>2, <1>4
  <2>5. LiveKnown'
    BY <1>1, <2>2 DEF LiveKnown, Ordered
  <2>6. BundleKnown'
    <3>1. Step' # "transition" /\ ~(mode = "restore" /\ Step' \in {"mutate", "rebuild"})
      BY <1>1, <2>2 DEF Ordered
    <3>2. \A t \in Scope(mode) : world.bundle[t] = PackedTree(t)
      BY <1>1 DEF HarnessInv, BundleKnown
    <3> QED
      BY <1>1, <2>4, <3>1, <3>2 DEF BundleKnown
  <2> QED
    BY <1>1, <1>4, <2>1, <2>3, <2>4, <2>5, <2>6, QuietAdvance DEF Commands
<1> QED
  BY <1>3, <1>4 DEF Transition

(* The verdict: every comparison has been made. *)
LEMMA EvaluateKeeps ==
  HarnessInv /\ EvaluateAssertions => HarnessInv'
<1> SUFFICES ASSUME HarnessInv, EvaluateAssertions PROVE HarnessInv'
  OBVIOUS
<1>1. /\ pc = "journey" /\ Step = "evaluate" /\ pc' = "cleanup" /\ genuine' = genuine
      /\ mode' = mode /\ pos' = pos /\ world' = world /\ exec' = exec
  BY DEF EvaluateAssertions, InJourney, Frame, scenario, journey
<1>2. genuine
  BY <1>1 DEF HarnessInv, Judged, Doomed, CompareSteps
<1>3. Shaped' /\ BundleKnown'
  BY <1>1 DEF HarnessInv, Shaped, BundleKnown
<1>4. Judged'
  BY <1>1, <1>2 DEF Judged, Running, PassedIsGenuine
<1> QED
  BY <1>1, <1>3, <1>4 DEF HarnessInv, Fresh, LiveKnown, IterationKnown

(* The preparation that fails, the cleanup and the writing of the result.    *)
LEMMA EndingKeeps ==
  ASSUME HarnessInv,
         \/ \E made, stuck : RootsCannotBeMade(made, stuck)
         \/ \E how, stuck : AbandonSetup(how, stuck)
         \/ \E stuck : Cleanup(stuck)
         \/ PersistResult
  PROVE  HarnessInv'
<1>1. IsWorld(world)
  BY DEF HarnessInv, Shaped
<1>2. ASSUME NEW made, NEW stuck, RootsCannotBeMade(made, stuck) PROVE HarnessInv'
  BY <1>1, <1>2, EndKeeps DEF RootsCannotBeMade, scenario, journey
<1>3. ASSUME NEW how, NEW stuck, AbandonSetup(how, stuck) PROVE HarnessInv'
  BY <1>1, <1>3, EndKeeps DEF AbandonSetup, scenario, journey
<1>4. ASSUME NEW stuck, Cleanup(stuck) PROVE HarnessInv'
  BY <1>1, <1>4, EndKeeps DEF Cleanup, scenario, journey
<1>5. CASE PersistResult
  BY <1>1, <1>5, EndKeeps DEF PersistResult, scenario, journey
<1> QED
  BY <1>2, <1>3, <1>4, <1>5

(* Every step keeps the invariant. *)
LEMMA HarnessInductive ==
  HarnessInv /\ [Next]_vars => HarnessInv'
<1> SUFFICES ASSUME HarnessInv, [Next]_vars PROVE HarnessInv'
  OBVIOUS
<1>1. CASE UNCHANGED vars
  BY <1>1 DEF vars, scenario, journey, HarnessInv, Shaped, Fresh, LiveKnown, BundleKnown,
              IterationKnown, Judged, Running, PassedIsGenuine, Step
<1>2. CASE Next
  BY <1>2, SelectKeeps, SetupKeeps, MaterializeKeeps, CompareKeeps, CommandKeeps, TransitionKeeps,
     EvaluateKeeps, EndingKeeps DEF Next
<1> QED
  BY <1>1, <1>2

(* For every module under validation and any number of deviations of the     *)
(* engine and failures of the harness: a scenario only passes when every     *)
(* command of its journey kept its promise (runtime.go, journey.go and the   *)
(* journeys of the other modes).                                             *)
THEOREM PassedIsGenuineCorrect == Spec => []PassedIsGenuine
<1>1. Init => HarnessInv
  BY InitHolds
<1>2. HarnessInv /\ [Next]_vars => HarnessInv'
  BY HarnessInductive
<1>3. HarnessInv => PassedIsGenuine
  BY DEF HarnessInv, Judged
<1> QED
  BY <1>1, <1>2, <1>3, PTL DEF Spec
=============================================================================
