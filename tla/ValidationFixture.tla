-------------------------- MODULE ValidationFixture --------------------------
(***************************************************************************)
(* The disposable host of a validation scenario and the engine that works  *)
(* on it (internal/validationharness: fixture.go, v2_plan.go,              *)
(* capture_contract.go, install_journey.go).                               *)
(*                                                                         *)
(* A target is a file, a directory or a registry key.  Its tree has a      *)
(* payload and two witnesses: `kept` is captured but excluded from the     *)
(* restore, `left` is excluded from the capture.  The harness seeds the    *)
(* captured state, mutates it and compares trees; in between it runs the   *)
(* engine, a program under test that may do anything: here it does what it *)
(* should except for a bounded number of deviations, each of which puts    *)
(* one piece of the host or of its report out of order.                    *)
(***************************************************************************)
EXTENDS Naturals, FiniteSets

CONSTANTS
  Targets,      \* targets of the module under validation
  Registry,     \* those that are registry keys; a registry target is optional
  Optional,     \* those whose absence a capture must tolerate
  Merged,       \* those restored by a merge: neither captured nor mutated
  Only          \* the single target of a restore contract

ASSUME FixtureAssumption ==
  /\ Registry \subseteq Optional
  /\ Optional \subseteq Targets
  /\ Merged \subseteq Targets
  /\ Only \in Targets \ (Registry \cup Merged)

Modes == {"roundtrip", "generation", "migration", "install", "capture", "restore"}
V2 == {"generation", "migration"}
Contents == {"captured", "mutated", "merged", "foreign", "absent"}
Parts == {"payload", "kept", "left"}
Nowhere == <<0, "outside">>     \* a path outside the storage of the scenario

\* The targets a scenario of mode m works on.
Scope(m) ==
  CASE m = "roundtrip" -> Targets
    [] m = "restore" -> {Only}
    [] m = "install" -> {}
    [] OTHER -> Targets \ Registry

Tree(payload, kept, left) == [payload |-> payload, kept |-> kept, left |-> left]
Gone == Tree("absent", "absent", "absent")
Witness(t, c) == IF t \in Registry THEN "absent" ELSE c

\* The trees the harness materialises and expects.
CapturedTree(t) == Tree("captured", Witness(t, "captured"), Witness(t, "captured"))
MutatedTree(m, t) ==
  Tree("mutated", Witness(t, "mutated"), IF m \in V2 THEN Witness(t, "mutated") ELSE "absent")
RestoredPayload(m, t) == IF m = "roundtrip" /\ t \in Merged THEN "merged" ELSE "captured"
RestoredTree(m, t) == Tree(RestoredPayload(m, t), Witness(t, "mutated"), "absent")
PackedTree(t) == [CapturedTree(t) EXCEPT !.left = "absent"]

HasOptionalTargets(m) == Scope(m) \cap Optional # {}

MaterializeCaptured(m, w) ==
  [w EXCEPT !.live = [t \in Targets |-> IF t \in Scope(m) THEN CapturedTree(t) ELSE @[t]]]

MaterializeOptionalAbsent(m, w) ==
  [w EXCEPT !.live = [t \in Targets |-> IF t \in Scope(m) \cap Optional THEN Gone ELSE @[t]]]

Mutate(m, w) ==
  [w EXCEPT !.live = [t \in Targets |-> IF t \in Scope(m) THEN MutatedTree(m, t) ELSE @[t]]]

V2Materialize(m, w, captured) ==
  [w EXCEPT !.live = [t \in Targets |->
     IF t \notin Scope(m) THEN @[t] ELSE IF captured THEN CapturedTree(t) ELSE MutatedTree(m, t)]]

\* compare: every target of the plan has exactly the expected tree.
Compare(m, w, expected) == \A t \in Scope(m) : w.live[t] = expected[t]
CompareCaptureSeed(m, w) == Compare(m, w, [t \in Scope(m) |-> CapturedTree(t)])
CompareOptionalAbsent(m, w) ==
  Compare(m, w, [t \in Scope(m) |-> IF t \in Optional THEN Gone ELSE CapturedTree(t)])
CompareRestored(m, w) == Compare(m, w, [t \in Scope(m) |-> RestoredTree(m, t)])
CompareMutated(m, w) == Compare(m, w, [t \in Scope(m) |-> MutatedTree(m, t)])

-----------------------------------------------------------------------------
\* The host before the first command.
EmptyBundle == [t \in Targets |-> Gone]
NewHost ==
  [live |-> [t \in Targets |-> Gone],
   bundle |-> EmptyBundle, spare |-> EmptyBundle,    \* captured and optional-absent
   projects |-> TRUE,             \* the manifest of the bundle states the module exactly
   backups |-> <<>>, journals |-> <<>>, members |-> <<>>,
   stray |-> {},                  \* storage trees with a file no record accounts for
   outside |-> TRUE,              \* repository, guard, engine, working directory intact
   descriptor |-> "old", state |-> "absent",         \* version and package state
   tool |-> FALSE]                \* what the install verifier looks for

\* A report: the envelope and the event stream say what was done.
Report(outcome, cites, journal) ==
  [form |-> TRUE, outcome |-> outcome, cites |-> cites, journal |-> journal,
   events |-> outcome, end |-> "ok"]

Outcome(w, r) == [w |-> w, r |-> r]
NoCites == <<>>

Packed(m, w, t) == IF w.live[t] = Gone THEN Gone ELSE [w.live[t] EXCEPT !.left = "absent"]

\* What the engine should do: capture, rebuild from the bundle, revert, verify.
Captured(m, w) ==
  Outcome([w EXCEPT !.bundle = [t \in Targets |-> IF t \in Scope(m) THEN Packed(m, w, t) ELSE Gone],
                    !.state = IF @ = "absent" THEN w.descriptor ELSE @],
          Report("captured", NoCites, 0))

CapturedSpare(m, w) ==
  Outcome([w EXCEPT !.spare = [t \in Targets |-> IF t \in Scope(m) THEN Packed(m, w, t) ELSE Gone]],
          Report("captured", NoCites, 0))

Applied(m, w, t) ==
  [w.live[t] EXCEPT
     !.payload = IF w.bundle[t].payload = "captured" THEN RestoredPayload(m, t)
                                                     ELSE w.bundle[t].payload,
     !.left = IF m \in V2 THEN "absent" ELSE @]

Stale(m, w) == {t \in Scope(m) : w.live[t] # Applied(m, w, t)}
NextRun(w) == 1 + Cardinality(DOMAIN w.journals)
Cites(run, S) == [t \in S |-> <<run, t>>]
Extend(f, D, Value(_)) == [x \in DOMAIN f \cup D |-> IF x \in D THEN Value(x) ELSE f[x]]

Restored(m, w, S, run) ==
  Outcome([w EXCEPT !.live = [t \in Targets |-> IF t \in S THEN Applied(m, w, t) ELSE @[t]],
                    !.backups = Extend(@, {<<run, t>> : t \in S}, LAMBDA p : w.live[p[2]]),
                    !.journals = Extend(@, {run}, LAMBDA j : Cites(run, S)),
                    !.members = Extend(@, {run}, LAMBDA j : [journal |-> run, reverted |-> FALSE]),
                    !.state = w.descriptor],
          Report("restored", Cites(run, S), 0))

Rebuilt(m, w, S) ==
  IF S = {} THEN Outcome(w, Report("skipped", NoCites, 0)) ELSE Restored(m, w, S, NextRun(w))

Active(w) == {j \in DOMAIN w.members : ~w.members[j].reverted}
Latest(w) == CHOOSE j \in Active(w) : \A i \in Active(w) : i <= j

Undone(w, j, cites) ==
  Outcome([w EXCEPT !.live = [t \in Targets |-> IF t \in DOMAIN cites THEN w.backups[cites[t]] ELSE @[t]],
                    !.members[j].reverted = TRUE],
          Report("reverted", cites, j))

Reverted(w) ==
  IF Active(w) = {} THEN Outcome(w, Report("skipped", NoCites, 0))
                    ELSE Undone(w, Latest(w), w.journals[Latest(w)])

Verified(m, w) ==
  Outcome(w, Report(IF \A t \in Scope(m) : w.live[t].payload # "absent" THEN "pass" ELSE "fail", NoCites, 0))
VerifiedTool(w) == Outcome(w, Report(IF w.tool THEN "pass" ELSE "fail", NoCites, 0))
DryRun(w) == Outcome(w, Report("present", NoCites, 0))

Commands == {"capture", "captureSpare", "rebuild", "revert", "verify",
             "applyDryRun", "verifyAbsent", "verifyPresent"}

Engine(c, m, w) ==
  CASE c = "capture" -> Captured(m, w)
    [] c = "captureSpare" -> CapturedSpare(m, w)
    [] c = "rebuild" -> Rebuilt(m, w, Stale(m, w))
    [] c = "revert" -> Reverted(w)
    [] c = "verify" -> Verified(m, w)
    [] c = "applyDryRun" -> DryRun(w)
    [] OTHER -> VerifiedTool(w)

-----------------------------------------------------------------------------
\* One thing done differently: on the live host, in the bundles, in the storage
\* of the engine, outside the scenario, or in the report.
Wrong == {"captured", "foreign", "absent"}

LiveDeviations(m, o) ==
  {[o EXCEPT !.w.live[t][p] = c] : t \in Scope(m), p \in Parts, c \in Wrong}
  \cup (IF m = "install" THEN {[o EXCEPT !.w.tool = ~@]} ELSE {})

BundleDeviations(m, o) ==
  {[o EXCEPT !.w.projects = FALSE]} \cup
  UNION {{[o EXCEPT !.w.bundle[t].payload = "foreign"], [o EXCEPT !.w.bundle[t].kept = "absent"],
          [o EXCEPT !.w.bundle[t].left = "captured"], [o EXCEPT !.w.spare[t].payload = "foreign"]}
           : t \in Scope(m)}

BackupDeviations(o, p) ==
  {[o EXCEPT !.w.backups[p].payload = "foreign"], [o EXCEPT !.w.backups[p].kept = "absent"],
   [o EXCEPT !.w.backups = [q \in DOMAIN @ \ {p} |-> @[q]]]}

RecordDeviations(o, j) ==
  {[o EXCEPT !.w.journals = [i \in DOMAIN @ \ {j} |-> @[i]]],
   [o EXCEPT !.w.members[j].reverted = ~@], [o EXCEPT !.w.members[j].journal = 0],
   [o EXCEPT !.w.members = [i \in DOMAIN @ \ {j} |-> @[i]]]}

StorageDeviations(o) ==
  (UNION {BackupDeviations(o, p) : p \in DOMAIN o.w.backups})
  \cup (UNION {RecordDeviations(o, j) : j \in DOMAIN o.w.members \cap DOMAIN o.w.journals})
  \cup {[o EXCEPT !.w.stray = @ \cup {s}] : s \in {"backups", "logs", "store"}}

ReportDeviations(o) ==
  {[o EXCEPT !.r.outcome = x] : x \in {"restored", "skipped", "reverted", "pass", "fail"}}
  \cup {[o EXCEPT !.r.cites[t] = p] : t \in DOMAIN o.r.cites, p \in DOMAIN o.w.backups \cup {Nowhere}}
  \cup {[o EXCEPT !.r.end = e] : e \in {"exit", "timeout", "flood"}}
  \cup {[o EXCEPT !.r.events = e] : e \in {"skipped", "fail", "malformed"}}
  \cup {[o EXCEPT !.r.form = FALSE], [o EXCEPT !.r.journal = 0]}

HostDeviations(o) ==
  {[o EXCEPT !.w.outside = FALSE], [o EXCEPT !.w.descriptor = "foreign"], [o EXCEPT !.w.state = "foreign"]}

Deviations(m, o) ==
  (LiveDeviations(m, o) \cup BundleDeviations(m, o) \cup StorageDeviations(o)
     \cup ReportDeviations(o) \cup HostDeviations(o)) \ {o}
=============================================================================
