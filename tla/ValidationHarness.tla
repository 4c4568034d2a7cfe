-------------------------- MODULE ValidationHarness --------------------------
(***************************************************************************)
(* One run of the validation harness (internal/validationharness:          *)
(* runtime.go, journey.go, v2_journey.go, install_journey.go,              *)
(* capture_journey.go, restore_journey.go, v2_transition.go, ledger.go,    *)
(* cli_executor.go): a scenario is selected, a disposable host prepared,   *)
(* the journey of its mode executed step by step, the host removed and the *)
(* verdict written.  The run stops at the first check that fails.          *)
(***************************************************************************)
EXTENDS ValidationEvidence, Sequences

CONSTANTS
  None,
  MaxFaults,    \* deviations of the engine in one run
  MaxTrouble,   \* failing calls of the harness itself in one run
  Minima        \* minimum assertion counts a scenario may declare

ASSUME HarnessAssumption ==
  MaxFaults \in Nat /\ MaxTrouble \in Nat

Assertions == {"captured", "content", "rebuild", "revert", "verify", "references"}
Roots == {"authority", "root", "guard", "cwd"}
RootPrefixes == {{}, {"authority"}, {"authority", "root"}, {"authority", "root", "guard"}}
Failed(at) == [status |-> "failed", failure |-> at, proof |-> FALSE]
Passed == [status |-> "passed", failure |-> None, proof |-> TRUE]

ASSUME NoneIsNoVerdict == None # Passed

VARIABLES
  mode, minimum,    \* of the selected scenario
  named,            \* the request names a usable result path
  pc,               \* select, setup, journey, cleanup, persist, returned
  pos,              \* position in the journey
  world,            \* the disposable host
  exec,             \* iteration, the binding of the first rebuild, the transition
  counts,           \* assertion counts of the result
  result, file,     \* the verdict, and what the result path holds
  err,              \* the run returns an error of its own
  roots,            \* directories and registry namespace of the run that exist
  faults, trouble,
  genuine           \* every command so far kept its promise

scenario == <<mode, minimum, named>>
journey == <<pos, world, exec, counts>>
budget == <<faults, trouble>>
vars == <<scenario, pc, journey, result, file, err, roots, budget, genuine>>

-----------------------------------------------------------------------------
\* The steps of each journey, in order.
RoundtripUncheckedRevert(m) ==
  IF HasOptionalTargets(m)
  THEN <<"materialize", "capture", "compareSeed", "removeOptional", "captureSpare",
         "compareOptional", "mutate", "rebuild", "compareRestored", "revert",
         "rebuild", "compareRestored", "rebuild", "compareRestored", "verify", "evaluate">>
  ELSE <<"materialize", "capture", "compareSeed", "mutate", "rebuild", "compareRestored", "revert",
         "rebuild", "compareRestored", "rebuild", "compareRestored", "verify", "evaluate">>

RoundtripJourney(m) ==
  IF HasOptionalTargets(m)
  THEN <<"materialize", "capture", "compareSeed", "removeOptional", "captureSpare",
         "compareOptional", "mutate", "rebuild", "compareRestored", "revert", "compareMutated",
         "rebuild", "compareRestored", "rebuild", "compareRestored", "verify", "evaluate">>
  ELSE <<"materialize", "capture", "compareSeed", "mutate", "rebuild", "compareRestored",
         "revert", "compareMutated",
         "rebuild", "compareRestored", "rebuild", "compareRestored", "verify", "evaluate">>

V2Journey(m) ==
  IF m = "migration"
  THEN <<"materialize", "capture", "transition", "mutate", "rebuild", "compareRestored",
         "revert", "compareMutated",
         "rebuild", "compareRestored", "rebuild", "compareRestored", "verify", "evaluate">>
  ELSE <<"materialize", "capture", "mutate", "rebuild", "compareRestored",
         "revert", "compareMutated",
         "rebuild", "compareRestored", "rebuild", "compareRestored", "verify", "evaluate">>

InstallJourney ==
  <<"assertAbsent", "applyDryRun", "assertAbsent", "verifyAbsent", "installTool",
    "verifyPresent", "assertPresent", "evaluate">>

CaptureJourney(m) ==
  IF HasOptionalTargets(m)
  THEN <<"materialize", "capture", "removeOptional", "captureSpare", "evaluate">>
  ELSE <<"materialize", "capture", "requireOptional", "evaluate">>

RestoreJourney == <<"mutate", "rebuild", "compareRestored", "revert", "compareMutated", "evaluate">>

Journey(m) ==
  CASE m = "roundtrip" -> RoundtripJourney(m)
    [] m \in V2 -> V2Journey(m)
    [] m = "install" -> InstallJourney
    [] m = "capture" -> CaptureJourney(m)
    [] OTHER -> RestoreJourney

\* The bundle a restore contract starts from is written by the harness.
MaterializeArtifact(m, w) ==
  IF m = "restore" THEN [w EXCEPT !.bundle[Only] = PackedTree(Only)] ELSE w

-----------------------------------------------------------------------------
\* What the engine promises of each command, stated on the host alone: the harness
\* is there to find out whether it did.
RebuildPromise(m, b, a, repeat) ==
  /\ CompareRestored(m, a)
  /\ \A t \in Scope(m) \ Registry : m \in {"roundtrip", "migration"} => a.bundle[t] = b.bundle[t]
  /\ \A t \in Scope(m) \ Registry : b.bundle[t] = PackedTree(t) \/ m = "generation"
  /\ IF repeat THEN b.backups = a.backups /\ b.journals = a.journals /\ b.members = a.members
     ELSE \E j \in (DOMAIN a.journals \ DOMAIN b.journals) \cap DOMAIN a.members :
            /\ a.members[j] = [journal |-> j, reverted |-> FALSE]
            /\ \A t \in Scope(m) : LET p == a.journals[j][t] IN
                 /\ p \in DOMAIN a.backups \ DOMAIN b.backups
                 /\ t \notin Registry => a.backups[p] = b.live[t]
            /\ \A i \in DOMAIN b.members : i \in DOMAIN a.members /\ a.members[i] = b.members[i]

RevertPromise(m, b, a, binding) ==
  /\ CompareMutated(m, a)
  /\ a.members = [b.members EXCEPT ![binding.journal].reverted = TRUE]

CapturePromise(m, b, a) ==
  /\ \A t \in Scope(m) \ Registry : a.bundle[t] = PackedTree(t)
  /\ m = "roundtrip" => a.live = b.live

SparePromise(m, b, a) ==
  /\ \A t \in Scope(m) : a.spare[t] = IF t \in Optional THEN Gone ELSE PackedTree(t)
  /\ m = "roundtrip" => a.live = b.live

Promise(c, m, b, a, r, x) ==
  /\ a.outside
  /\ c = "capture" => CapturePromise(m, b, a)
  /\ c = "captureSpare" => SparePromise(m, b, a)
  /\ c = "rebuild" => RebuildPromise(m, b, a, x.iteration = 2)
  /\ c = "revert" => RevertPromise(m, b, a, x.binding)
  /\ c = "applyDryRun" => ~a.tool
  /\ c = "verifyAbsent" => ~a.tool /\ r.outcome = "fail"
  /\ c = "verifyPresent" => a.tool /\ r.outcome = "pass"
  /\ m = "migration" /\ c \in {"rebuild", "verify"} => a.descriptor = "new" /\ a.bundle = x.transition.bundle

-----------------------------------------------------------------------------
\* The checks of one command, before it and after it.
CapturePasses(m, o) ==
  CASE m = "roundtrip" -> InspectCaptureArtifact(m, o.w)
    [] m = "capture" -> CaptureContractEvidence(o.r) /\ InspectCaptureContractArtifact(m, o.w)
    [] OTHER -> InspectV2CaptureArtifact(m, o.w) /\ V2CaptureEnvelope(o.r)

CaptureSparePasses(m, o) ==
  IF m = "roundtrip" THEN OptionalAbsentArtifact(m, o.w) ELSE CaptureContractOptionalOutcome(m, o)

Rebuild(m, b, o, repeat) ==
  /\ RebuildEvidence(m, o.r, repeat) /\ V1RebuildEvents(o.r)
  /\ RebuildStorage(m, b, o.w, o.r, repeat)
  /\ InspectCaptureArtifact(m, o.w)

RebuildRestoreContract(m, b, o) ==
  /\ RestoreContractRebuildEvidence(m, o.r) /\ RestoreContractRebuildEvents(o.r)
  /\ RebuildStorage(m, b, o.w, o.r, FALSE)

RebuildV2(m, b, o, repeat, transition) ==
  /\ m = "migration" => TransitionBundle(b, transition) /\ TransitionReinitialized(o.w, transition)
  /\ IF m = "migration" THEN V2MigrationRebuildEvidence(m, o.r, repeat)
                        ELSE V2DirectRebuildEvidence(m, o.r, repeat)
  /\ V2RebuildStorage(m, b, o.w, o.r, repeat)

RebuildPassesOffByOne(m, b, o, x) ==
  CASE m = "roundtrip" -> Rebuild(m, b, o, x.iteration = 1)
    [] m = "restore" -> RebuildRestoreContract(m, b, o)
    [] OTHER -> RebuildV2(m, b, o, x.iteration = 1, x.transition)

RebuildPasses(m, b, o, x) ==
  CASE m = "roundtrip" -> Rebuild(m, b, o, x.iteration = 2)
    [] m = "restore" -> RebuildRestoreContract(m, b, o)
    [] OTHER -> RebuildV2(m, b, o, x.iteration = 2, x.transition)

Revert(m, b, o, binding) ==
  RevertEvidence(m, o.r, binding) /\ LegacyRevertStorage(b, o.w, binding)

RevertRestoreContract(m, b, o, binding) ==
  RestoreContractRevertEvidence(m, o.r, binding) /\ LegacyRevertStorage(b, o.w, binding)

RevertV2(m, b, o, binding, transition) ==
  /\ m = "migration" => TransitionReinitialized(b, transition)
  /\ V2RevertEvidence(m, o.r)
  /\ V2RevertStorage(b, o.w, binding)

RevertPasses(m, b, o, x) ==
  CASE m = "roundtrip" -> Revert(m, b, o, x.binding)
    [] m = "restore" -> RevertRestoreContract(m, b, o, x.binding)
    [] OTHER -> RevertV2(m, b, o, x.binding, x.transition)

Verify(o) == VerifyEvidence(o.r)
VerifyV2(m, b, o, transition) ==
  /\ m = "migration" => TransitionReinitialized(b, transition) /\ TransitionReinitialized(o.w, transition)
  /\ V2VerifyEvidence(o.r)

VerifyPasses(m, b, o, x) == IF m \in V2 THEN VerifyV2(m, b, o, x.transition) ELSE Verify(o)

ApplyDryRun(o) == InstallApplyEvidence(o.r)
VerifyAbsent(o) == InstallVerifyEvidence(o.r, FALSE)
VerifyPresent(o) == InstallVerifyEvidence(o.r, TRUE)

StepPasses(c, m, b, o, x) ==
  /\ CommandAccepted(o, c = "verifyAbsent")
  /\ CASE c = "capture" -> CapturePasses(m, o)
       [] c = "captureSpare" -> CaptureSparePasses(m, o)
       [] c = "rebuild" -> RebuildPasses(m, b, o, x)
       [] c = "revert" -> RevertPasses(m, b, o, x)
       [] c = "verify" -> VerifyPasses(m, b, o, x)
       [] c = "applyDryRun" -> ApplyDryRun(o)
       [] c = "verifyAbsent" -> VerifyAbsent(o)
       [] OTHER -> VerifyPresent(o)

\* Assertions a step that passed adds to the result.
Counted(step, m) ==
  CASE step = "capture" -> [a \in {"captured"} |-> Cardinality(Scope(m))]
    [] step = "compareRestored" -> [a \in {"content", IF m = "restore" THEN "verify" ELSE "rebuild"} |->
                                      IF a = "content" THEN Cardinality(Scope(m)) ELSE 1]
    [] step = "compareMutated" -> [a \in {"revert"} |-> 1]
    [] step \in {"verify", "assertPresent"} -> [a \in {"verify"} |-> 1]
    [] step = "applyDryRun" -> [a \in {"references"} |-> 1]
    [] OTHER -> <<>>

Tally(n, step, m) ==
  [a \in Assertions |-> n[a] + IF a \in DOMAIN Counted(step, m) THEN Counted(step, m)[a] ELSE 0]

Executed(step, b, o) ==
  IF step # "rebuild" THEN exec
  ELSE [exec EXCEPT !.binding = IF exec.iteration = 0 THEN RebuildBinding(b, o.w, o.r) ELSE @,
                    !.iteration = @ + 1]

-----------------------------------------------------------------------------
Init ==
  /\ mode \in Modes /\ minimum \in Minima /\ named \in BOOLEAN
  /\ pc = "select" /\ pos = 1
  /\ world = NewHost
  /\ exec = [iteration |-> 0, binding |-> NoBinding,
             transition |-> [applied |-> FALSE, bundle |-> EmptyBundle]]
  /\ counts = [a \in Assertions |-> 0]
  /\ result = None /\ file \in {None, Passed}       \* an earlier result may be there
  /\ err = FALSE /\ roots = {}
  /\ faults = 0 /\ trouble = 0 /\ genuine = TRUE

Trouble == trouble < MaxTrouble /\ trouble' = trouble + 1

\* compileSelection: the request names a scenario, or the refusal is the verdict.
Select ==
  /\ pc = "select"
  /\ \/ named /\ pc' = "setup" /\ UNCHANGED <<result, trouble>>
     \/ named /\ Trouble /\ result' = Failed("selection") /\ pc' = "persist"
     \/ ~named /\ result' = Failed("selection") /\ pc' = "returned" /\ UNCHANGED trouble
  /\ UNCHANGED <<scenario, journey, file, err, roots, faults, genuine>>

\* What cleanup leaves when the removals in `stuck` fail: the task root only goes
\* when it is empty.
CleanupLeaves(stuck, held) ==
  LET left == stuck \cap held IN
  IF left \cap (Roots \ {"authority"}) # {} THEN left \cup {"authority"} ELSE left

\* prepareScenarioRuntime: the four roots, then descriptor, fixture, guards and
\* boundaries.  An error while the roots are made removes those made so far.
Setup ==
  /\ pc = "setup"
  /\ roots' = Roots \cup IF Scope(mode) \cap Registry # {} THEN {"registry"} ELSE {}
  /\ world' = MaterializeArtifact(mode, world)
  /\ pc' = "journey"
  /\ UNCHANGED <<scenario, pos, exec, counts, result, file, err, budget, genuine>>

RootsCannotBeMade(made, stuck) ==
  /\ pc = "setup" /\ Trouble
  /\ stuck # {} => trouble + 1 < MaxTrouble
  /\ roots' = CleanupLeaves(stuck, made)
  /\ err' = TRUE /\ result' = Failed("setup") /\ pc' = "returned"
  /\ UNCHANGED <<scenario, journey, file, faults, genuine>>

\* abandonScenarioRuntime: a later failure of the preparation.  `how` is a verdict
\* on the fixture or an error; when the cleanup fails too, that is the verdict.
AbandonSetup(how, stuck) ==
  /\ pc = "setup" /\ Trouble
  /\ stuck # {} => trouble + 1 < MaxTrouble
  /\ roots' = CleanupLeaves(stuck, Roots)
  /\ IF roots' # {} THEN result' = Failed("cleanup") /\ pc' = "persist" /\ UNCHANGED err
     ELSE IF how = "failure" THEN result' = Failed("fixture") /\ pc' = "persist" /\ UNCHANGED err
     ELSE result' = Failed("setup") /\ err' = TRUE /\ pc' = "returned"
  /\ UNCHANGED <<scenario, journey, file, faults, genuine>>

-----------------------------------------------------------------------------
Step == Journey(mode)[pos]
InJourney(steps) == pc = "journey" /\ Step \in steps
Fail(at) == result' = Failed(at) /\ pc' = "cleanup" /\ UNCHANGED <<pos, counts>>
Advance ==
  /\ pos' = pos + 1 /\ counts' = Tally(counts, Step, mode)
  /\ UNCHANGED <<pc, result>>
Frame == UNCHANGED <<scenario, file, err, roots>>

\* The harness writes the host: the seed, the mutation, the removal of the optional
\* sources, the tool an install verifier looks for.
Written(step, m, w) ==
  CASE step = "materialize" -> IF m \in V2 THEN V2Materialize(m, w, TRUE) ELSE MaterializeCaptured(m, w)
    [] step = "mutate" -> IF m \in V2 THEN V2Materialize(m, w, FALSE) ELSE Mutate(m, w)
    [] step = "removeOptional" -> MaterializeOptionalAbsent(m, w)
    [] OTHER -> [w EXCEPT !.tool = TRUE]

Materialize ==
  /\ InJourney({"materialize", "mutate", "removeOptional", "installTool"})
  /\ IF Step = "installTool" /\ world.tool
     THEN Fail(Step) /\ UNCHANGED <<world, trouble>>
     ELSE \/ world' = Written(Step, mode, world) /\ Advance /\ UNCHANGED trouble
          \/ Trouble /\ Fail(Step) /\ UNCHANGED world
  /\ Frame /\ UNCHANGED <<exec, faults, genuine>>

Holds(step, m, w) ==
  CASE step = "compareSeed" -> CompareCaptureSeed(m, w)
    [] step = "compareOptional" -> CompareOptionalAbsent(m, w)
    [] step = "compareRestored" -> CompareRestored(m, w)
    [] step = "compareMutated" -> CompareMutated(m, w)
    [] step = "assertAbsent" -> ~w.tool
    [] step = "assertPresent" -> w.tool
    [] OTHER -> FALSE            \* requireOptional: a capture contract without one

CompareStep ==
  /\ InJourney({"compareSeed", "compareOptional", "compareRestored", "compareMutated",
                "assertAbsent", "assertPresent", "requireOptional"})
  /\ IF Holds(Step, mode, world) THEN Advance ELSE Fail(Step)
  /\ Frame /\ UNCHANGED <<world, exec, budget, genuine>>

\* One engine command and everything the executor checks about it.
Judge(o) ==
  /\ world' = o.w
  /\ genuine' = (genuine /\ Promise(Step, mode, world, o.w, o.r, exec))
  /\ IF StepPasses(Step, mode, world, o, exec)
     THEN Advance /\ exec' = Executed(Step, world, o)
     ELSE Fail(Step) /\ UNCHANGED exec

Command ==
  /\ InJourney(Commands)
  /\ Judge(Engine(Step, mode, world))
  /\ Frame /\ UNCHANGED budget

CommandDeviates ==
  /\ InJourney(Commands)
  /\ faults < MaxFaults
  /\ \E o \in Deviations(mode, Engine(Step, mode, world)) :
       \/ Judge(o) /\ faults' = faults + 1
       \/ faults + 1 < MaxFaults /\ \E p \in Deviations(mode, o) : Judge(p) /\ faults' = faults + 2
  /\ Frame /\ UNCHANGED trouble

\* Apply: from the old version to the new one with the package state removed, or
\* back to the old pair; a rollback may itself fail.
Rolled(w, wrote) ==
  {[w EXCEPT !.descriptor = d] : d \in {"old"} \cup IF wrote THEN {"new"} ELSE {}}

Transition ==
  /\ InJourney({"transition"})
  /\ IF world.descriptor # "old" \/ world.state # "old"
     THEN Fail(Step) /\ UNCHANGED <<world, exec, trouble>>
     ELSE \/ /\ world' = [world EXCEPT !.descriptor = "new", !.state = "absent"]
             /\ exec' = [exec EXCEPT !.transition = [applied |-> TRUE, bundle |-> world.bundle]]
             /\ Advance /\ UNCHANGED trouble
          \/ /\ Trouble
             /\ \E wrote \in BOOLEAN : \E w \in Rolled(world, wrote) :
                  world' = w /\ (w.descriptor # "old" => trouble + 1 < MaxTrouble)
             /\ Fail(Step) /\ UNCHANGED exec
  /\ Frame /\ UNCHANGED <<faults, genuine>>

\* evaluateAssertions: something was executed and every declared minimum is met.
AssertionsMet ==
  /\ mode # "install" => Scope(mode) # {}
  /\ \A a \in DOMAIN minimum : minimum[a] > 0 /\ counts[a] >= minimum[a]

EvaluateAssertions ==
  /\ InJourney({"evaluate"})
  /\ result' = IF AssertionsMet THEN Passed ELSE Failed("assertions")
  /\ pc' = "cleanup"
  /\ Frame /\ UNCHANGED <<journey, budget, genuine>>

-----------------------------------------------------------------------------
\* applyCleanupFailure: the host is removed; what cannot be removed is the verdict.
Cleanup(stuck) ==
  /\ pc = "cleanup"
  /\ stuck # {} => trouble < MaxTrouble
  /\ trouble' = trouble + IF stuck = {} THEN 0 ELSE 1
  /\ roots' = CleanupLeaves(stuck, roots)
  /\ result' = IF roots' = {} THEN result ELSE Failed("cleanup")
  /\ pc' = "persist"
  /\ UNCHANGED <<scenario, journey, file, err, faults, genuine>>

PersistResult ==
  /\ pc = "persist"
  /\ \/ file' = result /\ UNCHANGED <<err, trouble>>
     \/ Trouble /\ err' = TRUE /\ UNCHANGED file
  /\ pc' = "returned"
  /\ UNCHANGED <<scenario, journey, result, roots, faults, genuine>>

Next ==
  \/ Select \/ Setup
  \/ \E made \in RootPrefixes, stuck \in {{}} \cup {{r} : r \in Roots} : RootsCannotBeMade(made, stuck)
  \/ \E how \in {"failure", "error"}, stuck \in {{}} \cup {{r} : r \in Roots} : AbandonSetup(how, stuck)
  \/ Materialize \/ CompareStep \/ Command \/ CommandDeviates \/ Transition
  \/ EvaluateAssertions
  \/ \E stuck \in {{}} \cup {{r} : r \in Roots \cup {"registry"}} : Cleanup(stuck)
  \/ PersistResult

Spec == Init /\ [][Next]_vars

-----------------------------------------------------------------------------
\* Every variable is of its kind; the position stays inside the journey of the mode.
HarnessTypeOK ==
  /\ pc \in {"select", "setup", "journey", "cleanup", "persist", "returned"}
  /\ pos \in 1..Len(Journey(mode))
  /\ world.live \in [Targets -> [Parts -> Contents]]
  /\ counts \in [Assertions -> Nat] /\ exec.iteration \in 0..3
  /\ roots \subseteq Roots \cup {"registry"}
  /\ faults \in 0..MaxFaults /\ trouble \in 0..MaxTrouble

\* A scenario only passes when the engine did what the scenario is there to prove:
\* the bundle held the captured payloads and nothing excluded, two rebuilds restored
\* every target and left fresh backups of what they replaced with a journal and an
\* active member that name them, the revert between them brought the mutated state
\* back and consumed exactly that member, the third rebuild changed nothing, and no
\* command touched anything outside.  No two deviations of the engine hide each
\* other from the comparisons of the journey.
PassedIsGenuine == result = Passed => genuine

\* An engine that does what it should passes every scenario whose minima its journey
\* can reach: the expectations of the fixture, the evidence and the storage checks,
\* computed separately, agree with each other through all rebuilds and the revert.
HonestEnginePasses ==
  pc = "returned" /\ named /\ faults = 0 /\ trouble = 0
    /\ (\A a \in DOMAIN minimum : counts[a] >= minimum[a])
    => result = Passed

=============================================================================
