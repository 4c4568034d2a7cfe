-------------------------- MODULE ValidationEvidence --------------------------
(***************************************************************************)
(* What the validation harness accepts of one engine command               *)
(* (internal/validationharness: boundary.go, decode.go, evidence.go,       *)
(* storage.go, artifact.go and their v2, install, capture and restore      *)
(* counterparts).  A check sees the host before and after the command and  *)
(* the report; `binding` is what the first rebuild was found to have left. *)
(***************************************************************************)
EXTENDS ValidationFixture

NoBinding == [cites |-> NoCites, journal |-> 0]

-----------------------------------------------------------------------------
\* Every command: nothing outside the scenario changed, the output is within its
\* limit, the envelope and the events have the exact form, the process succeeded.
BoundariesIntact(o) == o.w.outside
OutputBounded(o) == o.r.end # "flood"
EnvelopeDecodes(o) == o.r.form
EventsDecode(o) == o.r.events # "malformed"
ProcessSucceeded(o) == o.r.end = "ok"

\* A failed verify is refused except where the failure is what is expected.
EventPolicy(o, allowVerifyFailure) == o.r.events = "fail" => allowVerifyFailure

CommandAccepted(o, allowVerifyFailure) ==
  /\ BoundariesIntact(o) /\ OutputBounded(o)
  /\ EnvelopeDecodes(o) /\ EventsDecode(o) /\ EventPolicy(o, allowVerifyFailure)
  /\ ProcessSucceeded(o)

-----------------------------------------------------------------------------
\* The captured bundle: exactly the payloads of the plan and their restore-excluded
\* witnesses, nothing capture-excluded, and the module projected exactly.  Of a
\* registry payload only the form is known here; its values show in the restored key.
PayloadSet(w, S) ==
  \A t \in S : /\ w.bundle[t].payload # "absent"
               /\ (w.bundle[t].kept # "absent") <=> (t \notin Registry)
               /\ w.bundle[t].left = "absent"

ArtifactPayload(w, t) == t \in Registry \/ w.bundle[t].payload = "captured"
ArtifactWitnesses(w, t) == w.bundle[t].kept = PackedTree(t).kept
CapturedProjection(w) == w.projects

InspectCaptureArtifact(m, w) ==
  /\ PayloadSet(w, Scope(m))
  /\ \A t \in Scope(m) : ArtifactPayload(w, t) /\ ArtifactWitnesses(w, t)
  /\ CapturedProjection(w)

InspectV2CaptureArtifact(m, w) ==
  /\ \A t \in Scope(m) : w.bundle[t] = PackedTree(t)
  /\ CapturedProjection(w)

InspectCaptureContractArtifact(m, w) ==
  /\ \A t \in Scope(m) : w.bundle[t] = PackedTree(t)
  /\ CapturedProjection(w)

\* With the optional sources gone: the required payloads exactly, no optional one.
OptionalAbsentArtifact(m, w) ==
  /\ \A t \in Scope(m) : w.spare[t] = IF t \in Optional THEN Gone ELSE PackedTree(t)
  /\ CapturedProjection(w)

CaptureContractOptionalOutcome(m, o) == o.r.outcome = "captured" /\ OptionalAbsentArtifact(m, o.w)

V2CaptureEnvelope(r) == r.outcome = "captured"
CaptureContractEvidence(r) == r.outcome = "captured" /\ r.events = "captured"

-----------------------------------------------------------------------------
\* What a rebuild must report: the repeated one that it had nothing to do, the
\* others that every target was restored and where its backup is.
RestoreItems(m, r, repeat) ==
  IF repeat THEN r.outcome = "skipped" /\ DOMAIN r.cites = {}
            ELSE r.outcome = "restored" /\ DOMAIN r.cites = Scope(m)

RebuildEvidence(m, r, repeat) == RestoreItems(m, r, repeat)
V1RebuildEvents(r) == r.events = r.outcome
V2DirectRebuildEvidence(m, r, repeat) == RestoreItems(m, r, repeat) /\ r.events = r.outcome
V2MigrationRebuildEvidence(m, r, repeat) == RestoreItems(m, r, repeat) /\ r.events = r.outcome
RestoreContractRebuildEvidence(m, r) == RestoreItems(m, r, FALSE)
RestoreContractRebuildEvents(r) == r.events = "restored"

\* A legacy revert names the journal and the backups of the first rebuild.
RevertEvidence(m, r, binding) ==
  /\ r.outcome = "reverted"
  /\ r.journal = binding.journal
  /\ DOMAIN r.cites = Scope(m) /\ r.cites = binding.cites

V2RevertEvidence(m, r) == r.outcome = "reverted" /\ DOMAIN r.cites = Scope(m) /\ r.events = "reverted"
RestoreContractRevertEvidence(m, r, binding) == RevertEvidence(m, r, binding) /\ r.events = "reverted"

VerifyEvidence(r) == r.outcome = "pass"
V2VerifyEvidence(r) == r.outcome = "pass" /\ r.events = "pass"
InstallApplyEvidence(r) == r.outcome = "present" /\ r.events = "present"
InstallVerifyEvidence(r, present) ==
  /\ r.outcome = IF present THEN "pass" ELSE "fail"
  /\ r.events = r.outcome

-----------------------------------------------------------------------------
\* Storage: what a command added to the trees it may write, and nothing more.
Added(f, g) == DOMAIN g \ DOMAIN f
OnlyAdds(f, g) == \A x \in DOMAIN f : x \in DOMAIN g /\ g[x] = f[x]

FixtureBackup(m, t, tree) == t \in Registry \/ tree = MutatedTree(m, t)

\* Each target has a backup of its own, written by this rebuild, inside the storage.
BackupsBound(m, b, a, cites) ==
  /\ \A t \in Scope(m) : /\ cites[t] \in Added(b.backups, a.backups)
                         /\ FixtureBackup(m, t, a.backups[cites[t]])
  /\ \A s, t \in Scope(m) : s # t => cites[s] # cites[t]
  /\ OnlyAdds(b.backups, a.backups)
  /\ Added(b.backups, a.backups) = {cites[t] : t \in Scope(m)}

NewRestoreJournal(b, a) ==
  Cardinality(Added(b.journals, a.journals)) = 1 /\ OnlyAdds(b.journals, a.journals)

JournalEntries(a, j, cites) == a.journals[j] = cites

LegacyStoreBinding(b, a, j) ==
  /\ Cardinality(Added(b.members, a.members)) = 1
  /\ \A i \in Added(b.members, a.members) : a.members[i] = [journal |-> j, reverted |-> FALSE]
  /\ OnlyAdds(b.members, a.members)

StorageUnchanged(b, a, trees) ==
  /\ b.backups = a.backups /\ b.journals = a.journals /\ b.members = a.members
  /\ b.stray \cap trees = a.stray \cap trees

RebuildStorage(m, b, a, r, repeat) ==
  IF repeat THEN StorageUnchanged(b, a, {"backups", "logs", "store"})
  ELSE /\ BackupsBound(m, b, a, r.cites)
       /\ NewRestoreJournal(b, a)
       /\ \A j \in Added(b.journals, a.journals) :
             JournalEntries(a, j, r.cites) /\ LegacyStoreBinding(b, a, j)
       /\ b.stray = a.stray

\* A generation restore keeps its snapshots and its intent inside one new
\* transaction; the legacy backup tree is not looked at.
V2Transaction(m, b, a, r) ==
  /\ BackupsBound(m, b, a, r.cites)
  /\ \A j \in Added(b.journals, a.journals) : JournalEntries(a, j, r.cites)

V2Committed(b, a) ==
  \A j \in Added(b.journals, a.journals) : LegacyStoreBinding(b, a, j)

V2RebuildStorage(m, b, a, r, repeat) ==
  IF repeat THEN StorageUnchanged(b, a, {"logs", "store"})
  ELSE /\ NewRestoreJournal(b, a)
       /\ V2Transaction(m, b, a, r)
       /\ V2Committed(b, a)
       /\ b.stray \ {"backups"} = a.stray \ {"backups"}

\* The member the first rebuild left is marked reverted and is all that changed in
\* the store; a legacy revert does not look at backups and logs again.
Marked(b, a, j) ==
  /\ j \in DOMAIN b.members /\ ~b.members[j].reverted
  /\ a.members = [b.members EXCEPT ![j].reverted = TRUE]

LegacyRevertStorage(b, a, binding) ==
  /\ Marked(b, a, binding.journal)
  /\ b.stray \cap {"store"} = a.stray \cap {"store"}

V2RevertStorage(b, a, binding) ==
  /\ Marked(b, a, binding.journal)
  /\ b.backups = a.backups /\ b.journals = a.journals
  /\ b.stray \ {"backups"} = a.stray \ {"backups"}

RebuildBinding(b, a, r) ==
  [cites |-> r.cites, journal |-> CHOOSE j \in Added(b.journals, a.journals) : TRUE]

-----------------------------------------------------------------------------
\* The version transition of a migration scenario, once applied: the new version is
\* described, its package state initialised and the bundle the one captured.
TransitionBundle(w, transition) == transition.applied /\ w.bundle = transition.bundle
TransitionReinitialized(w, transition) ==
  /\ TransitionBundle(w, transition)
  /\ w.descriptor = "new" /\ w.state = "new"
=============================================================================
