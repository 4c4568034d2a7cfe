------------------------------ MODULE BackupPush ------------------------------
(***************************************************************************)
(* backup push (PushVersion): the content check of --if-changed, the row   *)
(* of the new version, and the upload of its manifest and chunks.          *)
(*                                                                         *)
(* The service is external and modelled from the calls: POST .../versions  *)
(* makes a row, which is listed from then on, and the presigned PUTs fill  *)
(* it; no call tells the service that an upload is complete.  A row is     *)
(* created in order, so the newest one is the last.  Item 1 of the work    *)
(* list is the manifest, the others are the chunks.                        *)
(*                                                                         *)
(* One process pushes at a time.  The early returns before the content     *)
(* check (no key, unreadable profile) change nothing and are left out.     *)
(***************************************************************************)
EXTENDS TransferPool

CONSTANTS
  Contents,         \* what the profile may hold, as its fingerprint
  ApiRetries,       \* MaxRetries of the API client's retry policy
  MaxVersions       \* bound: rows ever created

ASSUME PushBounds == ApiRetries \in Nat /\ MaxVersions \in Nat

Manifest == 1

VARIABLES
  rows,             \* the versions of the backup, oldest first
  phase,            \* where PushVersion is
  content,          \* the fingerprint of the profile being pushed
  posts,            \* failed tries of POST .../versions
  cur,              \* the version being written, or the one answered
  answer            \* what the last push returned

pushVars == <<rows, phase, content, posts, cur, answer>>
pushSystem == <<poolVars, pushVars>>

Row == [content : Contents, stored : SUBSET Items, listed : BOOLEAN]
Versions == DOMAIN rows

PushTypeOK ==
  /\ rows \in Seq(Row)
  /\ phase \in {"idle", "peek", "create", "upload"}
  /\ content \in Contents /\ posts \in 0..ApiRetries /\ cur \in Nat
  /\ answer \in {"none", "pushed", "skipped", "failed"}
  /\ answer \in {"pushed", "skipped"} => cur \in Versions

PushInit ==
  /\ PoolInit /\ rows = <<>> /\ phase = "idle" /\ content \in Contents
  /\ posts = 0 /\ cur = 0 /\ answer = "none"

-----------------------------------------------------------------------------
(* The command *)

PushStarts(c, ifChanged) ==
  /\ phase = "idle" /\ phase' = IF ifChanged THEN "peek" ELSE "create"
  /\ content' = c /\ posts' = 0 /\ cur' = 0 /\ answer' = "none"
  /\ UNCHANGED <<poolVars, rows>>

PushEnds(a) == phase' = "idle" /\ answer' = a

\* SelectLatest over the rows the service lists.
Latest(v) == v \in Versions /\ rows[v].listed /\ \A u \in Versions : rows[u].listed => u <= v

\* Mutant: the row is trusted without reading its manifest.
AnyLatestMatches(v) == Latest(v) /\ rows[v].content = content

\* LatestManifest: the newest version's manifest, when it can be read.
ManifestMatches(v) ==
  Latest(v) /\ Manifest \in rows[v].stored /\ rows[v].content = content

\* Any failure to read the newest manifest falls through to an upload.
Peek ==
  /\ phase = "peek"
  /\ \/ \E v \in Versions : ManifestMatches(v) /\ cur' = v /\ PushEnds("skipped")
     \/ phase' = "create" /\ UNCHANGED <<cur, answer>>
  /\ UNCHANGED <<poolVars, rows, content, posts>>

\* The service creates a row (external).
NewRow ==
  /\ Len(rows) < MaxVersions
  /\ rows' = Append(rows, [content |-> content, stored |-> {}, listed |-> TRUE])

\* A transport error or a retryable status: the client posts again, or gives up.
PostAgain ==
  /\ IF posts < ApiRetries
     THEN posts' = posts + 1 /\ UNCHANGED <<phase, answer>>
     ELSE UNCHANGED posts /\ PushEnds("failed")
  /\ UNCHANGED <<poolVars, cur>>

\* POST .../versions: the row is made and the upload starts, or its URLs are
\* incomplete; the row may also have been made although no answer arrives.
CreateVersion ==
  /\ phase = "create" /\ UNCHANGED content
  /\ \/ /\ NewRow /\ cur' = Len(rows) + 1 /\ UNCHANGED posts
        /\ \/ PoolStart /\ phase' = "upload" /\ UNCHANGED answer
           \/ UNCHANGED poolVars /\ PushEnds("failed")
     \/ NewRow /\ PostAgain
     \/ UNCHANGED rows /\ PostAgain
     \/ PushEnds("failed") /\ UNCHANGED <<poolVars, rows, posts, cur>>

\* The PUT of worker w's item takes effect.
Store(w) == rows' = [rows EXCEPT ![cur].stored = @ \cup {item[w]}]

\* A PUT that is answered well has been stored.
PutSucceeds(w) ==
  phase = "upload" /\ Succeed(w) /\ Store(w) /\ UNCHANGED <<phase, content, posts, cur, answer>>

\* One that fails may have been stored: the answer is lost, or comes late.
PutFails(w) ==
  /\ phase = "upload" /\ \E e \in Errors : RequestFails(w, e)
  /\ Store(w) \/ UNCHANGED rows
  /\ UNCHANGED <<phase, content, posts, cur, answer>>

\* The steps of the pool that send nothing.
PoolStep ==
  /\ phase = "upload" /\ UNCHANGED pushVars
  /\ \/ ProducerStop
     \/ \E w \in Workers :
          Take(w) \/ RangeEnds(w) \/ BackoffEnds(w) \/ ReportError(w) \/ CancelAndExit(w)

\* Mutant: an error of the pool is not looked at.
AlwaysPushed ==
  phase = "upload" /\ PoolReturn /\ PushEnds("pushed") /\ UNCHANGED <<rows, content, posts, cur>>

PushReturns ==
  /\ phase = "upload" /\ PoolReturn
  /\ PushEnds(IF outcome' = "ok" THEN "pushed" ELSE "failed")
  /\ UNCHANGED <<rows, content, posts, cur>>

-----------------------------------------------------------------------------
(* The world around it *)

\* The process is killed; a PUT under way may still be stored.
Die ==
  /\ phase # "idle" /\ PushEnds("none")
  /\ IF phase = "upload"
     THEN /\ PoolKilled
          /\ \E held \in SUBSET {item[w] : w \in {x \in Workers : st[x] = "transfer"}} :
               rows' = [rows EXCEPT ![cur].stored = @ \cup held]
     ELSE UNCHANGED <<poolVars, rows>>
  /\ UNCHANGED <<content, posts, cur>>

\* A version is deleted from elsewhere, or the service collects it.
DeleteVersion(v) ==
  /\ v \in Versions /\ rows[v].listed
  /\ rows' = [rows EXCEPT ![v].listed = FALSE]
  /\ UNCHANGED <<poolVars, phase, content, posts, cur, answer>>

PushNext ==
  \/ \E c \in Contents, ifChanged \in BOOLEAN : PushStarts(c, ifChanged)
  \/ Peek \/ CreateVersion \/ PoolStep \/ PushReturns \/ Die
  \/ \E w \in Workers : PutSucceeds(w) \/ PutFails(w)
  \/ \E v \in Versions : DeleteVersion(v)

PushSpec == PushInit /\ [][PushNext]_pushSystem

-----------------------------------------------------------------------------
(* Properties *)

\* A push that says it succeeded has its manifest and every chunk stored under
\* the version it names, whatever was retried, cancelled or answered late
\* (upload.go:170-192).
PushedIsWhole ==
  answer = "pushed" => rows[cur].stored = Items /\ rows[cur].content = content

\* The empty rows that a repeated POST or a failed push leaves behind are never
\* taken for a backup: a push that is skipped names a version whose manifest is
\* stored and whose content is the profile's (upload.go:121-129).
SkippedHasManifest ==
  answer = "skipped" => Manifest \in rows[cur].stored /\ rows[cur].content = content

\* "a transient hiccup never blocks a backup" (upload.go:118-119): when a push
\* is skipped, the version it points to is a whole backup of the profile.  The code
\* does not have this property: README, Known divergences.
SkipMeansBackedUp == answer = "skipped" => rows[cur].stored = Items

=============================================================================
