------------------------------ MODULE BackupPull ------------------------------
(***************************************************************************)
(* backup pull (PullVersion): the manifest and the chunks of one version   *)
(* are fetched, verified and decrypted in memory, then the target          *)
(* directory is emptied (--overwrite) and the archive unpacked into it.    *)
(*                                                                         *)
(* The objects of the version are external: what each GET may find is      *)
(* chosen when the pull starts and does not improve during it.  The        *)
(* directory is a function from file names; only the names, and whether a  *)
(* file is the machine's or the backup's, are told apart.                  *)
(***************************************************************************)
EXTENDS TransferPool

CONSTANTS
  Files,            \* the names in the target directory or in the archive
  Archive,          \* the names in the archive
  RemoveCanFail,    \* may os.RemoveAll leave files behind?
  OthersWrite       \* may another program create files meanwhile?

ASSUME PullAssumption ==
  Archive \subseteq Files /\ RemoveCanFail \in BOOLEAN /\ OthersWrite \in BOOLEAN

VARIABLES
  blob,             \* the object of each chunk: "good", "missing", "damaged"
  exists,           \* the target directory exists
  target,           \* its files
  written,          \* those written by the running or last pull
  overwrite,        \* the flag of the running pull
  pullPhase,
  pullAnswer            \* what the last pull returned

pullVars == <<blob, exists, target, written, overwrite, pullPhase, pullAnswer>>
pullSystem == <<poolVars, pullVars>>

PullTypeOK ==
  /\ blob \in [Items -> {"good", "missing", "damaged"}]
  /\ exists \in BOOLEAN /\ overwrite \in BOOLEAN
  /\ target \in [Files -> {"absent", "local", "pulled"}] /\ written \subseteq Archive
  /\ pullPhase \in {"idle", "manifest", "fetch", "remove", "mkdir", "untar"}
  /\ pullAnswer \in {"none", "pulled", "refused", "failed"}
  /\ ~exists => target = [f \in Files |-> "absent"]

\* The machine's directory before the first pull.
PullInit ==
  /\ PoolInit /\ blob = [i \in Items |-> "good"] /\ overwrite = FALSE /\ written = {}
  /\ exists \in BOOLEAN /\ pullPhase = "idle" /\ pullAnswer = "none"
  /\ target \in [Files -> {"absent", "local"}]
  /\ ~exists => target = [f \in Files |-> "absent"]

-----------------------------------------------------------------------------
PullEnds(a) == pullPhase' = "idle" /\ pullAnswer' = a

\* An existing target is refused without --overwrite, before anything is fetched.
BeginPull(over, b) ==
  /\ pullPhase = "idle" /\ overwrite' = over /\ blob' = b /\ written' = {}
  /\ IF exists /\ ~over THEN PullEnds("refused") ELSE pullPhase' = "manifest" /\ pullAnswer' = "none"
  /\ UNCHANGED <<poolVars, exists, target>>

\* The manifest is fetched, decrypted and parsed, and the chunks' URLs are
\* asked for; any failure ends the pull.
FetchManifest ==
  /\ pullPhase = "manifest"
  /\ \/ PoolStart /\ pullPhase' = "fetch" /\ UNCHANGED pullAnswer
     \/ UNCHANGED poolVars /\ PullEnds("failed")
  /\ UNCHANGED <<blob, exists, target, written, overwrite>>

\* The chunk's digest matches the manifest's and it decrypts.
ChunkVerified(w) == blob[item[w]] = "good"

\* One worker fetches and checks one chunk: getOnce, sha256, DecryptChunk.
GetChunk(w) ==
  /\ pullPhase = "fetch"
  /\ \/ Succeed(w) /\ ChunkVerified(w)
     \/ RequestFails(w, "fatal") \/ RequestFails(w, "canceled")
  /\ UNCHANGED pullVars

FetchStep ==
  /\ pullPhase = "fetch" /\ UNCHANGED pullVars
  /\ \/ ProducerStop
     \/ \E w \in Workers : Take(w) \/ RangeEnds(w) \/ ReportError(w) \/ CancelAndExit(w)

\* Mutant: the target is emptied whatever the pool returned.
FetchIgnored ==
  /\ pullPhase = "fetch" /\ PoolReturn
  /\ pullPhase' = "remove" /\ UNCHANGED <<pullAnswer, blob, exists, target, written, overwrite>>

\* getParallelChunks returns.
FetchReturns ==
  /\ pullPhase = "fetch" /\ PoolReturn
  /\ IF outcome' = "ok"
     THEN pullPhase' = (IF overwrite THEN "remove" ELSE "mkdir") /\ UNCHANGED pullAnswer
     ELSE PullEnds("failed")
  /\ UNCHANGED <<blob, exists, target, written, overwrite>>

\* The files that are left after a removal of the rest.
Keeping(kept) == [f \in Files |-> IF f \in kept THEN target[f] ELSE "absent"]

\* os.RemoveAll(to), whose error is not looked at.
RemoveTarget ==
  /\ pullPhase = "remove" /\ pullPhase' = "mkdir"
  /\ \/ target' = Keeping({}) /\ exists' = FALSE
     \/ /\ RemoveCanFail /\ exists /\ UNCHANGED exists
        /\ \E kept \in SUBSET Files : target' = Keeping(kept)
  /\ UNCHANGED <<poolVars, blob, written, overwrite, pullAnswer>>

\* os.MkdirAll(to), which is content with a directory that is there.
MakeTarget ==
  /\ pullPhase = "mkdir"
  /\ \/ exists' = TRUE /\ pullPhase' = "untar" /\ UNCHANGED pullAnswer
     \/ UNCHANGED exists /\ PullEnds("failed")
  /\ UNCHANGED <<poolVars, blob, target, written, overwrite>>

WriteFile ==
  /\ UNCHANGED <<pullPhase, pullAnswer>>
  /\ \E f \in Archive \ written :
       target' = [target EXCEPT ![f] = "pulled"] /\ written' = written \cup {f}

\* untarTo: one file after the other; the first that cannot be written ends it.
Untar ==
  /\ pullPhase = "untar"
  /\ \/ WriteFile
     \/ written # Archive /\ PullEnds("failed") /\ UNCHANGED <<target, written>>
     \/ written = Archive /\ PullEnds("pulled") /\ UNCHANGED <<target, written>>
  /\ UNCHANGED <<poolVars, blob, exists, overwrite>>

\* Another program creates a file in the target (external).
OtherWrites(f) ==
  /\ OthersWrite /\ target[f] = "absent"
  /\ target' = [target EXCEPT ![f] = "local"] /\ exists' = TRUE
  /\ UNCHANGED <<poolVars, blob, written, overwrite, pullPhase, pullAnswer>>

\* The process is killed.
PullDies ==
  /\ pullPhase # "idle" /\ PullEnds("none")
  /\ IF pullPhase = "fetch" THEN PoolKilled ELSE UNCHANGED poolVars
  /\ UNCHANGED <<blob, exists, target, written, overwrite>>

PullNext ==
  \/ \E over \in BOOLEAN, b \in [Items -> {"good", "missing", "damaged"}] : BeginPull(over, b)
  \/ FetchManifest \/ FetchStep \/ FetchReturns \/ RemoveTarget \/ MakeTarget \/ Untar \/ PullDies
  \/ \E w \in Workers : GetChunk(w)
  \/ \E f \in Files : OtherWrites(f)

PullSpec == PullInit /\ [][PullNext]_pullSystem

\* The pool's goroutines and requests are scheduled fairly (TransferPool).
PullFairSpec == PullSpec /\ PoolFairness

-----------------------------------------------------------------------------
(* Properties *)

\* Nothing of the user's directory is removed or written before every chunk of
\* the version has been fetched, verified against the manifest and decrypted: a
\* damaged or half-uploaded version never costs the user the files that are
\* there (download.go:157-183).
TouchedOnlyWhenVerified ==
  [][(\E f \in Files : target'[f] # target[f] /\ target'[f] # "local")
       => done = Items /\ \A i \in Items : blob[i] = "good"]_pullSystem

\* "A push followed by a pull SHALL produce a byte-equal copy of the original
\* profile contents" (hosted-backup-orchestration spec.md:44): after a successful
\* pull the directory holds the archive and nothing else.  The code does not have this property: README, Known
\* divergences.
PulledIsExact == pullAnswer = "pulled" => \A f \in Files \ Archive : target[f] = "absent"

=============================================================================
