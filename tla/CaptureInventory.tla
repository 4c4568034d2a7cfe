-------------------------- MODULE CaptureInventory --------------------------
(***************************************************************************)
(* What `endstate capture` lists: the packages each manager reports, the   *)
(* filters, the union with the installed-software inventory (ARP), the ids *)
(* of the manifest entries, --only, and the merge of --update.             *)
(*   go-engine/internal/commands/capture.go, capture_sources.go,           *)
(*   capture_realizer.go and snapshot/snapshot.go.                         *)
(*                                                                         *)
(* A package row is [drv, ref, src, base, arp, known, runtime, ver]: its   *)
(* manager, its ref (a number, so that rows can be sorted), the source it  *)
(* is listed under, the id its ref converts to, the ARP entry it is bound  *)
(* to (or None), whether that relationship is authoritative, whether it is *)
(* a runtime, its version.  A manifest entry is [id, drv, ref, src, fp,    *)
(* ver, seen]: fp is its ARP fingerprint, seen says that this run detected *)
(* it.  An id is the base, the base and the manager, or both and a number. *)
(***************************************************************************)
EXTENDS Naturals, Sequences, FiniteSets, SequencesExt

CONSTANT None

----------------------------------------------------------------------------
(* Enumeration on Windows. *)

WingetSources(fl) == IF fl.nostore THEN {"winget"} ELSE {"winget", "msstore"}

\* The legacy tests of a row: which source it is exported from.
SourceRows(rows, s) == SelectSeq(rows, LAMBDA p : p.drv = "winget" /\ p.src = s)

\* The rows of the sources that answered, the community source first.
WingetRows(rows, answered) ==
    (IF "winget" \in answered THEN SourceRows(rows, "winget") ELSE << >>)
    \o (IF "msstore" \in answered THEN SourceRows(rows, "msstore") ELSE << >>)

ByRef(p, q) == p.ref < q.ref

\* One row for a ref listed under both sources: the source its id names (a
\* Store id is a Store row), or the first listed.
dedupeWingetSourcePackages(rows) ==
    LET wanted(p) == p.src = (IF p.store THEN "msstore" ELSE "winget")
        best(r) == LET mine == {i \in 1..Len(rows) : rows[i].ref = r}
                       good == {i \in mine : wanted(rows[i])}
                   IN rows[Min(IF good = {} THEN mine ELSE good)]
    IN SetToSortSeq({best(rows[i].ref) : i \in 1..Len(rows)}, ByRef)

\* Each source is asked up to three times; `failed` are the sources that
\* never answered, each a warning as long as another source listed something.
EnumerateInstalledWithWarnings(fl, rows, failed) ==
    [rows |-> dedupeWingetSourcePackages(WingetRows(rows, WingetSources(fl) \ failed)),
     warnings |-> {<<"source_unavailable", s>> : s \in failed}]

\* Winget first, then chocolatey.  A manager that was not asked for by name
\* and is not winget is optional: its failure is a warning.
enumerateWindowsCapturePackages(fl, rows, failed) ==
    LET winget == EnumerateInstalledWithWarnings(fl, rows, failed \ {"chocolatey"})
        choco == SelectSeq(rows, LAMBDA p : p.drv = "chocolatey")
    IN [rows |-> (IF "winget" \in fl.drivers THEN winget.rows ELSE << >>)
                 \o (IF "chocolatey" \in fl.drivers \ failed
                     THEN SetToSortSeq({choco[i] : i \in 1..Len(choco)}, ByRef)
                     ELSE << >>),
        warnings |-> winget.warnings \cup
                     {<<"optional_driver_unavailable", d>> : d \in failed \cap {"chocolatey"}},
        \* Winget must answer, and must list something; a named manager must answer.
        failed |-> \/ "winget" \in fl.drivers /\ winget.rows = << >>
                   \/ fl.explicit /\ "chocolatey" \in fl.drivers \cap failed]

----------------------------------------------------------------------------
(* From rows to manifest entries. *)

effectiveCapturedSource(a) ==
    CASE a.drv # "winget" -> a.drv
      [] a.src = None -> "winget"
      [] OTHER -> a.src

captureIdentity(a) ==
    <<a.drv, IF a.drv = "winget" THEN effectiveCapturedSource(a) ELSE None, a.ref>>

IsRuntimePackage(p) == p.runtime

Filtered(fl, p) == /\ p.drv = "winget"
                   /\ \/ ~fl.runtimes /\ IsRuntimePackage(p)
                      \/ fl.nostore /\ p.src = "msstore"

capturedApp(fl, p) ==
    [id |-> <<p.base>>, drv |-> p.drv, ref |-> p.ref,
     src |-> IF p.drv = "winget" /\ p.src = "msstore" THEN "msstore" ELSE None,
     fp |-> p.arp,
     ver |-> IF fl.pin /\ p.src # "msstore" THEN p.ver ELSE None,
     cur |-> p.ver, seen |-> TRUE]

arpApp(k) == [id |-> <<k>>, drv |-> "winget", ref |-> None, src |-> None, fp |-> k,
              ver |-> None, cur |-> None, seen |-> TRUE]

\* The installed-software inventory completes the list only when every row
\* of every manager has an authoritative binding; otherwise a warning.
unionAllowed(rows) == \A i \in 1..Len(rows) : rows[i].known

ConvertRows(fl, rows, inventory) ==
    LET kept == SelectSeq(rows, LAMBDA p : ~Filtered(fl, p))
        bound == {rows[i].arp : i \in {j \in 1..Len(rows) : rows[j].known}}
        loose == SelectSeq(inventory, LAMBDA k : k \notin bound)
    IN [i \in 1..Len(kept) |-> capturedApp(fl, kept[i])]
       \o (IF unionAllowed(rows) THEN [i \in 1..Len(loose) |-> arpApp(loose[i])] ELSE << >>)

deterministicCaptureID(base, drv, used) ==
    LET suffixed(n) == IF n = 1 THEN base \o <<drv>> ELSE base \o <<drv, n>>
        free == {n \in 1..(Cardinality(used) + 1) : suffixed(n) \notin used}
    IN IF base \notin used THEN base ELSE suffixed(Min(free))

IdsOf(apps) == {apps[i].id : i \in 1..Len(apps)}

\* The entries of `more` appended to `apps`, each with an id not used yet.
AppendWithIds(apps, more) ==
    FoldLeft(LAMBDA acc, a :
                 Append(acc, [a EXCEPT !.id = deterministicCaptureID(a.id, a.drv, IdsOf(acc))]),
             apps, more)

assignDeterministicCaptureIDs(apps) == AppendWithIds(<< >>, apps)

\* --only: the ids must all have been detected and there must be one.
onlyRejected(only, apps) ==
    /\ only # None
    /\ \/ only.apps = {}
       \/ ~(only.apps \subseteq IdsOf(apps))

validateCaptureOnly(only, apps) ==
    IF only = None THEN apps ELSE SelectSeq(apps, LAMBDA a : a.id \in only.apps)

----------------------------------------------------------------------------
(* --update: the entries of the manifest stay, what was detected is joined *)
(* to them by ref, or by fingerprint when it is unambiguous on both sides, *)
(* and what the manifest does not know is appended.                        *)

CountFp(apps, fp) == Cardinality({i \in 1..Len(apps) : apps[i].fp = fp})

\* The maps of the code are filled in order: the last entry of a key wins.
LastOf(apps, hits) == IF hits = {} THEN None ELSE apps[Max(hits)]

DetectedByRef(e, captured) ==
    IF e.ref = None THEN None
    ELSE LastOf(captured, {i \in DOMAIN captured :
            captured[i].ref # None /\ captureIdentity(captured[i]) = captureIdentity(e)})

DetectedByFingerprint(e, existing, captured) ==
    IF e.fp # None /\ CountFp(existing, e.fp) = 1 /\ CountFp(captured, e.fp) = 1
    THEN LastOf(captured, {i \in DOMAIN captured : captured[i].fp = e.fp})
    ELSE None

UnpinStore(fl, e) ==
    IF fl.pin /\ effectiveCapturedSource(e) = "msstore" THEN [e EXCEPT !.ver = None] ELSE e

JoinDetected(fl, e, a, rebind) ==
    LET r == IF rebind /\ a.ref # None
             THEN [e EXCEPT !.ref = a.ref, !.drv = a.drv, !.src = a.src] ELSE e
        s == [r EXCEPT !.src = a.src, !.seen = a.seen, !.cur = a.cur,
                       !.fp = IF a.fp # None THEN a.fp ELSE @]
    IN IF fl.pin /\ effectiveCapturedSource(s) # "msstore" /\ a.cur # None
       THEN [s EXCEPT !.ver = a.cur] ELSE s

MergedEntry(fl, e0, existing, captured) ==
    LET e == UnpinStore(fl, [e0 EXCEPT !.seen = FALSE, !.cur = None])
        byRef == DetectedByRef(e, captured)
        byFp == DetectedByFingerprint(e, existing, captured)
    IN CASE byRef # None -> JoinDetected(fl, e, byRef, FALSE)
         [] byRef = None /\ byFp # None -> JoinDetected(fl, e, byFp, TRUE)
         [] OTHER -> e

\* Mutant: what was joined by fingerprint is appended all the same.
UnknownByRef(existing, a) ==
    \A i \in 1..Len(existing) :
        existing[i].ref # None => captureIdentity(existing[i]) # captureIdentity(a)

UnknownTo(existing, a) ==
    /\ \A i \in 1..Len(existing) :
          existing[i].ref # None => captureIdentity(existing[i]) # captureIdentity(a)
    /\ a.fp = None \/ CountFp(existing, a.fp) = 0

MergeUpdate(fl, existing, captured) ==
    AppendWithIds([i \in 1..Len(existing) |-> MergedEntry(fl, existing[i], existing, captured)],
                  SelectSeq(captured, LAMBDA a : UnknownTo(existing, a)))

----------------------------------------------------------------------------
(* The realizer lane: the nix set, then brew on macOS. *)

\* A systemic error of the realizer fails the capture, any other reads as an
\* empty set; brew that cannot be asked fails it only when asked for by name.
realizerFails(fl, answers) ==
    \/ "nix" \in fl.drivers /\ answers["nix"] = "systemic"
    \/ fl.explicit /\ "brew" \in fl.drivers /\ answers["brew"] # "ok"

realizerApp(p) == [id |-> <<p.base>>, drv |-> p.drv, ref |-> p.ref, src |-> None, fp |-> None,
                   ver |-> p.ver, cur |-> p.ver, seen |-> TRUE]

RealizerRows(fl, rows, answers, d) ==
    IF d \in fl.drivers /\ answers[d] = "ok"
    THEN LET mine == SelectSeq(rows, LAMBDA p : p.drv = d)
         IN [i \in 1..Len(mine) |-> realizerApp(mine[i])]
    ELSE << >>

runCaptureRealizerSelected(fl, rows, answers) ==
    AppendWithIds(RealizerRows(fl, rows, answers, "nix"),
                  RealizerRows(fl, rows, answers, "brew"))

\* Entries are joined by manager and ref only, and keep their version.
realizerMerge(existing, captured) ==
    LET hit(e) == LastOf(captured, {i \in DOMAIN captured :
                      captured[i].drv = e.drv /\ captured[i].ref = e.ref})
        joined(e) == IF hit(e) = None THEN [e EXCEPT !.seen = FALSE, !.cur = None]
                     ELSE [e EXCEPT !.seen = TRUE, !.cur = hit(e).cur, !.src = hit(e).src]
    IN AppendWithIds([i \in 1..Len(existing) |-> joined(existing[i])],
                     SelectSeq(captured, LAMBDA a : \A i \in 1..Len(existing) :
                                  <<existing[i].drv, existing[i].ref>> # <<a.drv, a.ref>>))
=============================================================================
