---------------------------- MODULE ConfigStaging ----------------------------
(***************************************************************************)
(* What happens to one selected config set between its plan and its        *)
(* transaction: the private copy of the payload, the pinned migration      *)
(* edges applied to it, the declared validations (internal/migration,      *)
(* configdoc, configvalidate) and the concrete actions it becomes          *)
(* (configrestore/materialize.go).  Pure functions; ConfigRestoreRun calls *)
(* them at the moment the code reads the disk.                             *)
(*                                                                         *)
(* A tree maps the path of every regular file to its document; a path with *)
(* files below it is a directory.  A document maps addresses (JSON paths,  *)
(* INI section and key) to values; a line of a text is an address of its   *)
(* own.  Empty directories and empty objects are not told apart from       *)
(* missing ones.                                                           *)
(***************************************************************************)
EXTENDS ConfigPlanning, TLC

(***************************************************************************)
(* Trees and documents                                                     *)
(***************************************************************************)
Exists(tree, path) == \E p \in DOMAIN tree : IsPrefix(path, p)

IsDir(tree, path) == \E p \in DOMAIN tree : IsStrictPrefix(path, p)

Prune(f, at) == [p \in {q \in DOMAIN f : ~IsPrefix(at, q)} |-> f[p]]

\* What is found under a path, named relative to it (<< >> is the file itself).
Subtree(tree, at) ==
    LET inside == {p \in DOMAIN tree : IsPrefix(at, p)}
        Rel(p) == SubSeq(p, Len(at) + 1, Len(p))
    IN [r \in {Rel(p) : p \in inside} |-> tree[at \o r]]

Graft(tree, at, sub) ==
    [p \in {at \o r : r \in DOMAIN sub} |-> sub[SubSeq(p, Len(at) + 1, Len(p))]] @@ tree

\* A path below a regular file cannot be created.
Creatable(tree, path) == \A p \in DOMAIN tree : ~IsStrictPrefix(p, path)

Failed == [ok |-> FALSE, tree |-> << >>]
Done(tree) == [ok |-> TRUE, tree |-> tree]
OkIf(cond, tree) == IF cond THEN Done(tree) ELSE Failed

(***************************************************************************)
(* Migration operations on the staged tree                                 *)
(***************************************************************************)
targetIsSourceOrDescendant(op) == IsPrefix(op.source, op.target)

\* A directory never replaces anything; a file replaces only a file.
DestinationFree(tree, op) ==
    /\ Creatable(tree, op.target)
    /\ IF IsDir(tree, op.source) THEN ~Exists(tree, op.target) ELSE ~IsDir(tree, op.target)

applyFileCopy(tree, op) ==
    OkIf(~targetIsSourceOrDescendant(op) /\ Exists(tree, op.source) /\ DestinationFree(tree, op),
         Graft(tree, op.target, Subtree(tree, op.source)))

applyFileMove(tree, op) ==
    OkIf(~targetIsSourceOrDescendant(op) /\ Exists(tree, op.source) /\ DestinationFree(tree, op),
         Prune(Graft(tree, op.target, Subtree(tree, op.source)), op.source))

applyFileDelete(tree, op) == OkIf(Exists(tree, op.path), Prune(tree, op.path))

lookup(doc, at) == \E a \in DOMAIN doc : IsPrefix(at, a)

\* A JSON value is created only inside an object that is there; an INI
\* section is created with its first key.
ParentExists(doc, op, at) ==
    \/ op.lang = "ini"
    \/ Len(at) = 1
    \/ \E a \in DOMAIN doc : IsStrictPrefix(Front(at), a)

SetValue(doc, at, value) == (at :> value) @@ Prune(doc, at)

DocSet(doc, op) ==
    OkIf(ParentExists(doc, op, op.at), SetValue(doc, op.at, op.value))

DocDelete(doc, op) == OkIf(lookup(doc, op.at), Prune(doc, op.at))

DocMove(doc, op) ==
    OkIf(/\ lookup(doc, op.at) /\ ~lookup(doc, op.to)
         /\ ParentExists(doc, op, op.to)
         /\ ~IsPrefix(op.at, op.to),
         Graft(Prune(doc, op.at), op.to, Subtree(doc, op.at)))

EditDoc(doc, op) ==
    CASE op.type = "set" -> DocSet(doc, op)
      [] op.type = "delete" -> DocDelete(doc, op)
      [] op.type = "move" -> DocMove(doc, op)

SaveDoc(tree, op, r) == OkIf(r.ok, [tree EXCEPT ![op.path] = r.tree])

applyDocOperation(tree, op) ==
    IF op.path \in DOMAIN tree THEN SaveDoc(tree, op, EditDoc(tree[op.path], op)) ELSE Failed

ApplyOne(tree, op) ==
    CASE op.type = "file-copy" -> applyFileCopy(tree, op)
      [] op.type = "file-move" -> applyFileMove(tree, op)
      [] op.type = "file-delete" -> applyFileDelete(tree, op)
      [] OTHER -> applyDocOperation(tree, op)

\* In order, stopping at the first operation that fails.
Apply(tree, ops) ==
    FoldLeft(LAMBDA r, op : IF r.ok THEN ApplyOne(r.tree, op) ELSE r, Done(tree), ops)

(***************************************************************************)
(* Validations: [path, at], at = << >> asks only for the file              *)
(***************************************************************************)
validateOne(tree, v) ==
    v.path \in DOMAIN tree /\ (v.at = << >> \/ lookup(tree[v.path], v.at))

ValidateStaging(tree, validations) == \A v \in validations : validateOne(tree, v)

(***************************************************************************)
(* The staged tree of a set: every edge is validated before the next       *)
(***************************************************************************)
PinnedEdges(set, path) ==
    [i \in 1 .. Len(path) - 1 |-> CHOOSE e \in EdgesBetween(set, path[i], path[i + 1]) : TRUE]

validatePinnedEdges(edges, from, to) ==
    /\ edges = << >> => from = to
    /\ edges # << >> => edges[1].from = from /\ Last(edges).to = to
    /\ \A i \in DOMAIN edges :
         /\ edges[i].ops # << >> /\ edges[i].validate # {}
         /\ i > 1 => edges[i].from = edges[i - 1].to
         /\ \A j \in 1 .. i : edges[i].to # edges[j].from

Validated(r, validations) ==
    IF r.ok /\ ValidateStaging(r.tree, validations) THEN r ELSE Failed

ApplyEdge(r, edge) == IF r.ok THEN Validated(Apply(r.tree, edge.ops), edge.validate) ELSE r

Migrate(copied, edges, from, gen) ==
    IF validatePinnedEdges(edges, from, gen.id)
    THEN Validated(FoldLeft(ApplyEdge, Done(copied), edges), gen.validate)
    ELSE Failed

(***************************************************************************)
(* Materialisation.  A restore declaration is [type, src, inRoot, rel,     *)
(* optional, value, pattern]; an action is [type, claim, desired], desired *)
(* being the subtree its target must end up with.                          *)
(***************************************************************************)
Overlay(live, at, sub) == sub @@ Subtree(live, at)

desiredCopy(stage, live, d, at) ==
    LET sub == Subtree(stage, d.src)
    IN IF IsDir(stage, d.src) /\ at \notin DOMAIN live THEN Overlay(live, at, sub) ELSE sub

LiveDoc(live, at) == IF at \in DOMAIN live THEN live[at] ELSE << >>

\* The staged document wins over the live one.
materializeMerge(stage, live, d, at) == << >> :> (stage[d.src] @@ LiveDoc(live, at))

\* Lines the target already has are left alone.
materializeAppend(stage, live, d, at) == << >> :> (LiveDoc(live, at) @@ stage[d.src])

expandDeleteGlob(live, d, at) == {p \in DOMAIN live : IsStrictPrefix(at, p) /\ Last(p) \in d.pattern}

NoContent == [r \in {} |-> << >>]

ActionsOf(stage, live, d, root) ==
    LET at == ExpandInstancePath(d, root)
        One(desired) == {[type |-> d.type, claim |-> resolveRestoreTarget(d, root),
                          desired |-> desired]}
    IN CASE d.type = "registry-set" -> One(<< >> :> d.value)
         [] d.type = "delete-glob" ->
              {[type |-> d.type, claim |-> [kind |-> "file", path |-> p],
                desired |-> NoContent] : p \in expandDeleteGlob(live, d, at)}
         [] d.type \notin {"registry-set", "delete-glob"} /\ ~Exists(stage, d.src) -> {}
         [] d.type = "copy" /\ Exists(stage, d.src) -> One(desiredCopy(stage, live, d, at))
         [] d.type = "merge" /\ Exists(stage, d.src) -> One(materializeMerge(stage, live, d, at))
         [] d.type = "append" /\ Exists(stage, d.src) -> One(materializeAppend(stage, live, d, at))

HasSource(d) == d.type \in {"copy", "merge", "append"}

rejectExistingTargetLinks(claim) ==
    claim.kind = "file" => ConcreteFilesystemTarget(claim.path) = claim.path

resolveDefinition(stage, live, d, root) ==
    /\ d.inRoot => root # NoRoot
    /\ rejectExistingTargetLinks(resolveRestoreTarget(d, root))
    /\ HasSource(d) => Exists(stage, d.src) \/ d.optional
    /\ d.type \in {"merge", "append"} => ~IsDir(stage, d.src)
    /\ d.type \in {"merge", "append"} => ~IsDir(live, ExpandInstancePath(d, root))
    /\ d.type = "delete-glob" => ExpandInstancePath(d, root) \notin DOMAIN live

rejectOverlappingTargets(restores, root) ==
    \E i, j \in DOMAIN restores :
        i # j /\ ClaimsOverlap(resolveRestoreTarget(restores[i], root),
                               resolveRestoreTarget(restores[j], root))

\* Every validation must be about exactly one of the restored sources.
resolveValidations(stage, restores, validations) ==
    \A v \in validations :
        Cardinality({i \in DOMAIN restores :
            LET d == restores[i]
            IN /\ HasSource(d) /\ Exists(stage, d.src)
               /\ \/ v.path = d.src
                  \/ d.type = "copy" /\ IsStrictPrefix(d.src, v.path)}) = 1

\* The code a set is refused with, "none" when it can be prepared.
PreflightAppClosure(m, gen, running) ==
    IF ~gen.closed THEN "none"
    ELSE IF m.exe = {} THEN "staging_validation_failed"
    ELSE IF m.exe \cap running # {} THEN "app_running" ELSE "none"

ActionsRefusal(gen, stage, live, root) ==
    IF \E i \in DOMAIN gen.restore : ~resolveDefinition(stage, live, gen.restore[i], root)
    THEN "staging_validation_failed"
    ELSE IF rejectOverlappingTargets(gen.restore, root) THEN "target_collision"
    ELSE IF resolveValidations(stage, gen.restore, gen.validate) THEN "none"
    ELSE "staging_validation_failed"

FirstRefusal(first, second) == IF first # "none" THEN first ELSE second

MaterializeRefusal(m, gen, stage, live, root, running) ==
    FirstRefusal(PreflightAppClosure(m, gen, running), ActionsRefusal(gen, stage, live, root))

Materialize(gen, stage, live, root) ==
    UNION {ActionsOf(stage, live, d, root) : d \in ToSet(gen.restore)}

(***************************************************************************)
(* A set whose targets all hold what it wants needs no transaction         *)
(***************************************************************************)
ContentAt(live, claim) == Subtree(live[claim.kind], claim.path)

preparedConfigRestoreAlreadyCurrent(actions, live) ==
    \A a \in actions : ContentAt(live, a.claim) = a.desired

\* A write or a deletion finds a directory where it expects a file.
snapshotFails(actions, live) ==
    \E a \in actions : a.type \in {"merge", "append", "delete-glob"} /\ IsDir(live.file, a.claim.path)

WriteActions(live, actions) ==
    LET Put(tree, kind) ==
          FoldSet(LAMBDA a, t : Graft(Prune(t, a.claim.path), a.claim.path, a.desired),
                  tree, {a \in actions : a.claim.kind = kind})
    IN [file |-> Put(live.file, "file"), registry |-> Put(live.registry, "registry")]
=============================================================================
