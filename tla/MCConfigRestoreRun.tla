-------------------------- MODULE MCConfigRestoreRun --------------------------
(***************************************************************************)
(* Two modules: an editor found by its directory, with a migration between *)
(* two generations and a second set outside its root, and a shell found by *)
(* its package.  Three captures of them, one or two legacy lanes, ordinary *)
(* restores, and hosts on which they are missing, old, new or double.      *)
(***************************************************************************)
EXTENDS ConfigRestoreRun

R1 == <<"r1">>
R2 == <<"r2">>

V(parts) == [num |-> TRUE, parts |-> parts]
Range1(op, parts) == [kind |-> "range", range |-> {[op |-> op, version |-> parts]}]

D(type, src, inRoot, rel) ==
    [type |-> type, src |-> src, inRoot |-> inRoot, rel |-> rel, optional |-> FALSE,
     value |-> "1", pattern |-> {"tmp"}]

Gen(id, order, matches, restore, validate, closed) ==
    [id |-> id, order |-> order, fp |-> id, accepts |-> {}, matches |-> matches,
     restore |-> restore, validate |-> validate, closed |-> closed]

At(path, at) == [path |-> path, at |-> at]

EdgeOps ==
    <<[type |-> "file-move", source |-> <<"p">>, target |-> <<"q">>],
      [type |-> "move", lang |-> "json", path |-> <<"q">>, at |-> <<"a">>, to |-> <<"b">>]>>

Edge == [from |-> "g1", to |-> "g2", ops |-> EdgeOps, validate |-> {At(<<"q">>, <<"b">>)}]
\* An edge that would reach outside the staging copy.
Outside == [Edge EXCEPT !.ops[1].source = <<"..", "p">>]
Back == [Edge EXCEPT !.from = "g2", !.to = "g1"]

Prefs(edges) ==
    [gens |-> {Gen("g1", 1, {Range1("<", <<2>>)}, <<D("copy", <<"p">>, TRUE, <<"p">>)>>,
                   {At(<<"p">>, << >>)}, FALSE),
               Gen("g2", 2, {Range1(">=", <<2, 0>>)},
                   <<D("merge", <<"q">>, TRUE, <<"q">>), D("delete-glob", << >>, TRUE, <<"cache">>)>>,
                   {At(<<"q">>, <<"b">>)}, TRUE)},
     edges |-> edges]

Keys ==
    [gens |-> {Gen("k1", 1, {}, <<D("copy", <<"k">>, FALSE, <<"home", "keys">>)>>,
                   {At(<<"k">>, << >>)}, FALSE)},
     edges |-> {}]

Rc ==
    [gens |-> {Gen("c1", 1, {}, <<D("append", <<"rc">>, FALSE, <<"home", "rc">>),
                                  D("registry-set", << >>, FALSE, <<"HKCU", "Sh", "v">>)>>,
                   {}, FALSE)},
     edges |-> {}]

Editor(edges) ==
    [id |-> "ed", json |-> TRUE, schema |-> 2,
     detectors |-> {[id |-> "d", type |-> "path", glob |-> "ed"]},
     refs |-> {[driver |-> "winget", ref |-> "Ed"]}, exe |-> {"ed.exe"},
     sets |-> [s \in {"prefs", "keys"} |-> IF s = "prefs" THEN Prefs(edges) ELSE Keys]]

Shell ==
    [id |-> "sh", json |-> TRUE, schema |-> 2,
     detectors |-> {[id |-> "p", type |-> "package", glob |-> ""]},
     refs |-> {[driver |-> "choco", ref |-> "Sh"]}, exe |-> {},
     sets |-> [s \in {"rc"} |-> Rc]]

MCCatalogs == {<<Editor({Edge}), Shell>>, <<Editor({Edge, Back}), Shell, Shell>>,
               <<Editor({Outside}), Editor({}), Shell>>}

EditorAt(root, parts) == [glob |-> "ed", root |-> root, version |-> V(parts)]
ShellPackage == [driver |-> "choco", ref |-> "Sh", version |-> V(<<5>>)]

Host(paths, packages, broken) == [paths |-> paths, packages |-> packages, broken |-> broken]

MCHosts ==
    {Host({}, {}, {}),
     Host({EditorAt(R1, <<1, 9>>)}, {ShellPackage}, {"choco"}),
     Host({EditorAt(R1, <<2>>)}, {ShellPackage}, {}),
     Host({EditorAt(R1, <<1, 9>>), EditorAt(R2, <<2>>)}, {ShellPackage}, {}),
     Host({EditorAt(R1, <<1, 8>>), EditorAt(R2, <<1, 7>>)}, {}, {})}

Source(cap, module, set, gen, tree) ==
    [cap |-> cap, module |-> module, set |-> set, gen |-> gen, fp |-> gen,
     version |-> V(<<1, 9>>), schema |-> 2, broken |-> FALSE, payload |-> tree]

Doc(key, value) == <<key>> :> value

MCSources ==
    <<Source(1, "ed", "prefs", "g1", <<"p">> :> Doc("a", "captured")),
      Source(2, "ed", "keys", "k1", <<"k">> :> Doc("key", "captured")),
      Source(3, "sh", "rc", "c1", <<"rc">> :> Doc("line", "captured"))>>

\* From a newer editor, with a snapshot that no longer verifies, a definition
\* that has changed and a schema of the future.
MCStrangeSources ==
    <<[Source(1, "ed", "prefs", "g2", <<"q">> :> Doc("b", "captured")) EXCEPT !.version = V(<<2>>)],
      [MCSources[2] EXCEPT !.broken = TRUE],
      [MCSources[3] EXCEPT !.fp = "c0"],
      [MCSources[2] EXCEPT !.cap = 4, !.schema = 3]>>

\* Preferences without the key the migration moves.
MCOddSources == [MCSources EXCEPT ![1].payload = <<"p">> :> Doc("z", "captured")]

Entry(kind, path) == [claim |-> [kind |-> kind, path |-> path], valid |-> TRUE, missing |-> FALSE]
Lane(entries) == [selected |-> TRUE, entries |-> entries]

\* "link" leads to "home".
KeysByLink == Entry("file", <<"link", "keys">>)
Elsewhere == Entry("file", <<"home", "misc">>)
ShellKey == Entry("registry-key", <<"HKCU", "Sh">>)

NoMap == [c \in {} |-> << >>]
InstanceAt(root) == <<"ed", "d", <<"path", root>>>>

Input(selected, mappings, lanes, ordinary, enabled, dryRun) ==
    [sources |-> MCSources, selected |-> selected, mappings |-> mappings, lanes |-> lanes,
     ordinary |-> ordinary, enabled |-> enabled, dryRun |-> dryRun]

MCInputs ==
    {Input({1, 2, 3}, NoMap, 11 :> Lane(<<KeysByLink, Elsewhere>>), << >>, TRUE, FALSE),
     Input({1, 2, 3}, 1 :> InstanceAt(R2), 11 :> Lane(<<Elsewhere, Elsewhere>>),
           <<[Elsewhere EXCEPT !.valid = FALSE], ShellKey>>, TRUE, FALSE),
     Input({1, 2, 3}, NoMap,
           (11 :> Lane(<<[Elsewhere EXCEPT !.missing = TRUE], Elsewhere>>)) @@
           (12 :> [Lane(<<KeysByLink>>) EXCEPT !.selected = FALSE]),
           <<Entry("file", <<"home", "notes">>)>>, TRUE, FALSE),
     Input({1, 2, 3}, NoMap, 11 :> Lane(<<[KeysByLink EXCEPT !.valid = FALSE]>>),
           <<Elsewhere>>, TRUE, TRUE),
     Input({2}, 1 :> InstanceAt(R1), 11 :> Lane(<<Elsewhere>>), << >>, TRUE, TRUE),
     Input({1, 2}, NoMap, 11 :> Lane(<<Elsewhere>>), << >>, FALSE, FALSE),
     Input({1}, NoMap, NoMap, << >>, TRUE, FALSE),
     [Input({1, 2, 3, 4}, 1 :> InstanceAt(R1), NoMap, << >>, TRUE, FALSE)
         EXCEPT !.sources = MCStrangeSources],
     [Input({1, 2, 3, 4}, NoMap, NoMap, <<Elsewhere>>, TRUE, FALSE)
         EXCEPT !.sources = MCStrangeSources],
     [Input({1}, NoMap, NoMap, << >>, TRUE, FALSE) EXCEPT !.sources = MCOddSources],
     Input({1}, 9 :> InstanceAt(R1), NoMap, << >>, TRUE, FALSE)}

Files ==
    (<<"r1", "q">> :> Doc("own", "user")) @@ (<<"r1", "cache", "tmp">> :> Doc("c", "user")) @@
    (<<"home", "rc">> :> Doc("mine", "user"))
Before == [file |-> Files, registry |-> NoMap]
Half == [Before EXCEPT !.file[<<"r1", "q">>] = Doc("half", "x")]
Current == [Before EXCEPT !.file = (<<"home", "keys">> :> Doc("key", "captured")) @@ Files]

MCStarts == {[live |-> Before, pending |-> None], [live |-> Half, pending |-> Before],
             [live |-> Current, pending |-> None]}

MCAvailable == {"winget", "choco"}
MCApps == {[driver |-> "winget", ref |-> "Ed"], [driver |-> "choco", ref |-> "Sh"]}
MCProcesses == {{}, {"ed.exe"}}
MCConcreteOf == <<"link">> :> <<"home">>
=============================================================================
