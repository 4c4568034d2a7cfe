----------------------------- MODULE MCCapture ------------------------------
(* Instances of Capture: what two or three captures in a row make of the   *)
(* package lists, and what one capture makes of the settings.              *)
EXTENDS Capture

\* Targets: t is a file below directory d, u another; every other is alone.
MCOverlaps(a, b) == a = b \/ {a, b} \in {{"d", "t"}, {"d", "u"}}

Flags == [drivers |-> {"winget", "chocolatey"}, explicit |-> FALSE, nostore |-> FALSE,
          runtimes |-> FALSE, pin |-> FALSE, only |-> None, update |-> FALSE, from |-> "bundle",
          share |-> FALSE, sanitize |-> FALSE, out |-> "profile"]

Row == [drv |-> "winget", ref |-> 1, src |-> "winget", base |-> "git", arp |-> None, known |-> TRUE,
        runtime |-> FALSE, store |-> FALSE, ver |-> 1]
Git == [Row EXCEPT !.arp = "G"]
Store == [Row EXCEPT !.ref = 5, !.src = "msstore", !.store = TRUE, !.base = "toys"]
StoreTwice == [Store EXCEPT !.src = "winget"]
Runtime == [Row EXCEPT !.ref = 7, !.runtime = TRUE, !.base = "vc"]
Choco == [Row EXCEPT !.drv = "chocolatey", !.ref = 2, !.src = "chocolatey"]
Choco2 == [Choco EXCEPT !.ref = 6]
Renamed == [Git EXCEPT !.ref = 3, !.base = "git2", !.ver = 2]
Nix == [Row EXCEPT !.drv = "nix", !.src = "nix"]
Brew == [Row EXCEPT !.drv = "brew", !.src = "brew", !.ref = 4]

Entry == [id |-> <<"git">>, drv |-> "winget", ref |-> 1, src |-> None, fp |-> "G", ver |-> 1,
          cur |-> None, seen |-> FALSE]

NoFiles == [f \in {} |-> Absent]
Base == [host |-> "windows", flags |-> <<Flags>>, rows |-> <<<<Git>>>>, arp |-> <<<<"G">>>>,
         mods |-> {}, live |-> NoFiles, disk |-> [p \in {"jsonc", "bundle"} |-> Absent],
         pii |-> {}]

Update == [Flags EXCEPT !.update = TRUE]
UpdateDeclared == [Base EXCEPT
    !.flags = <<[Update EXCEPT !.from = "jsonc"], Update, [Update EXCEPT !.pin = TRUE]>>,
    !.rows = <<<<Git, Store>>, <<Renamed, Store>>, <<Renamed, Store, Choco>>>>,
    !.arp = <<<<"G">>, <<"G">>, <<"G", "H">>>>,
    !.disk = [@ EXCEPT !["jsonc"] = [kind |-> "manifest", apps |-> <<Entry>>]]]

FirstThenUpdate == [Base EXCEPT
    !.flags = <<[Flags EXCEPT !.nostore = TRUE], [Update EXCEPT !.runtimes = TRUE]>>,
    !.rows = <<<<Git, StoreTwice, Runtime, Choco, Choco2>>, <<[Git EXCEPT !.known = FALSE], Store, StoreTwice, Runtime, Choco>>>>,
    !.arp = <<<<"G", "H">>, <<"G">>>>]

\* The package behind an entry is listed under another ref, first without and
\* then with its binding to the inventory.
NewRef == [Row EXCEPT !.ref = 3, !.base = "git2", !.ver = 2, !.known = FALSE]
Rejoin == [Base EXCEPT
    !.flags = <<Flags, Update, Update>>,
    !.rows = <<<<Git>>, <<NewRef>>, <<[NewRef EXCEPT !.arp = "G", !.known = TRUE]>>>>,
    !.arp = <<<<"G">>, << >>, <<"G">>>>]

Realizer == [Base EXCEPT !.host = "realizer",
    !.flags = <<[Flags EXCEPT !.drivers = {"nix", "brew"}, !.sanitize = TRUE],
                [Update EXCEPT !.drivers = {"brew"}, !.explicit = TRUE, !.from = "jsonc"]>>,
    !.rows = <<<<Nix>>, <<Nix, Brew>>>>, !.arp = <<<< >>, << >>>>]

Decl(f) == [f |-> f, optional |-> FALSE, secret |-> FALSE, excluded |-> FALSE]
Mod(i) == [id |-> i, schema |-> 1, match |-> TRUE, prec |-> 3, denied |-> FALSE, verify |-> TRUE,
           claims |-> <<"t">>, files |-> <<Decl("f")>>, keys |-> << >>, values |-> FALSE, unsafe |-> FALSE, sets |-> << >>, probe |-> "none"]
Gen(i, sets) == [Mod(i) EXCEPT !.schema = 2, !.claims = << >>, !.files = << >>, !.sets = sets,
                               !.probe = "found"]
Set(fs) == [gen |-> "ok", files |-> fs, invalid |-> {}]

Content == [v |-> 1, red |-> FALSE]
Settings == [Base EXCEPT
    !.flags = <<Flags, Flags>>, !.rows = <<<<Git>>, <<Git>>>>, !.arp = <<<< >>, << >>>>,
    !.live = [f \in {"f", "g"} |-> Content]]

Snapshot == [Settings EXCEPT !.mods = {
    Gen(1, <<Set(<<Decl("f"), [Decl("s") EXCEPT !.secret = TRUE], Decl("g")>>)>>),
    Gen(2, <<[Set(<< >>) EXCEPT !.gen = "unmatched"], [Set(<< >>) EXCEPT !.gen = "nocapture"]>>),
    [Gen(3, <<Set(<<[Decl("g") EXCEPT !.optional = TRUE]>>)>>) EXCEPT !.probe = "found"]}]

Collisions == [Settings EXCEPT !.flags = <<Flags>>, !.mods = {
    [Mod(1) EXCEPT !.prec = 1],
    [Mod(2) EXCEPT !.claims = <<"t", "u">>, !.files = <<Decl("g")>>],
    [Mod(3) EXCEPT !.claims = <<"v", "u">>, !.values = TRUE, !.files = <<[Decl("g") EXCEPT !.optional = TRUE]>>],
    [Mod(4) EXCEPT !.claims = << >>, !.files = << >>,
                   !.keys = <<[k |-> "k", optional |-> TRUE], [k |-> "l", optional |-> FALSE]>>],
    [Gen(5, <<[Set(<< >>) EXCEPT !.gen = "error"]>>) EXCEPT !.probe = "found"],
    [Gen(6, <<Set(<< >>)>>) EXCEPT !.probe = "error"]}]

ShareSelection == [only |-> [apps |-> {<<"git">>}, mods |-> {6}]]
Shared == [Settings EXCEPT
    !.flags = <<[Flags EXCEPT !.share = TRUE], [Flags EXCEPT !.share = TRUE, !.only = ShareSelection.only]>>,
    !.mods = {[Mod(5) EXCEPT !.denied = TRUE], [Mod(6) EXCEPT !.match = FALSE, !.claims = <<"d">>],
               [Gen(7, <<Set(<<Decl("g")>>)>>) EXCEPT !.match = FALSE]},
    !.pii = {"f"}]

Refused == [Collisions EXCEPT !.mods = {[Mod(1) EXCEPT !.unsafe = TRUE]}]

MCScenarios == {UpdateDeclared, FirstThenUpdate, Rejoin, Realizer, Snapshot, Collisions, Shared, Refused}

SharedGeneration == [Settings EXCEPT
    !.flags = <<[Flags EXCEPT !.share = TRUE, !.only = ShareSelection.only]>>,
    !.mods = {Gen(6, <<Set(<<Decl("f")>>)>>)}, !.pii = {"f"}]
MCShareScenarios == {SharedGeneration}
=============================================================================
