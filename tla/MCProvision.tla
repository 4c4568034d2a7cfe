---------------------------- MODULE MCProvision ----------------------------
EXTENDS Provision

A(r, d, p, m) == [ref |-> r, driver |-> d, pin |-> p, manual |-> m]

\* A Windows host with a pinned winget package, packages of chocolatey with
\* and without a pin, one that only the inventory knows, a manual app and an
\* app of a driver of another system; a realizer host with two Nix packages, a pinned brew package, a
\* manual app and home-manager.
MCProfiles ==
  {[host |-> "driver", home |-> FALSE, outside |-> {"o"},
    apps |-> <<A("w", "winget", 1, FALSE), A("c", "chocolatey", Absent, FALSE)>>],
   [host |-> "driver", home |-> FALSE, outside |-> {"o"},
    apps |-> <<A("m", "winget", Absent, TRUE), A("o", "winget", Absent, FALSE), A("w", "winget", Absent, FALSE),
               A("b", "brew", Absent, FALSE)>>],
   [host |-> "driver", home |-> FALSE, outside |-> {}, apps |-> <<A("p", "chocolatey", 1, FALSE)>>],
   [host |-> "realizer", home |-> TRUE, outside |-> {},
    apps |-> <<A("n", "nix", Absent, FALSE), A("b", "brew", 1, FALSE)>>],
   [host |-> "realizer", home |-> FALSE, outside |-> {},
    apps |-> <<A("m", "nix", Absent, TRUE), A("n", "nix", Absent, FALSE), A("w", "winget", Absent, FALSE)>>]}
MCExtra == {"x"}

F(d, p, r, c, s, b) ==
  [NoCmd EXCEPT !.dry = d, !.prune = p, !.repin = r, !.confirm = c, !.restore = s, !.consent = b]
MCFlags ==
  {F(FALSE, FALSE, FALSE, FALSE, TRUE, TRUE), F(FALSE, TRUE, TRUE, TRUE, FALSE, FALSE),
   F(FALSE, FALSE, TRUE, FALSE, FALSE, TRUE), F(TRUE, TRUE, FALSE, FALSE, TRUE, TRUE),
   F(FALSE, TRUE, FALSE, FALSE, FALSE, FALSE), F(FALSE, FALSE, TRUE, TRUE, FALSE, FALSE)}
MCConsents == {<<TRUE, FALSE, FALSE>>, <<FALSE, TRUE, FALSE>>, <<FALSE, TRUE, TRUE>>, <<FALSE, FALSE, TRUE>>}
=============================================================================
