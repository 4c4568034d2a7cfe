--------------------------- MODULE MCLegacyRestore ---------------------------
EXTENDS LegacyRestore

E(k, t, it, l, b, o) ==
  [kind |-> k, target |-> t, items |-> it, lane |-> l, backup |-> b, optional |-> o]
Old == {<<"a", 0>>}
New == {<<"a", 1>>}
More == {<<"b", 1>>}
User == {<<"a", 9>>}

\* A lane that writes a file and then merges into it, and a registry value;
\* a settings file and a shell profile; a directory and a file to delete;
\* registry keys with and without prior content; a lane and an ordinary entry
\* that collide.
MCProfiles ==
  {<<E("copy", "f", New, "L", TRUE, FALSE), E("merge-json", "f", More, "L", TRUE, TRUE),
     E("regset", "v", New, "", TRUE, FALSE)>>,
   <<E("merge-ini", "f", New, "L", TRUE, FALSE), E("append", "f", Old, "L", TRUE, TRUE)>>,
   <<E("copydir", "d", New \cup More, "M", TRUE, FALSE), E("delete", "x", {}, "", TRUE, FALSE)>>,
   <<E("regimport", "k", New, "", TRUE, TRUE), E("regimport", "h", New, "", TRUE, TRUE)>>,
   <<E("copy", "c", New, "N", TRUE, FALSE), E("copy", "cd", New, "", TRUE, FALSE),
     E("regset", "v", New, "", TRUE, FALSE)>>}
MCInside == {<<"cd", "c">>}
MCInitial == [t \in {"f", "v", "d", "x", "k", "h", "c", "cd"} |->
                CASE t = "d" -> Old \cup {<<"z", 0>>} [] t = "h" -> Absent [] OTHER -> Old]

\* Two settings of one registry value in one lane.
ChainProfiles == {<<E("regset", "v", New, "L", TRUE, FALSE), E("regset", "v", More, "L", TRUE, FALSE)>>}
=============================================================================
