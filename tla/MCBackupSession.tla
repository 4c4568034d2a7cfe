------------------------- MODULE MCBackupSession -------------------------
EXTENDS BackupSession

P(c, e, w) == [cmd |-> c, email |-> e, pass |-> w]

\* Every command, on two accounts.
MCPlans ==
  {P("signup", "e1", "w1"), P("signup", "e2", "w1"), P("login", "e1", "w1"), P("recover", "e1", "w2"),
   P("status", "e1", "w1"), P("push", "e1", "w1"), P("logout", "e1", "w1"), P("delete", "e1", "w1")}

\* One account whose passphrase is forgotten more than once.
MCRecoveryPlans == {P("signup", "e1", "w1"), P("recover", "e1", "w2"), P("login", "e1", "w2")}
=============================================================================
