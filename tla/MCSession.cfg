SPECIFICATION Spec
CONSTANTS
  Procs = {p, q}
  Emails = {"e1", "e2"}
  Passphrases = {"w1", "w2"}
  Plans <- MCPlans
  None = None
  MaxRetries = 1
  MaxCmds = 3
  MaxAccounts = 2
  MaxExpiries = 1
  MaxFaults = 1
CHECK_DEADLOCK FALSE
INVARIANTS StoredTokenIsLive NoSpuriousSignOut SealedForOwner SignedInHasKeys
