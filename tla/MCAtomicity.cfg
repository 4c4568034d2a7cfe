SPECIFICATION FairSpec
CONSTANTS
  NumSets = 2
  NumActions = 2
  NumEntries = 1
  Values = {"old", "new", "none", "user"}
  Absent = "none"
  UserEdit = "user"
  Initial <- MCInitial
  Payloads <- MCPayloads
  Commands = {"restore"}
  MaxTx = 2
  MaxCrashes = 2
  MaxIOErrors = 2
  MaxEdits = 0
PROPERTIES ImplementsAtomicRestore PendingResolved
