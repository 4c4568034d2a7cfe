SPECIFICATION Spec
CONSTANTS
  NumSets = 2
  NumActions = 2
  NumEntries = 2
  Values = {"old", "new", "none", "user"}
  Absent = "none"
  UserEdit = "user"
  Initial <- MCInitial
  Payloads <- MCPayloads
  Commands = {"restore", "revert"}
  MaxTx = 2
  MaxCrashes = 2
  MaxIOErrors = 1
  MaxEdits = 1
INVARIANTS SinglePending HistoryExplainsContent CommitRecoverable
PROPERTIES RecoveryBeforeMutation NoForeignOverwrite RecordsTellTheTruth
