SPECIFICATION PublicationSpec
CONSTANTS
  MaxPubErrors = 3
  MaxPubDeaths = 2
  PubDeaths = {"kill", "power"}
CHECK_DEADLOCK FALSE
INVARIANTS ToldIsDurable
PROPERTIES RollbackOnlyWithoutCommit
