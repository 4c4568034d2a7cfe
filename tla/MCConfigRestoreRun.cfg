SPECIFICATION Spec
CONSTANTS
  None = None
  ConcreteOf <- MCConcreteOf
  Inputs <- MCInputs
  Catalogs <- MCCatalogs
  Hosts <- MCHosts
  Available <- MCAvailable
  Apps <- MCApps
  Starts <- MCStarts
  Processes <- MCProcesses
  MaxFaults = 1
INVARIANTS RestoredWhereDetected RestoredStays StagedIsCaptured NoHalfStateRestored
