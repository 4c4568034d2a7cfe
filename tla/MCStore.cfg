SPECIFICATION Spec
CONSTANTS
  None = None
  MaxRuns = 4
  MaxSets = 2
  Limits <- MCLimits
  MaxInspectionMembers = 3
CHECK_DEADLOCK FALSE
INVARIANTS OwnFaultsNeverBlock NothingForgotten ReportIsHistory
PROPERTIES RevertsNewestFirst
