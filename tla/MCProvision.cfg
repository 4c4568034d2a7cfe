SPECIFICATION Spec
CONSTANTS
  Profiles <- MCProfiles
  Extra <- MCExtra
  Versions = {1, 2}
  Absent = Absent
  ApplyFlags <- MCFlags
  Consents <- MCConsents
  MaxRuns = 3
  MaxErrors = 1
  MaxEdits = 1
  MaxCrashes = 1
CHECK_DEADLOCK FALSE
  
PROPERTIES  RollbackReachesTarget
