SPECIFICATION Spec
CONSTANTS
  Profiles <- MCProfiles
  Inside <- MCInside
  Initial <- MCInitial
  Absent = Absent
  UserItems <- User
  MaxLen = 3
  MaxRuns = 2
  MaxCrashes = 1
  MaxErrors = 1
  MaxEdits = 1
CHECK_DEADLOCK FALSE
INVARIANTS RevertRestoresOriginal NothingLost
PROPERTIES ForeignEditKept SuccessIsRevertible
