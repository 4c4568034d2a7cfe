SPECIFICATION Spec
CONSTANTS
    None = None
    Absent = Absent
    Overlaps <- MCOverlaps
    Scenarios <- MCScenarios
    MaxRuns = 3
    MaxEdits = 3
CHECK_DEADLOCK FALSE
INVARIANTS CapturedSetIsSnapshot NoPackageTwice BundleRestoresAreOwned
