SPECIFICATION Spec
CONSTANTS
    MaxRuns = 2
    Length = 2
    MaxGestures = 1
INVARIANT
    CancelReachesTheRun
CHECK_DEADLOCK FALSE
