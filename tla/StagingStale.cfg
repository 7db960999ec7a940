SPECIFICATION Spec
CONSTANTS
    Path = {1, 2}
    Committed <- MCCommitted
    Missing = Missing
    Big = {}
    Context = 1
    MaxEdits = 2
INVARIANT
    StaleViewReachesNothingElse
CHECK_DEADLOCK FALSE
