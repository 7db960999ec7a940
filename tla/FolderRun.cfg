SPECIFICATION FairSpec
CONSTANTS
    MaxRuns = 2
    Length = 2
    MaxGestures = 1
INVARIANTS
    AllAccountedFor
    RowsTellTheSummary
PROPERTIES
    SummaryTellsHow
    ShownRunEnds
CHECK_DEADLOCK FALSE
