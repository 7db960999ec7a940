SPECIFICATION FairSpec
CONSTANTS
    MaxSends = 2
    Collection = {A, B}
    NoCollection = NoCollection
    MaxGestures = 1
    MaxKeptResponses = 2
    MaxKeptBytes = 1
    Sizes = {2}
INVARIANTS
    PaneAndStoreAgree
PROPERTY
    EverySendSettles
CHECK_DEADLOCK FALSE
