SPECIFICATION Spec
CONSTANTS
    Call = {c1, c2}
    Gone = Gone
    Nothing = Nothing
    MaxTexts = 3
    MaxAnnounced = 2
INVARIANTS
    QuietDocumentShowsTheFile
CHECK_DEADLOCK FALSE
