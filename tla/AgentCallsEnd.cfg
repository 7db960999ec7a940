SPECIFICATION FairSpec
CONSTANTS
    Call = {c1, c2}
    IntentId = {i1}
    Fingerprint = {"p1", "p2"}
    NoIntent = NoIntent
    Second = 1
    IntentTTL = 1
    Horizon = 2
    ConfirmTimeout = 1
    Worlds <- QuietWorlds
    Burst = 2
    ClientAsks = FALSE
    MaxEdits = 0
    Disturbances <- Shutdowns
PROPERTIES
    EveryCallEnds
CHECK_DEADLOCK FALSE
