SPECIFICATION Spec
CONSTANTS
    Call = {c1, c2}
    IntentId = {i1}
    Fingerprint = {"p1", "p2"}
    NoIntent = NoIntent
    Second = 1
    IntentTTL = 2
    Horizon = 3
    ConfirmTimeout = 2
    Worlds <- QuietWorlds
    Burst = 2
    ClientAsks = FALSE
    MaxEdits = 0
    Disturbances <- Kills
SYMMETRY Interchangeable
INVARIANTS
    NothingSentAfterDisconnect
CHECK_DEADLOCK FALSE
