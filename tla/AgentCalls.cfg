SPECIFICATION Spec
CONSTANTS
    Call = {c1, c2}
    IntentId = {i1}
    Fingerprint = {"p1", "p2"}
    NoIntent = NoIntent
    Second = 1
    IntentTTL = 2
    Horizon = 2
    ConfirmTimeout = 1
    Worlds <- PolicyWorlds
    Burst = 1
    ClientAsks = TRUE
    MaxEdits = 1
    Disturbances <- Troubles
SYMMETRY Interchangeable
INVARIANTS
    EverySendWasAgreed
    AccountsAreTrue
    KillSwitchStopsUnspent
CHECK_DEADLOCK FALSE
