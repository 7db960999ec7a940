SPECIFICATION Spec
CONSTANTS
    Calls = 2
    Servers = 3
    Ops = {"confirm", "disconnect"}
    CanFail = FALSE
INVARIANTS
    KillSwitchIsFinal
CHECK_DEADLOCK FALSE
