SPECIFICATION FairSpec
CONSTANTS
    Calls = 3
    Servers = 4
    Ops = {"enable", "disable", "disconnect", "capability", "confirm", "quit"}
    CanFail = TRUE
INVARIANTS
    ServiceAndEndpointAgree
    KillSwitchHolds
PROPERTY
    EveryCallReturns
CHECK_DEADLOCK FALSE
