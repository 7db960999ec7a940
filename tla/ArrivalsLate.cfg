SPECIFICATION Spec
CONSTANTS
    Dir = {d, e}
    Home = Home
    Within = {d}
    Call = {c1, c2}
    None = None
    Touched <- SomeFiles
    MaxOthers = 1
\* Both fail: exchange them to see the other.
INVARIANT DoneStays
\* INVARIANT StoppedSwitchesNothing
CHECK_DEADLOCK FALSE
