SPECIFICATION Spec
CONSTANTS
    Base = {dev}
    First <- NoRows
    MaxCopies = 1
    Var = {x, y}
    Plain = {p}
    Credential = {s}
    Call = {c1, c2, c3}
    Ops = {"set", "rename", "unset", "secret", "replace", "forget", "confirm", "script", "duplicate", "delete", "activate", "create"}
    MaxEdits = 1
    MaxFaults = 1
    None = None
    Secret = Secret
SYMMETRY Interchangeable
INVARIANT
    FailureKeepsValues
CHECK_DEADLOCK FALSE
