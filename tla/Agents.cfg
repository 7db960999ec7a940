SPECIFICATION AgentsSpec
CONSTANTS
    IntentId = {i1, i2}
    Tool = {send, run}
    Fingerprint = {p1, p2}
    NoIntent = NoIntent
    Second = 2
    IntentTTL = 4
    Horizon = 6
    Capability = {"run", "write", "other"}
    Rated = {"run", "write"}
    Price <- MCPrice
    Burst <- MCBurst
    LastTick = 6
    Call = {c1, c2}
    Value = {"v1", "v2"}
    Request = {1, 2}
    Committed = {2}
    Version = {0, 1, 2}
    Address = {"elsewhere", "fixed", "v1", "v2", "folder", "environment", "unresolved"}
    AddressOf <- MCAddressOf
    EnvMeta <- MCEnvMeta
    Defining = {"prod"}
    Budget = 2
    MaxEdits = 1
    Earlier = Earlier
    None = None
INVARIANTS
    SpentAsPreviewed
    NoSecondTry
    RateBound
    GatesHold
    ActsAsAgreed
    CallsAreAccountedFor
PROPERTIES
    FreshUntilUsed
    KeepsPromise
    NeverRefusesThePatient
    TighteningNeverLoosens
CHECK_DEADLOCK FALSE
