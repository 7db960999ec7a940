SPECIFICATION RulesSpec
CONSTANTS
    Root = {"a", "b"}
    Home = "a"
    NoRoot = "none"
    File = {"f", "g"}
    GitFile = {"g"}
    Writer = {w1, w2}
    Opener = {"o"}
    Slot = {"s"}
    MaxEdits = 1
    MaxWrites = 1
    MaxOpens = 2
    MaxLines = 4
    Missing = Missing
    Unset = Unset
INVARIANTS
    EveryChangeIsAnnounced
    GuardAndCacheHold
    NamesAreAnswered
    SecretsStayHidden
    SettingsHoldAsTold
    SavingIsHarmless
    EveryChangeIsListedOnce
    ScriptsKeepTheirWord
    ImportsFaithfully
PROPERTIES
    DoesWhatItWasAsked
CHECK_DEADLOCK FALSE
