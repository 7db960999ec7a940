SPECIFICATION CollectionSpec
CONSTANTS
    Gone = Gone
    NoDocument = NoDocument
    None = None
    Secret = Secret
    Reader = {r1, r2}
    MaxTexts = 2
    MaxAnnounced = 2
    Folder = {"a", "b"}
    Slug = {1, 2}
    MaxNumber = 2
    Kinds = {"file", "dir"}
    Forms = {"file", "bare"}
    FirstEntries <- TwoRequests
    MaxUndo = 2
    MaxEntries = 3
    MaxOps = 2
    MaxForeign = 1
    Base = {"dev"}
    MaxCopies = 1
    Var = {"x", "y"}
    Plain = {"p"}
    Credential = {"s"}
    FirstRows <- SecretAndPlain
    Method = {"c", "d"}
    Ops = {"set", "rename", "unset", "secret", "replace", "forget", "confirm", "script", "duplicate", "delete", "activate", "create"}
    MaxHands = 1
    MaxFaults = 1
    Dir = {"d", "e"}
    Home = "home"
    Within = {"d"}
    Arrival = {c1, c2}
    Touched <- SomeFiles
    MaxOthers = 1
INVARIANTS
    RereadKeepsTyping
    ShownOnceAndInOrder
    FilesAndStoreAgree
    ArrivesAsAnswered
PROPERTIES
    OthersStayAsTheyAre
    UndoTakesBackItsOwn
    WritesTouchOneRow
CHECK_DEADLOCK FALSE
