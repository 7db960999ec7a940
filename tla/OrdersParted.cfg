SPECIFICATION Spec
CONSTANTS
    Folder = {"a", "b"}
    Slug = {1, 2}
    MaxNumber = 2
    Kinds = {"file", "dir"}
    Forms = {"file", "bare"}
    First <- MCFirst
    MaxUndo = 1
    MaxEntries = 3
    MaxOps = 2
    MaxForeign = 2
\* Both fail: exchange them to see the other.
PROPERTY RefusedUndoLeavesAll
\* PROPERTY OneLineChanges
CHECK_DEADLOCK FALSE
