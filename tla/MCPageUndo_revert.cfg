\* A save after a revert, then an undo and a redo.
SPECIFICATION Spec
CONSTANTS
    Empty = Empty
    Content = {Empty, A}
    NULL = NULL
    UndoLevels = 6
    UndoPadding = 1
    CheckEvery = 2
    UndoTypes = {"DISK"}
    UndoControls = {TRUE}
    UserActs = {"revert"}
    RecordBound = 5
INVARIANTS
    SavedFlagSound
