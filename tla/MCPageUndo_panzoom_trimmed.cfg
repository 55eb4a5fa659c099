\* Trimming frees the record that a viewport record above it repeats.
SPECIFICATION Spec
CONSTANTS
    Empty = Empty
    Content = {Empty, A}
    NULL = NULL
    UndoLevels = 2
    UndoPadding = 1
    CheckEvery = 1
    UndoTypes = {"DISK"}
    UndoControls = {TRUE}
    UserActs = {"zoom"}
    RecordBound = 5
INVARIANTS
    PageMatchesCursor
