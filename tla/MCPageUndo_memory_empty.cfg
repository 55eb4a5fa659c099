\* Undo in memory back to an empty page.
SPECIFICATION Spec
CONSTANTS
    Empty = Empty
    Content = {Empty, A}
    NULL = NULL
    UndoLevels = 4
    UndoPadding = 1
    CheckEvery = 2
    UndoTypes = {"MEMORY"}
    UndoControls = {TRUE}
    UserActs = {}
    RecordBound = 4
INVARIANTS
    PageMatchesCursor
