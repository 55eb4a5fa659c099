\* An undo file that cannot be read.
SPECIFICATION Spec
CONSTANTS
    Empty = Empty
    Content = {Empty, A}
    NULL = NULL
    UndoLevels = 6
    UndoPadding = 1
    CheckEvery = 2
    UndoTypes = {"DISK"}
    UndoControls = {TRUE}
    UserActs = {"faults"}
    RecordBound = 4
PROPERTIES
    UndoKeepsHistory
