\* Viewport records among the others, before anything is trimmed.
SPECIFICATION Spec
CONSTANTS
    Empty = Empty
    Content = {Empty, A, B}
    NULL = NULL
    UndoLevels = 6
    UndoPadding = 1
    CheckEvery = 2
    UndoTypes = {"DISK"}
    UndoControls = {TRUE}
    UserActs = {"move", "zoom"}
    RecordBound = 5
SYMMETRY Interchangeable
PROPERTIES
    CancelRewinds
    ImplementsHistory
