\* Zooming twice with undo-panzoom before a move is cancelled.
SPECIFICATION Spec
CONSTANTS
    Empty = Empty
    Content = {Empty, A}
    NULL = NULL
    UndoLevels = 6
    UndoPadding = 1
    CheckEvery = 2
    UndoTypes = {"DISK"}
    UndoControls = {TRUE}
    UserActs = {"move", "zoom", "zoom_in_move"}
    RecordBound = 5
PROPERTIES
    CancelRewinds
