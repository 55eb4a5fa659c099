\* Every command in every setting, with failing file system calls.
SPECIFICATION Spec
CONSTANTS
    Empty = Empty
    Content = {Empty, A}
    NULL = NULL
    UndoLevels = 1
    UndoPadding = 1
    CheckEvery = 2
    UndoTypes = {"NONE", "DISK", "MEMORY"}
    UndoControls = {TRUE, FALSE}
    UserActs = {"move", "save_in_move", "zoom", "zoom_in_move", "revert", "settings", "other_page", "faults"}
    RecordBound = 3
SYMMETRY Interchangeable
INVARIANTS
    TypeOK
    Shape
    NoRedoDuringMove
    NeverExhausted
