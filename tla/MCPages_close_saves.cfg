\* Closing a changed page that cannot be saved.
SPECIFICATION Spec
CONSTANTS
    Empty = Empty
    Content = {Empty, A}
    NULL = NULL
    UndoLevels = 1
    UndoPadding = 1
    CheckEvery = 1
    Names = {p, u}
    Untitled = {u}
    AutoSave = FALSE
    UserActs = {"faults"}
    MaxPages = 2
PROPERTIES
    CloseSavesFirst
