\* Autosave of one page while another one is edited.
SPECIFICATION Spec
CONSTANTS
    Empty = Empty
    Content = {Empty, A}
    NULL = NULL
    UndoLevels = 1
    UndoPadding = 1
    CheckEvery = 1
    Names = {p, u}
    Untitled = {u}
    AutoSave = TRUE
    UserActs = {"goto"}
    MaxPages = 2
PROPERTIES
    EditStaysOnPage
