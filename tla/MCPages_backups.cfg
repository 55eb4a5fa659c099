\* Autosave while pages are opened, edited, saved and closed, with crashes.
SPECIFICATION Spec
CONSTANTS
    Empty = Empty
    Content = {Empty, A}
    NULL = NULL
    UndoLevels = 1
    UndoPadding = 1
    CheckEvery = 1
    Names = {p, u}
    Untitled = {u}
    AutoSave = TRUE
    UserActs = {"save_many", "discard", "crash"}
    MaxPages = 2
INVARIANTS
    TypeOK
    BackupHoldsUnsavedWork
    NothingToBackUp
PROPERTIES
    BackupsHappen
