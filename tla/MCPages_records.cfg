\* Several pages with their undo records, without autosave.
SPECIFICATION Spec
CONSTANTS
    Empty = Empty
    Content = {Empty, A}
    NULL = NULL
    UndoLevels = 2
    UndoPadding = 1
    CheckEvery = 1
    Names = {p, q, u}
    Untitled = {u}
    AutoSave = FALSE
    UserActs = {"goto", "undo", "discard", "faults"}
    MaxPages = 2
SYMMETRY Interchangeable
INVARIANTS
    CurrentIsOpen
    SavedFlagsSound
    RecordsMatchPages
