\* Edits, moves, undo, redo and saves, undo on disk and in memory.  Trimming
\* happens and RecordBound never binds.
SPECIFICATION Spec
CONSTANTS
    Empty = Empty
    Content = {A, B, C}
    NULL = NULL
    UndoLevels = 2
    UndoPadding = 2
    CheckEvery = 3
    UndoTypes = {"DISK", "MEMORY"}
    UndoControls = {TRUE}
    UserActs = {"move"}
    RecordBound = 6
SYMMETRY Interchangeable
INVARIANTS
    PageMatchesCursor
    CleanRecordsMatchFile
    SavedFlagSound
    HistoryBounded
PROPERTIES
    CancelRewinds
    ImplementsHistory
