\* Sessions on one file, with a crash at any system call.
SPECIFICATION Spec
CONSTANTS
    Empty = Empty
    Damaged = Damaged
    Content = {Empty, Damaged, A, B}
    NULL = NULL
    Blank = Blank
    Torn = Torn
    make_backup_files = TRUE
    UserActs = {"crash", "stuck", "full_disk"}
INVARIANTS
    TypeOK
    VersionKept
    SavedIsWritten
    NothingDueNothingLost
PROPERTIES
    CommandsEnd
