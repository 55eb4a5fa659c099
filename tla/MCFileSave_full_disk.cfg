\* A disk that fills up.
SPECIFICATION Spec
CONSTANTS
    Empty = Empty
    Damaged = Damaged
    Content = {Empty, Damaged, A, B}
    NULL = NULL
    Blank = Blank
    Torn = Torn
    make_backup_files = TRUE
    UserActs = {"full_disk"}
INVARIANTS
    SuccessIsWritten
