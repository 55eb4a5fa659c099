\* The same with an autosave that is due.
SPECIFICATION Spec
CONSTANTS
    Objects = {o1, o2, o3}
    Pages <- Sheets
    root = "top"
    dual = dual
    single = single
    Symbols = {dual, single}
    numslots <- SlotsOf
    inherited_slot <- NoDefault
    Numbers = {1}
    StartNumbers = {1}
    NULL = NULL
    UserActs = {"autosave"}
SYMMETRY Interchangeable
INVARIANT SlotsOnPage
\* The command ends.
CHECK_DEADLOCK FALSE
