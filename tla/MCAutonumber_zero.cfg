\* The same with numbers from 0 on.
SPECIFICATION Spec
CONSTANTS
    Objects = {o1, o2, o3}
    Pages <- Sheets
    root = "top"
    dual = dual
    single = single
    Symbols = {dual, single}
    numslots <- SlotsOf
    inherited_slot <- DefaultSlot
    Numbers = {0}
    StartNumbers = {0}
    NULL = NULL
    UserActs = {}
SYMMETRY Interchangeable
INVARIANT NumbersSkipped
\* The command ends.
CHECK_DEADLOCK FALSE
