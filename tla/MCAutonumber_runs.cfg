\* Three texts on two pages, numbered or not, with every setting.
SPECIFICATION Spec
CONSTANTS
    Objects = {o1, o2, o3}
    Pages <- Sheets
    root = "top"
    dual = dual
    single = single
    Symbols = {dual, single}
    numslots <- SlotsOf
    inherited_slot <- DefaultSlot
    Numbers = {1, 2}
    StartNumbers = {1}
    NULL = NULL
    UserActs = {}
SYMMETRY Interchangeable
INVARIANTS
    TypeOK
    NumbersSkipped
    NothingLeftOut
\* The command ends.
CHECK_DEADLOCK FALSE
