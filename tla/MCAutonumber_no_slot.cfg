\* The same with components that are in no slot.
SPECIFICATION Spec
CONSTANTS
    Objects = {o1, o2, o3}
    Pages <- Sheets
    root = "top"
    dual = dual
    single = single
    Symbols = {dual, single}
    numslots <- SlotsOf
    inherited_slot <- DefaultSlot
    Numbers = {1}
    StartNumbers = {1}
    NULL = NULL
    UserActs = {"no_slot"}
SYMMETRY Interchangeable
INVARIANT NumbersSkipped
\* The command ends.
CHECK_DEADLOCK FALSE
