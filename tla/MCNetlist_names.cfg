\* Two pins, three names, up to three records with a name on each wire.
SPECIFICATION MCSpec
CONSTANTS
    Pins = {p, q}
    Wires = {v, w}
    Names = {x, y, z}
    NULL = NULL
    MaxRecords = 3
    net_naming_priority = "netattrib"
SYMMETRY Interchangeable
INVARIANTS
    TypeOK
    NoShort
    NoOpenOfOneConflict
\* All pins are named and renamed in the end.
CHECK_DEADLOCK FALSE
