\* Two wires with two names each, one of them common.
SPECIFICATION MCSpec
CONSTANTS
    Pins = {p, q}
    Wires = {v, w}
    Names = {x, y, z}
    NULL = NULL
    MaxRecords = 4
    net_naming_priority = "netattrib"
SYMMETRY Interchangeable
INVARIANTS
    NoOpenOfSeenConflicts
\* All pins are named and renamed in the end.
CHECK_DEADLOCK FALSE
