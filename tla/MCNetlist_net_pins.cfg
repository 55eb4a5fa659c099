\* Two components on one wire, each with a net= attribute for its pin.
SPECIFICATION MCSpec
CONSTANTS
    Pins = {p, q}
    Wires = {v}
    Names = {x, y}
    NULL = NULL
    MaxRecords = 2
    net_naming_priority = "netattrib"
SYMMETRY Interchangeable
INVARIANTS
    NoOpenWire
\* All pins are named and renamed in the end.
CHECK_DEADLOCK FALSE
