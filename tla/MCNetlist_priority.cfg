\* A net= attribute and a netname= attribute on one wire.
SPECIFICATION MCSpec
CONSTANTS
    Pins = {p, q}
    Wires = {v}
    Names = {x, y}
    NULL = NULL
    MaxRecords = 4
    net_naming_priority = "netattrib"
SYMMETRY Interchangeable
INVARIANTS
    PriorityNames
\* All pins are named and renamed in the end.
CHECK_DEADLOCK FALSE
