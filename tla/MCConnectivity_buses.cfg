\* The same with a bus and one symbol.
SPECIFICATION Spec
CONSTANTS
    Pins = {a}
    Nets = {m, n}
    Buses = {u}
    BusRelated = {u}
    complex <- Symbols
    NULL = NULL
    Width = 2
    Height = 1
    netconn_rubberband = TRUE
    net_consolidate = TRUE
    UserActs = {"extend"}
SYMMETRY Interchangeable
INVARIANTS
    TypeOK
    Symmetric
    NoDangling
    Complete
    CacheFresh
    LinesSound
