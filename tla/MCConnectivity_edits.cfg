\* Nets drawn, dragged, moved and merged between symbols.
SPECIFICATION Spec
CONSTANTS
    Pins = {a, b}
    Nets = {m, n}
    Buses = {}
    BusRelated = {}
    complex <- Symbols
    NULL = NULL
    Width = 2
    Height = 1
    netconn_rubberband = TRUE
    net_consolidate = TRUE
    UserActs = {"extend"}
SYMMETRY Interchangeable
INVARIANTS
    TypeOK
    Symmetric
    NoDangling
    Complete
    CacheFresh
    LinesSound
