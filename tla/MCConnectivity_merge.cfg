\* Nets alone, drawn and merged, without rubberbanding.
SPECIFICATION Spec
CONSTANTS
    Pins = {}
    Nets = {a, m, n}
    Buses = {}
    BusRelated = {}
    complex <- Symbols
    NULL = NULL
    Width = 2
    Height = 2
    netconn_rubberband = FALSE
    net_consolidate = TRUE
    UserActs = {}
SYMMETRY Interchangeable
INVARIANT FileHasSameNets
