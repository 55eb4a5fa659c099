\* Two symbols with a net between them, all moved with rubberbanding.
SPECIFICATION Spec
CONSTANTS
    Pins = {a, b}
    Nets = {m}
    Buses = {}
    BusRelated = {}
    complex <- Symbols
    NULL = NULL
    Width = 2
    Height = 1
    netconn_rubberband = TRUE
    net_consolidate = TRUE
    UserActs = {}
SYMMETRY Interchangeable
PROPERTY MoveKeepsConnections
