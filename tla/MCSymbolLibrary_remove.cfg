SPECIFICATION Spec
CONSTANTS
    Sources = {S1, S2}
    Names = {N1, N2}
    Data = {D1, D2}
    Symbols = {p1, p2, p3, p4}
    NULL = NULL
    CLIB_MAX_SYMBOL_CACHE = 3
    CLIB_MIN_SYMBOL_CACHE = 1
    UserActs = {}
    TimeBound = 1
PROPERTIES
    RemovedDown
