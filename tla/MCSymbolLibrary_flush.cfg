SPECIFICATION Spec
CONSTANTS
    Sources = {S1}
    Names = {N1, N2}
    Data = {D1}
    Symbols = {p1, p2}
    NULL = NULL
    CLIB_MAX_SYMBOL_CACHE = 2
    CLIB_MIN_SYMBOL_CACHE = 1
    UserActs = {"unreadable"}
    TimeBound = 0
INVARIANTS
    FlushedWhenInvalid
