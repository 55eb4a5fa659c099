\* Two sources with two names, of which memory holds three symbols, one more
\* than the cache takes.
SPECIFICATION Spec
CONSTANTS
    Sources = {S1, S2}
    Names = {N1, N2}
    Data = {D1, D2}
    Symbols = {p1, p2, p3}
    NULL = NULL
    CLIB_MAX_SYMBOL_CACHE = 2
    CLIB_MIN_SYMBOL_CACHE = 1
    UserActs = {"unreadable"}
    TimeBound = 1
SYMMETRY Interchangeable
INVARIANTS
    TypeOK
    SearchFresh
    DataFresh
    CacheBounded
