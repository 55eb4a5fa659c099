---------------------------- MODULE SymbolLibrary ----------------------------
(***************************************************************************)
(* The component library of libgeda: the symbols its sources listed, the   *)
(* cache of searches and the cache of symbol data.  Both caches hold       *)
(* pointers to symbols that belong to the sources, which free them when    *)
(* they are listed again; the memory of a freed symbol may be used for     *)
(* another one.                                                            *)
(*                                                                         *)
(* A source is a directory, a pair of commands or a pair of Scheme         *)
(* procedures: what it holds may change at any time, and listing it may    *)
(* fail.  Searches are for one name; the order in which the sources are    *)
(* searched, and a name that one source lists twice, are left out.         *)
(***************************************************************************)
EXTENDS Integers, FiniteSets

CONSTANTS
    Sources, Names,
    Data,           \* what a symbol may look like
    Symbols,        \* the memory for symbols: a symbol is one of its addresses
    NULL,
    CLIB_MAX_SYMBOL_CACHE, CLIB_MIN_SYMBOL_CACHE,
    UserActs,       \* a subset of {"unreadable"}: listing a source may fail
    TimeBound       \* bound of this model: the clock stops

ASSUME LibraryAssumption ==
    /\ IsFiniteSet(Symbols)
    /\ NULL \notin Data /\ NULL \notin Sources \X Names
    /\ NULL \notin [data : Data, accessed : 0..TimeBound]
    /\ CLIB_MIN_SYMBOL_CACHE \in Nat \ {0}
    /\ CLIB_MAX_SYMBOL_CACHE \in Nat /\ CLIB_MIN_SYMBOL_CACHE < CLIB_MAX_SYMBOL_CACHE
    /\ UserActs \subseteq {"unreadable"}
    /\ TimeBound \in Nat

VARIABLES
    held,           \* what each source holds under each name, or NULL
    clib_sources,   \* the sources added
    symbols,        \* the source and name of each symbol, or NULL
    clib_search_cache,  \* the symbols found for each name; {} if none were
    clib_symbol_cache,  \* the data of each symbol and when it was used, or NULL
    time,
    changed,        \* history variable: what changed in a source since it was cached
    unlisted        \* history variable: the last refresh listed no source at all

library == <<clib_sources, symbols>>
caches == <<clib_search_cache, clib_symbol_cache>>
vars == <<held, library, caches, time, changed, unlisted>>

CacheEntry == [data : Data, accessed : 0..TimeBound]

TypeOK ==
    /\ held \in [Sources \X Names -> Data \cup {NULL}]
    /\ clib_sources \subseteq Sources
    /\ symbols \in [Symbols -> (Sources \X Names) \cup {NULL}]
    /\ clib_search_cache \in [Names -> SUBSET Symbols]
    /\ clib_symbol_cache \in [Symbols -> CacheEntry \cup {NULL}]
    /\ time \in 0..TimeBound
    /\ changed \subseteq Sources \X Names
    /\ unlisted \in BOOLEAN

-----------------------------------------------------------------------------
Flushed ==
    /\ clib_search_cache = [n \in Names |-> {}]
    /\ clib_symbol_cache = [p \in Symbols |-> NULL]

s_clib_flush_cache ==
    /\ clib_search_cache' = [n \in Names |-> {}]
    /\ clib_symbol_cache' = [p \in Symbols |-> NULL]
    /\ changed' = {} /\ unlisted' = FALSE

(* The symbols of the sources S are freed, and each name held by a source   *)
(* that is listed gets a symbol in memory that is free.                     *)
Relisted(S, listed) ==
    LET free  == {p \in Symbols : symbols[p] = NULL \/ symbols[p][1] \in S}
        names == {sn \in listed \X Names : held[sn] # NULL}
        New   == {new \in [free -> names \cup {NULL}] :
                    \A sn \in names : Cardinality({p \in free : new[p] = sn}) = 1}
    IN  {[p \in Symbols |-> IF p \in free THEN new[p] ELSE symbols[p]] : new \in New}

CanList(S) == IF "unreadable" \in UserActs THEN SUBSET S ELSE {S}

(* A new source does not flush the caches. *)
s_clib_add_Wrong(s) ==
    /\ s \notin clib_sources
    /\ clib_sources' = clib_sources \cup {s}
    /\ \E listed \in CanList({s}) : symbols' \in Relisted({s}, listed)
    /\ UNCHANGED <<caches, changed, unlisted>>
    /\ UNCHANGED <<held, time>>

(* s_clib_add_directory, s_clib_add_command and s_clib_add_scm: a source is *)
(* listed, and is added even when that failed.  What does not list does not *)
(* flush.                                                                   *)
s_clib_add(s) ==
    /\ s \notin clib_sources
    /\ clib_sources' = clib_sources \cup {s}
    /\ \E listed \in CanList({s}) :
        /\ symbols' \in Relisted({s}, listed)
        /\ IF listed = {} THEN UNCHANGED <<caches, changed, unlisted>>
           ELSE s_clib_flush_cache
    /\ UNCHANGED <<held, time>>

(* Only the searches are flushed. *)
s_clib_refresh_Wrong ==
    /\ clib_sources # {}
    /\ \E listed \in CanList(clib_sources) :
        /\ symbols' \in Relisted(clib_sources, listed)
        /\ IF listed = {}
           THEN unlisted' = TRUE /\ UNCHANGED <<caches, changed>>
           ELSE /\ clib_search_cache' = [n \in Names |-> {}]
                /\ UNCHANGED clib_symbol_cache
                /\ changed' = {} /\ unlisted' = FALSE
    /\ UNCHANGED <<held, clib_sources, time>>

(* All the sources, one after the other.  Each frees its symbols before it  *)
(* is listed, and each that lists flushes; no cache is used in between.     *)
s_clib_refresh ==
    /\ clib_sources # {}
    /\ \E listed \in CanList(clib_sources) :
        /\ symbols' \in Relisted(clib_sources, listed)
        /\ IF listed = {}
           THEN unlisted' = TRUE /\ UNCHANGED <<caches, changed>>
           ELSE s_clib_flush_cache
    /\ UNCHANGED <<held, clib_sources, time>>

(* s_clib_init, also for reset-component-library: s_clib_free and a flush. *)
s_clib_init ==
    /\ clib_sources' = {} /\ symbols' = [p \in Symbols |-> NULL]
    /\ s_clib_flush_cache
    /\ UNCHANGED <<held, time>>

-----------------------------------------------------------------------------
Found(n) == {p \in Symbols : symbols[p] # NULL /\ symbols[p][2] = n}

(* An empty list in the cache is taken for none. *)
s_clib_search(n) ==
    /\ clib_search_cache[n] = {}
    /\ clib_search_cache' = [clib_search_cache EXCEPT ![n] = Found(n)]
    /\ UNCHANGED <<held, library, clib_symbol_cache, time, changed, unlisted>>

Cached == {p \in Symbols : clib_symbol_cache[p] # NULL}

(* What may be left when the cache is full, with p the newest entry.  The   *)
(* first round removes the oldest entry, p if all are equally old.  Each    *)
(* later one compares with the entry that was just freed, and from what it  *)
(* reads there removes the oldest entry or none.                            *)
CleanedOut(cache, p) ==
    LET in   == {q \in Symbols : cache[q] # NULL}
        Gone == {R \in SUBSET in :
            /\ Cardinality(R) \in 1..(CLIB_MAX_SYMBOL_CACHE + 1 - CLIB_MIN_SYMBOL_CACHE)
            /\ \A r \in R, q \in in \ R : cache[r].accessed <= cache[q].accessed
            /\ (\A q \in in : cache[q].accessed = cache[p].accessed) => p \in R}
    IN  {[q \in Symbols |-> IF q \in R THEN NULL ELSE cache[q]] : R \in Gone}

(* The cache is cleaned out one entry late. *)
TooFullWrong(cache) ==
    Cardinality({q \in Symbols : cache[q] # NULL}) > CLIB_MAX_SYMBOL_CACHE + 1

TooFull(cache) ==
    Cardinality({q \in Symbols : cache[q] # NULL}) > CLIB_MAX_SYMBOL_CACHE

Insert(p, d) ==
    LET cache == [clib_symbol_cache EXCEPT ![p] = [data |-> d, accessed |-> time]]
    IN  IF TooFull(cache) THEN clib_symbol_cache' \in CleanedOut(cache, p)
        ELSE clib_symbol_cache' = cache

(* What cannot be read is cached, too. *)
s_clib_symbol_get_data_Wrong(p) ==
    /\ symbols[p] # NULL
    /\ \/ /\ clib_symbol_cache[p] # NULL
          /\ clib_symbol_cache' = [clib_symbol_cache EXCEPT ![p].accessed = time]
          /\ UNCHANGED changed
       \/ /\ clib_symbol_cache[p] = NULL
          /\ Insert(p, held[symbols[p]])
          /\ changed' = changed \ {symbols[p]}
    /\ UNCHANGED <<held, library, clib_search_cache, time, unlisted>>

(* The data of a symbol from the cache or from its source, which may not    *)
(* hold it any more.  What happens when the symbol was freed is not         *)
(* followed.                                                                *)
s_clib_symbol_get_data(p) ==
    /\ symbols[p] # NULL
    /\ \/ /\ clib_symbol_cache[p] # NULL
          /\ clib_symbol_cache' = [clib_symbol_cache EXCEPT ![p].accessed = time]
          /\ UNCHANGED changed
       \/ /\ clib_symbol_cache[p] = NULL /\ held[symbols[p]] # NULL
          /\ Insert(p, held[symbols[p]])
          /\ changed' = changed \ {symbols[p]}
    /\ UNCHANGED <<held, library, clib_search_cache, time, unlisted>>

(* Before a component is updated from the library. *)
s_clib_symbol_invalidate_data(p) ==
    /\ symbols[p] # NULL
    /\ clib_symbol_cache' = [clib_symbol_cache EXCEPT ![p] = NULL]
    /\ changed' = changed \ {symbols[p]}
    /\ UNCHANGED <<held, library, clib_search_cache, time, unlisted>>

-----------------------------------------------------------------------------
(* The world: a symbol is written, changed or removed; time goes by. *)
HeldChanges(sn, d) ==
    /\ d # held[sn]
    /\ held' = [held EXCEPT ![sn] = d]
    /\ changed' = changed \cup {symbols[p] : p \in {p \in Cached : symbols[p] = sn}}
    /\ UNCHANGED <<library, caches, time, unlisted>>

Tick ==
    /\ time < TimeBound
    /\ time' = time + 1
    /\ UNCHANGED <<held, library, caches, changed, unlisted>>

Init ==
    /\ held \in [Sources \X Names -> Data \cup {NULL}]
    /\ clib_sources = {} /\ symbols = [p \in Symbols |-> NULL]
    /\ Flushed
    /\ time = 0 /\ changed = {} /\ unlisted = FALSE

Next ==
    \/ \E s \in Sources : s_clib_add(s)
    \/ s_clib_refresh \/ s_clib_init
    \/ \E n \in Names : s_clib_search(n)
    \/ \E p \in Symbols : s_clib_symbol_get_data(p) \/ s_clib_symbol_invalidate_data(p)
    \/ \E sn \in Sources \X Names, d \in Data \cup {NULL} : HeldChanges(sn, d)
    \/ Tick

Spec == Init /\ [][Next]_vars

-----------------------------------------------------------------------------
(* A search answered from the cache gives the symbols that the sources have *)
(* now, no freed one and not without those of a source added since, unless  *)
(* the last refresh listed no source.                                       *)
SearchFresh ==
    ~unlisted => \A n \in Names : clib_search_cache[n] \in {{}, Found(n)}

(* The data cached for a symbol is its own, and what its source holds or    *)
(* held when it was cached: never the data of a symbol whose memory it got. *)
DataFresh ==
    ~unlisted => \A p \in Cached :
        /\ symbols[p] # NULL
        /\ symbols[p] \in changed
           \/ clib_symbol_cache[p].data = held[symbols[p]]

(* The cache stays within its limit, whatever a round of cleaning out finds *)
(* in the freed entry.                                                      *)
CacheBounded == Cardinality(Cached) <= CLIB_MAX_SYMBOL_CACHE

(* "all functions which invalidate the cache are supposed to make sure it   *)
(* is flushed."                                                             *)
FlushedWhenInvalid ==
    /\ \A n \in Names : \A p \in clib_search_cache[n] : symbols[p] # NULL
    /\ \A p \in Cached : symbols[p] # NULL

(* "When symbol cache gets full, remove down to this level" *)
RemovedDown ==
    [][(\E p \in Cached : clib_symbol_cache'[p] = NULL)
       /\ (\E p \in Symbols : s_clib_symbol_get_data(p))
       => Cardinality(Cached') = CLIB_MIN_SYMBOL_CACHE]_vars
=============================================================================
