------------------------ MODULE SymbolLibrary_proofs ------------------------
(***************************************************************************)
(* Proofs about the component library, for any sources, names, memory and  *)
(* cache limits.                                                            *)
(***************************************************************************)
EXTENDS SymbolLibrary, FiniteSetTheorems, TLAPS

SYMBOL == Sources \X Names

(* The symbols in memory belong to the sources that were added, and no two  *)
(* are the same symbol of the same source.                                  *)
Owned(syms, srcs) == \A p \in Symbols : syms[p] # NULL => syms[p][1] \in srcs
Unique(syms) ==
    \A p, q \in Symbols : syms[p] # NULL /\ syms[p] = syms[q] => p = q

IInv ==
    /\ TypeOK /\ SearchFresh /\ DataFresh /\ CacheBounded
    /\ Owned(symbols, clib_sources) /\ Unique(symbols)

USE LibraryAssumption

(* Listing some sources again leaves each symbol once, with an owner. *)
LEMMA RelistedSound ==
    ASSUME TypeOK, Owned(symbols, clib_sources), Unique(symbols),
           NEW S \in SUBSET Sources, NEW listed \in SUBSET S,
           NEW syms \in Relisted(S, listed)
    PROVE  /\ syms \in [Symbols -> SYMBOL \cup {NULL}]
           /\ Owned(syms, clib_sources \cup S)
           /\ Unique(syms)
<1> DEFINE free  == {p \in Symbols : symbols[p] = NULL \/ symbols[p][1] \in S}
           names == {sn \in listed \X Names : held[sn] # NULL}
<1>1. PICK new \in [free -> names \cup {NULL}] :
        /\ \A sn \in names : Cardinality({p \in free : new[p] = sn}) = 1
        /\ syms = [p \in Symbols |-> IF p \in free THEN new[p] ELSE symbols[p]]
  BY DEF Relisted
<1>2. symbols \in [Symbols -> SYMBOL \cup {NULL}]
  BY DEF TypeOK, SYMBOL
<1>3. names \subseteq SYMBOL /\ \A sn \in names : sn[1] \in S /\ sn # NULL
  BY DEF SYMBOL
<1>4. syms \in [Symbols -> SYMBOL \cup {NULL}]
  BY <1>1, <1>2, <1>3
<1>5. Owned(syms, clib_sources \cup S)
  BY <1>1, <1>3 DEF Owned
<1>6. ASSUME NEW p \in Symbols, NEW q \in Symbols, syms[p] # NULL, syms[p] = syms[q]
      PROVE  p = q
  <2>1. CASE p \notin free /\ q \notin free
    BY <1>1, <1>6, <2>1 DEF Unique
  <2>2. CASE p \in free /\ q \notin free
    BY <1>1, <1>3, <1>6, <2>2
  <2>3. CASE p \notin free /\ q \in free
    BY <1>1, <1>3, <1>6, <2>3
  <2>4. CASE p \in free /\ q \in free
    <3> DEFINE same == {r \in free : new[r] = new[p]}
    <3>1. new[p] \in names /\ new[q] = new[p]
      BY <1>1, <1>6, <2>4
    <3>2. IsFiniteSet(same) /\ Cardinality(same) = 1
      <4>1. same \subseteq Symbols
        OBVIOUS
      <4>2. Cardinality(same) = 1
        BY <1>1, <3>1
      <4> QED BY <4>1, <4>2, FS_Subset
    <3>3. p \in same /\ q \in same
      BY <2>4, <3>1
    <3> HIDE DEF same
    <3> QED BY <3>2, <3>3, FS_Singleton
  <2> QED BY <2>1, <2>2, <2>3, <2>4
<1> QED BY <1>4, <1>5, <1>6 DEF Unique

(* What is left after an entry was put into the cache is typed, holds what  *)
(* it held or the new entry, and is within the limit.                       *)
LEMMA InsertSound ==
    ASSUME TypeOK, CacheBounded, NEW p \in Symbols, NEW d \in Data, Insert(p, d)
    PROVE  /\ clib_symbol_cache' \in [Symbols -> CacheEntry \cup {NULL}]
           /\ \A q \in Symbols : clib_symbol_cache'[q] # NULL =>
                IF q = p THEN clib_symbol_cache'[q].data = d
                ELSE clib_symbol_cache'[q] = clib_symbol_cache[q]
           /\ CacheBounded'
<1> DEFINE entry == [data |-> d, accessed |-> time]
           cache == [clib_symbol_cache EXCEPT ![p] = entry]
           in == {q \in Symbols : cache[q] # NULL}
<1>1. entry \in CacheEntry /\ entry.data = d
  BY DEF TypeOK, CacheEntry
<1>2. clib_symbol_cache \in [Symbols -> CacheEntry \cup {NULL}]
  BY DEF TypeOK
<1>3. cache \in [Symbols -> CacheEntry \cup {NULL}]
      /\ cache[p] = entry /\ \A q \in Symbols \ {p} : cache[q] = clib_symbol_cache[q]
  BY <1>1, <1>2
<1>4. IsFiniteSet(in) /\ Cardinality(in) \in Nat
      /\ Cardinality(in) <= CLIB_MAX_SYMBOL_CACHE + 1
  <2>1. in \subseteq Cached \cup {p} /\ Cached \subseteq Symbols /\ in \subseteq Symbols
    BY <1>3 DEF Cached
  <2>2. IsFiniteSet(Cached) /\ IsFiniteSet(in) /\ Cardinality(Cached) \in Nat
    BY <2>1, FS_Subset, FS_CardinalityType
  <2>3. IsFiniteSet(Cached \cup {p}) /\ Cardinality(Cached \cup {p}) <= Cardinality(Cached) + 1
    <3>1. IsFiniteSet(Cached \cup {p})
          /\ Cardinality(Cached \cup {p}) =
                IF p \in Cached THEN Cardinality(Cached) ELSE Cardinality(Cached) + 1
      BY <2>2, FS_AddElement, Zenon
    <3> QED BY <2>2, <3>1
  <2>4. Cardinality(in) <= Cardinality(Cached \cup {p})
    BY <2>1, <2>3, FS_Subset
  <2> HIDE DEF in
  <2>5. Cardinality(in) \in Nat /\ Cardinality(Cached \cup {p}) \in Nat
    BY <2>2, <2>3, FS_CardinalityType
  <2> QED BY <2>2, <2>3, <2>4, <2>5 DEF CacheBounded
<1> HIDE DEF entry, cache
<1>5. CASE TooFull(cache)
  <2>1. clib_symbol_cache' \in CleanedOut(cache, p)
    BY <1>5 DEF Insert, cache, entry
  <2>2. PICK R \in SUBSET in :
          /\ Cardinality(R) \in 1..(CLIB_MAX_SYMBOL_CACHE + 1 - CLIB_MIN_SYMBOL_CACHE)
          /\ clib_symbol_cache' = [q \in Symbols |-> IF q \in R THEN NULL ELSE cache[q]]
    BY <2>1 DEF CleanedOut
  <2>3. Cached' = in \ R
    BY <2>2 DEF Cached
  <2>4. Cardinality(in \ R) = Cardinality(in) - Cardinality(R)
    <3>1. in \cap R = R
      BY <2>2
    <3> HIDE DEF in
    <3> QED BY <1>4, <3>1, FS_Difference
  <2> HIDE DEF in
  <2>5. CacheBounded'
    BY <1>4, <2>2, <2>3, <2>4 DEF CacheBounded
  <2> QED BY <1>1, <1>3, <2>2, <2>5
<1>6. CASE ~TooFull(cache)
  <2>1. clib_symbol_cache' = cache
    BY <1>6 DEF Insert, cache, entry
  <2>2. Cached' = in
    BY <2>1 DEF Cached
  <2>3. ~(Cardinality(in) > CLIB_MAX_SYMBOL_CACHE)
    BY <1>6 DEF TooFull
  <2> HIDE DEF in
  <2>4. CacheBounded'
    BY <1>4, <2>2, <2>3 DEF CacheBounded
  <2> QED BY <1>1, <1>3, <2>1, <2>4
<1> QED BY <1>5, <1>6

LEMMA FlushSound ==
    ASSUME s_clib_flush_cache
    PROVE  /\ SearchFresh' /\ DataFresh' /\ CacheBounded'
           /\ clib_search_cache' \in [Names -> SUBSET Symbols]
           /\ clib_symbol_cache' \in [Symbols -> CacheEntry \cup {NULL}]
           /\ changed' = {} /\ unlisted' = FALSE
<1>1. Cached' = {}
  BY DEF s_clib_flush_cache, Cached
<1>2. CacheBounded'
  BY <1>1, FS_EmptySet DEF CacheBounded
<1> QED BY <1>1, <1>2 DEF s_clib_flush_cache, SearchFresh, DataFresh, Found

LEMMA InitIInv == Init => IInv
<1> SUFFICES ASSUME Init PROVE IInv
  OBVIOUS
<1>1. Cached = {}
  BY DEF Init, Flushed, Cached
<1>2. CacheBounded
  BY <1>1, FS_EmptySet DEF CacheBounded
<1>3. TypeOK
  <2>1. time \in 0..TimeBound
    BY DEF Init
  <2>2. held \in [Sources \X Names -> Data \cup {NULL}]
    BY DEF Init
  <2>3. /\ symbols \in [Symbols -> (Sources \X Names) \cup {NULL}]
        /\ clib_search_cache \in [Names -> SUBSET Symbols]
        /\ clib_symbol_cache \in [Symbols -> CacheEntry \cup {NULL}]
    BY DEF Init, Flushed
  <2> QED BY <2>1, <2>2, <2>3 DEF Init, TypeOK
<1>4. Owned(symbols, clib_sources) /\ Unique(symbols)
  BY DEF Init, Owned, Unique
<1>5. SearchFresh /\ DataFresh
  BY <1>1 DEF Init, Flushed, SearchFresh, DataFresh
<1> QED BY <1>2, <1>3, <1>4, <1>5 DEF IInv

LEMMA AddKeeps ==
    ASSUME IInv, NEW s \in Sources, s_clib_add(s)
    PROVE  IInv'
<1>1. PICK listed \in SUBSET {s} :
        /\ symbols' \in Relisted({s}, listed)
        /\ IF listed = {} THEN UNCHANGED <<caches, changed, unlisted>>
           ELSE s_clib_flush_cache
  BY DEF s_clib_add, CanList
<1>2. /\ symbols' \in [Symbols -> SYMBOL \cup {NULL}]
      /\ Owned(symbols', clib_sources \cup {s}) /\ Unique(symbols')
  BY <1>1, RelistedSound DEF IInv
<1>3. CASE listed = {}
  <2>1. symbols' = symbols
    <3> DEFINE free == {p \in Symbols : symbols[p] = NULL \/ symbols[p][1] \in {s}}
    <3>1. \A p \in free : symbols[p] = NULL
      BY DEF IInv, Owned, s_clib_add
    <3>2. PICK new \in [free -> {NULL}] :
            symbols' = [p \in Symbols |-> IF p \in free THEN new[p] ELSE symbols[p]]
      BY <1>1, <1>3 DEF Relisted
    <3>3. symbols \in [Symbols -> SYMBOL \cup {NULL}]
      BY DEF IInv, TypeOK, SYMBOL
    <3> QED BY <3>1, <3>2, <3>3
  <2> QED BY <1>1, <1>2, <1>3, <2>1 DEF s_clib_add, IInv, TypeOK, SearchFresh, DataFresh,
             CacheBounded, Cached, Found, caches
<1>4. CASE listed # {}
  BY <1>1, <1>2, <1>4, FlushSound DEF s_clib_add, IInv, TypeOK, SYMBOL
<1> QED BY <1>3, <1>4

LEMMA RefreshKeeps ==
    ASSUME IInv, s_clib_refresh
    PROVE  IInv'
<1>1. PICK listed \in SUBSET clib_sources :
        /\ symbols' \in Relisted(clib_sources, listed)
        /\ IF listed = {} THEN unlisted' = TRUE /\ UNCHANGED <<caches, changed>>
           ELSE s_clib_flush_cache
  BY DEF s_clib_refresh, CanList
<1>2. /\ symbols' \in [Symbols -> SYMBOL \cup {NULL}]
      /\ Owned(symbols', clib_sources) /\ Unique(symbols')
  <2>1. clib_sources \in SUBSET Sources /\ clib_sources \cup clib_sources = clib_sources
    BY DEF IInv, TypeOK
  <2> QED BY <1>1, <2>1, RelistedSound DEF IInv
<1>3. CASE listed = {}
  BY <1>1, <1>2, <1>3 DEF s_clib_refresh, IInv, TypeOK, SYMBOL, SearchFresh, DataFresh,
     CacheBounded, Cached, caches
<1>4. CASE listed # {}
  BY <1>1, <1>2, <1>4, FlushSound DEF s_clib_refresh, IInv, TypeOK, SYMBOL
<1> QED BY <1>3, <1>4

LEMMA GetDataKeeps ==
    ASSUME IInv, NEW p \in Symbols, s_clib_symbol_get_data(p)
    PROVE  IInv'
<1> USE DEF s_clib_symbol_get_data
<1>1. CASE clib_symbol_cache[p] # NULL /\ UNCHANGED changed
           /\ clib_symbol_cache' = [clib_symbol_cache EXCEPT ![p].accessed = time]
  <2>1. clib_symbol_cache \in [Symbols -> CacheEntry \cup {NULL}] /\ time \in 0..TimeBound
    BY DEF IInv, TypeOK
  <2>2. clib_symbol_cache' =
            [clib_symbol_cache EXCEPT ![p] = [clib_symbol_cache[p] EXCEPT !.accessed = time]]
    BY <1>1, <2>1
  <2> DEFINE e == [clib_symbol_cache[p] EXCEPT !.accessed = time]
  <2>3. e \in CacheEntry /\ e.data = clib_symbol_cache[p].data
    BY <1>1, <2>1 DEF CacheEntry
  <2> HIDE DEF e
  <2>4. clib_symbol_cache' \in [Symbols -> CacheEntry \cup {NULL}]
    BY <2>1, <2>2, <2>3 DEF e
  <2>5. \A q \in Symbols : /\ clib_symbol_cache'[q] # NULL <=> clib_symbol_cache[q] # NULL
                           /\ clib_symbol_cache[q] # NULL =>
                                clib_symbol_cache'[q].data = clib_symbol_cache[q].data
    <3>1. e # NULL
      BY <2>3 DEF CacheEntry
    <3>2. clib_symbol_cache' = [clib_symbol_cache EXCEPT ![p] = e]
      BY <2>2 DEF e
    <3> QED BY <1>1, <2>1, <2>3, <3>1, <3>2
  <2>6. Cached' = Cached
    BY <2>5 DEF Cached
  <2> QED BY <1>1, <2>4, <2>5, <2>6 DEF IInv, TypeOK, SearchFresh, DataFresh, CacheBounded,
             Found, Cached, library
<1>2. CASE /\ clib_symbol_cache[p] = NULL /\ held[symbols[p]] # NULL
           /\ Insert(p, held[symbols[p]]) /\ changed' = changed \ {symbols[p]}
  <2>1. held[symbols[p]] \in Data
    BY <1>2 DEF IInv, TypeOK
  <2>2. /\ clib_symbol_cache' \in [Symbols -> CacheEntry \cup {NULL}]
        /\ \A q \in Symbols : clib_symbol_cache'[q] # NULL =>
             IF q = p THEN clib_symbol_cache'[q].data = held[symbols[p]]
             ELSE clib_symbol_cache'[q] = clib_symbol_cache[q]
        /\ CacheBounded'
    BY <1>2, <2>1, InsertSound DEF IInv
  <2>3. DataFresh'
    <3> SUFFICES ASSUME ~unlisted', NEW q \in Symbols, clib_symbol_cache'[q] # NULL
                 PROVE  /\ symbols'[q] # NULL
                        /\ symbols'[q] \in changed'
                           \/ clib_symbol_cache'[q].data = held'[symbols'[q]]
      BY DEF DataFresh, Cached
    <3>1. CASE q = p
      BY <2>2, <3>1 DEF library
    <3>2. CASE q # p
      <4>1. symbols[q] # NULL => symbols[q] # symbols[p]
        BY <3>2 DEF IInv, Unique
      <4> QED BY <1>2, <2>2, <3>2, <4>1 DEF library, IInv, DataFresh, Cached
    <3> QED BY <3>1, <3>2
  <2> QED BY <1>2, <2>2, <2>3 DEF IInv, TypeOK, SearchFresh, Found, library
<1> QED BY <1>1, <1>2

LEMMA InvalidateKeeps ==
    ASSUME IInv, NEW p \in Symbols, s_clib_symbol_invalidate_data(p)
    PROVE  IInv'
<1> USE DEF s_clib_symbol_invalidate_data
<1>1. clib_symbol_cache \in [Symbols -> CacheEntry \cup {NULL}]
  BY DEF IInv, TypeOK
<1>2. Cached' = Cached \ {p}
  BY <1>1 DEF Cached
<1>3. CacheBounded'
  <2>1. Cached \subseteq Symbols
    BY DEF Cached
  <2>2. Cardinality(Cached \ {p}) <= Cardinality(Cached)
        /\ Cardinality(Cached) \in Nat /\ Cardinality(Cached \ {p}) \in Nat
    <3>1. IsFiniteSet(Cached) /\ Cached \ {p} \subseteq Cached
      BY <2>1, FS_Subset
    <3> QED BY <3>1, FS_Subset, FS_CardinalityType
  <2> QED BY <1>2, <2>2 DEF CacheBounded, IInv
<1>4. DataFresh'
  BY <1>1, <1>2 DEF IInv, DataFresh, Cached, Unique, library
<1> QED BY <1>1, <1>3, <1>4 DEF IInv, TypeOK, SearchFresh, Found, library

LEMMA StepIInv == IInv /\ [Next]_vars => IInv'
<1> SUFFICES ASSUME IInv, [Next]_vars PROVE IInv'
  OBVIOUS
<1>1. ASSUME NEW s \in Sources, s_clib_add(s) PROVE IInv'
  BY <1>1, AddKeeps
<1>2. CASE s_clib_refresh
  BY <1>2, RefreshKeeps
<1>3. CASE s_clib_init
  BY <1>3, FlushSound DEF s_clib_init, IInv, TypeOK, Owned, Unique
<1>4. ASSUME NEW n \in Names, s_clib_search(n) PROVE IInv'
  BY <1>4 DEF s_clib_search, IInv, TypeOK, SearchFresh, DataFresh, CacheBounded,
     Cached, Found, library
<1>5. ASSUME NEW p \in Symbols, s_clib_symbol_get_data(p) PROVE IInv'
  BY <1>5, GetDataKeeps
<1>6. ASSUME NEW p \in Symbols, s_clib_symbol_invalidate_data(p) PROVE IInv'
  BY <1>6, InvalidateKeeps
<1>7. ASSUME NEW sn \in Sources \X Names, NEW d \in Data \cup {NULL}, HeldChanges(sn, d)
      PROVE  IInv'
  <2>1. held' = [held EXCEPT ![sn] = d]
        /\ changed' = changed \cup {symbols[p] : p \in {p \in Cached : symbols[p] = sn}}
        /\ UNCHANGED <<clib_sources, symbols, clib_search_cache, clib_symbol_cache,
                       time, unlisted>>
    BY <1>7 DEF HeldChanges, library, caches
  <2>2. TypeOK'
    BY <2>1 DEF IInv, TypeOK
  <2>3. DataFresh'
    BY <2>1 DEF IInv, TypeOK, DataFresh, Cached
  <2> QED BY <2>1, <2>2, <2>3 DEF IInv, SearchFresh, CacheBounded, Cached, Found
<1>8. CASE Tick
  BY <1>8 DEF Tick, IInv, TypeOK, SearchFresh, DataFresh, CacheBounded, Cached, Found,
     library, caches
<1>9. CASE UNCHANGED vars
  BY <1>9 DEF vars, IInv, TypeOK, SearchFresh, DataFresh, CacheBounded, Cached, Found,
     library, caches
<1> QED BY <1>1, <1>2, <1>3, <1>4, <1>5, <1>6, <1>7, <1>8, <1>9 DEF Next

LEMMA AlwaysIInv == Spec => []IInv
BY InitIInv, StepIInv, PTL DEF Spec

(* Every variable keeps its type: no pointer leaves the memory there is.    *)
THEOREM LibraryTyped == Spec => []TypeOK
BY AlwaysIInv, PTL DEF IInv

(* Whatever sources are added, listed again or fail to list, a search from  *)
(* the cache is a search of the sources (s_clib_search).                    *)
THEOREM SearchesAreFresh == Spec => []SearchFresh
BY AlwaysIInv, PTL DEF IInv

(* No symbol is ever given the data of another one, although the cache is   *)
(* keyed by addresses that are used again (s_clib_symbol_get_data).         *)
THEOREM DataIsFresh == Spec => []DataFresh
BY AlwaysIInv, PTL DEF IInv

(* The cache of symbol data never holds more than its limit.                *)
THEOREM CacheIsBounded == Spec => []CacheBounded
BY AlwaysIInv, PTL DEF IInv
=============================================================================
