-------------------------- MODULE MCSymbolLibrary --------------------------
(***************************************************************************)
(* SymbolLibrary for TLC.  Addresses, data, names and sources are model    *)
(* values, each interchangeable with the others of its kind.               *)
(***************************************************************************)
EXTENDS SymbolLibrary, TLC

Interchangeable ==
    Permutations(Symbols) \cup Permutations(Data)
    \cup Permutations(Names) \cup Permutations(Sources)
=============================================================================
