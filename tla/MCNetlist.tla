------------------------------ MODULE MCNetlist ------------------------------
(***************************************************************************)
(* Netlist for TLC: pins, wires and names are model values, and            *)
(* interchangeable.  MaxRecords bounds the schematics.                     *)
(***************************************************************************)
EXTENDS Netlist, TLC

CONSTANT MaxRecords     \* with a name, of a wire

MCInit == Init /\ \A w \in Wires : Cardinality(names[w]) <= MaxRecords
MCSpec == MCInit /\ [][Next]_vars

Interchangeable == Permutations(Pins) \cup Permutations(Wires) \cup Permutations(Names)
=============================================================================
