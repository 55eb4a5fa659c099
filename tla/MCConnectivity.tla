--------------------------- MODULE MCConnectivity ---------------------------
(***************************************************************************)
(* Connectivity for TLC: objects are model values.                         *)
(***************************************************************************)
EXTENDS Connectivity, TLC

(* Each pin is of a symbol of its own. *)
Symbols == [o \in Obj |-> IF o \in Pins THEN o ELSE NULL]

Interchangeable == Permutations(Nets) \cup Permutations(Pins)
=============================================================================
