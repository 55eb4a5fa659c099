---------------------------- MODULE MCAutonumber ----------------------------
(***************************************************************************)
(* Autonumber for TLC: two pages, a symbol with two slots and one without. *)
(***************************************************************************)
EXTENDS Autonumber, TLC

CONSTANTS dual, single

Sheets == {"top", "sub"}
SlotsOf == (dual :> 2) @@ (single :> 0)
DefaultSlot == (dual :> 1) @@ (single :> NULL)
NoDefault == (dual :> NULL) @@ (single :> NULL)

Interchangeable == Permutations(Objects)
=============================================================================
