---------------------------- MODULE MCPageUndo ----------------------------
(***************************************************************************)
(* PageUndo for TLC.  Contents are model values; those other than the      *)
(* empty page are interchangeable.                                         *)
(***************************************************************************)
EXTENDS PageUndo, TLC

Interchangeable == Permutations(Content \ {Empty})
=============================================================================
