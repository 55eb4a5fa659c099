----------------------------- MODULE MCFileSave -----------------------------
(***************************************************************************)
(* FileSave for TLC: contents and the states of a file are model values.   *)
(***************************************************************************)
EXTENDS FileSave, TLC

Interchangeable == Permutations(Content \ {Empty, Damaged})
=============================================================================
