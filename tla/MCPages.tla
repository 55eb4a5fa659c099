------------------------------ MODULE MCPages ------------------------------
(***************************************************************************)
(* Pages for TLC: file names and contents are model values.                *)
(***************************************************************************)
EXTENDS Pages, TLC

Interchangeable == Permutations(Names \ Untitled)
=============================================================================
