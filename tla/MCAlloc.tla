------------------------------ MODULE MCAlloc ------------------------------
(***************************************************************************)
(* Alloc with interchangeable addresses.                                   *)
(***************************************************************************)
EXTENDS Alloc, TLC

Symmetry == Permutations(Block)
=============================================================================
