----------------------------- MODULE MCLinker -----------------------------
(* A small instance of Linker. *)
EXTENDS Linker, TLC

MCSymmetry == Permutations(Modules)
=============================================================================
