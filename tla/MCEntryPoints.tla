--------------------------- MODULE MCEntryPoints ---------------------------
(* A small instance of EntryPoints. *)
EXTENDS EntryPoints, TLC

MCSymmetry == Permutations(Objects) \cup Permutations(Functions) \cup Permutations(Nodes)
=============================================================================
