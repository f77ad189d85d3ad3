------------------------- MODULE MCClassRegistry -------------------------
(* A small instance of ClassRegistry. *)
EXTENDS ClassRegistry, TLC

CONSTANTS A

MCBases == {A}
MCGivenNames == {[base |-> A, suffixes |-> <<>>]}
MCSymmetry == Permutations(Objects) \cup Permutations(Modules)
=============================================================================
