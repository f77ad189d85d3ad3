-------------------------- MODULE MCSymbolTable --------------------------
(* A small instance of SymbolTable: names "A" and "A.1", given by callers. *)
EXTENDS SymbolTable, TLC

CONSTANTS A

MCBases == {A}
MCGivenNames == {[base |-> A, suffixes |-> s] : s \in {<<>>, <<1>>}}

\* Addresses of objects and of tables are interchangeable.
MCSymmetry == Permutations(Objects) \cup Permutations(Tables)
=============================================================================
