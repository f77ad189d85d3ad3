--------------------------- MODULE MCDispatchers ---------------------------
(* Dispatchers with two modules, of which one may wrap what the other      *)
(* released.                                                               *)
EXTENDS Dispatchers, TLC

NodeAddresses == 1 .. 2

\* Addresses of nodes are ordered, the others are not.
Alike ==
    Permutations(Modules) \cup Permutations(LLModules) \cup Permutations(Objects)
    \cup Permutations(Interfaces) \cup Permutations(Contents)

=============================================================================
