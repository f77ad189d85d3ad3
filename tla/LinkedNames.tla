---------------------------- MODULE LinkedNames ----------------------------
(***************************************************************************)
(* What linking promises to a program, without values, linkages of values  *)
(* and VMaps: which module's definition a reference to a name reaches. It  *)
(* depends on who was the first to have the name. A weak definition that   *)
(* comes first takes the name and is offered to nobody. A variable that is *)
(* declared first is offered to nobody either, and waits in vain.          *)
(***************************************************************************)

CONSTANTS Modules, Names, Variables, None

VARIABLES kind,      \* what a module has under a name, see Linker
          linked,    \* the modules that have been linked
          first,     \* the first of them that had the name
          reaches    \* the module whose definition a module's name stands for

vars == <<kind, linked, first, reaches>>

Defines(m, n) == kind[m][n] \notin {"none", "declared"}

\* What the name stands for in a module that declares it and is linked now.
Offered(n) ==
    IF first[n] = None \/ kind[first[n]][n] = "weak" THEN None ELSE reaches[first[n]][n]

\* Whether m's definition is the one that all who declared n waited for.
Answers(m, n) ==
    /\ Defines(m, n) /\ n \notin Variables
    /\ first[n] # None /\ reaches[first[n]][n] = None

Waiting(n) == {c \in linked : kind[c][n] = "declared" /\ reaches[c][n] = None}

Own(m, n) ==
    IF Defines(m, n) THEN m ELSE IF kind[m][n] = "declared" THEN Offered(n) ELSE None

Init ==
    /\ kind \in [Modules -> [Names -> {"none", "declared", "strong", "weak", "internal"}]]
    /\ linked = {}
    /\ first = [n \in Names |-> None]
    /\ reaches = [m \in Modules |-> [n \in Names |-> None]]

Link(m) ==
    /\ m \notin linked
    /\ linked' = linked \cup {m}
    /\ first' = [n \in Names |-> IF first[n] = None /\ kind[m][n] # "none" THEN m ELSE first[n]]
    /\ reaches' = [c \in Modules |-> [n \in Names |->
                     IF c = m THEN Own(m, n)
                     ELSE IF c \in Waiting(n) /\ Answers(m, n) THEN m
                     ELSE reaches[c][n]]]
    /\ UNCHANGED kind

Next == \E m \in Modules : Link(m)

Spec == Init /\ [][Next]_vars
=============================================================================
