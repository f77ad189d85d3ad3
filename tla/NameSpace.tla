----------------------------- MODULE NameSpace -----------------------------
(***************************************************************************)
(* What naming promises to the rest of the library, without entries, maps  *)
(* or counters: every object present has a label, or none, and belongs to  *)
(* a table, or to none; labels are distinct within a table. A label that   *)
(* is asked for and taken is given with one more suffix.                   *)
(***************************************************************************)
EXTENDS Naturals, Sequences

CONSTANTS Objects, Tables, GivenNames, EmptyName, NoTable, UniqueModulus

VARIABLES present,   \* the objects that exist
          member,    \* the table of each object
          label      \* the name of each object

vars == <<present, member, label>>

\* The labels of table t that an object other than o has.
Taken(t, o) == {label[p] : p \in {q \in present \ {o} : member[q] = t}} \ {EmptyName}

\* The labels that may be given in table t to an object o that asks for n.
Given(n, t, o) ==
    IF n = EmptyName \/ t = NoTable \/ n \notin Taken(t, o) THEN {n}
    ELSE {[n EXCEPT !.suffixes = Append(@, k)] : k \in 0 .. UniqueModulus - 1} \ Taken(t, o)

Init == /\ present = {}
        /\ member = [o \in Objects |-> NoTable]
        /\ label = [o \in Objects |-> EmptyName]

Appear(o) ==
    /\ o \notin present
    /\ present' = present \cup {o}
    /\ UNCHANGED <<member, label>>

Ask(o, n) ==
    /\ o \in present
    /\ \E l \in Given(n, member[o], o) : label' = [label EXCEPT ![o] = l]
    /\ UNCHANGED <<present, member>>

Join(o, t) ==
    /\ o \in present
    /\ member' = [member EXCEPT ![o] = t]
    /\ \E l \in Given(label[o], t, o) : label' = [label EXCEPT ![o] = l]
    /\ UNCHANGED present

Disappear(o) ==
    /\ o \in present
    /\ member[o] = NoTable
    /\ present' = present \ {o}
    /\ label' = [label EXCEPT ![o] = EmptyName]
    /\ UNCHANGED member

Next ==
    \E o \in Objects :
        \/ Appear(o) \/ Disappear(o)
        \/ \E n \in GivenNames \cup {EmptyName} : Ask(o, n)
        \/ \E t \in Tables \cup {NoTable} : Join(o, t)

Spec == Init /\ [][Next]_vars
=============================================================================
