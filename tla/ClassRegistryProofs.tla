------------------------ MODULE ClassRegistryProofs ------------------------
(***************************************************************************)
(* Proofs about ClassRegistry, for every set of classes, modules, names and*)
(* metadata nodes. The names of the classes are a SymbolTable, so what is  *)
(* proved there is cited here. The inductive invariant, Registered, adds   *)
(* that lists, tables and live classes agree, that a node is known by its  *)
(* address, and that a module has a class with a node for each operand.    *)
(***************************************************************************)
EXTENDS ClassRegistry, FiniteSetTheorems, FunctionTheorems, WellFoundedInduction, TLAPS

P == INSTANCE SymbolTableProofs WITH Tables <- Modules, NoTable <- NoModule

----------------------------------------------------------------------------
(* The naming functions that ClassRegistry uses are the ones proved about. *)

LEMMA Constants ==
    /\ NoModule \notin Modules
    /\ GivenNames \subseteq P!Names /\ EmptyName \notin P!Names
    /\ NoEntry \notin P!Entries
    /\ IsFiniteSet(Objects) /\ UniqueModulus \in Nat /\ UniqueModulus > Cardinality(Objects)
  BY ModuleAssumption, NamesAssumption DEF P!Names, P!Entries

LEMMA Modulus ==
    P!IsFiniteSet(Objects) /\ UniqueModulus \in Nat /\ UniqueModulus > P!Cardinality(Objects)
  BY Constants DEF IsFiniteSet, P!IsFiniteSet, Cardinality, P!Cardinality

LEMMA SameName ==
    ASSUME NEW st, NEW o
    PROVE  Names!GetName(st, o) = P!GetName(st, o)
  BY Zenon DEF Names!GetName, P!GetName

LEMMA SameDetach ==
    ASSUME NEW st, NEW o
    PROVE  Names!Detach(st, o) = P!Detach(st, o)
  BY Zenon DEF Names!Detach, P!Detach

LEMMA SameKeys ==
    ASSUME NEW st, NEW t
    PROVE  Names!Keys(st, t) = P!Keys(st, t)
  BY Zenon DEF Names!Keys, P!Keys

LEMMA SameSteps ==
    ASSUME NEW st, NEW t, NEW name
    PROVE  Names!UniqueSteps(st, t, name) = P!UniqueSteps(st, t, name)
  BY Zenon DEF Names!UniqueSteps, P!UniqueSteps, Names!FreeSteps, P!FreeSteps,
     Names!Keys, P!Keys, Names!Suffixed, P!Suffixed, Names!Counter, P!Counter

LEMMA SameKey ==
    ASSUME NEW st, NEW t, NEW name
    PROVE  Names!UniqueKey(st, t, name) = P!UniqueKey(st, t, name)
  <1>1. \A n, k : Names!Suffixed(n, k) = P!Suffixed(n, k)
    BY Zenon DEF Names!Suffixed, P!Suffixed
  <1>2. \A k : Names!Counter(st, t, k) = P!Counter(st, t, k)
    BY Zenon DEF Names!Counter, P!Counter
  <1> QED  BY <1>1, <1>2, SameKeys, SameSteps, Zenon DEF Names!UniqueKey, P!UniqueKey

LEMMA SameEntry ==
    ASSUME NEW st, NEW o, NEW t, NEW name
    PROVE  Names!CreateEntry(st, o, t, name) = P!CreateEntry(st, o, t, name)
  <1>1. \A k : Names!Counter(st, t, k) = P!Counter(st, t, k)
    BY Zenon DEF Names!Counter, P!Counter
  <1>2. \A e : Names!Attach(st, o, e) = P!Attach(st, o, e)
    BY Zenon DEF Names!Attach, P!Attach
  <1> QED  BY <1>1, <1>2, SameKey, SameSteps, Zenon DEF Names!CreateEntry, P!CreateEntry

LEMMA SameSetName ==
    ASSUME NEW st, NEW o, NEW name
    PROVE  Names!SetName(st, o, name) = P!SetName(st, o, name)
  <1>1. \A e : Names!Attach(Names!Detach(st, o), o, e) = P!Attach(P!Detach(st, o), o, e)
    BY SameDetach, Zenon DEF Names!Attach, P!Attach
  <1> QED  BY <1>1, SameName, SameDetach, SameEntry, Zenon DEF Names!SetName, P!SetName

LEMMA SameSetSymbolTable ==
    ASSUME NEW st, NEW o, NEW t
    PROVE  Names!SetSymbolTable(st, o, t) = P!SetSymbolTable(st, o, t)
  BY SameSetName, SameName, Zenon DEF Names!SetSymbolTable, P!SetSymbolTable

LEMMA SameLifetime ==
    ASSUME NEW st, NEW o
    PROVE  /\ Names!Construct(st, o) = P!Construct(st, o)
           /\ Names!Destroy(st, o) = P!Destroy(st, o)
  BY Zenon DEF Names!Construct, P!Construct, Names!Destroy, P!Destroy

\* What a call does to the set of live objects and to their tables.
Called(r, live, table) == P!WellFormed(r) /\ r.live = live /\ r.table = table

LEMMA NamingBegins == Called(Names!NamingInit, {}, [o \in Objects |-> NoModule])
  <1>1. Names!NamingInit = P!NamingInit
    BY Zenon DEF Names!NamingInit, P!NamingInit
  <1> DEFINE r == P!NamingInit
  <1>2. P!WellFormed(r) /\ r.live = {} /\ r.table = [o \in Objects |-> NoModule]
    BY Constants, Modulus, P!EmptyWellFormed
  <1> QED  BY <1>1, <1>2 DEF Called

LEMMA NamingType ==
    ASSUME NEW st, P!WellFormed(st)
    PROVE  st.live \in SUBSET Objects /\ st.table \in [Objects -> Modules \cup {NoModule}]
  BY DEF P!WellFormed, P!NamingType

LEMMA NamedCalled ==
    ASSUME NEW st, P!WellFormed(st), NEW o \in st.live, NEW name \in GivenNames \cup {EmptyName}
    PROVE  Called(Names!SetName(st, o, name), st.live, st.table)
  <1> DEFINE r == P!SetName(st, o, name)
  <1>1. name \in P!Names \cup {EmptyName}
    BY Constants
  <1>2. P!WellFormed(r) /\ r.live = st.live /\ r.table = st.table
    BY <1>1, Constants, Modulus, P!SetNameWellFormed
  <1> QED  BY <1>2, SameSetName DEF Called

LEMMA MovedCalled ==
    ASSUME NEW st, P!WellFormed(st), NEW o \in st.live, NEW m \in Modules \cup {NoModule}
    PROVE  Called(Names!SetSymbolTable(st, o, m), st.live, [st.table EXCEPT ![o] = m])
  <1> DEFINE r == P!SetSymbolTable(st, o, m)
  <1>2. P!WellFormed(r) /\ r.live = st.live /\ r.table = [st.table EXCEPT ![o] = m]
    BY Constants, Modulus, P!SetSymbolTableWellFormed
  <1> QED  BY <1>2, SameSetSymbolTable DEF Called

LEMMA ConstructedCalled ==
    ASSUME NEW st, P!WellFormed(st), NEW o \in Objects \ st.live
    PROVE  Called(Names!Construct(st, o), st.live \cup {o}, [st.table EXCEPT ![o] = NoModule])
  <1> DEFINE r == P!Construct(st, o)
  <1>2. P!WellFormed(r) /\ r.live = st.live \cup {o} /\ r.table = [st.table EXCEPT ![o] = NoModule]
    BY Constants, Modulus, P!ConstructWellFormed
  <1> QED  BY <1>2, SameLifetime DEF Called

LEMMA DestroyedCalled ==
    ASSUME NEW st, P!WellFormed(st), NEW o \in Objects, st.table[o] = NoModule
    PROVE  Called(Names!Destroy(st, o), st.live \ {o}, st.table)
  <1> DEFINE r == P!Destroy(st, o)
  <1>2. P!WellFormed(r) /\ r.live = st.live \ {o} /\ r.table = st.table
    BY Constants, Modulus, P!DestroyWellFormed
  <1> QED  BY <1>2, SameLifetime DEF Called

LEMMA RecountedCalled ==
    ASSUME NEW st, P!WellFormed(st), NEW m \in Modules
    PROVE  Called([st EXCEPT !.lastUnique[m] = 0], st.live, st.table)
  <1> DEFINE r == [st EXCEPT !.lastUnique[m] = 0]
  <1>2. P!WellFormed(r) /\ r.live = st.live /\ r.table = st.table
    BY Constants, Modulus, P!RecountWellFormed
  <1> QED  BY <1>2 DEF Called

----------------------------------------------------------------------------
(* Loops over the classes of a list. A loop is a function of the number of *)
(* its turns; that there is one is shown by induction on that number.      *)

LEMMA Induction ==
    ASSUME NEW T \in SUBSET Nat, 0 \in T, \A k \in T : k + 1 \in T
    PROVE  T = Nat
  <1> DEFINE R == Nat \ T
  <1> SUFFICES ASSUME R # {} PROVE FALSE
    OBVIOUS
  <1>1. PICK k \in R : \A j \in R : ~(<<j, k>> \in OpToRel(<, Nat))
    BY WFMin, NatLessThanWellFounded, Zenon
  <1>2. k \in Nat /\ k # 0 /\ k - 1 \in Nat /\ k - 1 < k
    OBVIOUS
  <1>3. k - 1 \notin R
    BY <1>1, <1>2 DEF OpToRel
  <1>4. k = (k - 1) + 1
    BY <1>2
  <1> QED  BY <1>2, <1>3, <1>4

\* Class(md, module) for the k-th of the nodes, in state st.
Constructing(st, k, m, nodes, new) ==
    Names!SetName(Names!SetSymbolTable(Names!Construct(st, new[k]), new[k], m),
                  new[k], nodes[k].name)

\* The list gives up its k-th class.
Clearing(st, k, list) ==
    Names!Destroy(Names!SetSymbolTable(st, list[k], NoModule), list[k])

Constructions(f, n, m, nodes, new) ==
    f = [k \in 0 .. n |-> IF k = 0 THEN naming ELSE Constructing(f[k - 1], k, m, nodes, new)]

Clearings(f, n, list) ==
    f = [k \in 0 .. n |-> IF k = 0 THEN naming ELSE Clearing(f[k - 1], k, list)]

Turns(f, n, ops, sorted) ==
    f = [k \in 0 .. n |-> IF k = 0 THEN [i |-> 1, j |-> 1, only |-> <<>>]
                          ELSE Turn(ops, sorted, f[k - 1])]

LEMMA ConstructionsExist ==
    ASSUME NEW m, NEW nodes, NEW new, NEW n \in Nat
    PROVE  \E f : Constructions(f, n, m, nodes, new)
  <1> DEFINE T == {m0 \in Nat : \E f : Constructions(f, m0, m, nodes, new)}
  <1>1. 0 \in T
    <2> DEFINE f == [k \in 0 .. 0 |-> naming]
    <2>1. Constructions(f, 0, m, nodes, new)
      BY DEF Constructions
    <2> HIDE DEF f
    <2> QED  BY <2>1
  <1>2. ASSUME NEW q \in T PROVE q + 1 \in T
    <2>1. PICK f : Constructions(f, q, m, nodes, new)
      OBVIOUS
    <2> DEFINE g == [k \in 0 .. q + 1 |-> IF k = q + 1 THEN Constructing(f[q], q + 1, m, nodes, new) ELSE f[k]]
    <2>2. ASSUME NEW k \in 0 .. q + 1
          PROVE  g[k] = IF k = 0 THEN naming ELSE Constructing(g[k - 1], k, m, nodes, new)
      <3>1. CASE k = 0
        BY <2>1, <3>1 DEF Constructions
      <3>2. CASE k \in 1 .. q
        <4>1. k \in 0 .. q /\ k # 0 /\ k # q + 1 /\ k - 1 \in 0 .. q + 1 /\ k - 1 # q + 1
          BY <3>2
        <4>2. f[k] = Constructing(f[k - 1], k, m, nodes, new)
          BY <2>1, <4>1 DEF Constructions
        <4> QED  BY <4>1, <4>2
      <3>3. CASE k = q + 1
        <4>1. (q + 1) - 1 = q /\ q # q + 1 /\ q \in 0 .. q + 1 /\ q + 1 # 0
          OBVIOUS
        <4> QED  BY <3>3, <4>1
      <3> QED  BY <3>1, <3>2, <3>3
    <2>3. g = [k \in 0 .. q + 1 |-> g[k]]
      OBVIOUS
    <2> HIDE DEF g
    <2>4. g = [k \in 0 .. q + 1 |-> IF k = 0 THEN naming ELSE Constructing(g[k - 1], k, m, nodes, new)]
      BY <2>2, <2>3
    <2> QED  BY <2>4 DEF Constructions
  <1> HIDE DEF T
  <1>3. T = Nat
    BY <1>1, <1>2, Induction DEF T
  <1> QED  BY <1>3 DEF T

LEMMA ClearingsExist ==
    ASSUME NEW list, NEW n \in Nat
    PROVE  \E f : Clearings(f, n, list)
  <1> DEFINE T == {m0 \in Nat : \E f : Clearings(f, m0, list)}
  <1>1. 0 \in T
    <2> DEFINE f == [k \in 0 .. 0 |-> naming]
    <2>1. Clearings(f, 0, list)
      BY DEF Clearings
    <2> HIDE DEF f
    <2> QED  BY <2>1
  <1>2. ASSUME NEW q \in T PROVE q + 1 \in T
    <2>1. PICK f : Clearings(f, q, list)
      OBVIOUS
    <2> DEFINE g == [k \in 0 .. q + 1 |-> IF k = q + 1 THEN Clearing(f[q], q + 1, list) ELSE f[k]]
    <2>2. ASSUME NEW k \in 0 .. q + 1
          PROVE  g[k] = IF k = 0 THEN naming ELSE Clearing(g[k - 1], k, list)
      <3>1. CASE k = 0
        BY <2>1, <3>1 DEF Clearings
      <3>2. CASE k \in 1 .. q
        <4>1. k \in 0 .. q /\ k # 0 /\ k # q + 1 /\ k - 1 \in 0 .. q + 1 /\ k - 1 # q + 1
          BY <3>2
        <4>2. f[k] = Clearing(f[k - 1], k, list)
          BY <2>1, <4>1 DEF Clearings
        <4> QED  BY <4>1, <4>2
      <3>3. CASE k = q + 1
        <4>1. (q + 1) - 1 = q /\ q # q + 1 /\ q \in 0 .. q + 1 /\ q + 1 # 0
          OBVIOUS
        <4> QED  BY <3>3, <4>1
      <3> QED  BY <3>1, <3>2, <3>3
    <2>3. g = [k \in 0 .. q + 1 |-> g[k]]
      OBVIOUS
    <2> HIDE DEF g
    <2>4. g = [k \in 0 .. q + 1 |-> IF k = 0 THEN naming ELSE Clearing(g[k - 1], k, list)]
      BY <2>2, <2>3
    <2> QED  BY <2>4 DEF Clearings
  <1> HIDE DEF T
  <1>3. T = Nat
    BY <1>1, <1>2, Induction DEF T
  <1> QED  BY <1>3 DEF T

LEMMA TurnsExist ==
    ASSUME NEW ops, NEW sorted, NEW n \in Nat
    PROVE  \E f : Turns(f, n, ops, sorted)
  <1> DEFINE T == {m0 \in Nat : \E f : Turns(f, m0, ops, sorted)}
  <1>1. 0 \in T
    <2> DEFINE f == [k \in 0 .. 0 |-> [i |-> 1, j |-> 1, only |-> <<>>]]
    <2>1. Turns(f, 0, ops, sorted)
      BY DEF Turns
    <2> HIDE DEF f
    <2> QED  BY <2>1
  <1>2. ASSUME NEW q \in T PROVE q + 1 \in T
    <2>1. PICK f : Turns(f, q, ops, sorted)
      OBVIOUS
    <2> DEFINE g == [k \in 0 .. q + 1 |-> IF k = q + 1 THEN Turn(ops, sorted, f[q]) ELSE f[k]]
    <2>2. ASSUME NEW k \in 0 .. q + 1
          PROVE  g[k] = IF k = 0 THEN [i |-> 1, j |-> 1, only |-> <<>>] ELSE Turn(ops, sorted, g[k - 1])
      <3>1. CASE k = 0
        BY <2>1, <3>1 DEF Turns
      <3>2. CASE k \in 1 .. q
        <4>1. k \in 0 .. q /\ k # 0 /\ k # q + 1 /\ k - 1 \in 0 .. q + 1 /\ k - 1 # q + 1
          BY <3>2
        <4>2. f[k] = Turn(ops, sorted, f[k - 1])
          BY <2>1, <4>1 DEF Turns
        <4> QED  BY <4>1, <4>2
      <3>3. CASE k = q + 1
        <4>1. (q + 1) - 1 = q /\ q # q + 1 /\ q \in 0 .. q + 1 /\ q + 1 # 0
          OBVIOUS
        <4> QED  BY <3>3, <4>1
      <3> QED  BY <3>1, <3>2, <3>3
    <2>3. g = [k \in 0 .. q + 1 |-> g[k]]
      OBVIOUS
    <2> HIDE DEF g
    <2>4. g = [k \in 0 .. q + 1 |-> IF k = 0 THEN [i |-> 1, j |-> 1, only |-> <<>>] ELSE Turn(ops, sorted, g[k - 1])]
      BY <2>2, <2>3
    <2> QED  BY <2>4 DEF Turns
  <1> HIDE DEF T
  <1>3. T = Nat
    BY <1>1, <1>2, Induction DEF T
  <1> QED  BY <1>3 DEF T

----------------------------------------------------------------------------
(* What the loops do to the names.                                         *)

LEMMA ConstructingCalled ==
    ASSUME NEW st, P!WellFormed(st), NEW m \in Modules, NEW k, NEW new, NEW nodes,
           new[k] \in Objects \ st.live, nodes[k].name \in GivenNames \cup {EmptyName}
    PROVE  Called(Constructing(st, k, m, nodes, new), st.live \cup {new[k]},
                  [st.table EXCEPT ![new[k]] = m])
  <1> DEFINE o == new[k]
             c == Names!Construct(st, o)
             s == Names!SetSymbolTable(c, o, m)
  <1>1. st.table \in [Objects -> Modules \cup {NoModule}] /\ o \in Objects
    BY NamingType
  <1>2. /\ P!WellFormed(c) /\ c.live = st.live \cup {o}
        /\ c.table = [st.table EXCEPT ![o] = NoModule]
    BY ConstructedCalled DEF Called
  <1>3. o \in c.live
    BY <1>2
  <1> HIDE DEF c
  <1>4. P!WellFormed(s) /\ s.live = c.live /\ s.table = [c.table EXCEPT ![o] = m]
    BY <1>2, <1>3, MovedCalled DEF Called
  <1>5. s.table = [st.table EXCEPT ![o] = m]
    BY <1>1, <1>2, <1>4
  <1>6. o \in s.live /\ Constructing(st, k, m, nodes, new) = Names!SetName(s, o, nodes[k].name)
    BY <1>3, <1>4 DEF Constructing, c
  <1> HIDE DEF s, o
  <1>7. Called(Names!SetName(s, o, nodes[k].name), s.live, s.table)
    BY <1>4, <1>6, NamedCalled
  <1> QED  BY <1>2, <1>4, <1>5, <1>6, <1>7 DEF o

\* Out of its table and destroyed.
LEMMA ErasedCalled ==
    ASSUME NEW st, P!WellFormed(st), NEW o \in st.live
    PROVE  Called(Names!Destroy(Names!SetSymbolTable(st, o, NoModule), o), st.live \ {o},
                  [st.table EXCEPT ![o] = NoModule])
  <1> DEFINE s == Names!SetSymbolTable(st, o, NoModule)
  <1>1. st.table \in [Objects -> Modules \cup {NoModule}] /\ o \in Objects
    BY NamingType
  <1>2. /\ P!WellFormed(s) /\ s.live = st.live
        /\ s.table = [st.table EXCEPT ![o] = NoModule]
    BY MovedCalled DEF Called
  <1>3. s.table[o] = NoModule
    BY <1>1, <1>2
  <1> HIDE DEF s
  <1>4. Called(Names!Destroy(s, o), s.live \ {o}, s.table)
    BY <1>1, <1>2, <1>3, DestroyedCalled
  <1> QED  BY <1>2, <1>4 DEF s

LEMMA ClearingCalled ==
    ASSUME NEW st, P!WellFormed(st), NEW k, NEW list, list[k] \in st.live
    PROVE  Called(Clearing(st, k, list), st.live \ {list[k]},
                  [st.table EXCEPT ![list[k]] = NoModule])
  BY ErasedCalled DEF Clearing

\* The first q elements of a sequence.
FirstOf(s, q) == {s[k] : k \in 1 .. q}

LEMMA FirstGrows ==
    ASSUME NEW s, NEW q \in Nat
    PROVE  FirstOf(s, q + 1) = FirstOf(s, q) \cup {s[q + 1]} /\ FirstOf(s, 0) = {}
  BY DEF FirstOf

\* The tables when the objects of S are in m.
Moved(table, S, m) == [o \in Objects |-> IF o \in S THEN m ELSE table[o]]

LEMMA MovedMore ==
    ASSUME NEW m, NEW S, NEW o \in Objects, NEW t
    PROVE  [Moved(t, S, m) EXCEPT ![o] = m] = Moved(t, S \cup {o}, m)
  BY DEF Moved

LEMMA NamesAfterCalled ==
    ASSUME P!WellFormed(naming), NEW m \in Modules, NEW n \in Nat, NEW new \in Fresh(n),
           NEW nodes, \A k \in 1 .. n : nodes[k].name \in GivenNames \cup {EmptyName}
    PROVE  Called(NamesAfter(m, nodes, new), naming.live \cup FirstOf(new, n),
                  Moved(naming.table, FirstOf(new, n), m))
  <1> DEFINE after == CHOOSE f : Constructions(f, n, m, nodes, new)
  <1>1. /\ new \in [1 .. n -> Objects \ naming.live] /\ Len(new) = n
        /\ \A i, j \in 1 .. n : new[i] = new[j] => i = j
        /\ naming.table \in [Objects -> Modules \cup {NoModule}]
    BY NamingType DEF Fresh
  <1>2. NamesAfter(m, nodes, new) = after[n]
    <2>1. NamesAfter(m, nodes, new)
            = (CHOOSE f : Constructions(f, Len(new), m, nodes, new))[Len(new)]
      BY Zenon DEF NamesAfter, Constructions, Constructing
    <2> QED  BY <1>1, <2>1
  <1>3. Constructions(after, n, m, nodes, new)
    BY ConstructionsExist, Zenon
  <1> HIDE DEF after
  <1> DEFINE Done(q) == Called(after[q], naming.live \cup FirstOf(new, q),
                               Moved(naming.table, FirstOf(new, q), m))
             T == {q \in Nat : q <= n => Done(q)}
  <1>4. 0 \in T
    <2>1. after[0] = naming
      BY <1>3 DEF Constructions
    <2>2. FirstOf(new, 0) = {} /\ Moved(naming.table, {}, m) = naming.table
      BY <1>1 DEF FirstOf, Moved
    <2> QED  BY <2>1, <2>2 DEF Called
  <1>5. ASSUME NEW q \in T PROVE q + 1 \in T
    <2> SUFFICES ASSUME q + 1 <= n PROVE Done(q + 1)
      OBVIOUS
    <2>1. q \in Nat /\ q + 1 \in 1 .. n /\ Done(q)
      OBVIOUS
    <2>2. after[q + 1] = Constructing(after[q], q + 1, m, nodes, new)
      <3>1. q + 1 \in 0 .. n /\ q + 1 # 0 /\ (q + 1) - 1 = q
        BY <2>1
      <3> QED  BY <1>3, <3>1 DEF Constructions
    <2> HIDE DEF T
    <2>3. new[q + 1] \in Objects \ (naming.live \cup FirstOf(new, q))
      <3>1. \A k \in 1 .. q : k \in 1 .. n /\ k # q + 1
        BY <2>1
      <3> QED  BY <1>1, <2>1, <3>1 DEF FirstOf
    <2>4. Called(after[q + 1], after[q].live \cup {new[q + 1]},
                 [after[q].table EXCEPT ![new[q + 1]] = m])
      BY <2>1, <2>2, <2>3, ConstructingCalled DEF Called
    <2>5. /\ after[q].live \cup {new[q + 1]} = naming.live \cup FirstOf(new, q + 1)
          /\ [after[q].table EXCEPT ![new[q + 1]] = m]
                = Moved(naming.table, FirstOf(new, q + 1), m)
      BY <2>1, <2>3, FirstGrows, MovedMore DEF Called
    <2> QED  BY <2>4, <2>5
  <1> HIDE DEF Done
  <1>6. T = Nat
    <2> HIDE DEF T
    <2>1. T \in SUBSET Nat
      BY DEF T
    <2> QED  BY <1>4, <1>5, <2>1, Induction
  <1>7. Done(n)
    BY <1>6
  <1> QED  BY <1>2, <1>7 DEF Done

LEMMA ClearedCalled ==
    ASSUME P!WellFormed(naming), NEW n \in Nat, NEW list \in [1 .. n -> naming.live],
           \A i, j \in 1 .. n : list[i] = list[j] => i = j,
           NEW after, Clearings(after, n, list)
    PROVE  Called(after[n], naming.live \ FirstOf(list, n),
                  Moved(naming.table, FirstOf(list, n), NoModule))
  <1>1. naming.live \in SUBSET Objects /\ naming.table \in [Objects -> Modules \cup {NoModule}]
    BY NamingType
  <1> DEFINE Done(q) == Called(after[q], naming.live \ FirstOf(list, q),
                               Moved(naming.table, FirstOf(list, q), NoModule))
             T == {q \in Nat : q <= n => Done(q)}
  <1>4. 0 \in T
    <2>1. after[0] = naming
      BY DEF Clearings
    <2>2. FirstOf(list, 0) = {} /\ Moved(naming.table, {}, NoModule) = naming.table
      BY <1>1 DEF FirstOf, Moved
    <2> QED  BY <2>1, <2>2 DEF Called
  <1>5. ASSUME NEW q \in T PROVE q + 1 \in T
    <2> SUFFICES ASSUME q + 1 <= n PROVE Done(q + 1)
      OBVIOUS
    <2>1. q \in Nat /\ q + 1 \in 1 .. n /\ Done(q)
      OBVIOUS
    <2>2. after[q + 1] = Clearing(after[q], q + 1, list)
      <3>1. q + 1 \in 0 .. n /\ q + 1 # 0 /\ (q + 1) - 1 = q
        BY <2>1
      <3> QED  BY <3>1 DEF Clearings
    <2> HIDE DEF T
    <2>3. list[q + 1] \in naming.live \ FirstOf(list, q)
      <3>1. \A k \in 1 .. q : k \in 1 .. n /\ k # q + 1
        BY <2>1
      <3> QED  BY <2>1, <3>1 DEF FirstOf
    <2>4. Called(after[q + 1], after[q].live \ {list[q + 1]},
                 [after[q].table EXCEPT ![list[q + 1]] = NoModule])
      BY <2>1, <2>2, <2>3, ClearingCalled DEF Called
    <2>5. /\ after[q].live \ {list[q + 1]} = naming.live \ FirstOf(list, q + 1)
          /\ [after[q].table EXCEPT ![list[q + 1]] = NoModule]
                = Moved(naming.table, FirstOf(list, q + 1), NoModule)
      <3> DEFINE S == FirstOf(list, q)
      <3>1. FirstOf(list, q + 1) = S \cup {list[q + 1]} /\ list[q + 1] \in Objects
        BY <1>1, <2>1, <2>3, FirstGrows
      <3>2. after[q].live = naming.live \ S /\ after[q].table = Moved(naming.table, S, NoModule)
        BY <2>1 DEF Called
      <3> HIDE DEF S
      <3>3. [Moved(naming.table, S, NoModule) EXCEPT ![list[q + 1]] = NoModule]
               = Moved(naming.table, S \cup {list[q + 1]}, NoModule)
        BY <3>1, MovedMore
      <3> QED  BY <3>1, <3>2, <3>3
    <2> QED  BY <2>4, <2>5
  <1> HIDE DEF Done
  <1>6. T = Nat
    <2> HIDE DEF T
    <2>1. T \in SUBSET Nat
      BY DEF T
    <2> QED  BY <1>4, <1>5, <2>1, Induction
  <1>7. Done(n)
    BY <1>6
  <1> QED  BY <1>7 DEF Done

----------------------------------------------------------------------------
(* What lists and tables say of each other.                                *)

\* The lists cs and the state st of the names agree.
Agree(st, cs) ==
    /\ P!WellFormed(st)
    /\ cs \in [Modules -> Seq(Objects)]
    /\ \A m \in Modules :
          /\ \A i, j \in 1 .. Len(cs[m]) : cs[m][i] = cs[m][j] => i = j
          /\ FirstOf(cs[m], Len(cs[m])) = {o \in st.live : st.table[o] = m}

LEMMA AgreeUnlisted ==
    ASSUME NEW st, NEW cs, Agree(st, cs), NEW r, NEW live, NEW table, Called(r, live, table),
           \A o \in Objects, m \in Modules :
              (o \in live /\ table[o] = m) <=> (o \in st.live /\ st.table[o] = m)
    PROVE  Agree(r, cs)
  <1>1. P!WellFormed(r) /\ r.live = live /\ r.table = table /\ live \subseteq Objects
        /\ st.live \subseteq Objects
    BY NamingType DEF Called, Agree
  <1>2. \A m \in Modules : {o \in r.live : r.table[o] = m} = {o \in st.live : st.table[o] = m}
    BY <1>1
  <1> QED  BY <1>1, <1>2 DEF Agree

LEMMA AgreeJoining ==
    ASSUME NEW st, NEW cs, Agree(st, cs), NEW m \in Modules, NEW o \in st.live,
           st.table[o] = NoModule, NEW r, Called(r, st.live, [st.table EXCEPT ![o] = m])
    PROVE  Agree(r, [cs EXCEPT ![m] = Append(@, o)])
  <1> DEFINE ds == [cs EXCEPT ![m] = Append(@, o)]
  <1>1. /\ P!WellFormed(r) /\ r.live = st.live /\ r.table = [st.table EXCEPT ![o] = m]
        /\ st.table \in [Objects -> Modules \cup {NoModule}] /\ st.live \subseteq Objects
        /\ cs \in [Modules -> Seq(Objects)] /\ o \in Objects
    BY NamingType DEF Called, Agree
  <1>2. ds \in [Modules -> Seq(Objects)]
    BY <1>1
  <1>3. ASSUME NEW n \in Modules
        PROVE  /\ \A i, j \in 1 .. Len(ds[n]) : ds[n][i] = ds[n][j] => i = j
               /\ FirstOf(ds[n], Len(ds[n])) = {p \in r.live : r.table[p] = n}
    <2>1. /\ \A i, j \in 1 .. Len(cs[n]) : cs[n][i] = cs[n][j] => i = j
          /\ FirstOf(cs[n], Len(cs[n])) = {p \in st.live : st.table[p] = n}
      BY DEF Agree
    <2>2. CASE n # m
      <3>1. ds[n] = cs[n] /\ r.table[o] # n /\ st.table[o] # n
        BY <1>1, <2>2, ModuleAssumption
      <3>2. \A p \in st.live : r.table[p] = n <=> st.table[p] = n
        BY <1>1, <3>1
      <3> QED  BY <1>1, <2>1, <3>1, <3>2
    <2>3. CASE n = m
      <3> DEFINE l == cs[m]
      <3>1. /\ ds[m] = Append(l, o) /\ l \in Seq(Objects) /\ Len(ds[m]) = Len(l) + 1
            /\ Len(l) \in Nat
        BY <1>1
      <3>2. /\ ds[m][Len(l) + 1] = o /\ \A i \in 1 .. Len(l) : ds[m][i] = l[i] /\ l[i] \in Objects
        BY <1>1, <3>1
      <3> HIDE DEF ds, l
      <3>3. FirstOf(ds[m], Len(ds[m])) = FirstOf(l, Len(l)) \cup {o}
        <4>1. \A i \in 1 .. Len(l) + 1 : i \in 1 .. Len(l) \/ i = Len(l) + 1
          BY <3>1
        <4>2. \A i \in 1 .. Len(l) : i \in 1 .. Len(l) + 1
          BY <3>1
        <4>3. Len(l) + 1 \in 1 .. Len(l) + 1
          BY <3>1
        <4> QED  BY <3>1, <3>2, <4>1, <4>2, <4>3 DEF FirstOf
      <3>4. o \notin FirstOf(l, Len(l))
        BY <2>1, <2>3, ModuleAssumption DEF l
      <3>5. {p \in r.live : r.table[p] = m} = {p \in st.live : st.table[p] = m} \cup {o}
        BY <1>1
      <3>6. \A i, j \in 1 .. Len(ds[m]) : ds[m][i] = ds[m][j] => i = j
        <4>1. \A i \in 1 .. Len(l) : l[i] # o
          BY <3>4 DEF FirstOf
        <4>2. \A i, j \in 1 .. Len(l) : l[i] = l[j] => i = j
          BY <2>1, <2>3 DEF l
        <4> QED  BY <3>1, <3>2, <4>1, <4>2
      <3> QED  BY <2>1, <2>3, <3>3, <3>5, <3>6 DEF l
    <2> QED  BY <2>2, <2>3
  <1> HIDE DEF ds
  <1>4. Agree(r, ds)
    BY <1>1, <1>2, <1>3 DEF Agree
  <1> QED  BY <1>4 DEF ds

LEMMA Leaving ==
    ASSUME NEW n \in Nat, NEW list \in [1 .. n -> Objects], NEW o \in FirstOf(list, n),
           \A i, j \in 1 .. n : list[i] = list[j] => i = j
    PROVE  /\ Without(list, o) \in [1 .. n - 1 -> Objects] /\ n - 1 \in Nat
           /\ \E p \in 1 .. n : list[p] = o
                 /\ \A i \in 1 .. n - 1 : Without(list, o)[i] = list[IF i < p THEN i ELSE i + 1]
           /\ \A i, j \in 1 .. n - 1 : Without(list, o)[i] = Without(list, o)[j] => i = j
           /\ FirstOf(Without(list, o), n - 1) = FirstOf(list, n) \ {o}
  <1> DEFINE p == CHOOSE i \in 1 .. Len(list) : list[i] = o
             w == Without(list, o)
  <1>1. Len(list) = n
    OBVIOUS
  <1>2. \E i \in 1 .. n : list[i] = o
    BY DEF FirstOf
  <1>3. p \in 1 .. n /\ list[p] = o
    BY <1>1, <1>2, Zenon
  <1>4. w = [i \in 1 .. n - 1 |-> IF i < p THEN list[i] ELSE list[i + 1]]
    BY <1>1, Zenon DEF Without
  <1> HIDE DEF p, w
  <1>5. n \in Nat /\ n >= 1 /\ n - 1 \in Nat
    BY <1>3
  <1>6. /\ \A i \in 1 .. n - 1 : i < p => w[i] = list[i] /\ i \in 1 .. n
        /\ \A i \in 1 .. n - 1 : ~(i < p) => w[i] = list[i + 1] /\ i + 1 \in 1 .. n
    BY <1>3, <1>4, <1>5
  <1>7. \A i, j \in 1 .. n - 1 : w[i] = w[j] => i = j
    <2> SUFFICES ASSUME NEW i \in 1 .. n - 1, NEW j \in 1 .. n - 1, w[i] = w[j] PROVE i = j
      OBVIOUS
    <2> QED  BY <1>3, <1>5, <1>6
  <1>8. FirstOf(w, n - 1) = FirstOf(list, n) \ {o}
    <2>1. ASSUME NEW i \in 1 .. n - 1 PROVE w[i] \in FirstOf(list, n) \ {o}
      <3>1. CASE i < p
        BY <1>3, <1>6, <3>1 DEF FirstOf
      <3>2. CASE ~(i < p)
        BY <1>3, <1>6, <3>2 DEF FirstOf
      <3> QED  BY <3>1, <3>2
    <2>2. ASSUME NEW k \in 1 .. n, list[k] # o PROVE \E i \in 1 .. n - 1 : w[i] = list[k]
      <3>1. CASE k < p
        BY <1>3, <1>5, <1>6, <3>1
      <3>2. CASE k > p
        <4>1. k - 1 \in 1 .. n - 1 /\ ~(k - 1 < p) /\ (k - 1) + 1 = k
          BY <1>3, <1>5, <3>2
        <4> QED  BY <1>6, <4>1
      <3> QED  BY <1>3, <2>2, <3>1, <3>2
    <2> QED  BY <2>1, <2>2 DEF FirstOf
  <1>9. w \in [1 .. n - 1 -> Objects]
    <2>1. \A i \in 1 .. n - 1 : w[i] \in Objects
      BY <1>6
    <2> QED  BY <1>4, <2>1
  <1>10. \A i \in 1 .. n - 1 : w[i] = list[IF i < p THEN i ELSE i + 1]
    BY <1>6
  <1> QED  BY <1>3, <1>5, <1>7, <1>8, <1>9, <1>10 DEF w

LEMMA AgreeLeaving ==
    ASSUME NEW st, NEW cs, Agree(st, cs), NEW m \in Modules,
           NEW o \in FirstOf(cs[m], Len(cs[m])),
           NEW live, live = st.live \/ live = st.live \ {o},
           NEW r, Called(r, live, [st.table EXCEPT ![o] = NoModule])
    PROVE  Agree(r, [cs EXCEPT ![m] = Without(@, o)])
  <1> DEFINE l  == cs[m]
             w  == Without(l, o)
             ds == [cs EXCEPT ![m] = w]
  <1>1. /\ P!WellFormed(r) /\ r.live = live /\ r.table = [st.table EXCEPT ![o] = NoModule]
        /\ st.table \in [Objects -> Modules \cup {NoModule}] /\ st.live \subseteq Objects
        /\ cs \in [Modules -> Seq(Objects)]
    BY NamingType DEF Called, Agree
  <1>2. /\ l \in Seq(Objects) /\ Len(l) \in Nat /\ l \in [1 .. Len(l) -> Objects]
        /\ \A i, j \in 1 .. Len(l) : l[i] = l[j] => i = j
        /\ FirstOf(l, Len(l)) = {p \in st.live : st.table[p] = m}
    BY <1>1 DEF Agree
  <1>3. /\ w \in [1 .. Len(l) - 1 -> Objects] /\ Len(l) - 1 \in Nat
        /\ \A i, j \in 1 .. Len(l) - 1 : w[i] = w[j] => i = j
        /\ FirstOf(w, Len(l) - 1) = FirstOf(l, Len(l)) \ {o}
    <2> HIDE DEF l
    <2>1. o \in FirstOf(l, Len(l))
      BY DEF l
    <2> QED  BY <1>2, <2>1, Leaving
  <1>4. o \in st.live /\ st.table[o] = m /\ o \in Objects /\ m # NoModule
    BY <1>1, <1>2, ModuleAssumption
  <1> HIDE DEF w, l
  <1>5. w \in Seq(Objects) /\ Len(w) = Len(l) - 1
    BY <1>3
  <1>6. ds \in [Modules -> Seq(Objects)] /\ ds[m] = w
    BY <1>1, <1>5
  <1>7. ASSUME NEW n \in Modules
        PROVE  /\ \A i, j \in 1 .. Len(ds[n]) : ds[n][i] = ds[n][j] => i = j
               /\ FirstOf(ds[n], Len(ds[n])) = {p \in r.live : r.table[p] = n}
    <2>2. CASE n # m
      <3>1. /\ \A i, j \in 1 .. Len(cs[n]) : cs[n][i] = cs[n][j] => i = j
            /\ FirstOf(cs[n], Len(cs[n])) = {p \in st.live : st.table[p] = n}
        BY DEF Agree
      <3>2. ds[n] = cs[n] /\ r.table[o] # n /\ st.table[o] # n
        BY <1>1, <1>4, <2>2, ModuleAssumption
      <3>3. \A p \in st.live \ {o} : r.table[p] = n <=> st.table[p] = n
        BY <1>1
      <3>4. {p \in r.live : r.table[p] = n} = {p \in st.live : st.table[p] = n}
        BY <1>1, <3>2, <3>3
      <3> QED  BY <3>1, <3>2, <3>4
    <2>3. CASE n = m
      <3>1. {p \in r.live : r.table[p] = m} = {p \in st.live : st.table[p] = m} \ {o}
        BY <1>1, <1>4
      <3> QED  BY <1>2, <1>3, <1>5, <1>6, <2>3, <3>1
    <2> QED  BY <2>2, <2>3
  <1>8. ds = [cs EXCEPT ![m] = Without(@, o)]
    BY <1>1 DEF w, l
  <1> HIDE DEF ds
  <1>9. Agree(r, ds)
    BY <1>1, <1>6, <1>7 DEF Agree
  <1> QED  BY <1>8, <1>9

LEMMA AgreeSynced ==
    ASSUME NEW st, NEW cs, Agree(st, cs), NEW m \in Modules, NEW n \in Nat,
           NEW new \in [1 .. n -> Objects \ st.live],
           \A i, j \in 1 .. n : new[i] = new[j] => i = j,
           NEW r, Called(r, st.live \cup FirstOf(new, n), Moved(st.table, FirstOf(new, n), m))
    PROVE  Agree(r, [cs EXCEPT ![m] = @ \o new])
  <1> DEFINE l  == cs[m]
             c  == l \o new
             ds == [cs EXCEPT ![m] = c]
  <1>1. /\ P!WellFormed(r) /\ r.live = st.live \cup FirstOf(new, n)
        /\ r.table = Moved(st.table, FirstOf(new, n), m)
        /\ st.table \in [Objects -> Modules \cup {NoModule}] /\ st.live \subseteq Objects
        /\ cs \in [Modules -> Seq(Objects)]
    BY NamingType DEF Called, Agree
  <1>2. /\ l \in Seq(Objects) /\ Len(l) \in Nat
        /\ \A i, j \in 1 .. Len(l) : l[i] = l[j] => i = j
        /\ FirstOf(l, Len(l)) = {p \in st.live : st.table[p] = m}
    BY <1>1 DEF Agree
  <1>3. new \in Seq(Objects) /\ Len(new) = n
    OBVIOUS
  <1> HIDE DEF l
  <1>4. /\ c \in Seq(Objects) /\ Len(c) = Len(l) + n
        /\ \A i \in 1 .. Len(l) : c[i] = l[i]
        /\ \A i \in 1 .. n : c[Len(l) + i] = new[i] /\ Len(l) + i \in 1 .. Len(l) + n
    BY <1>2, <1>3
  <1> HIDE DEF c
  <1>5. ASSUME NEW i \in 1 .. Len(l) + n
        PROVE  \/ i \in 1 .. Len(l) /\ c[i] = l[i]
               \/ \E k \in 1 .. n : i = Len(l) + k /\ c[i] = new[k]
    <2>1. CASE i \in 1 .. Len(l)
      BY <1>4, <2>1
    <2>2. CASE i \notin 1 .. Len(l)
      <3>1. i - Len(l) \in 1 .. n /\ i = Len(l) + (i - Len(l))
        BY <1>2, <2>2
      <3>2. c[Len(l) + (i - Len(l))] = new[i - Len(l)]
        BY <1>4, <3>1
      <3> QED  BY <3>1, <3>2
    <2> QED  BY <2>1, <2>2
  <1>6. \A i \in 1 .. Len(l), k \in 1 .. n : l[i] # new[k]
    BY <1>2 DEF FirstOf
  <1>7. \A i, j \in 1 .. Len(c) : c[i] = c[j] => i = j
    <2> SUFFICES ASSUME NEW i \in 1 .. Len(l) + n, NEW j \in 1 .. Len(l) + n, c[i] = c[j]
                 PROVE  i = j
      BY <1>4
    <2>1. CASE i \in 1 .. Len(l) /\ c[i] = l[i]
      <3>1. \A k \in 1 .. n : c[j] # new[k]
        BY <1>6, <2>1
      <3> QED  BY <1>2, <1>5, <2>1, <3>1
    <2>2. CASE \E k \in 1 .. n : i = Len(l) + k /\ c[i] = new[k]
      <3>1. PICK k \in 1 .. n : i = Len(l) + k /\ c[i] = new[k]
        BY <2>2
      <3>2. \A q \in 1 .. Len(l) : c[j] # l[q]
        BY <1>6, <3>1
      <3>3. PICK q \in 1 .. n : j = Len(l) + q /\ c[j] = new[q]
        BY <1>5, <3>2
      <3>4. k = q
        BY <3>1, <3>3
      <3> QED  BY <3>1, <3>3, <3>4
    <2> QED  BY <1>5, <2>1, <2>2
  <1>8. FirstOf(c, Len(c)) = FirstOf(l, Len(l)) \cup FirstOf(new, n)
    <2>1. \A i \in 1 .. Len(l) : i \in 1 .. Len(l) + n
      BY <1>2
    <2>2. ASSUME NEW i \in 1 .. Len(l) + n PROVE c[i] \in FirstOf(l, Len(l)) \cup FirstOf(new, n)
      BY <1>5 DEF FirstOf
    <2>3. \A i \in 1 .. Len(l) : l[i] \in FirstOf(c, Len(c))
      BY <1>4, <2>1 DEF FirstOf
    <2>4. \A k \in 1 .. n : new[k] \in FirstOf(c, Len(c))
      BY <1>4 DEF FirstOf
    <2>5. \A x \in FirstOf(c, Len(c)) : x \in FirstOf(l, Len(l)) \cup FirstOf(new, n)
      BY <1>4, <2>2 DEF FirstOf
    <2>6. \A x \in FirstOf(l, Len(l)) : x \in FirstOf(c, Len(c))
      BY <2>3 DEF FirstOf
    <2>7. \A x \in FirstOf(new, n) : x \in FirstOf(c, Len(c))
      BY <2>4 DEF FirstOf
    <2> QED  BY <2>5, <2>6, <2>7
  <1>9. FirstOf(new, n) \subseteq Objects \ st.live
    BY DEF FirstOf
  <1>10. ASSUME NEW k \in Modules
         PROVE  /\ \A i, j \in 1 .. Len(ds[k]) : ds[k][i] = ds[k][j] => i = j
                /\ FirstOf(ds[k], Len(ds[k])) = {p \in r.live : r.table[p] = k}
    <2>1. CASE k # m
      <3>1. /\ \A i, j \in 1 .. Len(cs[k]) : cs[k][i] = cs[k][j] => i = j
            /\ FirstOf(cs[k], Len(cs[k])) = {p \in st.live : st.table[p] = k}
            /\ ds[k] = cs[k]
        BY <1>1, <2>1 DEF Agree
      <3>2. {p \in r.live : r.table[p] = k} = {p \in st.live : st.table[p] = k}
        BY <1>1, <1>9, <2>1 DEF Moved
      <3> QED  BY <3>1, <3>2
    <2>2. CASE k = m
      <3>1. {p \in r.live : r.table[p] = m} = {p \in st.live : st.table[p] = m} \cup FirstOf(new, n)
        BY <1>1, <1>9 DEF Moved
      <3>2. ds[m] = c
        BY <1>1
      <3> QED  BY <1>2, <1>7, <1>8, <2>2, <3>1, <3>2
    <2> QED  BY <2>1, <2>2
  <1>11. ds \in [Modules -> Seq(Objects)] /\ ds = [cs EXCEPT ![m] = @ \o new]
    BY <1>1, <1>4 DEF c, l
  <1> HIDE DEF ds
  <1>12. Agree(r, ds)
    BY <1>1, <1>10, <1>11 DEF Agree
  <1> QED  BY <1>11, <1>12

LEMMA AgreeCleared ==
    ASSUME NEW st, NEW cs, Agree(st, cs), NEW m \in Modules, NEW S, S = FirstOf(cs[m], Len(cs[m])),
           NEW r, Called(r, st.live \ S, Moved(st.table, S, NoModule))
    PROVE  Agree(r, [cs EXCEPT ![m] = <<>>])
  <1> DEFINE ds == [cs EXCEPT ![m] = <<>>]
  <1>1. /\ P!WellFormed(r) /\ r.live = st.live \ S /\ r.table = Moved(st.table, S, NoModule)
        /\ st.table \in [Objects -> Modules \cup {NoModule}] /\ st.live \subseteq Objects
        /\ cs \in [Modules -> Seq(Objects)] /\ S = {p \in st.live : st.table[p] = m}
    BY NamingType DEF Called, Agree
  <1>2. ASSUME NEW k \in Modules
        PROVE  /\ \A i, j \in 1 .. Len(ds[k]) : ds[k][i] = ds[k][j] => i = j
               /\ FirstOf(ds[k], Len(ds[k])) = {p \in r.live : r.table[p] = k}
    <2>1. CASE k # m
      <3>1. /\ \A i, j \in 1 .. Len(cs[k]) : cs[k][i] = cs[k][j] => i = j
            /\ FirstOf(cs[k], Len(cs[k])) = {p \in st.live : st.table[p] = k}
            /\ ds[k] = cs[k]
        BY <1>1, <2>1 DEF Agree
      <3>2. {p \in r.live : r.table[p] = k} = {p \in st.live : st.table[p] = k}
        BY <1>1, <2>1 DEF Moved
      <3> QED  BY <3>1, <3>2
    <2>2. CASE k = m
      <3>1. {p \in r.live : r.table[p] = m} = {}
        BY <1>1 DEF Moved
      <3>2. ds[m] = <<>> /\ Len(<<>>) = 0
        BY <1>1
      <3>3. FirstOf(<<>>, 0) = {}
        BY DEF FirstOf
      <3> QED  BY <2>2, <3>1, <3>2, <3>3
    <2> QED  BY <2>1, <2>2
  <1>3. ds \in [Modules -> Seq(Objects)]
    BY <1>1
  <1> HIDE DEF ds
  <1>4. Agree(r, ds)
    BY <1>1, <1>2, <1>3 DEF Agree
  <1> QED  BY <1>4 DEF ds

----------------------------------------------------------------------------
(* How often a node is in a list.                                          *)

Places(s, n, x) == {p \in 1 .. n : s[p] = x}

Among(s, n, x) == Cardinality(Places(s, n, x))

LEMMA PlacesFinite ==
    ASSUME NEW s, NEW n \in Nat, NEW x
    PROVE  IsFiniteSet(Places(s, n, x)) /\ Among(s, n, x) \in Nat
  <1>1. IsFiniteSet(1 .. n)
    BY FS_Interval
  <1>2. Places(s, n, x) \in SUBSET (1 .. n)
    BY DEF Places
  <1>3. IsFiniteSet(Places(s, n, x))
    BY <1>1, <1>2, FS_Subset
  <1> QED  BY <1>3, FS_CardinalityType DEF Among

LEMMA AmongNone ==
    ASSUME NEW s, NEW x
    PROVE  Among(s, 0, x) = 0
  <1>1. Places(s, 0, x) = {}
    BY DEF Places
  <1> QED  BY <1>1, FS_EmptySet DEF Among

LEMMA AmongNext ==
    ASSUME NEW s, NEW n \in Nat, NEW x
    PROVE  Among(s, n + 1, x) = Among(s, n, x) + (IF s[n + 1] = x THEN 1 ELSE 0)
  <1>1. n + 1 \notin Places(s, n, x)
    BY DEF Places
  <1>2. Places(s, n + 1, x) = IF s[n + 1] = x THEN Places(s, n, x) \cup {n + 1} ELSE Places(s, n, x)
    <2>1. \A p \in 1 .. n + 1 : p \in 1 .. n \/ p = n + 1
      OBVIOUS
    <2>2. n + 1 \in 1 .. n + 1 /\ \A p \in 1 .. n : p \in 1 .. n + 1
      OBVIOUS
    <2> QED  BY <2>1, <2>2 DEF Places
  <1>3. Cardinality(Places(s, n, x) \cup {n + 1}) = Cardinality(Places(s, n, x)) + 1
    BY <1>1, PlacesFinite, FS_AddElement
  <1> QED  BY <1>2, <1>3, PlacesFinite DEF Among

LEMMA AmongSame ==
    ASSUME NEW s, NEW t, NEW n \in Nat, NEW x, \A p \in 1 .. n : s[p] = t[p]
    PROVE  Among(s, n, x) = Among(t, n, x)
  <1>1. Places(s, n, x) = Places(t, n, x)
    BY DEF Places
  <1> QED  BY <1>1, Zenon DEF Among

LEMMA AmongAppend ==
    ASSUME NEW S, NEW s \in Seq(S), NEW y \in S, NEW x
    PROVE  /\ Append(s, y) \in Seq(S) /\ Len(Append(s, y)) = Len(s) + 1 /\ Len(s) \in Nat
           /\ Among(Append(s, y), Len(s) + 1, x)
                 = Among(s, Len(s), x) + (IF y = x THEN 1 ELSE 0)
  <1> DEFINE t == Append(s, y)
             n == Len(s)
  <1>1. /\ t \in Seq(S) /\ Len(t) = n + 1 /\ n \in Nat /\ t[n + 1] = y
        /\ \A p \in 1 .. n : t[p] = s[p]
    OBVIOUS
  <1> HIDE DEF t, n
  <1>2. Among(t, n, x) = Among(s, n, x)
    BY <1>1, AmongSame
  <1>3. Among(t, n + 1, x) = Among(t, n, x) + (IF t[n + 1] = x THEN 1 ELSE 0)
    BY <1>1, AmongNext, Zenon
  <1> QED  BY <1>1, <1>2, <1>3 DEF t, n

LEMMA AmongMore ==
    ASSUME NEW s, NEW k \in Nat, NEW n \in Nat, k <= n, NEW x
    PROVE  /\ Among(s, k, x) <= Among(s, n, x)
           /\ (\A p \in k + 1 .. n : s[p] # x) => Among(s, k, x) = Among(s, n, x)
  <1>1. Places(s, k, x) \in SUBSET Places(s, n, x)
    BY DEF Places
  <1>2. (\A p \in k + 1 .. n : s[p] # x) => Places(s, k, x) = Places(s, n, x)
    BY DEF Places
  <1>3. Among(s, k, x) <= Among(s, n, x)
    BY <1>1, PlacesFinite, FS_Subset DEF Among
  <1> QED  BY <1>2, <1>3 DEF Among

LEMMA CountIsAmong ==
    ASSUME NEW n \in Nat, NEW s, DOMAIN s = 1 .. n, NEW x
    PROVE  Count(s, x) = Among(s, n, x)
  BY Zenon DEF Count, Among, Places

----------------------------------------------------------------------------
(* The merge of syncMetadata. A turn appends an operand that it does not   *)
(* find among the classes' nodes.                                          *)

\* An address stands for one node.
Identify(ops, sorted) ==
    \A i \in 1 .. Len(ops), j \in 1 .. Len(sorted) :
        ops[i].address = sorted[j].address => ops[i] = sorted[j]

\* What holds after every turn s.
Covered(ops, sorted, s) ==
    /\ s.i \in 1 .. Len(ops) + 1 /\ s.j \in 1 .. Len(sorted) + 1
    /\ s.only \in Seq(FirstOf(ops, Len(ops)))
    /\ \A x : Among(ops, s.i - 1, x)
                 <= Among(s.only, Len(s.only), x) + Among(sorted, s.j - 1, x)

LEMMA Appending ==
    ASSUME NEW Q, NEW s \in [i : Nat, j : Nat, only : Q], NEW y \in Q,
           NEW r, r = [s EXCEPT !.i = @ + 1, !.only = y]
    PROVE  /\ r \in [i : Nat, j : Nat, only : Q]
           /\ r.i = s.i + 1 /\ r.j = s.j /\ r.only = y
  <1> DEFINE t == [s EXCEPT !.i = @ + 1]
  <1>1. /\ t \in [i : Nat, j : Nat, only : Q]
        /\ t.i = s.i + 1 /\ t.j = s.j /\ t.only = s.only
    OBVIOUS
  <1>2. r = [t EXCEPT !.only = y]
    BY <1>1
  <1> HIDE DEF t
  <1> QED  BY <1>1, <1>2

LEMMA Skipping ==
    ASSUME NEW Q, NEW s \in [i : Nat, j : Nat, only : Q], NEW y \in Q,
           NEW r, r = [s EXCEPT !.j = @ + 1]
    PROVE  /\ r \in [i : Nat, j : Nat, only : Q]
           /\ r.i = s.i /\ r.j = s.j + 1 /\ r.only = s.only
  OBVIOUS

LEMMA Pairing ==
    ASSUME NEW Q, NEW s \in [i : Nat, j : Nat, only : Q], NEW y \in Q,
           NEW r, r = [s EXCEPT !.i = @ + 1, !.j = @ + 1]
    PROVE  /\ r \in [i : Nat, j : Nat, only : Q]
           /\ r.i = s.i + 1 /\ r.j = s.j + 1 /\ r.only = s.only
  <1> DEFINE t == [s EXCEPT !.i = @ + 1]
  <1>1. /\ t \in [i : Nat, j : Nat, only : Q]
        /\ t.i = s.i + 1 /\ t.j = s.j /\ t.only = s.only
    OBVIOUS
  <1>2. r = [t EXCEPT !.j = @ + 1]
    BY <1>1
  <1> HIDE DEF t
  <1> QED  BY <1>1, <1>2

TurnStates(ops) == [i : Nat, j : Nat, only : Seq(FirstOf(ops, Len(ops)))]

\* The three turns of the loop: it keeps an operand, it passes over a class's node,
\* or it goes on in both ranges.
Kept(ops, sorted, s, r) ==
    /\ s.j > Len(sorted) \/ ops[s.i].address < sorted[s.j].address
    /\ r.i = s.i + 1 /\ r.j = s.j /\ r.only = Append(s.only, ops[s.i])

Passed(ops, sorted, s, r) ==
    /\ s.j \in 1 .. Len(sorted) /\ sorted[s.j].address < ops[s.i].address
    /\ r.i = s.i /\ r.j = s.j + 1 /\ r.only = s.only

Paired(ops, sorted, s, r) ==
    /\ s.j \in 1 .. Len(sorted) /\ ops[s.i].address = sorted[s.j].address
    /\ r.i = s.i + 1 /\ r.j = s.j + 1 /\ r.only = s.only

LEMMA TurnCases ==
    ASSUME NEW ops \in Seq(Nodes), NEW sorted \in Seq(Nodes), NEW s \in TurnStates(ops),
           Covered(ops, sorted, s), s.i \in 1 .. Len(ops), NEW r, r = Turn(ops, sorted, s)
    PROVE  /\ r \in TurnStates(ops)
           /\ \/ Kept(ops, sorted, s, r)
              \/ Passed(ops, sorted, s, r)
              \/ Paired(ops, sorted, s, r)
  <1> DEFINE Q == Seq(FirstOf(ops, Len(ops)))
  <1>1. ops[s.i] \in FirstOf(ops, Len(ops))
    BY DEF FirstOf
  <1>6. s.i \in 1 .. Len(ops) + 1 /\ s.j \in 1 .. Len(sorted) + 1
    BY DEF Covered
  <1>7. \A n \in Nodes : n.address \in Nat
    BY AddressAssumption DEF Nodes
  <1>8. ops[s.i] \in Nodes /\ Len(ops) \in Nat /\ Len(sorted) \in Nat
    OBVIOUS
  <1>9. s.j \in 1 .. Len(sorted) => sorted[s.j] \in Nodes
    OBVIOUS
  <1>2. /\ ops[s.i].address \in Nat /\ Len(ops) \in Nat /\ Len(sorted) \in Nat
        /\ s.j \in Nat /\ s.i \in Nat /\ s.j >= 1 /\ ~(s.i > Len(ops))
    BY <1>6, <1>7, <1>8
  <1>10. s \in [i : Nat, j : Nat, only : Q] /\ Append(s.only, ops[s.i]) \in Q
    BY <1>1 DEF TurnStates
  <1> HIDE DEF Q
  <1>3. CASE s.j > Len(sorted) \/ ops[s.i].address < sorted[s.j].address
    <2>1. r = [s EXCEPT !.i = @ + 1, !.only = Append(@, ops[s.i])]
      BY <1>2, <1>3 DEF Turn
    <2>2. r.i = s.i + 1 /\ r.j = s.j /\ r.only = Append(s.only, ops[s.i])
      BY <1>10, <2>1, Appending
    <2>4. r \in [i : Nat, j : Nat, only : Q]
      BY <1>10, <2>1, Appending
    <2> QED  BY <1>3, <2>2, <2>4, Zenon DEF Q, Kept, TurnStates
  <1>4. CASE ~(s.j > Len(sorted)) /\ ~(ops[s.i].address < sorted[s.j].address)
    <2>1. s.j \in 1 .. Len(sorted) /\ sorted[s.j].address \in Nat /\ ops[s.i].address \in Nat
      BY <1>2, <1>4, <1>6, <1>7, <1>9
    <2>2. CASE sorted[s.j].address < ops[s.i].address
      <3>1. r = [s EXCEPT !.j = @ + 1]
        BY <1>2, <1>4, <2>2 DEF Turn
      <3>2. /\ r \in [i : Nat, j : Nat, only : Q]
            /\ r.i = s.i /\ r.j = s.j + 1 /\ r.only = s.only
        BY <1>10, <3>1, Skipping
      <3> QED  BY <2>1, <2>2, <3>2, Zenon DEF Q, Passed, TurnStates
    <2>3. CASE ~(sorted[s.j].address < ops[s.i].address)
      <3>1. r = [s EXCEPT !.i = @ + 1, !.j = @ + 1]
        BY <1>2, <1>4, <2>3 DEF Turn
      <3>2. ops[s.i].address = sorted[s.j].address
        BY <1>4, <2>1, <2>3
      <3>3. /\ r \in [i : Nat, j : Nat, only : Q]
            /\ r.i = s.i + 1 /\ r.j = s.j + 1 /\ r.only = s.only
        BY <1>10, <3>1, Pairing
      <3> QED  BY <2>1, <3>2, <3>3, Zenon DEF Q, Paired, TurnStates
    <2> QED  BY <2>2, <2>3
  <1> QED  BY <1>3, <1>4

\* The three counts of a node: operands read, operands kept, classes' nodes read.
CountsAfter(ops, sorted, s, r, x) ==
    /\ Kept(ops, sorted, s, r) =>
          Among(r.only, Len(r.only), x)
              = Among(s.only, Len(s.only), x) + (IF ops[s.i] = x THEN 1 ELSE 0)
    /\ Paired(ops, sorted, s, r) => ops[s.i] = sorted[s.j]
    /\ Among(ops, s.i, x) = Among(ops, s.i - 1, x) + (IF ops[s.i] = x THEN 1 ELSE 0)
    /\ Among(sorted, s.j, x) = Among(sorted, s.j - 1, x) + (IF sorted[s.j] = x THEN 1 ELSE 0)

LEMMA CountsAfterTurn ==
    ASSUME NEW ops \in Seq(Nodes), NEW sorted \in Seq(Nodes), Identify(ops, sorted),
           NEW s \in TurnStates(ops), Covered(ops, sorted, s), s.i \in 1 .. Len(ops),
           NEW r \in TurnStates(ops), NEW x
    PROVE  /\ s.i \in Nat \ {0} /\ s.j \in Nat \ {0}
           /\ Len(s.only) \in Nat /\ Len(r.only) \in Nat
           /\ CountsAfter(ops, sorted, s, r, x)
  <1> DEFINE S == FirstOf(ops, Len(ops))
  <1>2. /\ s.i \in Nat \ {0} /\ s.j \in Nat \ {0} /\ s.only \in Seq(S) /\ r.only \in Seq(S)
    <2>1. s.i \in 1 .. Len(ops) + 1 /\ s.j \in 1 .. Len(sorted) + 1 /\ s.only \in Seq(S)
      BY DEF Covered
    <2>2. r.only \in Seq(S)
      BY DEF TurnStates
    <2> QED  BY <2>1, <2>2
  <1>3. ops[s.i] \in S
    BY DEF FirstOf
  <1> HIDE DEF S
  <1>4. Len(s.only) \in Nat /\ Len(r.only) \in Nat
    BY <1>2
  <1>5. /\ Len(Append(s.only, ops[s.i])) = Len(s.only) + 1
        /\ Among(Append(s.only, ops[s.i]), Len(s.only) + 1, x)
              = Among(s.only, Len(s.only), x) + (IF ops[s.i] = x THEN 1 ELSE 0)
    BY <1>2, <1>3, AmongAppend
  <1>6. s.i - 1 \in Nat /\ (s.i - 1) + 1 = s.i /\ s.j - 1 \in Nat /\ (s.j - 1) + 1 = s.j
    BY <1>2
  <1>7. Among(ops, s.i, x) = Among(ops, s.i - 1, x) + (IF ops[s.i] = x THEN 1 ELSE 0)
    BY <1>6, AmongNext
  <1>8. Among(sorted, s.j, x) = Among(sorted, s.j - 1, x) + (IF sorted[s.j] = x THEN 1 ELSE 0)
    BY <1>6, AmongNext
  <1>9. Paired(ops, sorted, s, r) => ops[s.i] = sorted[s.j]
    BY DEF Identify, Paired
  <1>10. Kept(ops, sorted, s, r) => r.only = Append(s.only, ops[s.i])
    BY DEF Kept
  <1>11. CountsAfter(ops, sorted, s, r, x)
    BY <1>5, <1>7, <1>8, <1>9, <1>10 DEF CountsAfter
  <1> QED  BY <1>2, <1>4, <1>11

LEMMA TurnCovers ==
    ASSUME NEW ops \in Seq(Nodes), NEW sorted \in Seq(Nodes), Identify(ops, sorted),
           NEW s \in TurnStates(ops), Covered(ops, sorted, s),
           NEW r, r = Turn(ops, sorted, s)
    PROVE  /\ r \in TurnStates(ops) /\ Covered(ops, sorted, r)
           /\ s.i = Len(ops) + 1 => r.i = Len(ops) + 1
           /\ s.i \in 1 .. Len(ops) => r.i + r.j >= s.i + s.j + 1
  <1>1. /\ s.i \in 1 .. Len(ops) + 1 /\ s.j \in 1 .. Len(sorted) + 1
        /\ Len(ops) \in Nat /\ Len(sorted) \in Nat
    BY DEF Covered
  <1>2. CASE s.i = Len(ops) + 1
    <2>1. s.i > Len(ops) /\ s.i \notin 1 .. Len(ops)
      BY <1>1, <1>2
    <2>2. r = s
      BY <2>1 DEF Turn
    <2> QED  BY <1>2, <2>1, <2>2
  <1>3. CASE s.i \in 1 .. Len(ops)
    <2>1. /\ r \in TurnStates(ops)
          /\ \/ Kept(ops, sorted, s, r)
             \/ Passed(ops, sorted, s, r)
             \/ Paired(ops, sorted, s, r)
      BY <1>3, TurnCases
    <2>2. /\ r.i \in 1 .. Len(ops) + 1 /\ r.j \in 1 .. Len(sorted) + 1
          /\ r.i + r.j >= s.i + s.j + 1
      <3>1. \/ r.i = s.i + 1 /\ r.j = s.j
            \/ s.j \in 1 .. Len(sorted) /\ r.i = s.i /\ r.j = s.j + 1
            \/ s.j \in 1 .. Len(sorted) /\ r.i = s.i + 1 /\ r.j = s.j + 1
        BY <2>1 DEF Kept, Passed, Paired
      <3>2. CASE r.i = s.i + 1 /\ r.j = s.j
        BY <1>1, <1>3, <3>2
      <3>3. CASE s.j \in 1 .. Len(sorted) /\ r.i = s.i /\ r.j = s.j + 1
        BY <1>1, <1>3, <3>3
      <3>4. CASE s.j \in 1 .. Len(sorted) /\ r.i = s.i + 1 /\ r.j = s.j + 1
        BY <1>1, <1>3, <3>4
      <3> QED  BY <3>1, <3>2, <3>3, <3>4
    <2>3. ASSUME NEW x
          PROVE  Among(ops, r.i - 1, x)
                    <= Among(r.only, Len(r.only), x) + Among(sorted, r.j - 1, x)
      <3> DEFINE a == Among(ops, s.i - 1, x)
                 u == Among(s.only, Len(s.only), x)
                 d == Among(sorted, s.j - 1, x)
                 b == Among(r.only, Len(r.only), x)
                 io == IF ops[s.i] = x THEN 1 ELSE 0
                 is == IF sorted[s.j] = x THEN 1 ELSE 0
      <3>1. a \in Nat /\ u \in Nat /\ d \in Nat /\ b \in Nat /\ a <= u + d
        <4>1. s.i - 1 \in Nat /\ s.j - 1 \in Nat /\ Len(s.only) \in Nat /\ Len(r.only) \in Nat
          BY <1>1, <1>3, <2>1, CountsAfterTurn
        <4> QED  BY <4>1, PlacesFinite DEF Covered
      <3>2. /\ \/ r.i = s.i + 1 /\ r.j = s.j /\ b = u + io
               \/ r.i = s.i /\ r.j = s.j + 1 /\ b = u
               \/ ops[s.i] = sorted[s.j] /\ r.i = s.i + 1 /\ r.j = s.j + 1 /\ b = u
            /\ Among(ops, s.i, x) = a + io
            /\ Among(sorted, s.j, x) = d + is
        <4>1. /\ Kept(ops, sorted, s, r) => b = u + io
              /\ Paired(ops, sorted, s, r) => ops[s.i] = sorted[s.j]
              /\ Among(ops, s.i, x) = a + io
              /\ Among(sorted, s.j, x) = d + is
          <5>1. CountsAfter(ops, sorted, s, r, x)
            BY <1>3, <2>1, CountsAfterTurn
          <5> QED  BY <5>1, Zenon DEF CountsAfter
        <4>2. CASE Kept(ops, sorted, s, r)
          BY <4>1, <4>2, Zenon DEF Kept
        <4>3. CASE Passed(ops, sorted, s, r)
          BY <4>1, <4>3, Zenon DEF Passed
        <4>4. CASE Paired(ops, sorted, s, r)
          BY <4>1, <4>4, Zenon DEF Paired
        <4> QED  BY <2>1, <4>2, <4>3, <4>4
      <3>3. (s.i + 1) - 1 = s.i /\ (s.j + 1) - 1 = s.j
        BY <1>1
      <3>4. io \in {0, 1} /\ is \in {0, 1} /\ (ops[s.i] = sorted[s.j] => io = is)
        OBVIOUS
      <3> HIDE DEF io, is
      <3>5. CASE r.i = s.i + 1 /\ r.j = s.j /\ b = u + io
        <4>1. Among(ops, r.i - 1, x) = a + io /\ Among(sorted, r.j - 1, x) = d
          BY <3>2, <3>3, <3>5
        <4> HIDE DEF a, u, d, b
        <4>2. a + io <= b + d
          BY <3>1, <3>4, <3>5
        <4> QED  BY <4>1, <4>2 DEF b
      <3>6. CASE r.i = s.i /\ r.j = s.j + 1 /\ b = u
        <4>1. Among(ops, r.i - 1, x) = a /\ Among(sorted, r.j - 1, x) = d + is
          BY <3>2, <3>3, <3>6
        <4> HIDE DEF a, u, d, b
        <4>2. a <= b + (d + is)
          BY <3>1, <3>4, <3>6
        <4> QED  BY <4>1, <4>2 DEF b
      <3>7. CASE ops[s.i] = sorted[s.j] /\ r.i = s.i + 1 /\ r.j = s.j + 1 /\ b = u
        <4>1. Among(ops, r.i - 1, x) = a + io /\ Among(sorted, r.j - 1, x) = d + is
          BY <3>2, <3>3, <3>7
        <4> HIDE DEF a, u, d, b
        <4>2. a + io <= b + (d + is)
          BY <3>1, <3>4, <3>7
        <4> QED  BY <4>1, <4>2 DEF b
      <3> HIDE DEF a, u, d, b
      <3> QED  BY <3>2, <3>5, <3>6, <3>7
    <2>4. r.only \in Seq(FirstOf(ops, Len(ops)))
      BY <2>1 DEF TurnStates
    <2>5. Covered(ops, sorted, r)
      BY <2>2, <2>3, <2>4 DEF Covered
    <2>6. s.i # Len(ops) + 1
      BY <1>1, <1>3
    <2> QED  BY <2>1, <2>2, <2>5, <2>6
  <1> QED  BY <1>1, <1>2, <1>3

\* What holds after every turn if both ranges are in order: a node that was kept
\* is not among what is left of the second range, and no place of it was passed over.
Exact(ops, sorted, s) ==
    \A x :
        /\ Among(s.only, Len(s.only), x) > 0 =>
              /\ \A p \in s.j .. Len(sorted) : sorted[p] # x
              /\ Among(ops, s.i - 1, x)
                    = Among(s.only, Len(s.only), x) + Among(sorted, s.j - 1, x)
        /\ \/ Among(ops, s.i - 1, x)
                 >= Among(s.only, Len(s.only), x) + Among(sorted, s.j - 1, x)
           \/ \A p \in s.i .. Len(ops) : ops[p] # x

LEMMA TurnExact ==
    ASSUME NEW ops \in Seq(Nodes), NEW sorted \in Seq(Nodes), Identify(ops, sorted),
           Ascending(ops), Ascending(sorted),
           NEW s \in TurnStates(ops), Covered(ops, sorted, s), Exact(ops, sorted, s),
           NEW r, r = Turn(ops, sorted, s)
    PROVE  Exact(ops, sorted, r)
  <1>1. /\ s.i \in 1 .. Len(ops) + 1 /\ s.j \in 1 .. Len(sorted) + 1
        /\ Len(ops) \in Nat /\ Len(sorted) \in Nat
    BY DEF Covered
  <1>2. CASE s.i = Len(ops) + 1
    <2>1. s.i > Len(ops)
      BY <1>1, <1>2
    <2>2. r = s
      BY <2>1 DEF Turn
    <2> QED  BY <2>2
  <1>3. CASE s.i \in 1 .. Len(ops)
    <2>1. /\ r \in TurnStates(ops)
          /\ \/ Kept(ops, sorted, s, r)
             \/ Passed(ops, sorted, s, r)
             \/ Paired(ops, sorted, s, r)
      BY <1>3, TurnCases
    <2>2. /\ \A p \in 1 .. Len(ops) : ops[p].address \in Nat
          /\ \A p \in 1 .. Len(sorted) : sorted[p].address \in Nat
      <3>1. \A n \in Nodes : n.address \in Nat
        BY AddressAssumption DEF Nodes
      <3>2. /\ \A p \in 1 .. Len(ops) : ops[p] \in Nodes
            /\ \A p \in 1 .. Len(sorted) : sorted[p] \in Nodes
        OBVIOUS
      <3> QED  BY <3>1, <3>2
    <2>3. ASSUME NEW x
          PROVE  /\ Among(r.only, Len(r.only), x) > 0 =>
                       /\ \A p \in r.j .. Len(sorted) : sorted[p] # x
                       /\ Among(ops, r.i - 1, x)
                             = Among(r.only, Len(r.only), x) + Among(sorted, r.j - 1, x)
                 /\ \/ Among(ops, r.i - 1, x)
                          >= Among(r.only, Len(r.only), x) + Among(sorted, r.j - 1, x)
                    \/ \A p \in r.i .. Len(ops) : ops[p] # x
      <3> DEFINE a == Among(ops, s.i - 1, x)
                 u == Among(s.only, Len(s.only), x)
                 d == Among(sorted, s.j - 1, x)
                 b == Among(r.only, Len(r.only), x)
                 io == IF ops[s.i] = x THEN 1 ELSE 0
                 is == IF sorted[s.j] = x THEN 1 ELSE 0
                 inOps(i) == \E p \in i .. Len(ops) : ops[p] = x
                 inSorted(j) == \E p \in j .. Len(sorted) : sorted[p] = x
      <3>1. a \in Nat /\ u \in Nat /\ d \in Nat /\ b \in Nat /\ a <= u + d
        <4>1. s.i - 1 \in Nat /\ s.j - 1 \in Nat /\ Len(s.only) \in Nat /\ Len(r.only) \in Nat
          BY <1>1, <1>3, <2>1, CountsAfterTurn
        <4> QED  BY <4>1, PlacesFinite DEF Covered
      <3>2. /\ Kept(ops, sorted, s, r) => b = u + io
            /\ Paired(ops, sorted, s, r) => ops[s.i] = sorted[s.j]
            /\ Among(ops, s.i, x) = a + io
            /\ Among(sorted, s.j, x) = d + is
        <4>1. CountsAfter(ops, sorted, s, r, x)
          BY <1>3, <2>1, CountsAfterTurn
        <4> QED  BY <4>1, Zenon DEF CountsAfter
      <3>3. /\ u > 0 => ~inSorted(s.j) /\ a = u + d
            /\ a >= u + d \/ ~inOps(s.i)
        BY Zenon DEF Exact
      <3>4. (s.i + 1) - 1 = s.i /\ (s.j + 1) - 1 = s.j
        BY <1>1
      <3>5. /\ io \in {0, 1} /\ is \in {0, 1} /\ (ops[s.i] = sorted[s.j] => io = is)
            /\ io = 1 => ops[s.i] = x
            /\ is = 1 => sorted[s.j] = x
        OBVIOUS
      <3>6. /\ io = 1 => inOps(s.i)
            /\ inOps(s.i + 1) => inOps(s.i)
            /\ inSorted(s.j + 1) => inSorted(s.j)
            /\ s.j \in 1 .. Len(sorted) /\ is = 1 => inSorted(s.j)
        BY <1>1, <1>3, <3>5
      <3>7. /\ Kept(ops, sorted, s, r) /\ io = 1 => ~inSorted(s.j)
            /\ Passed(ops, sorted, s, r) /\ is = 1 => ~inOps(s.i)
        <4>1. ASSUME Kept(ops, sorted, s, r), io = 1, inSorted(s.j) PROVE FALSE
          <5>1. PICK p \in s.j .. Len(sorted) : sorted[p] = x
            BY <4>1
          <5>2. p \in 1 .. Len(sorted) /\ s.j \in 1 .. Len(sorted) /\ (s.j = p \/ s.j < p)
            BY <1>1
          <5>3. sorted[s.j].address <= sorted[p].address
            BY <2>2, <5>2 DEF Ascending
          <5>4. ops[s.i].address < sorted[s.j].address
            BY <1>1, <4>1, <5>2 DEF Kept
          <5>5. ops[s.i] = sorted[p]
            BY <3>5, <4>1, <5>1
          <5> QED  BY <1>3, <2>2, <5>2, <5>3, <5>4, <5>5
        <4>2. ASSUME Passed(ops, sorted, s, r), is = 1, inOps(s.i) PROVE FALSE
          <5>1. PICK p \in s.i .. Len(ops) : ops[p] = x
            BY <4>2
          <5>2. p \in 1 .. Len(ops) /\ (s.i = p \/ s.i < p)
            BY <1>1
          <5>3. ops[s.i].address <= ops[p].address
            BY <1>3, <2>2, <5>2 DEF Ascending
          <5>4. s.j \in 1 .. Len(sorted) /\ sorted[s.j].address < ops[s.i].address
            BY <4>2 DEF Passed
          <5>5. sorted[s.j] = ops[p]
            BY <3>5, <4>2, <5>1
          <5> QED  BY <1>3, <2>2, <5>2, <5>3, <5>4, <5>5
        <4> QED  BY <4>1, <4>2
      <3> HIDE DEF io, is, inOps, inSorted
      <3>8. /\ b > 0 => ~inSorted(r.j) /\ Among(ops, r.i - 1, x) = b + Among(sorted, r.j - 1, x)
            /\ Among(ops, r.i - 1, x) >= b + Among(sorted, r.j - 1, x) \/ ~inOps(r.i)
        <4>1. CASE Kept(ops, sorted, s, r)
          <5>1. r.i = s.i + 1 /\ r.j = s.j
            BY <4>1 DEF Kept
          <5>2. Among(ops, r.i - 1, x) = a + io /\ Among(sorted, r.j - 1, x) = d /\ b = u + io
            BY <3>2, <3>4, <4>1, <5>1
          <5>3. /\ (inOps(r.i) => inOps(s.i)) /\ (inSorted(r.j) => inSorted(s.j))
                /\ io = 1 => inOps(s.i) /\ ~inSorted(s.j)
            BY <3>6, <3>7, <4>1, <5>1
          <5> HIDE DEF a, u, d, b
          <5>4. CASE io = 0
            <6>1. Among(ops, r.i - 1, x) = a /\ b = u
              BY <3>1, <5>2, <5>4
            <6>2. Among(ops, r.i - 1, x) >= b + Among(sorted, r.j - 1, x) \/ ~inOps(r.i)
              BY <3>3, <5>2, <5>3, <6>1
            <6>3. b > 0 => /\ ~inSorted(r.j)
                           /\ Among(ops, r.i - 1, x) = b + Among(sorted, r.j - 1, x)
              BY <3>3, <5>2, <5>3, <6>1
            <6> QED  BY <6>2, <6>3
          <5>5. CASE io = 1
            <6>1. a = u + d
              BY <3>1, <3>3, <5>3, <5>5
            <6>2. Among(ops, r.i - 1, x) = b + Among(sorted, r.j - 1, x)
              BY <3>1, <5>2, <5>5, <6>1
            <6>3. Among(ops, r.i - 1, x) \in Nat
              BY <3>1, <5>2, <5>5
            <6>4. Among(ops, r.i - 1, x) >= b + Among(sorted, r.j - 1, x)
              BY <6>2, <6>3
            <6> QED  BY <5>3, <5>5, <6>2, <6>4
          <5> QED  BY <3>5, <5>4, <5>5
        <4>2. CASE Passed(ops, sorted, s, r)
          <5>1. r.i = s.i /\ r.j = s.j + 1 /\ b = u /\ s.j \in 1 .. Len(sorted)
            BY <4>2 DEF Passed
          <5>2. Among(ops, r.i - 1, x) = a /\ Among(sorted, r.j - 1, x) = d + is
            BY <3>2, <3>4, <5>1
          <5>3. /\ (inOps(r.i) => inOps(s.i)) /\ (inSorted(r.j) => inSorted(s.j))
                /\ is = 1 => inSorted(s.j) /\ ~inOps(s.i)
            BY <3>6, <3>7, <4>2, <5>1
          <5> HIDE DEF a, u, d, b
          <5>4. CASE is = 0
            <6>1. Among(ops, r.i - 1, x) = a /\ Among(sorted, r.j - 1, x) = d /\ b = u
              BY <3>1, <5>1, <5>2, <5>4
            <6> QED  BY <3>3, <5>3, <6>1
          <5>5. CASE is = 1
            <6>1. ~inOps(s.i) /\ inSorted(s.j)
              BY <5>3, <5>5
            <6>2. b = 0 /\ ~inOps(r.i)
              BY <3>1, <3>3, <5>1, <5>3, <6>1
            <6> QED  BY <6>2
          <5> QED  BY <3>5, <5>4, <5>5
        <4>3. CASE Paired(ops, sorted, s, r)
          <5>1. r.i = s.i + 1 /\ r.j = s.j + 1 /\ b = u /\ s.j \in 1 .. Len(sorted)
            BY <4>3 DEF Paired
          <5>2. Among(ops, r.i - 1, x) = a + io /\ Among(sorted, r.j - 1, x) = d + is /\ io = is
            BY <3>2, <3>4, <3>5, <4>3, <5>1
          <5>3. (inOps(r.i) => inOps(s.i)) /\ (inSorted(r.j) => inSorted(s.j))
            BY <3>6, <5>1
          <5> HIDE DEF a, u, d, b
          <5>4. Among(ops, r.i - 1, x) >= b + Among(sorted, r.j - 1, x) <=> a >= u + d
            BY <3>1, <3>5, <5>1, <5>2
          <5>5. Among(ops, r.i - 1, x) = b + Among(sorted, r.j - 1, x) <=> a = u + d
            BY <3>1, <3>5, <5>1, <5>2
          <5> QED  BY <3>3, <5>1, <5>3, <5>4, <5>5
        <4> QED  BY <2>1, <4>1, <4>2, <4>3
      <3> QED  BY <3>8, Zenon DEF inOps, inSorted
    <2> QED  BY <2>3, Zenon DEF Exact
  <1> QED  BY <1>1, <1>2, <1>3

\* What the merge gives: an operand's node is kept as often as it is missing among
\* the classes' nodes, and at least so often if the ranges are in no order.
LEMMA Merged ==
    ASSUME NEW ops \in Seq(Nodes), NEW sorted \in Seq(Nodes), Identify(ops, sorted),
           NEW only, only = FirstOnly(ops, sorted)
    PROVE  /\ only \in Seq(FirstOf(ops, Len(ops)))
           /\ \A x : Among(ops, Len(ops), x)
                        <= Among(only, Len(only), x) + Among(sorted, Len(sorted), x)
           /\ Ascending(ops) /\ Ascending(sorted) =>
                 \A x : Among(only, Len(only), x)
                           = IF Among(ops, Len(ops), x) > Among(sorted, Len(sorted), x)
                             THEN Among(ops, Len(ops), x) - Among(sorted, Len(sorted), x)
                             ELSE 0
  <1> DEFINE n == Len(ops) + Len(sorted)
             after == CHOOSE f : Turns(f, n, ops, sorted)
             start == [i |-> 1, j |-> 1, only |-> <<>>]
  <1>1. n \in Nat /\ Len(ops) \in Nat /\ Len(sorted) \in Nat
    OBVIOUS
  <1>2. only = after[n].only
    BY Zenon DEF FirstOnly, Turns
  <1>3. Turns(after, n, ops, sorted)
    <2> HIDE DEF n
    <2>1. \E f : Turns(f, n, ops, sorted)
      BY <1>1, TurnsExist
    <2> QED  BY <2>1, Zenon
  <1> HIDE DEF after, n
  <1> DEFINE Done(s, q) == /\ s \in TurnStates(ops) /\ Covered(ops, sorted, s)
                           /\ s.i = Len(ops) + 1 \/ s.i + s.j >= q + 2
                           /\ Ascending(ops) /\ Ascending(sorted) => Exact(ops, sorted, s)
             T == {q \in Nat : q <= n => Done(after[q], q)}
  <1>4. Done(start, 0)
    <2>1. /\ start \in TurnStates(ops) /\ start.i = 1 /\ start.j = 1 /\ start.only = <<>>
          /\ start.only \in Seq(FirstOf(ops, Len(ops))) /\ Len(start.only) = 0
      BY DEF TurnStates
    <2> HIDE DEF start
    <2>2. \A x : /\ Among(ops, start.i - 1, x) = 0 /\ Among(sorted, start.j - 1, x) = 0
                 /\ Among(start.only, Len(start.only), x) = 0
      BY <2>1, AmongNone
    <2>3. Covered(ops, sorted, start)
      BY <1>1, <2>1, <2>2 DEF Covered
    <2>4. Exact(ops, sorted, start)
      BY <2>2 DEF Exact
    <2> QED  BY <2>1, <2>3, <2>4
  <1>5. 0 \in T
    <2>1. after[0] = start
      BY <1>1, <1>3 DEF Turns
    <2> HIDE DEF Done, start
    <2> QED  BY <1>4, <2>1
  <1>6. ASSUME NEW q \in T PROVE q + 1 \in T
    <2> SUFFICES ASSUME q + 1 <= n PROVE Done(after[q + 1], q + 1)
      OBVIOUS
    <2> DEFINE s == after[q]
               r == after[q + 1]
    <2>1. q \in Nat /\ Done(s, q)
      BY <1>1
    <2>2. r = Turn(ops, sorted, s)
      <3>1. q + 1 \in 0 .. n /\ q + 1 # 0 /\ (q + 1) - 1 = q
        BY <1>1, <2>1
      <3> QED  BY <1>3, <3>1 DEF Turns
    <2> HIDE DEF T, s, r
    <2>3. /\ r \in TurnStates(ops) /\ Covered(ops, sorted, r)
          /\ s.i = Len(ops) + 1 => r.i = Len(ops) + 1
          /\ s.i \in 1 .. Len(ops) => r.i + r.j >= s.i + s.j + 1
      BY <2>1, <2>2, TurnCovers
    <2>4. Ascending(ops) /\ Ascending(sorted) => Exact(ops, sorted, r)
      BY <2>1, <2>2, TurnExact
    <2>5. r.i = Len(ops) + 1 \/ r.i + r.j >= (q + 1) + 2
      <3>1. /\ s.i \in 1 .. Len(ops) + 1 /\ s.j \in 1 .. Len(sorted) + 1
            /\ r.i \in 1 .. Len(ops) + 1 /\ r.j \in 1 .. Len(sorted) + 1
        BY <2>1, <2>3 DEF Covered
      <3>2. s.i \in 1 .. Len(ops) \/ s.i = Len(ops) + 1
        BY <1>1, <3>1
      <3>3. s.i = Len(ops) + 1 \/ s.i + s.j >= q + 2
        BY <2>1
      <3> HIDE DEF Done
      <3> QED  BY <1>1, <2>1, <2>3, <3>1, <3>2, <3>3
    <2>6. Done(r, q + 1)
      BY <2>3, <2>4, <2>5
    <2> QED  BY <2>6 DEF r
  <1> HIDE DEF Done
  <1>7. T = Nat
    <2> HIDE DEF T
    <2>1. T \in SUBSET Nat
      BY DEF T
    <2> QED  BY <1>5, <1>6, <2>1, Induction
  <1> DEFINE s == after[n]
  <1>8. Done(s, n)
    BY <1>1, <1>7
  <1> HIDE DEF T, s
  <1>9. /\ Covered(ops, sorted, s)
        /\ s.i = Len(ops) + 1 \/ s.i + s.j >= n + 2
        /\ Ascending(ops) /\ Ascending(sorted) => Exact(ops, sorted, s)
    BY <1>8 DEF Done
  <1>10. /\ s.i = Len(ops) + 1 /\ s.i - 1 = Len(ops)
         /\ s.j \in 1 .. Len(sorted) + 1 /\ s.j - 1 \in Nat /\ s.j - 1 <= Len(sorted)
    <2>1. s.i \in 1 .. Len(ops) + 1 /\ s.j \in 1 .. Len(sorted) + 1
      BY <1>8 DEF Covered, Done
    <2> QED  BY <1>1, <1>9, <2>1 DEF n
  <1>11. only \in Seq(FirstOf(ops, Len(ops))) /\ only = s.only /\ Len(only) \in Nat
    <2>1. only \in Seq(FirstOf(ops, Len(ops)))
      BY <1>2, <1>8 DEF Covered, Done, s
    <2> QED  BY <1>2, <2>1 DEF s
  <1>12. ASSUME NEW x
         PROVE  /\ Among(ops, Len(ops), x)
                       <= Among(only, Len(only), x) + Among(sorted, Len(sorted), x)
                /\ Ascending(ops) /\ Ascending(sorted) =>
                      Among(only, Len(only), x)
                           = IF Among(ops, Len(ops), x) > Among(sorted, Len(sorted), x)
                             THEN Among(ops, Len(ops), x) - Among(sorted, Len(sorted), x)
                             ELSE 0
    <2> DEFINE c == Among(ops, Len(ops), x)
               d == Among(sorted, s.j - 1, x)
               all == Among(sorted, Len(sorted), x)
               u == Among(only, Len(only), x)
    <2>1. /\ c \in Nat /\ d \in Nat /\ all \in Nat /\ u \in Nat
      BY <1>1, <1>10, <1>11, PlacesFinite
    <2>2. c <= u + d
      BY <1>8, <1>10, <1>11 DEF Covered, Done
    <2>3. d <= all /\ ((\A p \in (s.j - 1) + 1 .. Len(sorted) : sorted[p] # x) => d = all)
      <3>1. \A k \in Nat : k <= Len(sorted) =>
               /\ Among(sorted, k, x) <= Among(sorted, Len(sorted), x)
               /\ (\A p \in k + 1 .. Len(sorted) : sorted[p] # x)
                     => Among(sorted, k, x) = Among(sorted, Len(sorted), x)
        BY <1>1, AmongMore
      <3> QED  BY <1>10, <3>1, Zenon
    <2>4. (s.j - 1) + 1 = s.j
      BY <1>10
    <2>5. ASSUME Ascending(ops), Ascending(sorted)
          PROVE  u > 0 => (\A p \in s.j .. Len(sorted) : sorted[p] # x) /\ c = u + d
      BY <1>8, <1>10, <1>11, <2>5 DEF Done, Exact
    <2>6. Ascending(ops) /\ Ascending(sorted) /\ u > 0 => c = u + all
      BY <2>3, <2>4, <2>5
    <2> HIDE DEF c, d, all, u
    <2>7. c <= u + all
      BY <2>1, <2>2, <2>3
    <2>8. Ascending(ops) /\ Ascending(sorted) => u = IF c > all THEN c - all ELSE 0
      BY <2>1, <2>6, <2>7
    <2> QED  BY <2>7, <2>8 DEF c, all, u
  <1> QED  BY <1>11, <1>12

----------------------------------------------------------------------------
(* The sort. The rank of a place is how many places are not behind it.     *)

Below(nodes, n, i) ==
    {j \in 1 .. n : \/ nodes[j].address < nodes[i].address
                    \/ nodes[j].address = nodes[i].address /\ j <= i}

Rank(nodes, n, i) == Cardinality(Below(nodes, n, i))

LEMMA IntervalSize ==
    ASSUME NEW n \in Nat
    PROVE  IsFiniteSet(1 .. n) /\ Cardinality(1 .. n) = n
  <1>1. IsFiniteSet(1 .. n) /\ Cardinality(1 .. n) = IF 1 > n THEN 0 ELSE n - 1 + 1
    BY FS_Interval
  <1> QED  BY <1>1

LEMMA BelowFinite ==
    ASSUME NEW n \in Nat, NEW nodes, NEW i
    PROVE  Below(nodes, n, i) \in SUBSET (1 .. n) /\ IsFiniteSet(Below(nodes, n, i))
  <1>1. Below(nodes, n, i) \in SUBSET (1 .. n)
    BY DEF Below
  <1> QED  BY <1>1, IntervalSize, FS_Subset

LEMMA RankOrders ==
    ASSUME NEW n \in Nat, NEW nodes, \A i \in 1 .. n : nodes[i].address \in Nat,
           NEW i \in 1 .. n, NEW j \in 1 .. n, i \in Below(nodes, n, j), i # j
    PROVE  Rank(nodes, n, i) < Rank(nodes, n, j)
  <1>1. Below(nodes, n, i) \in SUBSET Below(nodes, n, j)
    <2> SUFFICES ASSUME NEW k \in 1 .. n, k \in Below(nodes, n, i)
                 PROVE  k \in Below(nodes, n, j)
      BY DEF Below
    <2>1. nodes[k].address \in Nat /\ nodes[i].address \in Nat /\ nodes[j].address \in Nat
      OBVIOUS
    <2> QED  BY <2>1 DEF Below
  <1>2. j \in Below(nodes, n, j) /\ j \notin Below(nodes, n, i)
    <2>1. nodes[i].address \in Nat /\ nodes[j].address \in Nat
      OBVIOUS
    <2> QED  BY <2>1 DEF Below
  <1>3. IsFiniteSet(Below(nodes, n, j))
    BY BelowFinite
  <1> HIDE DEF Below
  <1>4. /\ IsFiniteSet(Below(nodes, n, i))
        /\ Cardinality(Below(nodes, n, i)) <= Cardinality(Below(nodes, n, j))
        /\ Cardinality(Below(nodes, n, j)) # Cardinality(Below(nodes, n, i))
    BY <1>1, <1>2, <1>3, FS_Subset
  <1>5. Cardinality(Below(nodes, n, i)) \in Nat /\ Cardinality(Below(nodes, n, j)) \in Nat
    BY <1>3, <1>4, FS_CardinalityType
  <1> QED  BY <1>4, <1>5 DEF Rank

LEMMA RankType ==
    ASSUME NEW n \in Nat, NEW nodes, \A i \in 1 .. n : nodes[i].address \in Nat,
           NEW i \in 1 .. n
    PROVE  Rank(nodes, n, i) \in 1 .. n
  <1>1. Below(nodes, n, i) \in SUBSET (1 .. n) /\ i \in Below(nodes, n, i)
    BY DEF Below
  <1>2. IsFiniteSet(1 .. n) /\ Cardinality(1 .. n) = n
    BY IntervalSize
  <1>3. /\ IsFiniteSet(Below(nodes, n, i)) /\ Cardinality(Below(nodes, n, i)) <= n
    BY <1>1, <1>2, FS_Subset
  <1>4. /\ Cardinality(Below(nodes, n, i)) \in Nat
        /\ Cardinality(Below(nodes, n, i)) # 0
    BY <1>1, <1>3, FS_CardinalityType, FS_EmptySet
  <1> QED  BY <1>3, <1>4 DEF Rank

\* Every rank is that of one place.
LEMMA RankIsPermutation ==
    ASSUME NEW n \in Nat, NEW nodes, \A i \in 1 .. n : nodes[i].address \in Nat
    PROVE  /\ \A i, j \in 1 .. n : Rank(nodes, n, i) = Rank(nodes, n, j) => i = j
           /\ \A k \in 1 .. n : \E i \in 1 .. n : Rank(nodes, n, i) = k
  <1>1. ASSUME NEW i \in 1 .. n, NEW j \in 1 .. n, Rank(nodes, n, i) = Rank(nodes, n, j)
        PROVE  i = j
    <2> SUFFICES ASSUME i # j PROVE FALSE
      OBVIOUS
    <2>1. Rank(nodes, n, i) \in Nat /\ Rank(nodes, n, j) \in Nat
      BY RankType
    <2>2. i \in Below(nodes, n, j) \/ j \in Below(nodes, n, i)
      <3>1. nodes[i].address \in Nat /\ nodes[j].address \in Nat
        OBVIOUS
      <3> QED  BY <3>1 DEF Below
    <2>3. i \notin Below(nodes, n, j)
      BY <1>1, <2>1, RankOrders
    <2>4. j \notin Below(nodes, n, i)
      BY <1>1, <2>1, RankOrders
    <2> QED  BY <2>2, <2>3, <2>4
  <1> DEFINE f == [i \in 1 .. n |-> Rank(nodes, n, i)]
  <1>2. f \in Injection(1 .. n, 1 .. n)
    BY <1>1, RankType DEF Injection, IsInjective
  <1> HIDE DEF f
  <1>3. f \in Surjection(1 .. n, 1 .. n)
    <2>1. IsFiniteSet(1 .. n)
      BY FS_Interval
    <2> QED  BY <1>2, <2>1, FS_Injection
  <1>4. ASSUME NEW k \in 1 .. n PROVE \E i \in 1 .. n : Rank(nodes, n, i) = k
    <2>1. \E i \in 1 .. n : f[i] = k
      BY <1>3 DEF Surjection
    <2> QED  BY <2>1 DEF f
  <1> QED  BY <1>1, <1>4

\* The nodes in the order of their ranks.
ByRank(nodes, n) == [k \in 1 .. n |-> nodes[CHOOSE i \in 1 .. n : Rank(nodes, n, i) = k]]

LEMMA SortedByRank ==
    ASSUME NEW n \in Nat, NEW nodes \in [1 .. n -> Nodes], NEW sorted, sorted = ByRank(nodes, n)
    PROVE  /\ sorted \in Seq(Nodes) /\ Len(sorted) = n
           /\ Ascending(sorted)
           /\ \A x : Among(sorted, n, x) = Among(nodes, n, x)
  <1> DEFINE place == [k \in 1 .. n |-> CHOOSE i \in 1 .. n : Rank(nodes, n, i) = k]
  <1>1. \A i \in 1 .. n : nodes[i].address \in Nat
    <2>1. \A x \in Nodes : x.address \in Nat
      BY AddressAssumption DEF Nodes
    <2> QED  BY <2>1
  <1>2. \A k \in 1 .. n : place[k] \in 1 .. n /\ Rank(nodes, n, place[k]) = k
    <2> SUFFICES ASSUME NEW k \in 1 .. n
                 PROVE  place[k] \in 1 .. n /\ Rank(nodes, n, place[k]) = k
      OBVIOUS
    <2>1. \E i \in 1 .. n : Rank(nodes, n, i) = k
      BY <1>1, RankIsPermutation
    <2>2. place[k] = CHOOSE i \in 1 .. n : Rank(nodes, n, i) = k
      OBVIOUS
    <2> HIDE DEF place
    <2> QED  BY <2>1, <2>2, Zenon
  <1>3. sorted = [k \in 1 .. n |-> nodes[place[k]]]
    BY DEF ByRank
  <1>4. place \in [1 .. n -> 1 .. n]
    BY <1>2
  <1> HIDE DEF place
  <1>5. sorted \in [1 .. n -> Nodes]
    BY <1>3, <1>4
  <1>6. sorted \in Seq(Nodes) /\ Len(sorted) = n /\ DOMAIN sorted = 1 .. n
    BY <1>5
  <1>7. Ascending(sorted)
    <2> SUFFICES ASSUME NEW k \in 1 .. n, NEW l \in 1 .. n, k < l
                 PROVE  sorted[k].address <= sorted[l].address
      BY <1>6 DEF Ascending
    <2> DEFINE i == place[k]
               j == place[l]
    <2>1. /\ i \in 1 .. n /\ j \in 1 .. n /\ Rank(nodes, n, i) = k /\ Rank(nodes, n, j) = l
          /\ sorted[k] = nodes[i] /\ sorted[l] = nodes[j]
      BY <1>2, <1>3
    <2> HIDE DEF i, j
    <2>2. j \notin Below(nodes, n, i)
      <3>1. ~(l < k) /\ k # l
        OBVIOUS
      <3> QED  BY <1>1, <2>1, <3>1, RankOrders
    <2>3. nodes[i].address \in Nat /\ nodes[j].address \in Nat
      BY <1>1, <2>1
    <2> QED  BY <2>1, <2>2, <2>3 DEF Below
  <1>8. ASSUME NEW x PROVE Among(sorted, n, x) = Among(nodes, n, x)
    <2> DEFINE S == Places(sorted, n, x)
               T == Places(nodes, n, x)
               f == [k \in S |-> place[k]]
    <2>1. S \subseteq 1 .. n /\ T \subseteq 1 .. n /\ IsFiniteSet(S)
      <3>1. S \subseteq 1 .. n /\ T \subseteq 1 .. n
        BY DEF Places
      <3>2. IsFiniteSet(S)
        BY PlacesFinite
      <3> QED  BY <3>1, <3>2
    <2>2. \A k \in 1 .. n : k \in S <=> place[k] \in T
      BY <1>3, <1>4 DEF Places
    <2>3. \A i \in T : \E k \in S : place[k] = i
      <3> SUFFICES ASSUME NEW i \in T PROVE \E k \in S : place[k] = i
        OBVIOUS
      <3> DEFINE k == Rank(nodes, n, i)
      <3>1. i \in 1 .. n /\ k \in 1 .. n
        BY <1>1, <2>1, RankType
      <3>2. place[k] \in 1 .. n /\ Rank(nodes, n, place[k]) = Rank(nodes, n, i)
        BY <1>2, <3>1
      <3>3. place[k] = i
        BY <1>1, <3>1, <3>2, RankIsPermutation
      <3> HIDE DEF S, T, k
      <3> QED  BY <2>2, <3>1, <3>3
    <2>4. \A k, l \in S : place[k] = place[l] => k = l
      BY <1>2, <2>1
    <2> HIDE DEF S, T
    <2>5. f \in [S -> T] /\ \A k \in S : f[k] = place[k]
      BY <2>1, <2>2
    <2> HIDE DEF f
    <2>6. f \in Bijection(S, T)
      BY <2>3, <2>4, <2>5 DEF Bijection, Injection, Surjection, IsInjective
    <2>7. Cardinality(S) = Cardinality(T)
      BY <2>1, <2>6, FS_Bijection DEF ExistsBijection
    <2> QED  BY <2>7 DEF Among, S, T
  <1> QED  BY <1>6, <1>7, <1>8

----------------------------------------------------------------------------
(* What the operations do to the counts.                                   *)

\* c has the first a elements of s, then the first b of t.
Joined(c, s, a, t, b) ==
    (\A i \in 1 .. a : c[i] = s[i]) /\ \A i \in 1 .. b : c[a + i] = t[i]

LEMMA AmongConcat ==
    ASSUME NEW s, NEW a \in Nat, NEW t, NEW b \in Nat, NEW c, NEW x, Joined(c, s, a, t, b)
    PROVE  Among(c, a + b, x) = Among(s, a, x) + Among(t, b, x)
  <1> DEFINE T == {k \in Nat : k <= b => Among(c, a + k, x) = Among(s, a, x) + Among(t, k, x)}
  <1>1. Among(s, a, x) \in Nat
    BY PlacesFinite
  <1>2. 0 \in T
    <2>1. Among(c, a, x) = Among(s, a, x) /\ Among(t, 0, x) = 0 /\ a + 0 = a
      BY AmongSame, AmongNone DEF Joined
    <2> QED  BY <1>1, <2>1
  <1>3. ASSUME NEW k \in T PROVE k + 1 \in T
    <2> SUFFICES ASSUME k + 1 <= b
                 PROVE  Among(c, a + (k + 1), x) = Among(s, a, x) + Among(t, k + 1, x)
      OBVIOUS
    <2>1. /\ k \in Nat /\ a + k \in Nat /\ a + (k + 1) = (a + k) + 1 /\ k + 1 \in 1 .. b
          /\ Among(c, a + k, x) = Among(s, a, x) + Among(t, k, x)
      OBVIOUS
    <2>2. Among(c, (a + k) + 1, x) = Among(c, a + k, x) + (IF c[(a + k) + 1] = x THEN 1 ELSE 0)
      BY <2>1, AmongNext
    <2>3. Among(t, k + 1, x) = Among(t, k, x) + (IF t[k + 1] = x THEN 1 ELSE 0)
      BY <2>1, AmongNext
    <2>4. c[(a + k) + 1] = t[k + 1]
      BY <2>1 DEF Joined
    <2>5. Among(t, k, x) \in Nat
      BY <2>1, PlacesFinite
    <2> HIDE DEF T
    <2> QED  BY <1>1, <2>1, <2>2, <2>3, <2>4, <2>5
  <1> HIDE DEF T
  <1>4. T = Nat
    <2>1. T \in SUBSET Nat
      BY DEF T
    <2> QED  BY <1>2, <1>3, <2>1, Induction
  <1> QED  BY <1>4 DEF T

LEMMA AmongWithout ==
    ASSUME NEW n \in Nat, NEW s, NEW p \in 1 .. n, NEW w, NEW x,
           \A i \in 1 .. n - 1 : w[i] = s[IF i < p THEN i ELSE i + 1]
    PROVE  Among(w, n - 1, x) = Among(s, n, x) - (IF s[p] = x THEN 1 ELSE 0)
  <1> DEFINE g(i) == IF i < p THEN i ELSE i + 1
             S == Places(w, n - 1, x)
             T == Places(s, n, x) \ {p}
             f == [i \in S |-> g(i)]
  <1>1. n - 1 \in Nat /\ IsFiniteSet(S) /\ IsFiniteSet(Places(s, n, x))
    <2>1. n - 1 \in Nat
      OBVIOUS
    <2> QED  BY <2>1, PlacesFinite
  <1>2. \A i \in 1 .. n - 1 : g(i) \in (1 .. n) \ {p} /\ w[i] = s[g(i)]
    OBVIOUS
  <1>3. \A i, j \in 1 .. n - 1 : g(i) = g(j) => i = j
    OBVIOUS
  <1>4. \A j \in (1 .. n) \ {p} : \E i \in 1 .. n - 1 : g(i) = j
    <2> SUFFICES ASSUME NEW j \in (1 .. n) \ {p} PROVE \E i \in 1 .. n - 1 : g(i) = j
      OBVIOUS
    <2>1. CASE j < p
      <3>1. j \in 1 .. n - 1 /\ g(j) = j
        BY <2>1
      <3> QED  BY <3>1
    <2>2. CASE j > p
      <3>1. j - 1 \in 1 .. n - 1 /\ g(j - 1) = j
        BY <2>2
      <3> QED  BY <3>1
    <2> QED  BY <2>1, <2>2
  <1> HIDE DEF g
  <1>5. S \subseteq 1 .. n - 1 /\ \A i \in 1 .. n - 1 : i \in S <=> w[i] = x
    BY DEF Places
  <1>6. T \subseteq (1 .. n) \ {p} /\ \A j \in (1 .. n) \ {p} : j \in T <=> s[j] = x
    BY DEF Places
  <1>7. p \in Places(s, n, x) <=> s[p] = x
    BY DEF Places
  <1> HIDE DEF S
  <1>8. Cardinality(T) = Cardinality(Places(s, n, x)) - (IF s[p] = x THEN 1 ELSE 0)
    <2>1. Cardinality(T) = IF p \in Places(s, n, x) THEN Cardinality(Places(s, n, x)) - 1
                                                   ELSE Cardinality(Places(s, n, x))
      BY <1>1, FS_RemoveElement
    <2>2. Cardinality(Places(s, n, x)) \in Nat
      BY <1>1, FS_CardinalityType
    <2> HIDE DEF T
    <2> QED  BY <1>7, <2>1, <2>2
  <1> HIDE DEF T
  <1>9. f \in [S -> T] /\ \A i \in S : f[i] = g(i)
    BY <1>2, <1>5, <1>6
  <1> HIDE DEF f
  <1>10. \A j \in T : \E i \in S : f[i] = j
    BY <1>2, <1>4, <1>5, <1>6, <1>9
  <1>11. f \in Bijection(S, T)
    <2>1. \A i, j \in S : f[i] = f[j] => i = j
      BY <1>3, <1>5, <1>9
    <2>2. f \in [S -> T]
      BY <1>9
    <2> QED  BY <1>10, <2>1, <2>2 DEF Bijection, Injection, Surjection, IsInjective
  <1>12. Cardinality(S) = Cardinality(T)
    BY <1>1, <1>11, FS_Bijection DEF ExistsBijection
  <1> QED  BY <1>8, <1>12 DEF Among, S

LEMMA PunchedOperands ==
    ASSUME NEW N, NEW ops \in Seq(N), NEW n, n # Null,
           NEW r, r = Punched(ops, n)
    PROVE  /\ r \in Seq(N \cup {Null}) /\ Len(r) = Len(ops) /\ Len(ops) \in Nat
           /\ FirstOf(r, Len(r)) \subseteq FirstOf(ops, Len(ops)) \cup {Null}
           /\ \A x : x # Null /\ x # n => Among(r, Len(r), x) = Among(ops, Len(ops), x)
           /\ \/ Among(r, Len(r), n) = 0 /\ Among(ops, Len(ops), n) = 0
              \/ Among(r, Len(r), n) = Among(ops, Len(ops), n) - 1
  <1>1. Len(ops) \in Nat
    OBVIOUS
  <1>2. CASE n \notin {ops[i] : i \in 1 .. Len(ops)}
    <2>1. r = ops
      BY <1>2 DEF Punched
    <2>2. Places(ops, Len(ops), n) = {}
      BY <1>2 DEF Places
    <2>3. Among(ops, Len(ops), n) = 0
      BY <2>2, FS_EmptySet DEF Among
    <2> QED  BY <1>1, <2>1, <2>3
  <1>3. CASE n \in {ops[i] : i \in 1 .. Len(ops)}
    <2> DEFINE first == CHOOSE i \in 1 .. Len(ops) : ops[i] = n /\ \A j \in 1 .. i - 1 : ops[j] # n
               T == {i \in 1 .. Len(ops) : ops[i] = n}
    <2>1. \E i \in 1 .. Len(ops) : ops[i] = n /\ \A j \in 1 .. i - 1 : ops[j] # n
      <3>1. T \in SUBSET Nat /\ T # {}
        BY <1>3
      <3>2. PICK i \in T : \A j \in T : ~(<<j, i>> \in OpToRel(<, Nat))
        BY <3>1, WFMin, NatLessThanWellFounded, Zenon
      <3>3. \A j \in 1 .. i - 1 : ops[j] # n
        <4> SUFFICES ASSUME NEW j \in 1 .. i - 1, ops[j] = n PROVE FALSE
          OBVIOUS
        <4>1. j \in T /\ j \in Nat /\ i \in Nat /\ j < i
          BY <3>1
        <4> QED  BY <3>2, <4>1 DEF OpToRel
      <3> QED  BY <3>2, <3>3
    <2>2. first \in 1 .. Len(ops) /\ ops[first] = n
      BY <2>1, Zenon
    <2>3. r = [ops EXCEPT ![first] = Null]
      BY <1>3, Zenon DEF Punched
    <2> HIDE DEF first, T
    <2>4. /\ r \in Seq(N \cup {Null}) /\ Len(r) = Len(ops) /\ r[first] = Null
          /\ \A i \in 1 .. Len(ops) : i # first => r[i] = ops[i]
      BY <2>2, <2>3
    <2>5. FirstOf(r, Len(r)) \subseteq FirstOf(ops, Len(ops)) \cup {Null}
      BY <2>4 DEF FirstOf
    <2>6. ASSUME NEW x, x # Null, x # n PROVE Among(r, Len(r), x) = Among(ops, Len(ops), x)
      <3>1. Places(r, Len(r), x) = Places(ops, Len(ops), x)
        BY <2>2, <2>4, <2>6 DEF Places
      <3> QED  BY <3>1 DEF Among
    <2>7. Among(r, Len(r), n) = Among(ops, Len(ops), n) - 1
      <3>1. Places(r, Len(r), n) = Places(ops, Len(ops), n) \ {first} /\ first \in Places(ops, Len(ops), n)
        BY <2>2, <2>4 DEF Places
      <3>2. IsFiniteSet(Places(ops, Len(ops), n))
        BY <1>1, PlacesFinite
      <3>3. Cardinality(Places(ops, Len(ops), n) \ {first})
               = Cardinality(Places(ops, Len(ops), n)) - 1
        BY <3>1, <3>2, FS_RemoveElement
      <3> QED  BY <3>1, <3>3 DEF Among
    <2> QED  BY <1>1, <2>4, <2>5, <2>6, <2>7
  <1> QED  BY <1>2, <1>3

----------------------------------------------------------------------------
(* The inductive invariant.                                                *)

NodesAt(list, d) == [i \in DOMAIN list |-> d[list[i]]]

\* The operands ops have as many classes in list, whose nodes d gives.
Cover(ops, list, d) ==
    \A x \in Nodes : Among(ops, Len(ops), x) <= Among(NodesAt(list, d), Len(list), x)

\* Every node in use, and null.
Known(d, os) == {d[o] : o \in Objects} \cup UNION {FirstOf(os[m], Len(os[m])) : m \in Modules}

Addressed(S) == \A a, b \in S \ {Null} : a.address = b.address => a = b

Metadata(live, cs, d, os) ==
    /\ d \in [Objects -> Nodes \cup {Null}]
    /\ \A o \in live : d[o] \in Nodes
    /\ os \in [Modules -> Seq(Nodes \cup {Null})]
    /\ Addressed(Known(d, os))
    /\ \A m \in Modules : Cover(os[m], cs[m], d)

Registered == Agree(naming, classes) /\ Metadata(naming.live, classes, md, operands)

LEMMA NullIsNoNode == Null \notin Nodes
  BY NullAssumption DEF Nodes

\* A call adds to the nodes in use only nodes that it found or that have an address
\* of their own.
LEMMA AddressedMore ==
    ASSUME NEW K, Addressed(K), NEW N, Addressed(N),
           \A a \in N \ {Null} : \A b \in K \ {Null} : a.address = b.address => a = b,
           NEW L, L \subseteq K \cup N \cup {Null}
    PROVE  Addressed(L)
  BY DEF Addressed

LEMMA KnownNodesAre == KnownNodes = Known(md, operands)
  BY DEF KnownNodes, Known, FirstOf

LEMMA NodesForAddressed ==
    ASSUME NEW name, NEW node \in NodesFor(name), Addressed(Known(md, operands))
    PROVE  /\ node \in Nodes /\ node.name = name
           /\ \A b \in Known(md, operands) \ {Null} : node.address = b.address => node = b
  <1>1. KnownNodes = Known(md, operands)
    BY KnownNodesAre
  <1>2. /\ node \in Nodes /\ node.name = name
        /\ node \in KnownNodes \/ node.address \in UnusedAddresses
    BY DEF NodesFor
  <1>3. ASSUME NEW b \in KnownNodes \ {Null}, node.address = b.address PROVE node = b
    <2>1. node.address \notin UnusedAddresses
      BY <1>3 DEF UnusedAddresses
    <2>2. node \in KnownNodes \ {Null}
      BY <1>2, <2>1, NullIsNoNode
    <2> QED  BY <1>1, <1>3, <2>2 DEF Addressed
  <1> QED  BY <1>1, <1>2, <1>3

\* Lists and nodes that a call leaves alone stay covered.
LEMMA CoverFrame ==
    ASSUME NEW ops, NEW list \in Seq(Objects), NEW d, NEW e, Cover(ops, list, d),
           \A i \in 1 .. Len(list) : e[list[i]] = d[list[i]]
    PROVE  Cover(ops, list, e)
  <1>1. Len(list) \in Nat /\ DOMAIN list = 1 .. Len(list)
    OBVIOUS
  <1>2. \A i \in 1 .. Len(list) : NodesAt(list, e)[i] = NodesAt(list, d)[i]
    BY <1>1 DEF NodesAt
  <1>3. \A x : Among(NodesAt(list, e), Len(list), x) = Among(NodesAt(list, d), Len(list), x)
    BY <1>1, <1>2, AmongSame
  <1> QED  BY <1>3 DEF Cover

LEMMA CoverJoining ==
    ASSUME NEW ops \in Seq(Nodes \cup {Null}), NEW list \in Seq(Objects), NEW d,
           Cover(ops, list, d), NEW o \in Objects, NEW y, y = d[o], y \in Nodes
    PROVE  Cover(Append(ops, y), Append(list, o), d)
  <1> DEFINE l == Append(list, o)
             n == Len(list)
  <1>1. /\ n \in Nat /\ DOMAIN list = 1 .. n /\ DOMAIN l = 1 .. n + 1 /\ Len(l) = n + 1
        /\ \A i \in 1 .. n : l[i] = list[i] /\ i \in 1 .. n + 1
        /\ l[n + 1] = o /\ n + 1 \in 1 .. n + 1
    OBVIOUS
  <1> HIDE DEF l, n
  <1>2. /\ \A i \in 1 .. n : NodesAt(l, d)[i] = NodesAt(list, d)[i]
        /\ NodesAt(l, d)[n + 1] = y
    BY <1>1 DEF NodesAt
  <1>3. ASSUME NEW x \in Nodes
        PROVE  Among(Append(ops, y), Len(ops) + 1, x) <= Among(NodesAt(l, d), n + 1, x)
    <2>1. Among(Append(ops, y), Len(ops) + 1, x)
             = Among(ops, Len(ops), x) + (IF y = x THEN 1 ELSE 0)
      BY AmongAppend
    <2>2. Among(NodesAt(l, d), n + 1, x) = Among(NodesAt(l, d), n, x) + (IF y = x THEN 1 ELSE 0)
      BY <1>1, <1>2, AmongNext
    <2>3. Among(NodesAt(l, d), n, x) = Among(NodesAt(list, d), n, x)
      BY <1>1, <1>2, AmongSame
    <2>4. Among(ops, Len(ops), x) <= Among(NodesAt(list, d), n, x)
      BY DEF Cover, n
    <2>5. Among(ops, Len(ops), x) \in Nat /\ Among(NodesAt(list, d), n, x) \in Nat
      BY <1>1, PlacesFinite
    <2> QED  BY <2>1, <2>2, <2>3, <2>4, <2>5
  <1>4. Len(Append(ops, y)) = Len(ops) + 1
    OBVIOUS
  <1>5. Cover(Append(ops, y), l, d)
    BY <1>1, <1>3, <1>4 DEF Cover
  <1> QED  BY <1>5 DEF l

LEMMA CoverLeaving ==
    ASSUME NEW ops \in Seq(Nodes \cup {Null}), NEW n \in Nat, NEW list \in [1 .. n -> Objects],
           \A i, j \in 1 .. n : list[i] = list[j] => i = j,
           NEW d, Cover(ops, list, d), NEW o \in FirstOf(list, n), d[o] \in Nodes
    PROVE  Cover(Punched(ops, d[o]), Without(list, o), d)
  <1> DEFINE w == Without(list, o)
             r == Punched(ops, d[o])
  <1>1. PICK p \in 1 .. n : list[p] = o
                 /\ \A i \in 1 .. n - 1 : w[i] = list[IF i < p THEN i ELSE i + 1]
    BY Leaving
  <1>2. w \in [1 .. n - 1 -> Objects] /\ n - 1 \in Nat
    BY Leaving
  <1> HIDE DEF w, r
  <1>3. Len(w) = n - 1 /\ DOMAIN w = 1 .. n - 1 /\ Len(list) = n /\ DOMAIN list = 1 .. n
    BY <1>2
  <1>4. \A i \in 1 .. n - 1 : NodesAt(w, d)[i] = NodesAt(list, d)[IF i < p THEN i ELSE i + 1]
    <2>1. \A i \in 1 .. n - 1 : (IF i < p THEN i ELSE i + 1) \in 1 .. n
      BY <1>2
    <2> QED  BY <1>1, <1>3, <2>1 DEF NodesAt
  <1>5. NodesAt(list, d)[p] = d[o]
    BY <1>1, <1>3 DEF NodesAt
  <1>6. ASSUME NEW x \in Nodes PROVE Among(r, Len(r), x) <= Among(NodesAt(w, d), n - 1, x)
    <2>1. Among(NodesAt(w, d), n - 1, x)
             = Among(NodesAt(list, d), n, x) - (IF d[o] = x THEN 1 ELSE 0)
      <3>1. ASSUME NEW s, NEW v, \A i \in 1 .. n - 1 : v[i] = s[IF i < p THEN i ELSE i + 1]
            PROVE  Among(v, n - 1, x) = Among(s, n, x) - (IF s[p] = x THEN 1 ELSE 0)
        BY <3>1, AmongWithout
      <3>2. Among(NodesAt(w, d), n - 1, x)
              = Among(NodesAt(list, d), n, x) - (IF NodesAt(list, d)[p] = x THEN 1 ELSE 0)
        BY <1>4, <3>1, ZenonT(30)
      <3> QED  BY <3>2, <1>5
    <2>2. Among(ops, Len(ops), x) <= Among(NodesAt(list, d), n, x)
      BY <1>3 DEF Cover
    <2>3. /\ d[o] # Null /\ x # Null /\ Len(ops) \in Nat /\ Len(r) = Len(ops)
          /\ x # d[o] => Among(r, Len(r), x) = Among(ops, Len(ops), x)
          /\ \/ Among(r, Len(r), d[o]) = 0 /\ Among(ops, Len(ops), d[o]) = 0
             \/ Among(r, Len(r), d[o]) = Among(ops, Len(ops), d[o]) - 1
      BY NullIsNoNode, PunchedOperands DEF r
    <2>4. /\ Among(ops, Len(ops), x) \in Nat /\ Among(NodesAt(list, d), n, x) \in Nat
          /\ Among(NodesAt(w, d), n - 1, x) \in Nat
      BY <1>2, <2>3, PlacesFinite
    <2> QED  BY <2>1, <2>2, <2>3, <2>4
  <1>7. Cover(r, w, d)
    BY <1>3, <1>6 DEF Cover
  <1> QED  BY <1>7 DEF r, w

----------------------------------------------------------------------------
(* syncMetadata.                                                           *)

LEMMA SortedNodesOf ==
    ASSUME NEW m \in Modules, classes[m] \in Seq(Objects),
           \A i \in 1 .. Len(classes[m]) : md[classes[m][i]] \in Nodes,
           NEW sorted, sorted = SortedNodes(m)
    PROVE  /\ sorted \in Seq(Nodes) /\ Len(sorted) = Len(classes[m])
           /\ Ascending(sorted)
           /\ \A x : Among(sorted, Len(sorted), x)
                        = Among(NodesAt(classes[m], md), Len(classes[m]), x)
           /\ \A k \in 1 .. Len(sorted) : \E o \in Objects : sorted[k] = md[o]
  <1> DEFINE n == Len(classes[m])
             nodes == [i \in 1 .. n |-> md[classes[m][i]]]
  <1>1. n \in Nat /\ nodes \in [1 .. n -> Nodes] /\ Len(nodes) = n /\ DOMAIN classes[m] = 1 .. n
    OBVIOUS
  <1>2. sorted = ByRank(nodes, Len(nodes))
    BY Zenon DEF SortedNodes, ByRank, Rank, Below
  <1>3. NodesAt(classes[m], md) = nodes
    BY <1>1 DEF NodesAt
  <1>7. sorted = ByRank(nodes, n)
    <2> HIDE DEF nodes, n
    <2> QED  BY <1>1, <1>2
  <1>4. \A i \in 1 .. n : classes[m][i] \in Objects /\ nodes[i] = md[classes[m][i]]
    OBVIOUS
  <1> HIDE DEF n, nodes
  <1>5. /\ sorted \in Seq(Nodes) /\ Len(sorted) = n
        /\ Ascending(sorted)
        /\ \A x : Among(sorted, n, x) = Among(nodes, n, x)
    <2>1. n \in Nat /\ nodes \in [1 .. n -> Nodes]
      BY <1>1
    <2> QED  BY <1>7, <2>1, SortedByRank
  <1>6. \A k \in 1 .. n : \E o \in Objects : sorted[k] = md[o]
    <2> SUFFICES ASSUME NEW k \in 1 .. n PROVE \E o \in Objects : sorted[k] = md[o]
      OBVIOUS
    <2>1. \A i \in 1 .. n : nodes[i].address \in Nat
      <3>1. \A x \in Nodes : x.address \in Nat
        BY AddressAssumption DEF Nodes
      <3> QED  BY <1>1, <3>1
    <2>2. \E i \in 1 .. n : Rank(nodes, n, i) = k
      <3>1. n \in Nat
        BY <1>1
      <3> QED  BY <2>1, <3>1, RankIsPermutation, Zenon
    <2> DEFINE i == CHOOSE j \in 1 .. n : Rank(nodes, n, j) = k
    <2>3. i \in 1 .. n
      BY <2>2, Zenon
    <2>4. sorted[k] = nodes[i]
      BY <1>7, Zenon DEF ByRank
    <2> HIDE DEF i
    <2> QED  BY <1>4, <2>3, <2>4
  <1> QED  BY <1>3, <1>5, <1>6 DEF n

\* The nodes of the classes after the constructors ran.
Given(d, nodes, new, n) ==
    [o \in Objects |-> IF \E k \in 1 .. n : new[k] = o
                       THEN nodes[CHOOSE k \in 1 .. n : new[k] = o] ELSE d[o]]

LEMMA NodesGiven ==
    ASSUME NEW n \in Nat, NEW new \in [1 .. n -> Objects], NEW nodes, NEW d,
           \A i, j \in 1 .. n : new[i] = new[j] => i = j,
           NEW e, e = Given(d, nodes, new, n)
    PROVE  /\ \A k \in 1 .. n : e[new[k]] = nodes[k]
           /\ \A o \in Objects \ FirstOf(new, n) : e[o] = d[o]
  <1>1. ASSUME NEW k \in 1 .. n PROVE e[new[k]] = nodes[k]
    <2> DEFINE q == CHOOSE j \in 1 .. n : new[j] = new[k]
    <2>1. q \in 1 .. n /\ new[q] = new[k]
      <3>1. \E j \in 1 .. n : new[j] = new[k]
        OBVIOUS
      <3> QED  BY <3>1, Zenon
    <2>2. e[new[k]] = nodes[q]
      BY DEF Given
    <2> HIDE DEF q
    <2>3. q = k
      BY <2>1
    <2> QED  BY <2>2, <2>3
  <1>2. ASSUME NEW o \in Objects \ FirstOf(new, n) PROVE e[o] = d[o]
    <2>1. ~\E k \in 1 .. n : new[k] = o
      BY DEF FirstOf
    <2> QED  BY <2>1 DEF Given
  <1> QED  BY <1>1, <1>2

\* list followed by new, with nodes e, has the nodes that list has in d and then nodes.
Extended(list, d, new, nodes, n, e) ==
    /\ Len(list \o new) = Len(list) + n
    /\ \A x : Among(NodesAt(list \o new, e), Len(list) + n, x)
                = Among(NodesAt(list, d), Len(list), x) + Among(nodes, n, x)

LEMMA ConstructedNodes ==
    ASSUME NEW list \in Seq(Objects), NEW n \in Nat, NEW new \in [1 .. n -> Objects],
           \A i, j \in 1 .. n : new[i] = new[j] => i = j,
           \A i \in 1 .. Len(list), k \in 1 .. n : list[i] # new[k],
           NEW nodes, NEW d, NEW e, e = Given(d, nodes, new, n)
    PROVE  Extended(list, d, new, nodes, n, e)
  <1> DEFINE c == list \o new
             a == Len(list)
  <1>1. /\ a \in Nat /\ DOMAIN c = 1 .. a + n /\ Len(c) = a + n
        /\ \A i \in 1 .. a : c[i] = list[i] /\ i \in 1 .. a + n /\ list[i] \in Objects
        /\ \A k \in 1 .. n : c[a + k] = new[k] /\ a + k \in 1 .. a + n
        /\ DOMAIN list = 1 .. a
    <2>1. new \in Seq(Objects) /\ Len(new) = n
      OBVIOUS
    <2> QED  BY <2>1
  <1>2. \A i \in 1 .. a : list[i] \notin FirstOf(new, n)
    BY DEF FirstOf
  <1> HIDE DEF c, a
  <1>3. /\ \A k \in 1 .. n : e[new[k]] = nodes[k]
        /\ \A o \in Objects \ FirstOf(new, n) : e[o] = d[o]
    BY NodesGiven
  <1>4. \A i \in 1 .. a : NodesAt(c, e)[i] = NodesAt(list, d)[i]
    BY <1>1, <1>2, <1>3 DEF NodesAt
  <1>5. \A k \in 1 .. n : NodesAt(c, e)[a + k] = nodes[k]
    BY <1>1, <1>3 DEF NodesAt
  <1>6. ASSUME NEW x
        PROVE  Among(NodesAt(c, e), a + n, x) = Among(NodesAt(list, d), a, x) + Among(nodes, n, x)
    <2>1. Joined(NodesAt(c, e), NodesAt(list, d), a, nodes, n)
      BY <1>4, <1>5 DEF Joined
    <2> QED  BY <1>1, <2>1, AmongConcat
  <1> QED  BY <1>1, <1>6 DEF Extended, c, a

\* The branch of SyncWith that does not abort.
Merge(m, ops, nodes, new) ==
    /\ nodes = FirstOnly(ops, SortedNodes(m))
    /\ new \in Fresh(Len(nodes))
    /\ naming' = NamesAfter(m, nodes, new)
    /\ classes' = [classes EXCEPT ![m] = @ \o new]
    /\ md' = Given(md, nodes, new, Len(new))
    /\ operands' = [operands EXCEPT ![m] = ops]

Merging(m, ops) ==
    /\ Null \notin FirstOf(ops, Len(ops)) /\ aborted' = aborted
    /\ \E nodes, new : Merge(m, ops, nodes, new)

LEMMA SyncCases ==
    ASSUME NEW m, NEW ops, SyncWith(m, ops)
    PROVE  \/ aborted' = TRUE /\ UNCHANGED <<naming, classes, md, operands>>
           \/ Merging(m, ops)
  <1>1. CASE Null \in {ops[i] : i \in 1 .. Len(ops)}
    BY <1>1, Zenon DEF SyncWith
  <1>2. CASE Null \notin {ops[i] : i \in 1 .. Len(ops)}
    <2> DEFINE nodes == FirstOnly(ops, SortedNodes(m))
    <2>1. aborted' = aborted /\ \E new \in Fresh(Len(nodes)) : Merge(m, ops, nodes, new)
      BY <1>2, Zenon DEF SyncWith, Merge, Given
    <2> QED  BY <1>2, <2>1, Zenon DEF Merging, FirstOf
  <1> QED  BY <1>1, <1>2

\* What a merge begins with.
LEMMA MergeBegins ==
    ASSUME Registered, NEW m \in Modules, NEW ops \in Seq(Nodes \cup {Null}),
           Addressed(Known(md, operands) \cup FirstOf(ops, Len(ops))),
           Null \notin FirstOf(ops, Len(ops)), NEW sorted, sorted = SortedNodes(m)
    PROVE  /\ ops \in Seq(Nodes) /\ sorted \in Seq(Nodes) /\ Identify(ops, sorted)
           /\ Ascending(sorted)
           /\ \A x : Among(sorted, Len(sorted), x)
                        = Among(NodesAt(classes[m], md), Len(classes[m]), x)
  <1>1. /\ classes[m] \in Seq(Objects)
        /\ \A i \in 1 .. Len(classes[m]) : md[classes[m][i]] \in Nodes
    <2>1. /\ classes \in [Modules -> Seq(Objects)]
          /\ FirstOf(classes[m], Len(classes[m])) \subseteq naming.live
      BY DEF Registered, Agree
    <2>2. \A o \in naming.live : md[o] \in Nodes
      BY DEF Registered, Metadata
    <2>3. \A i \in 1 .. Len(classes[m]) : classes[m][i] \in naming.live
      BY <2>1 DEF FirstOf
    <2> QED  BY <2>1, <2>2, <2>3
  <1>2. /\ sorted \in Seq(Nodes) /\ Len(sorted) = Len(classes[m])
        /\ Ascending(sorted)
        /\ \A x : Among(sorted, Len(sorted), x)
                     = Among(NodesAt(classes[m], md), Len(classes[m]), x)
        /\ \A k \in 1 .. Len(sorted) : \E o \in Objects : sorted[k] = md[o]
    BY <1>1, SortedNodesOf
  <1>3. \A i \in 1 .. Len(ops) : ops[i] \in FirstOf(ops, Len(ops)) /\ ops[i] # Null
    BY DEF FirstOf
  <1>4. ops \in Seq(Nodes)
    <2>1. Len(ops) \in Nat /\ ops \in [1 .. Len(ops) -> Nodes \cup {Null}]
      OBVIOUS
    <2>2. ops \in [1 .. Len(ops) -> Nodes]
      BY <1>3, <2>1
    <2> QED  BY <2>1, <2>2
  <1>5. Identify(ops, sorted)
    <2> SUFFICES ASSUME NEW i \in 1 .. Len(ops), NEW j \in 1 .. Len(sorted),
                        ops[i].address = sorted[j].address
                 PROVE  ops[i] = sorted[j]
      BY DEF Identify
    <2>1. sorted[j] \in Known(md, operands)
      BY <1>2 DEF Known
    <2>2. sorted[j] \in Nodes
      BY <1>2
    <2>3. sorted[j] # Null
      BY <2>2, NullIsNoNode
    <2> QED  BY <1>3, <2>1, <2>3 DEF Addressed
  <1> QED  BY <1>2, <1>4, <1>5

LEMMA MergeKeeps ==
    ASSUME Registered, NEW m \in Modules, NEW ops \in Seq(Nodes \cup {Null}),
           Addressed(Known(md, operands) \cup FirstOf(ops, Len(ops))),
           Null \notin FirstOf(ops, Len(ops)), NEW nodes, NEW new, Merge(m, ops, nodes, new)
    PROVE  /\ Registered'
           /\ \A x : Among(NodesAt(classes'[m], md'), Len(classes'[m]), x)
                        = Among(NodesAt(classes[m], md), Len(classes[m]), x)
                          + Among(nodes, Len(nodes), x)
  <1> DEFINE sorted == SortedNodes(m)
             n      == Len(nodes)
             S      == FirstOf(ops, Len(ops))
             list   == classes[m]
  <1>1. /\ Agree(naming, classes) /\ Metadata(naming.live, classes, md, operands)
        /\ P!WellFormed(naming) /\ classes \in [Modules -> Seq(Objects)]
        /\ list \in Seq(Objects) /\ Len(list) \in Nat
    BY DEF Registered, Agree
  <1>2. /\ ops \in Seq(Nodes) /\ sorted \in Seq(Nodes) /\ Identify(ops, sorted)
        /\ \A x : Among(sorted, Len(sorted), x) = Among(NodesAt(list, md), Len(list), x)
    BY MergeBegins
  <1>3. /\ nodes = FirstOnly(ops, sorted) /\ new \in Fresh(n)
        /\ naming' = NamesAfter(m, nodes, new)
        /\ classes' = [classes EXCEPT ![m] = @ \o new]
        /\ md' = Given(md, nodes, new, Len(new))
        /\ operands' = [operands EXCEPT ![m] = ops]
    BY DEF Merge
  <1> HIDE DEF sorted, list
  <1>4. nodes \in Seq(S)
    BY <1>2, <1>3, Merged
  <1>5. \A x : Among(ops, Len(ops), x) <= Among(nodes, n, x) + Among(sorted, Len(sorted), x)
    BY <1>2, <1>3, Merged
  <1>6. /\ n \in Nat /\ \A k \in 1 .. n : nodes[k] \in S
        /\ S \subseteq Nodes
    <2>1. S \subseteq Nodes
      BY <1>2 DEF FirstOf
    <2> HIDE DEF S
    <2> QED  BY <1>4, <2>1
  <1> HIDE DEF n, S
  <1>7. /\ new \in [1 .. n -> Objects \ naming.live] /\ Len(new) = n
        /\ \A i, j \in 1 .. n : new[i] = new[j] => i = j
        /\ new \in [1 .. n -> Objects]
    BY <1>3, <1>6 DEF Fresh
  <1>8. \A k \in 1 .. n : nodes[k].name \in GivenNames \cup {EmptyName}
    <2>1. \A x \in Nodes : x.name \in GivenNames \cup {EmptyName}
      BY DEF Nodes
    <2> QED  BY <1>6, <2>1
  <1>9. Called(naming', naming.live \cup FirstOf(new, n), Moved(naming.table, FirstOf(new, n), m))
    BY <1>1, <1>3, <1>6, <1>8, NamesAfterCalled
  <1>10. Agree(naming', classes')
    BY <1>1, <1>3, <1>6, <1>7, <1>9, AgreeSynced
  <1>11. /\ \A k \in 1 .. n : md'[new[k]] = nodes[k]
         /\ \A o \in Objects \ FirstOf(new, n) : md'[o] = md[o]
         /\ md' = Given(md, nodes, new, n)
    BY <1>3, <1>6, <1>7, NodesGiven
  <1>12. /\ md \in [Objects -> Nodes \cup {Null}]
         /\ \A o \in naming.live : md[o] \in Nodes
         /\ operands \in [Modules -> Seq(Nodes \cup {Null})]
         /\ \A k \in Modules : Cover(operands[k], classes[k], md)
    BY <1>1 DEF Metadata
  <1>13. \A o \in Objects : md'[o] \in S \/ (md'[o] = md[o] /\ o \notin FirstOf(new, n))
    BY <1>6, <1>11 DEF FirstOf
  <1>14. md' \in [Objects -> Nodes \cup {Null}]
    <2>1. md' = [o \in Objects |-> md'[o]]
      BY <1>11 DEF Given
    <2>2. \A o \in Objects : md'[o] \in Nodes \cup {Null}
      BY <1>6, <1>12, <1>13
    <2> QED  BY <2>1, <2>2
  <1>15. \A o \in naming'.live : md'[o] \in Nodes
    <2>1. naming'.live = naming.live \cup FirstOf(new, n) /\ naming.live \subseteq Objects
      BY <1>1, <1>9, NamingType DEF Called
    <2>2. \A o \in FirstOf(new, n) : o \in Objects
      BY <1>7 DEF FirstOf
    <2> QED  BY <1>6, <1>12, <1>13, <2>1, <2>2
  <1>16. operands' \in [Modules -> Seq(Nodes \cup {Null})]
    BY <1>3, <1>12
  <1>17. Addressed(Known(md', operands'))
    <2>1. \A k \in Modules : FirstOf(operands'[k], Len(operands'[k])) \subseteq Known(md, operands) \cup S
      <3> SUFFICES ASSUME NEW k \in Modules
                   PROVE  FirstOf(operands'[k], Len(operands'[k])) \subseteq Known(md, operands) \cup S
        OBVIOUS
      <3>1. CASE k = m
        BY <1>3, <1>12, <3>1 DEF S
      <3>2. CASE k # m
        <4>1. operands'[k] = operands[k]
          BY <1>3, <1>12, <3>2
        <4> QED  BY <4>1 DEF Known
      <3> QED  BY <3>1, <3>2
    <2>2. \A o \in Objects : md'[o] \in Known(md, operands) \cup S
      BY <1>13 DEF Known
    <2>3. Known(md', operands') \subseteq Known(md, operands) \cup S
      BY <2>1, <2>2 DEF Known
    <2>4. Addressed(Known(md, operands) \cup S)
      BY DEF S
    <2> QED  BY <2>3, <2>4 DEF Addressed
  <1>18. \A i \in 1 .. Len(list), k \in 1 .. n : list[i] # new[k]
    <2>1. FirstOf(list, Len(list)) \subseteq naming.live
      BY <1>1 DEF Agree, list
    <2>2. \A i \in 1 .. Len(list) : list[i] \in naming.live
      BY <2>1 DEF FirstOf
    <2> QED  BY <1>7, <2>2
  <1>19. \A x : /\ Len(list \o new) = Len(list) + n
                /\ Among(NodesAt(list \o new, md'), Len(list) + n, x)
                      = Among(NodesAt(list, md), Len(list), x) + Among(nodes, n, x)
    <2>1. /\ list \in Seq(Objects) /\ n \in Nat /\ new \in [1 .. n -> Objects]
          /\ \A i, j \in 1 .. n : new[i] = new[j] => i = j
          /\ md' = Given(md, nodes, new, n)
      BY <1>1, <1>6, <1>7, <1>11
    <2>2. Extended(list, md, new, nodes, n, md')
      BY <1>18, <2>1, ConstructedNodes
    <2> QED  BY <2>2, Zenon DEF Extended
  <1>20. classes'[m] = list \o new /\ operands'[m] = ops
    BY <1>1, <1>3, <1>12 DEF list
  <1>21. \A x : Among(NodesAt(classes'[m], md'), Len(classes'[m]), x)
                  = Among(NodesAt(list, md), Len(list), x) + Among(nodes, n, x)
    BY <1>19, <1>20
  <1>22. \A k \in Modules : Cover(operands'[k], classes'[k], md')
    <2> SUFFICES ASSUME NEW k \in Modules PROVE Cover(operands'[k], classes'[k], md')
      OBVIOUS
    <2>1. CASE k = m
      <3>1. ASSUME NEW x PROVE Among(ops, Len(ops), x)
                                 <= Among(NodesAt(classes'[m], md'), Len(classes'[m]), x)
        <4>1. /\ Among(nodes, n, x) \in Nat
              /\ Among(NodesAt(list, md), Len(list), x) \in Nat
              /\ Among(ops, Len(ops), x) \in Nat
          <5>1. Len(ops) \in Nat
            OBVIOUS
          <5> QED  BY <1>1, <1>6, <5>1, PlacesFinite
        <4>2. Among(ops, Len(ops), x) <= Among(nodes, n, x) + Among(NodesAt(list, md), Len(list), x)
          BY <1>2, <1>5
        <4> QED  BY <1>21, <4>1, <4>2
      <3> QED  BY <1>20, <2>1, <3>1 DEF Cover
    <2>2. CASE k # m
      <3>1. operands'[k] = operands[k] /\ classes'[k] = classes[k] /\ classes[k] \in Seq(Objects)
        BY <1>1, <1>3, <1>12, <2>2
      <3>2. FirstOf(classes[k], Len(classes[k])) \subseteq naming.live
        BY <1>1 DEF Agree
      <3>3. \A i \in 1 .. Len(classes[k]) : classes[k][i] \in naming.live /\ classes[k][i] \in Objects
        BY <3>1, <3>2 DEF FirstOf
      <3>4. \A i \in 1 .. n : new[i] \notin naming.live
        BY <1>7
      <3>5. \A i \in 1 .. Len(classes[k]) : classes[k][i] \notin FirstOf(new, n)
        BY <3>3, <3>4 DEF FirstOf
      <3>6. \A i \in 1 .. Len(classes[k]) : md'[classes[k][i]] = md[classes[k][i]]
        BY <1>11, <3>3, <3>5
      <3>7. Cover(operands[k], classes[k], md)
        BY <1>12
      <3>8. Cover(operands[k], classes[k], md')
        BY <3>1, <3>6, <3>7, CoverFrame
      <3> QED  BY <3>1, <3>8
    <2> QED  BY <2>1, <2>2
  <1>23. Registered'
    BY <1>10, <1>14, <1>15, <1>16, <1>17, <1>22 DEF Registered, Metadata
  <1> QED  BY <1>21, <1>23 DEF list, n

LEMMA Synced ==
    ASSUME Registered, NEW m \in Modules, NEW ops \in Seq(Nodes \cup {Null}),
           Addressed(Known(md, operands) \cup FirstOf(ops, Len(ops))), SyncWith(m, ops)
    PROVE  Registered'
  <1>1. CASE aborted' = TRUE /\ UNCHANGED <<naming, classes, md, operands>>
    <2>1. naming' = naming /\ classes' = classes /\ md' = md /\ operands' = operands
      BY <1>1
    <2> QED  BY <2>1 DEF Registered
  <1>2. CASE Merging(m, ops)
    <2>1. PICK nodes, new : Merge(m, ops, nodes, new)
      BY <1>2 DEF Merging
    <2>2. Null \notin FirstOf(ops, Len(ops))
      BY <1>2 DEF Merging
    <2> QED  BY <2>1, <2>2, MergeKeeps
  <1> QED  BY <1>1, <1>2, SyncCases

----------------------------------------------------------------------------
(* What a call does to a class that is in no list.                         *)

LEMMA MetadataUnlisted ==
    ASSUME Registered, NEW o \in Objects,
           \A k \in Modules : o \notin FirstOf(classes[k], Len(classes[k])),
           NEW y \in Nodes \cup {Null}, NEW d, d = [md EXCEPT ![o] = y],
           y # Null => \A b \in Known(md, operands) \ {Null} : y.address = b.address => y = b,
           NEW live, live \subseteq naming.live \cup {o}, o \in live => y \in Nodes
    PROVE  Metadata(live, classes, d, operands)
  <1>1. /\ md \in [Objects -> Nodes \cup {Null}]
        /\ \A p \in naming.live : md[p] \in Nodes
        /\ operands \in [Modules -> Seq(Nodes \cup {Null})]
        /\ Addressed(Known(md, operands))
        /\ \A k \in Modules : Cover(operands[k], classes[k], md)
        /\ classes \in [Modules -> Seq(Objects)] /\ naming.live \subseteq Objects
    BY NamingType DEF Registered, Agree, Metadata
  <1>2. d \in [Objects -> Nodes \cup {Null}] /\ d[o] = y /\ \A p \in Objects \ {o} : d[p] = md[p]
    BY <1>1
  <1>3. \A p \in live : d[p] \in Nodes
    BY <1>1, <1>2
  <1>4. Addressed(Known(d, operands))
    <2>1. \A p \in Objects : d[p] \in Known(md, operands) \cup {y}
      BY <1>2 DEF Known
    <2>2. Known(d, operands) \subseteq Known(md, operands) \cup {y}
      BY <2>1 DEF Known
    <2> QED  BY <1>1, <2>2 DEF Addressed
  <1>5. ASSUME NEW k \in Modules PROVE Cover(operands[k], classes[k], d)
    <2>1. classes[k] \in Seq(Objects) /\ Cover(operands[k], classes[k], md)
      BY <1>1
    <2>2. \A i \in 1 .. Len(classes[k]) : classes[k][i] \in Objects /\ classes[k][i] # o
      BY <2>1 DEF FirstOf
    <2>3. \A i \in 1 .. Len(classes[k]) : d[classes[k][i]] = md[classes[k][i]]
      BY <1>2, <2>2
    <2> QED  BY <2>1, <2>3, CoverFrame
  <1> QED  BY <1>1, <1>2, <1>3, <1>4, <1>5 DEF Metadata

LEMMA UnlistedOutside ==
    ASSUME Registered, NEW o, o \notin naming.live \/ naming.table[o] = NoModule
    PROVE  \A k \in Modules : o \notin FirstOf(classes[k], Len(classes[k]))
  BY ModuleAssumption DEF Registered, Agree

LEMMA RenameKeeps ==
    ASSUME Registered, NEW o \in Objects, NEW name \in GivenNames \cup {EmptyName}, Rename(o, name)
    PROVE  Registered'
  <1>1. /\ naming' = Names!SetName(naming, o, name) /\ o \in naming.live
        /\ classes' = classes /\ md' = md /\ operands' = operands
    BY DEF Rename
  <1>2. P!WellFormed(naming) /\ Agree(naming, classes)
    BY DEF Registered, Agree
  <1>3. Called(naming', naming.live, naming.table)
    BY <1>1, <1>2, NamedCalled
  <1>4. Agree(naming', classes)
    BY <1>2, <1>3, AgreeUnlisted
  <1>5. naming'.live = naming.live
    BY <1>3 DEF Called
  <1> QED  BY <1>1, <1>4, <1>5 DEF Registered

LEMMA DeleteKeeps ==
    ASSUME Registered, NEW o \in Objects, Delete(o)
    PROVE  Registered'
  <1>1. /\ naming' = Names!Destroy(naming, o) /\ o \in naming.live
        /\ naming.table[o] = NoModule
        /\ classes' = classes /\ md' = [md EXCEPT ![o] = Null] /\ operands' = operands
    BY DEF Delete
  <1>2. P!WellFormed(naming) /\ Agree(naming, classes)
    BY DEF Registered, Agree
  <1>3. Called(naming', naming.live \ {o}, naming.table)
    BY <1>1, <1>2, DestroyedCalled
  <1>4. Agree(naming', classes)
    <2>1. \A p \in Objects, m \in Modules :
             (p \in naming.live \ {o} /\ naming.table[p] = m)
                <=> (p \in naming.live /\ naming.table[p] = m)
      BY <1>1, ModuleAssumption
    <2> QED  BY <1>2, <1>3, <2>1, AgreeUnlisted
  <1>5. naming'.live = naming.live \ {o}
    BY <1>3 DEF Called
  <1>6. \A k \in Modules : o \notin FirstOf(classes[k], Len(classes[k]))
    BY <1>1, UnlistedOutside
  <1>7. Metadata(naming'.live, classes, md', operands)
    <2> DEFINE live == naming.live \ {o}
               d    == [md EXCEPT ![o] = Null]
    <2>1. live \subseteq naming.live \cup {o} /\ o \notin live
      OBVIOUS
    <2> HIDE DEF live
    <2>2. Metadata(live, classes, d, operands)
      BY <1>6, <2>1, MetadataUnlisted
    <2> QED  BY <1>1, <1>5, <2>2 DEF live
  <1> QED  BY <1>1, <1>4, <1>7 DEF Registered

\* The constructor names the class, which has a node already, before it joins a list.
LEMMA CreatedUnlisted ==
    ASSUME Registered, NEW o \in Objects, o \notin naming.live,
           NEW name \in GivenNames \cup {EmptyName}, NEW node \in NodesFor(name),
           NEW st, st = Names!SetName(Names!Construct(naming, o), o, name)
    PROVE  /\ Agree(st, classes) /\ st.live = naming.live \cup {o} /\ st.table[o] = NoModule
           /\ Metadata(st.live, classes, [md EXCEPT ![o] = node], operands)
           /\ node \in Nodes /\ md \in [Objects -> Nodes \cup {Null}]
  <1> DEFINE c == Names!Construct(naming, o)
  <1>1. P!WellFormed(naming) /\ Agree(naming, classes)
    BY DEF Registered, Agree
  <1>2. Called(c, naming.live \cup {o}, [naming.table EXCEPT ![o] = NoModule])
    BY <1>1, ConstructedCalled
  <1> HIDE DEF c
  <1>3. /\ P!WellFormed(c) /\ c.live = naming.live \cup {o}
        /\ c.table = [naming.table EXCEPT ![o] = NoModule]
    BY <1>2 DEF Called
  <1>4. o \in c.live /\ st = Names!SetName(c, o, name)
    BY <1>3 DEF c
  <1>5. Called(st, c.live, c.table)
    BY <1>3, <1>4, NamedCalled
  <1>6. /\ st.live = naming.live \cup {o} /\ st.table = [naming.table EXCEPT ![o] = NoModule]
        /\ naming.table \in [Objects -> Modules \cup {NoModule}]
    BY <1>1, <1>3, <1>5, NamingType DEF Called
  <1>7. Agree(st, classes)
    <2>1. Called(st, naming.live \cup {o}, [naming.table EXCEPT ![o] = NoModule])
      BY <1>3, <1>5
    <2>2. \A p \in Objects, m \in Modules :
             (p \in naming.live \cup {o} /\ [naming.table EXCEPT ![o] = NoModule][p] = m)
                <=> (p \in naming.live /\ naming.table[p] = m)
      BY <1>6, ModuleAssumption
    <2> DEFINE live  == naming.live \cup {o}
               table == [naming.table EXCEPT ![o] = NoModule]
    <2> HIDE DEF live, table
    <2>3. /\ Called(st, live, table)
          /\ \A p \in Objects, m \in Modules :
                (p \in live /\ table[p] = m) <=> (p \in naming.live /\ naming.table[p] = m)
      BY <2>1, <2>2 DEF live, table
    <2> QED  BY <1>1, <2>3, AgreeUnlisted
  <1>8. \A k \in Modules : o \notin FirstOf(classes[k], Len(classes[k]))
    BY UnlistedOutside
  <1>9. /\ node \in Nodes
        /\ \A b \in Known(md, operands) \ {Null} : node.address = b.address => node = b
    BY NodesForAddressed DEF Registered, Metadata
  <1>10. Metadata(st.live, classes, [md EXCEPT ![o] = node], operands)
    BY <1>6, <1>8, <1>9, MetadataUnlisted
  <1>11. md \in [Objects -> Nodes \cup {Null}]
    BY DEF Registered, Metadata
  <1> QED  BY <1>6, <1>7, <1>9, <1>10, <1>11

----------------------------------------------------------------------------
(* Classes that join a list and leave it.                                  *)

LEMMA FirstOfAppend ==
    ASSUME NEW N, NEW s \in Seq(N), NEW y
    PROVE  FirstOf(Append(s, y), Len(Append(s, y))) = FirstOf(s, Len(s)) \cup {y}
  <1> DEFINE a == Append(s, y)
             n == Len(s)
  <1>1. /\ n \in Nat /\ Len(a) = n + 1 /\ a[n + 1] = y
        /\ \A i \in 1 .. n : a[i] = s[i]
    OBVIOUS
  <1> HIDE DEF a, n
  <1>2. FirstOf(a, n + 1) = FirstOf(a, n) \cup {y}
    BY <1>1, FirstGrows
  <1>3. FirstOf(a, n) = FirstOf(s, n)
    BY <1>1 DEF FirstOf
  <1> QED  BY <1>1, <1>2, <1>3 DEF a, n

LEMMA Joining ==
    ASSUME NEW st, Agree(st, classes), NEW d, Metadata(st.live, classes, d, operands),
           NEW m \in Modules, NEW o \in st.live, st.table[o] = NoModule,
           NEW node, node = d[o], Join(o, m, st, node), md' = d
    PROVE  Registered'
  <1>1. /\ naming' = Names!SetSymbolTable(st, o, m)
        /\ classes' = [classes EXCEPT ![m] = Append(@, o)]
        /\ operands' = [operands EXCEPT ![m] = Append(@, node)]
    BY DEF Join
  <1>2. P!WellFormed(st) /\ classes \in [Modules -> Seq(Objects)]
    BY DEF Agree
  <1>3. Called(naming', st.live, [st.table EXCEPT ![o] = m])
    BY <1>1, <1>2, MovedCalled
  <1>4. Agree(naming', classes')
    BY <1>1, <1>3, AgreeJoining
  <1>5. /\ d \in [Objects -> Nodes \cup {Null}] /\ \A p \in st.live : d[p] \in Nodes
        /\ operands \in [Modules -> Seq(Nodes \cup {Null})]
        /\ Addressed(Known(d, operands))
        /\ \A k \in Modules : Cover(operands[k], classes[k], d)
        /\ o \in Objects /\ node \in Nodes
    BY <1>2, NamingType DEF Metadata
  <1>6. operands' \in [Modules -> Seq(Nodes \cup {Null})]
    BY <1>1, <1>5
  <1>7. Addressed(Known(d, operands'))
    <2>1. ASSUME NEW k \in Modules
          PROVE  FirstOf(operands'[k], Len(operands'[k])) \subseteq Known(d, operands)
      <3>1. FirstOf(operands[k], Len(operands[k])) \subseteq Known(d, operands)
        BY DEF Known
      <3>2. node \in Known(d, operands)
        BY <1>5 DEF Known
      <3>3. CASE k = m
        <4>1. operands'[k] = Append(operands[k], node) /\ operands[k] \in Seq(Nodes \cup {Null})
          BY <1>1, <1>5, <3>3
        <4> QED  BY <3>1, <3>2, <4>1, FirstOfAppend
      <3>4. CASE k # m
        <4>1. operands'[k] = operands[k]
          BY <1>1, <1>5, <3>4
        <4> QED  BY <3>1, <4>1
      <3> QED  BY <3>3, <3>4
    <2>2. Known(d, operands') \subseteq Known(d, operands)
      BY <2>1 DEF Known
    <2> QED  BY <1>5, <2>2 DEF Addressed
  <1>8. ASSUME NEW k \in Modules PROVE Cover(operands'[k], classes'[k], d)
    <2>1. /\ Cover(operands[k], classes[k], d)
          /\ operands[k] \in Seq(Nodes \cup {Null}) /\ classes[k] \in Seq(Objects)
      BY <1>2, <1>5
    <2>2. CASE k = m
      <3>1. operands'[k] = Append(operands[k], node) /\ classes'[k] = Append(classes[k], o)
        BY <1>1, <1>2, <1>5, <2>2
      <3> QED  BY <1>5, <2>1, <3>1, CoverJoining
    <2>3. CASE k # m
      <3>1. operands'[k] = operands[k] /\ classes'[k] = classes[k]
        BY <1>1, <1>2, <1>5, <2>3
      <3> QED  BY <2>1, <3>1
    <2> QED  BY <2>2, <2>3
  <1>9. naming'.live = st.live
    BY <1>3 DEF Called
  <1> QED  BY <1>4, <1>5, <1>6, <1>7, <1>8, <1>9 DEF Registered, Metadata

LEMMA CreateKeeps ==
    ASSUME Registered, NEW o \in Objects, NEW name \in GivenNames \cup {EmptyName},
           NEW m \in Modules \cup {NoModule}, Create(o, name, m)
    PROVE  Registered'
  <1>1. o \notin naming.live
    BY DEF Create
  <1> DEFINE st == Names!SetName(Names!Construct(naming, o), o, name)
  <1>2. PICK node \in NodesFor(name) :
           /\ md' = [md EXCEPT ![o] = node]
           /\ \/ m = NoModule /\ naming' = st /\ classes' = classes /\ operands' = operands
              \/ m # NoModule /\ Join(o, m, st, node)
    BY Zenon DEF Create
  <1> DEFINE d == [md EXCEPT ![o] = node]
  <1>3. /\ Agree(st, classes) /\ st.live = naming.live \cup {o} /\ st.table[o] = NoModule
        /\ Metadata(st.live, classes, d, operands)
        /\ node \in Nodes /\ md \in [Objects -> Nodes \cup {Null}]
    <2> HIDE DEF st
    <2>1. st = Names!SetName(Names!Construct(naming, o), o, name)
      BY DEF st
    <2> QED  BY <1>1, <2>1, CreatedUnlisted
  <1>4. d[o] = node /\ md' = d
    BY <1>2, <1>3
  <1> HIDE DEF st, d
  <1>5. CASE naming' = st /\ classes' = classes /\ operands' = operands
    BY <1>3, <1>4, <1>5 DEF Registered
  <1>6. CASE m # NoModule /\ Join(o, m, st, node)
    <2>1. o \in st.live /\ m \in Modules
      BY <1>3, <1>6
    <2> QED  BY <1>3, <1>4, <1>6, <2>1, Joining
  <1> QED  BY <1>2, <1>5, <1>6

LEMMA InsertKeeps ==
    ASSUME Registered, NEW o \in Objects, NEW m \in Modules, Insert(o, m)
    PROVE  Registered'
  <1>1. /\ o \in naming.live /\ naming.table[o] = NoModule /\ Join(o, m, naming, md[o])
        /\ md' = md
    BY DEF Insert
  <1>2. Agree(naming, classes) /\ Metadata(naming.live, classes, md, operands)
    BY DEF Registered
  <1> QED  BY <1>1, <1>2, Joining

LEMMA LeavingKeeps ==
    ASSUME Registered, NEW m \in Modules, NEW o \in FirstOf(classes[m], Len(classes[m])),
           NEW live, live = naming.live \/ live = naming.live \ {o},
           NEW r, Called(r, live, [naming.table EXCEPT ![o] = NoModule]), Leave(o, m, r),
           NEW d, d = md \/ (d = [md EXCEPT ![o] = Null] /\ o \notin live), md' = d
    PROVE  Registered'
  <1>1. /\ naming' = r
        /\ classes' = [classes EXCEPT ![m] = Without(@, o)]
        /\ operands' = [operands EXCEPT ![m] = Punched(@, md[o])]
    BY DEF Leave
  <1>2. /\ Agree(naming, classes) /\ P!WellFormed(naming)
        /\ classes \in [Modules -> Seq(Objects)]
        /\ naming.live \subseteq Objects
        /\ \A k \in Modules :
              /\ \A i, j \in 1 .. Len(classes[k]) : classes[k][i] = classes[k][j] => i = j
              /\ FirstOf(classes[k], Len(classes[k])) = {p \in naming.live : naming.table[p] = k}
    BY NamingType DEF Registered, Agree
  <1>3. /\ md \in [Objects -> Nodes \cup {Null}] /\ \A p \in naming.live : md[p] \in Nodes
        /\ operands \in [Modules -> Seq(Nodes \cup {Null})]
        /\ Addressed(Known(md, operands))
        /\ \A k \in Modules : Cover(operands[k], classes[k], md)
    BY DEF Registered, Metadata
  <1>4. Agree(naming', classes')
    <2>1. Agree(r, [classes EXCEPT ![m] = Without(@, o)])
      <3>1. Agree(naming, classes)
        BY <1>2
      <3> QED  BY <3>1, AgreeLeaving
    <2> QED  BY <1>1, <2>1
  <1>5. naming'.live = live /\ live \subseteq naming.live
    BY <1>1 DEF Called
  <1>6. o \in naming.live /\ naming.table[o] = m /\ o \in Objects /\ md[o] \in Nodes /\ md[o] # Null
    BY <1>2, <1>3, NullIsNoNode
  <1>7. /\ d \in [Objects -> Nodes \cup {Null}]
        /\ \A p \in Objects \ {o} : d[p] = md[p]
        /\ d[o] \in {md[o], Null} /\ (o \in live => d[o] = md[o])
    <2>1. CASE d = md
      BY <1>3, <2>1
    <2>2. CASE d = [md EXCEPT ![o] = Null] /\ o \notin live
      BY <1>3, <1>6, <2>2
    <2> QED  BY <2>1, <2>2
  <1>8. \A p \in live : d[p] \in Nodes
    BY <1>2, <1>3, <1>5, <1>7
  <1>9. /\ Punched(operands[m], md[o]) \in Seq(Nodes \cup {Null})
        /\ FirstOf(Punched(operands[m], md[o]), Len(Punched(operands[m], md[o])))
              \subseteq FirstOf(operands[m], Len(operands[m])) \cup {Null}
    <2>1. operands[m] \in Seq(Nodes \cup {Null})
      BY <1>3
    <2> DEFINE N == Nodes \cup {Null}
               q == Punched(operands[m], md[o])
    <2>2. q \in Seq(N \cup {Null}) /\ FirstOf(q, Len(q)) \subseteq FirstOf(operands[m], Len(operands[m])) \cup {Null}
      <3> HIDE DEF N, q
      <3>1. operands[m] \in Seq(N) /\ q = Punched(operands[m], md[o])
        BY <2>1 DEF N, q
      <3> QED  BY <1>6, <3>1, PunchedOperands
    <2>3. N \cup {Null} = N
      OBVIOUS
    <2> QED  BY <2>2, <2>3
  <1>10. operands' \in [Modules -> Seq(Nodes \cup {Null})]
    BY <1>1, <1>3, <1>9
  <1>11. Addressed(Known(d, operands'))
    <2>1. ASSUME NEW k \in Modules
          PROVE  FirstOf(operands'[k], Len(operands'[k])) \subseteq Known(md, operands) \cup {Null}
      <3>1. FirstOf(operands[k], Len(operands[k])) \subseteq Known(md, operands)
        BY DEF Known
      <3>2. CASE k = m
        <4>1. operands'[k] = Punched(operands[m], md[o])
          BY <1>1, <1>3, <3>2
        <4> QED  BY <1>9, <3>1, <3>2, <4>1
      <3>3. CASE k # m
        <4>1. operands'[k] = operands[k]
          BY <1>1, <1>3, <3>3
        <4> QED  BY <3>1, <4>1
      <3> QED  BY <3>2, <3>3
    <2>2. \A p \in Objects : d[p] \in Known(md, operands) \cup {Null}
      BY <1>7 DEF Known
    <2>3. Known(d, operands') \subseteq Known(md, operands) \cup {Null}
      BY <2>1, <2>2 DEF Known
    <2> QED  BY <1>3, <2>3 DEF Addressed
  <1>12. ASSUME NEW k \in Modules PROVE Cover(operands'[k], classes'[k], d)
    <2>1. /\ Cover(operands[k], classes[k], md)
          /\ operands[k] \in Seq(Nodes \cup {Null}) /\ classes[k] \in Seq(Objects)
          /\ Len(classes[k]) \in Nat /\ classes[k] \in [1 .. Len(classes[k]) -> Objects]
      BY <1>2, <1>3
    <2>2. CASE k = m
      <3> DEFINE l == classes[m]
                 w == Without(l, o)
                 n == Len(l)
      <3>1. operands'[k] = Punched(operands[m], md[o]) /\ classes'[k] = w
        BY <1>1, <1>2, <1>3, <2>2
      <3>2. /\ n \in Nat /\ l \in [1 .. n -> Objects] /\ o \in FirstOf(l, n)
            /\ \A i, j \in 1 .. n : l[i] = l[j] => i = j
            /\ Cover(operands[m], l, md) /\ operands[m] \in Seq(Nodes \cup {Null})
        BY <1>2, <2>1, <2>2
      <3> HIDE DEF n, l
      <3>3. /\ w \in [1 .. n - 1 -> Objects] /\ n - 1 \in Nat
            /\ FirstOf(w, n - 1) = FirstOf(l, n) \ {o}
        BY <3>2, Leaving
      <3>4. Cover(Punched(operands[m], md[o]), w, md)
        BY <1>6, <3>2, CoverLeaving
      <3> HIDE DEF w
      <3>5. w \in Seq(Objects) /\ Len(w) = n - 1
        BY <3>3
      <3>6. \A i \in 1 .. Len(w) : w[i] \in Objects \ {o}
        <4>1. \A i \in 1 .. n - 1 : w[i] \in FirstOf(w, n - 1)
          BY DEF FirstOf
        <4> QED  BY <3>3, <3>5, <4>1
      <3>7. \A i \in 1 .. Len(w) : d[w[i]] = md[w[i]]
        BY <1>7, <3>6
      <3> QED  BY <3>1, <3>4, <3>5, <3>7, CoverFrame
    <2>3. CASE k # m
      <3>1. operands'[k] = operands[k] /\ classes'[k] = classes[k]
        BY <1>1, <1>2, <1>3, <2>3
      <3>2. o \notin FirstOf(classes[k], Len(classes[k]))
        BY <1>2, <1>6, <2>3
      <3>3. \A i \in 1 .. Len(classes[k]) : classes[k][i] \in Objects \ {o}
        BY <2>1, <3>2 DEF FirstOf
      <3>4. \A i \in 1 .. Len(classes[k]) : d[classes[k][i]] = md[classes[k][i]]
        BY <1>7, <3>3
      <3> QED  BY <2>1, <3>1, <3>4, CoverFrame
    <2> QED  BY <2>2, <2>3
  <1> QED  BY <1>4, <1>5, <1>7, <1>8, <1>10, <1>11, <1>12 DEF Registered, Metadata

LEMMA ListedAre ==
    ASSUME NEW m
    PROVE  ListedIn(m) = FirstOf(classes[m], Len(classes[m]))
  BY DEF ListedIn, FirstOf

LEMMA RemoveKeeps ==
    ASSUME Registered, NEW o \in Objects, NEW m \in Modules, Remove(o, m)
    PROVE  Registered'
  <1> DEFINE r == Names!SetSymbolTable(naming, o, NoModule)
  <1>1. /\ o \in FirstOf(classes[m], Len(classes[m]))
        /\ Leave(o, m, r) /\ md' = md
    BY ListedAre DEF Remove
  <1>2. P!WellFormed(naming) /\ o \in naming.live
    BY <1>1 DEF Registered, Agree
  <1>3. Called(r, naming.live, [naming.table EXCEPT ![o] = NoModule])
    BY <1>2, MovedCalled
  <1> HIDE DEF r
  <1> QED  BY <1>1, <1>3, LeavingKeeps

LEMMA EraseKeeps ==
    ASSUME Registered, NEW o \in Objects, NEW m \in Modules, Erase(o, m)
    PROVE  Registered'
  <1> DEFINE r == Names!Destroy(Names!SetSymbolTable(naming, o, NoModule), o)
             d == [md EXCEPT ![o] = Null]
             live == naming.live \ {o}
  <1>1. /\ o \in FirstOf(classes[m], Len(classes[m]))
        /\ Leave(o, m, r) /\ md' = d
    BY ListedAre DEF Erase
  <1>2. P!WellFormed(naming) /\ o \in naming.live
    BY <1>1 DEF Registered, Agree
  <1>3. Called(r, live, [naming.table EXCEPT ![o] = NoModule]) /\ o \notin live
    BY <1>2, ErasedCalled
  <1>4. d = [md EXCEPT ![o] = Null] /\ live = naming.live \ {o}
    OBVIOUS
  <1> HIDE DEF r, d, live
  <1> QED  BY <1>1, <1>3, <1>4, LeavingKeeps

----------------------------------------------------------------------------
(* Modules that come and go.                                               *)

LEMMA CloseKeeps ==
    ASSUME Registered, NEW m \in Modules, Close(m)
    PROVE  Registered'
  <1> DEFINE list  == classes[m]
             n     == Len(list)
             S     == FirstOf(list, n)
             after == CHOOSE f : Clearings(f, n, list)
  <1>1. /\ naming' = [after[n] EXCEPT !.lastUnique[m] = 0]
        /\ classes' = [classes EXCEPT ![m] = <<>>]
        /\ md' = [o \in Objects |-> IF o \in ListedIn(m) THEN Null ELSE md[o]]
        /\ operands' = [operands EXCEPT ![m] = <<>>]
    BY Zenon DEF Close, Clearings, Clearing
  <1>2. /\ Agree(naming, classes) /\ P!WellFormed(naming)
        /\ classes \in [Modules -> Seq(Objects)] /\ naming.live \subseteq Objects
        /\ \A k \in Modules :
              /\ \A i, j \in 1 .. Len(classes[k]) : classes[k][i] = classes[k][j] => i = j
              /\ FirstOf(classes[k], Len(classes[k])) = {p \in naming.live : naming.table[p] = k}
    BY NamingType DEF Registered, Agree
  <1>3. /\ md \in [Objects -> Nodes \cup {Null}] /\ \A p \in naming.live : md[p] \in Nodes
        /\ operands \in [Modules -> Seq(Nodes \cup {Null})]
        /\ Addressed(Known(md, operands))
        /\ \A k \in Modules : Cover(operands[k], classes[k], md)
    BY DEF Registered, Metadata
  <1>4. n \in Nat /\ list \in [1 .. n -> Objects] /\ S \subseteq naming.live
    BY <1>2
  <1>5. Clearings(after, n, list)
    <2>1. \E f : Clearings(f, n, list)
      BY <1>4, ClearingsExist
    <2> QED  BY <2>1, Zenon
  <1>6. \A i, j \in 1 .. n : list[i] = list[j] => i = j
    BY <1>2
  <1>7. ListedIn(m) = S
    BY ListedAre
  <1> HIDE DEF after
  <1>8. Called(after[n], naming.live \ S, Moved(naming.table, S, NoModule))
    <2> HIDE DEF list, n
    <2>1. list \in [1 .. n -> naming.live]
      <3>1. \A i \in 1 .. n : list[i] \in naming.live
        BY <1>4 DEF FirstOf
      <3> QED  BY <1>4, <3>1
    <2> QED  BY <1>2, <1>4, <1>5, <1>6, <2>1, ClearedCalled
  <1>9. Called(naming', naming.live \ S, Moved(naming.table, S, NoModule))
    <2> DEFINE c == after[n]
    <2>1. P!WellFormed(c) /\ c.live = naming.live \ S /\ c.table = Moved(naming.table, S, NoModule)
      BY <1>8 DEF Called
    <2> HIDE DEF c
    <2>2. Called([c EXCEPT !.lastUnique[m] = 0], c.live, c.table)
      BY <2>1, RecountedCalled
    <2> QED  BY <1>1, <2>1, <2>2 DEF c
  <1>10. Agree(naming', classes')
    <2>1. S = FirstOf(classes[m], Len(classes[m]))
      OBVIOUS
    <2> HIDE DEF S
    <2> QED  BY <1>1, <1>2, <1>9, <2>1, AgreeCleared
  <1>11. naming'.live = naming.live \ S
    BY <1>9 DEF Called
  <1>12. /\ md' \in [Objects -> Nodes \cup {Null}]
         /\ \A p \in Objects \ S : md'[p] = md[p]
         /\ \A p \in Objects : md'[p] \in {md[p], Null}
    <2> HIDE DEF S
    <2> QED  BY <1>1, <1>3, <1>7
  <1>13. operands' \in [Modules -> Seq(Nodes \cup {Null})] /\ operands'[m] = <<>>
    BY <1>1, <1>3
  <1>14. Addressed(Known(md', operands'))
    <2>1. \A k \in Modules : FirstOf(operands'[k], Len(operands'[k])) \subseteq Known(md, operands)
      <3> SUFFICES ASSUME NEW k \in Modules
                   PROVE  FirstOf(operands'[k], Len(operands'[k])) \subseteq Known(md, operands)
        OBVIOUS
      <3>1. CASE k = m
        <4>1. FirstOf(<<>>, Len(<<>>)) = {}
          BY DEF FirstOf
        <4> QED  BY <1>13, <3>1, <4>1
      <3>2. CASE k # m
        <4>1. operands'[k] = operands[k]
          BY <1>1, <1>3, <3>2
        <4> QED  BY <4>1 DEF Known
      <3> QED  BY <3>1, <3>2
    <2>2. \A p \in Objects : md'[p] \in Known(md, operands) \cup {Null}
      BY <1>12 DEF Known
    <2>3. Known(md', operands') \subseteq Known(md, operands) \cup {Null}
      BY <2>1, <2>2 DEF Known
    <2> QED  BY <1>3, <2>3 DEF Addressed
  <1>15. ASSUME NEW k \in Modules PROVE Cover(operands'[k], classes'[k], md')
    <2>1. CASE k = m
      <3>1. operands'[k] = <<>> /\ classes'[k] = <<>> /\ Len(<<>>) = 0
        BY <1>1, <1>2, <1>13, <2>1
      <3>2. \A x : Among(<<>>, 0, x) = 0 /\ Among(NodesAt(<<>>, md'), 0, x) = 0
        BY AmongNone
      <3> QED  BY <3>1, <3>2 DEF Cover
    <2>2. CASE k # m
      <3>1. /\ operands'[k] = operands[k] /\ classes'[k] = classes[k]
            /\ classes[k] \in Seq(Objects) /\ Cover(operands[k], classes[k], md)
        BY <1>1, <1>2, <1>3, <2>2
      <3>2. FirstOf(classes[k], Len(classes[k])) \cap S = {}
        BY <1>2, <2>2
      <3>3. ASSUME NEW i \in 1 .. Len(classes[k]) PROVE classes[k][i] \in Objects \ S
        <4>1. classes[k][i] \in FirstOf(classes[k], Len(classes[k]))
          BY DEF FirstOf
        <4>2. classes[k][i] \in Objects
          BY <3>1
        <4> QED  BY <3>2, <4>1, <4>2
      <3>4. \A i \in 1 .. Len(classes[k]) : md'[classes[k][i]] = md[classes[k][i]]
        BY <1>12, <3>3
      <3> QED  BY <3>1, <3>4, CoverFrame
    <2> QED  BY <2>1, <2>2
  <1>16. \A p \in naming'.live : md'[p] \in Nodes
    BY <1>2, <1>3, <1>11, <1>12
  <1> QED  BY <1>10, <1>12, <1>13, <1>14, <1>15, <1>16 DEF Registered, Metadata

----------------------------------------------------------------------------
(* The calls that sync.                                                    *)

\* A call syncs m's metadata with operands of which those that have one address are one.
Syncing(m) ==
    \E ops \in Seq(Nodes \cup {Null}) :
        /\ Addressed(Known(md, operands) \cup FirstOf(ops, Len(ops)))
        /\ SyncWith(m, ops)

Ending == aborted' = TRUE /\ UNCHANGED <<naming, classes, md, operands>>

LEMMA SyncingKeeps ==
    ASSUME Registered, NEW m \in Modules, Syncing(m) \/ Ending
    PROVE  Registered'
  <1>1. CASE Syncing(m)
    <2>1. PICK ops \in Seq(Nodes \cup {Null}) :
             /\ Addressed(Known(md, operands) \cup FirstOf(ops, Len(ops)))
             /\ SyncWith(m, ops)
      BY <1>1 DEF Syncing
    <2> QED  BY <2>1, Synced
  <1>2. CASE Ending
    <2>1. naming' = naming /\ classes' = classes /\ md' = md /\ operands' = operands
      BY <1>2 DEF Ending
    <2> QED  BY <2>1 DEF Registered
  <1> QED  BY <1>1, <1>2

LEMMA KnownAddressed == Registered => Addressed(Known(md, operands))
  BY DEF Registered, Metadata

LEMMA OpenLoadedSyncs ==
    ASSUME Registered, NEW m \in Modules, OpenLoaded(m)
    PROVE  Syncing(m)
  <1> DEFINE New == {node \in Nodes : node.address \in UnusedAddresses}
  <1>0. PICK n \in 1 .. MaxOperands : \E ops \in [1 .. n -> New] :
           /\ \A i, j \in 1 .. n : ops[i].address = ops[j].address => i = j
           /\ SyncWith(m, ops)
    BY DEF OpenLoaded
  <1>1. PICK ops \in [1 .. n -> New] :
           /\ \A i, j \in 1 .. n : ops[i].address = ops[j].address => i = j
           /\ SyncWith(m, ops)
    BY <1>0
  <1>2. n \in Nat
    BY AddressAssumption
  <1>3. \A i \in 1 .. n : ops[i] \in Nodes /\ ops[i].address \in UnusedAddresses
    OBVIOUS
  <1>4. ops \in [1 .. n -> Nodes \cup {Null}]
    BY <1>3
  <1>5. ops \in Seq(Nodes \cup {Null}) /\ Len(ops) = n
    BY <1>2, <1>4
  <1>6. Addressed(Known(md, operands) \cup FirstOf(ops, Len(ops)))
    <2> DEFINE K == Known(md, operands)
               N == FirstOf(ops, n)
    <2>1. Addressed(N)
      BY <1>1 DEF Addressed, FirstOf
    <2>2. \A a \in N : a.address \in UnusedAddresses
      BY <1>3 DEF FirstOf
    <2>3. \A b \in K \ {Null} : b.address \notin UnusedAddresses
      BY KnownNodesAre DEF UnusedAddresses
    <2>4. \A a \in N \ {Null} : \A b \in K \ {Null} : a.address = b.address => a = b
      BY <2>2, <2>3
    <2> HIDE DEF K, N
    <2>5. Addressed(K)
      BY KnownAddressed DEF K
    <2>6. Addressed(K \cup N)
      BY <2>1, <2>4, <2>5 DEF Addressed
    <2> QED  BY <1>5, <2>6 DEF K, N
  <1> QED  BY <1>1, <1>5, <1>6 DEF Syncing

LEMMA OperandsKnown ==
    ASSUME Registered, NEW m \in Modules
    PROVE  /\ operands[m] \in Seq(Nodes \cup {Null})
           /\ FirstOf(operands[m], Len(operands[m])) \subseteq Known(md, operands)
  BY DEF Registered, Metadata, Known

LEMMA SyncSyncs ==
    ASSUME Registered, NEW m \in Modules, Sync(m)
    PROVE  Syncing(m)
  <1>1. Known(md, operands) \cup FirstOf(operands[m], Len(operands[m])) = Known(md, operands)
    BY OperandsKnown
  <1>2. SyncWith(m, operands[m])
    BY DEF Sync
  <1> DEFINE ops == operands[m]
  <1>3. /\ ops \in Seq(Nodes \cup {Null}) /\ SyncWith(m, ops)
        /\ Addressed(Known(md, operands) \cup FirstOf(ops, Len(ops)))
    BY <1>1, <1>2, KnownAddressed, OperandsKnown
  <1> HIDE DEF ops
  <1> QED  BY <1>3 DEF Syncing

\* Operands that follow those of a list.
LEMMA FirstOfConcat ==
    ASSUME NEW N, NEW s \in Seq(N), NEW t \in Seq(N)
    PROVE  s \o t \in Seq(N) /\ FirstOf(s \o t, Len(s \o t)) = FirstOf(s, Len(s)) \cup FirstOf(t, Len(t))
  <1> DEFINE c == s \o t
             a == Len(s)
             b == Len(t)
  <1>1. /\ a \in Nat /\ b \in Nat /\ Len(c) = a + b /\ c \in Seq(N)
        /\ \A i \in 1 .. a : c[i] = s[i] /\ i \in 1 .. a + b
        /\ \A k \in 1 .. b : c[a + k] = t[k] /\ a + k \in 1 .. a + b
        /\ \A i \in 1 .. a + b : i \notin 1 .. a => c[i] = t[i - a] /\ i - a \in 1 .. b
    OBVIOUS
  <1> HIDE DEF c, a, b
  <1>2. \A x \in FirstOf(c, a + b) : x \in FirstOf(s, a) \cup FirstOf(t, b)
    BY <1>1 DEF FirstOf
  <1>3. \A i \in 1 .. a : s[i] \in FirstOf(c, a + b)
    BY <1>1 DEF FirstOf
  <1>4. \A k \in 1 .. b : t[k] \in FirstOf(c, a + b)
    BY <1>1 DEF FirstOf
  <1>5. FirstOf(s, a) \subseteq FirstOf(c, a + b) /\ FirstOf(t, b) \subseteq FirstOf(c, a + b)
    BY <1>3, <1>4 DEF FirstOf
  <1>6. FirstOf(c, a + b) = FirstOf(s, a) \cup FirstOf(t, b)
    BY <1>2, <1>5
  <1> QED  BY <1>1, <1>6 DEF c, a, b

LEMMA LinkSyncs ==
    ASSUME Registered, NEW dst \in Modules, NEW src \in Modules, LinkModules(dst, src)
    PROVE  Syncing(dst) \/ Ending
  <1>2. CASE \E mapped \in [DOMAIN operands[src] -> Nodes] :
               /\ \A i \in DOMAIN mapped : mapped[i] \in NodesFor(operands[src][i].name)
               /\ \A i, j \in DOMAIN mapped :
                     mapped[i].address = mapped[j].address => mapped[i] = mapped[j]
               /\ SyncWith(dst, operands[dst] \o mapped)
    <2> DEFINE n == Len(operands[src])
    <2>1. n \in Nat /\ DOMAIN operands[src] = 1 .. n
      BY OperandsKnown
    <2>2. PICK mapped \in [DOMAIN operands[src] -> Nodes] :
             /\ \A i \in DOMAIN mapped : mapped[i] \in NodesFor(operands[src][i].name)
             /\ \A i, j \in DOMAIN mapped :
                   mapped[i].address = mapped[j].address => mapped[i] = mapped[j]
             /\ SyncWith(dst, operands[dst] \o mapped)
      BY <1>2
    <2> HIDE DEF n
    <2>3. mapped \in [1 .. n -> Nodes] /\ DOMAIN mapped = 1 .. n
      BY <2>1, <2>2
    <2>4. mapped \in Seq(Nodes \cup {Null}) /\ Len(mapped) = n
      <3>1. mapped \in [1 .. n -> Nodes \cup {Null}]
        BY <2>3
      <3> QED  BY <2>1, <3>1
    <2> DEFINE K   == Known(md, operands)
               N   == FirstOf(mapped, n)
               ops == operands[dst] \o mapped
    <2>5. Addressed(K)
      BY KnownAddressed
    <2>6. Addressed(N)
      BY <2>2, <2>3 DEF Addressed, FirstOf
    <2>7. \A a \in N : \A b \in K \ {Null} : a.address = b.address => a = b
      <3>1. \A i \in 1 .. n : \A b \in K \ {Null} : mapped[i].address = b.address => mapped[i] = b
        BY <2>2, <2>3, <2>5, NodesForAddressed
      <3> QED  BY <3>1 DEF FirstOf
    <2>8. ops \in Seq(Nodes \cup {Null}) /\ FirstOf(ops, Len(ops)) \subseteq K \cup N
      <3> DEFINE Q == Nodes \cup {Null}
                 s == operands[dst]
      <3>1. s \in Seq(Q) /\ mapped \in Seq(Q) /\ FirstOf(s, Len(s)) \subseteq K
        BY <2>4, OperandsKnown
      <3> HIDE DEF Q, s, K
      <3>2. s \o mapped \in Seq(Q)
        BY <3>1, FirstOfConcat
      <3>3. FirstOf(s \o mapped, Len(s \o mapped)) = FirstOf(s, Len(s)) \cup FirstOf(mapped, Len(mapped))
        BY <3>1, FirstOfConcat
      <3>4. FirstOf(mapped, Len(mapped)) = N
        BY <2>4
      <3>5. FirstOf(s \o mapped, Len(s \o mapped)) \subseteq K \cup N
        BY <3>1, <3>3, <3>4
      <3> QED  BY <3>2, <3>5 DEF Q, s
    <2>9. SyncWith(dst, ops)
      BY <2>2
    <2> HIDE DEF K, N, ops
    <2>10. Addressed(K \cup FirstOf(ops, Len(ops)))
      BY <2>5, <2>6, <2>7, <2>8 DEF Addressed
    <2> QED  BY <2>8, <2>9, <2>10 DEF K, Syncing
  <1>3. CASE Null \in {operands[src][i] : i \in DOMAIN operands[src]}
    <2>1. aborted' = TRUE /\ UNCHANGED <<naming, classes, md, operands>>
      BY <1>3, Zenon DEF LinkModules
    <2> QED  BY <2>1, Zenon DEF Ending
  <1>4. CASE Null \notin {operands[src][i] : i \in DOMAIN operands[src]}
    <2>1. \E mapped \in [DOMAIN operands[src] -> Nodes] :
             /\ \A i \in DOMAIN mapped : mapped[i] \in NodesFor(operands[src][i].name)
             /\ \A i, j \in DOMAIN mapped :
                   mapped[i] = mapped[j] <=> operands[src][i] = operands[src][j]
             /\ \A i, j \in DOMAIN mapped :
                   mapped[i].address = mapped[j].address => mapped[i] = mapped[j]
             /\ SyncWith(dst, operands[dst] \o mapped)
      BY <1>4 DEF LinkModules
    <2> QED  BY <1>2, <2>1, Zenon
  <1> QED  BY <1>3, <1>4

----------------------------------------------------------------------------
(* Every step.                                                             *)

LEMMA RunningKeeps ==
    ASSUME Registered, NEW m \in Modules, Running(m)
    PROVE  Registered'
  <1>1. CASE OpenEmpty(m)
    BY <1>1 DEF OpenEmpty, Registered
  <1>2. CASE OpenLoaded(m)
    BY <1>2, OpenLoadedSyncs, SyncingKeeps
  <1>3. CASE Close(m)
    BY <1>3, CloseKeeps
  <1>4. CASE Sync(m)
    BY <1>4, SyncSyncs, SyncingKeeps
  <1>5. ASSUME NEW src \in Modules, LinkModules(m, src) PROVE Registered'
    BY <1>5, LinkSyncs, SyncingKeeps
  <1>6. ASSUME NEW o \in Objects, Insert(o, m) PROVE Registered'
    BY <1>6, InsertKeeps
  <1>7. ASSUME NEW o \in Objects, Remove(o, m) PROVE Registered'
    BY <1>7, RemoveKeeps
  <1>8. ASSUME NEW o \in Objects, Erase(o, m) PROVE Registered'
    BY <1>8, EraseKeeps
  <1>9. ASSUME NEW o \in Objects, NEW name \in GivenNames, GetOrLoad(o, name, m)
        PROVE  Registered'
    BY <1>9, CreateKeeps DEF GetOrLoad
  <1> QED  BY <1>1, <1>2, <1>3, <1>4, <1>5, <1>6, <1>7, <1>8, <1>9 DEF Running

LEMMA StepKeeps ==
    ASSUME Registered, [Next]_vars
    PROVE  Registered'
  <1>1. CASE UNCHANGED vars
    BY <1>1 DEF vars, Registered
  <1>2. ASSUME NEW m \in Modules, Running(m) PROVE Registered'
    BY <1>2, RunningKeeps
  <1>3. ASSUME NEW o \in Objects, Delete(o) PROVE Registered'
    BY <1>3, DeleteKeeps
  <1>4. ASSUME NEW o \in Objects, NEW name \in GivenNames \cup {EmptyName}, Rename(o, name)
        PROVE  Registered'
    BY <1>4, RenameKeeps
  <1>5. ASSUME NEW o \in Objects, NEW name \in GivenNames \cup {EmptyName},
               NEW m \in Modules \cup {NoModule}, Create(o, name, m)
        PROVE  Registered'
    BY <1>5, CreateKeeps
  <1> QED  BY <1>1, <1>2, <1>3, <1>4, <1>5 DEF Next

LEMMA RegistryBegins == Init => Registered
  <1> SUFFICES ASSUME Init PROVE Registered
    OBVIOUS
  <1>1. /\ naming = Names!NamingInit
        /\ classes = [m \in Modules |-> <<>>]
        /\ md = [o \in Objects |-> Null]
        /\ operands = [m \in Modules |-> <<>>]
    BY DEF Init
  <1>2. Called(naming, {}, [o \in Objects |-> NoModule])
    BY <1>1, NamingBegins
  <1>3. P!WellFormed(naming) /\ naming.live = {}
    BY <1>2 DEF Called
  <1>4. FirstOf(<<>>, 0) = {} /\ Len(<<>>) = 0
    BY DEF FirstOf
  <1>5. \A m \in Modules : classes[m] = <<>> /\ operands[m] = <<>>
    BY <1>1
  <1>6. Agree(naming, classes)
    <2>1. classes \in [Modules -> Seq(Objects)]
      BY <1>1
    <2> QED  BY <1>3, <1>4, <1>5, <2>1 DEF Agree
  <1>7. Addressed(Known(md, operands))
    <2>1. \A m \in Modules : FirstOf(operands[m], Len(operands[m])) = {}
      BY <1>4, <1>5
    <2>2. \A o \in Objects : md[o] = Null
      BY <1>1
    <2>3. Known(md, operands) \subseteq {Null}
      BY <2>1, <2>2 DEF Known
    <2> QED  BY <2>3 DEF Addressed
  <1>8. \A m \in Modules : Cover(operands[m], classes[m], md)
    <2>1. \A x : Among(<<>>, 0, x) = 0 /\ Among(NodesAt(<<>>, md), 0, x) = 0
      BY AmongNone
    <2> QED  BY <1>4, <1>5, <2>1 DEF Cover
  <1>9. md \in [Objects -> Nodes \cup {Null}] /\ operands \in [Modules -> Seq(Nodes \cup {Null})]
    BY <1>1
  <1> QED  BY <1>3, <1>6, <1>7, <1>8, <1>9 DEF Registered, Metadata

\* In every state of a module's classes - through creation, renaming, insertion, removal,
\* syncMetadata and linkModules - the list, the symbol table and the live classes agree,
\* a metadata node is known by its address, and every operand has a class of its own.
THEOREM RegistrySafe == Spec => []Registered
  <1>1. Init => Registered
    BY RegistryBegins
  <1>2. Registered /\ [Next]_vars => Registered'
    BY StepKeeps
  <1> QED  BY <1>1, <1>2, PTL DEF Spec

\* Every operand of "llair.class" that is not null has a class of its own in the
\* module's list, in whatever order nodes were allocated and calls were made.
THEOREM OperandsCovered == Spec => []OperandsHaveClasses
  <1>1. Registered => OperandsHaveClasses
    <2> SUFFICES ASSUME Registered, NEW m \in Modules, NEW i \in DOMAIN operands[m],
                        operands[m][i] # Null
                 PROVE  Count(operands[m], operands[m][i]) <= Count(NodesOf(m), operands[m][i])
      BY DEF OperandsHaveClasses
    <2> DEFINE x == operands[m][i]
    <2>1. /\ operands[m] \in Seq(Nodes \cup {Null}) /\ classes[m] \in Seq(Objects)
          /\ Cover(operands[m], classes[m], md)
      BY DEF Registered, Agree, Metadata
    <2>2. /\ DOMAIN operands[m] = 1 .. Len(operands[m]) /\ Len(operands[m]) \in Nat
          /\ DOMAIN classes[m] = 1 .. Len(classes[m]) /\ Len(classes[m]) \in Nat
          /\ x \in Nodes
      BY <2>1
    <2>3. NodesOf(m) = NodesAt(classes[m], md) /\ DOMAIN NodesOf(m) = 1 .. Len(classes[m])
      BY <2>2 DEF NodesOf, NodesAt
    <2> HIDE DEF x
    <2>4. Among(operands[m], Len(operands[m]), x)
             <= Among(NodesAt(classes[m], md), Len(classes[m]), x)
      BY <2>1, <2>2 DEF Cover
    <2>5. Count(operands[m], x) = Among(operands[m], Len(operands[m]), x)
      BY <2>2, CountIsAmong
    <2>6. Count(NodesOf(m), x) = Among(NodesAt(classes[m], md), Len(classes[m]), x)
      BY <2>2, <2>3, CountIsAmong
    <2> QED  BY <2>4, <2>5, <2>6 DEF x
  <1> QED  BY <1>1, RegistrySafe, PTL

\* What a well-formed state of the names says of the classes in m's table.
LEMMA TableEntries ==
    ASSUME NEW st, P!WellFormed(st), NEW m \in Modules, NEW S,
           S = {o \in st.live : st.table[o] = m}
    PROVE  /\ {e.value : e \in st.vmap[m]} = {o \in S : st.hasName[o]}
           /\ \A o \in S : st.hasName[o] => P!Lookup(st, m, P!GetName(st, o)) = {o}
  <1>1. /\ st.live \in SUBSET Objects
        /\ st.vmap \in [Modules -> SUBSET P!Entries]
        /\ \A e, f \in st.vmap[m] : e.key = f.key => e = f
        /\ \A e \in st.vmap[m] : /\ e.value \in st.live /\ st.table[e.value] = m
                                 /\ st.hasName[e.value] /\ st.names[e.value] = e
        /\ \A o \in S : st.hasName[o] => st.names[o] \in st.vmap[m] /\ st.names[o].value = o
    BY ModuleAssumption DEF P!WellFormed, P!NamingType, P!DistinctKeys, P!CurrentEntries, P!FoundObjects
  <1>2. {e.value : e \in st.vmap[m]} = {o \in S : st.hasName[o]}
    BY <1>1
  <1>3. ASSUME NEW o \in S, st.hasName[o] PROVE P!Lookup(st, m, P!GetName(st, o)) = {o}
    <2>1. P!GetName(st, o) = st.names[o].key
      BY <1>3 DEF P!GetName
    <2>2. {f \in st.vmap[m] : f.key = st.names[o].key} = {st.names[o]}
      BY <1>1, <1>3
    <2> QED  BY <1>1, <1>3, <2>1, <2>2 DEF P!Lookup
  <1> QED  BY <1>2, <1>3

\* A module's list and its symbol table agree: getClass finds every named class of the
\* list under its present name and nothing else.
THEOREM ListsMatchTables == Spec => []ListMatchesTable
  <1>1. Registered => ListMatchesTable
    <2> SUFFICES ASSUME Registered, NEW m \in Modules
                 PROVE  /\ \A o \in naming.live : o \in ListedIn(m) <=> naming.table[o] = m
                        /\ ListedIn(m) \subseteq naming.live
                        /\ {e.value : e \in naming.vmap[m]} = {o \in ListedIn(m) : naming.hasName[o]}
                        /\ \A o \in ListedIn(m) : naming.hasName[o] =>
                              Names!Lookup(naming, m, Names!GetName(naming, o)) = {o}
      BY DEF ListMatchesTable
    <2>1. P!WellFormed(naming) /\ ListedIn(m) = {o \in naming.live : naming.table[o] = m}
      BY ListedAre DEF Registered, Agree
    <2>2. /\ {e.value : e \in naming.vmap[m]} = {o \in ListedIn(m) : naming.hasName[o]}
          /\ \A o \in ListedIn(m) : naming.hasName[o] =>
                P!Lookup(naming, m, P!GetName(naming, o)) = {o}
      BY <2>1, TableEntries
    <2>3. \A o : Names!Lookup(naming, m, Names!GetName(naming, o))
                    = P!Lookup(naming, m, P!GetName(naming, o))
      BY SameName, Zenon DEF Names!Lookup, P!Lookup
    <2> QED  BY <2>1, <2>2, <2>3
  <1> QED  BY <1>1, RegistrySafe, PTL

\* One syncMetadata, when the operands are in ascending order of address.
LEMMA SyncExact ==
    ASSUME Registered, NEW m \in Modules, Syncs(m), ~aborted', Ascending(operands'[m]), NEW x
    PROVE  Count(NodesOf(m)', x) = IF Count(NodesOf(m), x) < Count(operands'[m], x)
                                   THEN Count(operands'[m], x) ELSE Count(NodesOf(m), x)
  <1> DEFINE sorted == SortedNodes(m)
  <1>0. Syncing(m)
    <2>1. Syncing(m) \/ Ending
      BY OpenLoadedSyncs, SyncSyncs, LinkSyncs DEF Syncs
    <2> QED  BY <2>1 DEF Ending
  <1>1. PICK ops \in Seq(Nodes \cup {Null}) :
           /\ Addressed(Known(md, operands) \cup FirstOf(ops, Len(ops)))
           /\ SyncWith(m, ops)
    BY <1>0 DEF Syncing
  <1>2. Merging(m, ops)
    BY <1>1, SyncCases
  <1>3. PICK nodes, new : Merge(m, ops, nodes, new)
    BY <1>2 DEF Merging
  <1>4. Null \notin FirstOf(ops, Len(ops))
    BY <1>2 DEF Merging
  <1>5. /\ Registered'
        /\ Among(NodesAt(classes'[m], md'), Len(classes'[m]), x)
              = Among(NodesAt(classes[m], md), Len(classes[m]), x) + Among(nodes, Len(nodes), x)
    BY <1>1, <1>3, <1>4, MergeKeeps
  <1>6. /\ ops \in Seq(Nodes) /\ sorted \in Seq(Nodes) /\ Identify(ops, sorted)
        /\ Ascending(sorted)
        /\ Among(sorted, Len(sorted), x) = Among(NodesAt(classes[m], md), Len(classes[m]), x)
    BY <1>1, <1>4, MergeBegins
  <1>7. nodes = FirstOnly(ops, sorted) /\ operands'[m] = ops /\ Ascending(ops)
    <2>1. operands' = [operands EXCEPT ![m] = ops] /\ nodes = FirstOnly(ops, sorted)
      BY <1>3 DEF Merge
    <2>2. operands \in [Modules -> Seq(Nodes \cup {Null})]
      BY DEF Registered, Metadata
    <2> QED  BY <2>1, <2>2
  <1> HIDE DEF sorted
  <1>8. Among(nodes, Len(nodes), x) = IF Among(ops, Len(ops), x) > Among(sorted, Len(sorted), x)
                                      THEN Among(ops, Len(ops), x) - Among(sorted, Len(sorted), x)
                                      ELSE 0
    BY <1>6, <1>7, Merged
  <1>9. /\ classes[m] \in Seq(Objects) /\ (classes[m] \in Seq(Objects))'
    BY <1>5 DEF Registered, Agree
  <1>10. /\ DOMAIN classes[m] = 1 .. Len(classes[m]) /\ Len(classes[m]) \in Nat
         /\ DOMAIN classes'[m] = 1 .. Len(classes'[m]) /\ Len(classes'[m]) \in Nat
         /\ DOMAIN ops = 1 .. Len(ops) /\ Len(ops) \in Nat
    BY <1>6, <1>9
  <1>11. Count(NodesOf(m), x) = Among(NodesAt(classes[m], md), Len(classes[m]), x)
    <2>1. NodesOf(m) = NodesAt(classes[m], md) /\ DOMAIN NodesOf(m) = 1 .. Len(classes[m])
      BY <1>10 DEF NodesOf, NodesAt
    <2> QED  BY <1>10, <2>1, CountIsAmong
  <1>12. Count(NodesOf(m)', x) = Among(NodesAt(classes'[m], md'), Len(classes'[m]), x)
    <2>1. /\ NodesOf(m)' = NodesAt(classes'[m], md')
          /\ DOMAIN NodesAt(classes'[m], md') = 1 .. Len(classes'[m])
      BY <1>10 DEF NodesOf, NodesAt
    <2> DEFINE t == NodesAt(classes'[m], md')
    <2> HIDE DEF t
    <2>2. Count(t, x) = Among(t, Len(classes'[m]), x)
      BY <1>10, <2>1, CountIsAmong DEF t
    <2> QED  BY <2>1, <2>2 DEF t
  <1>13. Count(operands'[m], x) = Among(ops, Len(ops), x)
    BY <1>7, <1>10, CountIsAmong
  <1>14. /\ Among(NodesAt(classes[m], md), Len(classes[m]), x) \in Nat
         /\ Among(ops, Len(ops), x) \in Nat
    BY <1>10, PlacesFinite
  <1> QED  BY <1>5, <1>6, <1>8, <1>11, <1>12, <1>13, <1>14

\* The modules that exist.
Inside == open \subseteq Modules

LEMMA OpenModules == Spec => []Inside
  <1>1. Init => Inside
    BY DEF Init, Inside
  <1>2. Inside /\ [Next]_vars => Inside'
    <2> SUFFICES ASSUME Inside, [Next]_vars PROVE Inside'
      OBVIOUS
    <2>1. ASSUME NEW m \in Modules, Running(m) PROVE Inside'
      BY <2>1 DEF Running, OpenEmpty, OpenLoaded, Close, Sync, LinkModules, Insert, Remove,
         Erase, GetOrLoad, Create, Inside
    <2>2. CASE Next
      BY <2>1, <2>2 DEF Next, Delete, Rename, Create, Inside
    <2> QED  BY <2>2 DEF vars, Inside
  <1> QED  BY <1>1, <1>2, PTL DEF Spec

\* Loading, linking and syncing add a class for each operand that has none and no other,
\* if the operands are then in ascending order of address.
THEOREM SortedSyncExact == Spec => SortedSyncAddsOnlyMissing
  <1> DEFINE Step == \A m \in open' : (Syncs(m) /\ ~aborted' /\ Ascending(operands'[m])) =>
                        \A n \in Nodes :
                           Count(NodesOf(m)', n) =
                              IF Count(NodesOf(m), n) < Count(operands'[m], n)
                              THEN Count(operands'[m], n) ELSE Count(NodesOf(m), n)
  <1>1. Registered /\ Inside' => Step
    BY SyncExact DEF Inside
  <1> HIDE DEF Step
  <1>2. Spec => [][Step]_vars
    BY <1>1, RegistrySafe, OpenModules, PTL DEF Spec
  <1> QED  BY <1>2 DEF SortedSyncAddsOnlyMissing, Step
=============================================================================
