------------------------- MODULE SymbolTableProofs -------------------------
(***************************************************************************)
(* Proofs about SymbolTable, for every set of objects, tables and names.   *)
(* The inductive invariant is WellFormed(naming): a table's entries and    *)
(* the entries of the live objects are each other's inverse.               *)
(***************************************************************************)
EXTENDS SymbolTable, FunctionTheorems, FiniteSetTheorems, WellFoundedInduction, TLAPS

WellFormed(st) ==
    /\ st \in NamingType
    /\ DistinctKeys(st)
    /\ CurrentEntries(st)
    /\ FoundObjects(st)

NamingInv == WellFormed(naming)

----------------------------------------------------------------------------
\* A suffixed name is a name.
LEMMA SuffixedType ==
    ASSUME NEW name \in Names, NEW n \in Nat
    PROVE  Suffixed(name, n) \in Names
  BY DEF Suffixed, Names

\* Different numbers give different names.
LEMMA SuffixedInjective ==
    ASSUME NEW name \in Names, NEW m \in Nat, NEW n \in Nat,
           Suffixed(name, m) = Suffixed(name, n)
    PROVE  m = n
  <1> DEFINE s == name.suffixes
  <1>1. s \in Seq(Nat)
    BY DEF Names
  <1>2. /\ Suffixed(name, m).suffixes = Append(s, m)
        /\ Suffixed(name, n).suffixes = Append(s, n)
    BY DEF Suffixed, Names
  <1>3. Append(s, m)[Len(s) + 1] = m /\ Append(s, n)[Len(s) + 1] = n
    BY <1>1
  <1> QED  BY <1>2, <1>3

\* The counter stays below its modulus, and takes UniqueModulus different
\* values in as many increments.
LEMMA CounterRange ==
    ASSUME NEW st \in NamingType, NEW t \in Tables, NEW k \in 0 .. UniqueModulus
    PROVE  Counter(st, t, k) \in 0 .. UniqueModulus - 1
  <1>1. st.lastUnique[t] \in 0 .. UniqueModulus - 1
    BY DEF NamingType
  <1> QED  BY <1>1, ModulusAssumption DEF Counter

LEMMA CounterInjective ==
    ASSUME NEW st \in NamingType, NEW t \in Tables,
           NEW j \in 1 .. UniqueModulus, NEW k \in 1 .. UniqueModulus,
           Counter(st, t, j) = Counter(st, t, k)
    PROVE  j = k
  <1>1. st.lastUnique[t] \in 0 .. UniqueModulus - 1
    BY DEF NamingType
  <1> QED  BY <1>1, ModulusAssumption DEF Counter

\* The loop of makeUniqueName ends: one of UniqueModulus increments gives a
\* name that no object of the table has, for there are fewer objects.
LEMMA FreeStepExists ==
    ASSUME NEW st, WellFormed(st), NEW t \in Tables, NEW name \in Names
    PROVE  FreeSteps(st, t, name) # {}
  <1> DEFINE M == 1 .. UniqueModulus
             key(k) == Suffixed(name, Counter(st, t, k))
             holder == [k \in M |-> CHOOSE o \in Objects :
                          \E e \in st.vmap[t] : e.key = key(k) /\ e.value = o]
  <1> SUFFICES ASSUME FreeSteps(st, t, name) = {} PROVE FALSE
    OBVIOUS
  <1>1. st \in NamingType /\ CurrentEntries(st)
    BY DEF WellFormed
  <1>2. ASSUME NEW k \in M
        PROVE  /\ holder[k] \in Objects
               /\ \E e \in st.vmap[t] : e.key = key(k) /\ e.value = holder[k]
    <2>1. key(k) \in Keys(st, t)
      BY <1>2 DEF FreeSteps
    <2>2. PICK e \in st.vmap[t] : e.key = key(k)
      BY <2>1 DEF Keys
    <2>3. e.value \in Objects
      BY <2>2, <1>1 DEF NamingType, Entries
    <2>4. \E o \in Objects : \E f \in st.vmap[t] : f.key = key(k) /\ f.value = o
      BY <2>2, <2>3
    <2> HIDE DEF key
    <2> QED  BY <2>4, <1>2
  <1>3. IsFiniteSet(M) /\ Cardinality(M) = UniqueModulus
    <2>1. UniqueModulus \in Nat /\ UniqueModulus > 0
      BY ModulusAssumption, FS_CardinalityType
    <2> QED  BY <2>1, FS_Interval
  <1>4. Cardinality(Objects) < Cardinality(M) /\ IsFiniteSet(Objects)
    BY <1>3, ModulusAssumption, FS_CardinalityType
  <1>5. holder \in [M -> Objects]
    BY <1>2
  <1> HIDE DEF holder
  <1>6. PICK j, k \in M : j # k /\ holder[j] = holder[k]
    <2>1. IsFiniteSet(M) /\ IsFiniteSet(Objects) /\ Cardinality(Objects) < Cardinality(M)
      BY <1>3, <1>4
    <2> HIDE DEF M
    <2>2. \E i, l \in M : i # l /\ holder[i] = holder[l]
      BY ONLY <2>1, <1>5, FS_PigeonHole, Zenon
    <2> QED  BY <2>2
  <1>7. key(j) = key(k)
    <2>1. PICK e \in st.vmap[t] : e.key = key(j) /\ e.value = holder[j]
      BY <1>2
    <2>2. PICK f \in st.vmap[t] : f.key = key(k) /\ f.value = holder[k]
      BY <1>2
    <2>3. e = f
      BY <2>1, <2>2, <1>1, <1>6 DEF CurrentEntries
    <2> QED  BY <2>1, <2>2, <2>3
  <1>8. /\ Counter(st, t, j) \in 0 .. UniqueModulus - 1
        /\ Counter(st, t, k) \in 0 .. UniqueModulus - 1
    BY <1>1, CounterRange, ModulusAssumption
  <1>9. Counter(st, t, j) = Counter(st, t, k)
    BY <1>7, <1>8, SuffixedInjective, ModulusAssumption
  <1> QED  BY <1>1, <1>6, <1>9, CounterInjective

\* A set of positive numbers has a least element.
LEMMA LeastElement ==
    ASSUME NEW S \in SUBSET Nat, S # {}
    PROVE  \E k \in S : \A j \in S : k <= j
  <1> DEFINE T == {1 .. k : k \in S}
  <1>1. T \subseteq FiniteSubsetsOf(Nat) /\ T # {}
    <2>1. ASSUME NEW k \in S
          PROVE  1 .. k \in SUBSET Nat /\ IsFiniteSet(1 .. k)
      BY FS_Interval
    <2> QED  BY <2>1 DEF FiniteSubsetsOf
  <1>2. PICK x \in T : \A y \in T : ~(<<y, x>> \in StrictSubsetOrdering(Nat))
    BY <1>1, WFMin, FS_StrictSubsetOrderingWellFounded
  <1>3. PICK k \in S : x = 1 .. k
    OBVIOUS
  <1>4. ASSUME NEW j \in S, j < k
        PROVE  FALSE
    <2>1. 1 .. j \in T /\ 1 .. j \subseteq 1 .. k /\ k \in 1 .. k /\ k \notin 1 .. j
      BY <1>4
    <2>2. <<1 .. j, 1 .. k>> \in StrictSubsetOrdering(Nat)
      BY <2>1 DEF StrictSubsetOrdering
    <2> QED  BY <1>2, <1>3, <2>1, <2>2
  <1> QED  BY <1>4

\* The name createSymbolTableEntry settles on is a name nobody has.
LEMMA UniqueKeyIsFree ==
    ASSUME NEW st, WellFormed(st), NEW t \in Tables, NEW name \in Names
    PROVE  /\ UniqueKey(st, t, name) \in Names \ Keys(st, t)
           /\ UniqueSteps(st, t, name) \in 0 .. UniqueModulus
           /\ Counter(st, t, UniqueSteps(st, t, name)) \in 0 .. UniqueModulus - 1
           /\ UniqueKey(st, t, name) # name =>
                /\ name \in Keys(st, t)
                /\ \E n \in 0 .. UniqueModulus - 1 : UniqueKey(st, t, name) = Suffixed(name, n)
  <1> DEFINE F == FreeSteps(st, t, name)
             k == UniqueSteps(st, t, name)
  <1>1. st \in NamingType
    BY DEF WellFormed
  <1>2. CASE name \notin Keys(st, t)
    <2>1. k = 0 /\ UniqueKey(st, t, name) = name
      BY <1>2 DEF UniqueSteps, UniqueKey
    <2>2. k \in 0 .. UniqueModulus
      BY <2>1, ModulusAssumption
    <2> QED  BY <2>1, <2>2, <1>1, <1>2, CounterRange
  <1>3. CASE name \in Keys(st, t)
    <2>1. F # {} /\ F \in SUBSET Nat
      BY FreeStepExists, ModulusAssumption DEF FreeSteps
    <2>2. \E i \in F : \A j \in F : i <= j
      BY <2>1, LeastElement
    <2>3. k \in F
      BY <2>2, <1>3 DEF UniqueSteps
    <2>4. k \in 0 .. UniqueModulus
      BY <2>3, ModulusAssumption DEF FreeSteps
    <2>5. Counter(st, t, k) \in 0 .. UniqueModulus - 1
      BY <2>4, <1>1, CounterRange
    <2>6. UniqueKey(st, t, name) = Suffixed(name, Counter(st, t, k))
      BY <1>3 DEF UniqueKey
    <2>7. Suffixed(name, Counter(st, t, k)) \in Names
      BY <2>5, ModulusAssumption, SuffixedType
    <2> QED  BY <1>3, <2>3, <2>4, <2>5, <2>6, <2>7 DEF FreeSteps
  <1> QED  BY <1>2, <1>3

----------------------------------------------------------------------------
\* An object that gives up its name leaves everything else as it was.
LEMMA DetachWellFormed ==
    ASSUME NEW st, WellFormed(st), NEW o \in st.live
    PROVE  /\ WellFormed(Detach(st, o))
           /\ ~Detach(st, o).hasName[o]
           /\ Detach(st, o).live = st.live
           /\ Detach(st, o).table = st.table
           /\ \A p \in Objects \ {o} : GetName(Detach(st, o), p) = GetName(st, p)
           /\ \A t \in Tables : Detach(st, o).vmap[t] \subseteq st.vmap[t]
  <1> DEFINE d == Detach(st, o)
  <1>1. /\ st \in NamingType /\ DistinctKeys(st)
        /\ CurrentEntries(st) /\ FoundObjects(st)
    BY DEF WellFormed
  <1>2. CASE ~st.hasName[o]
    BY <1>2 DEF Detach
  <1>3. CASE st.hasName[o]
    <2>1. /\ o \in Objects
          /\ d.live = st.live /\ d.table = st.table /\ d.lastUnique = st.lastUnique
          /\ d.hasName = [st.hasName EXCEPT ![o] = FALSE]
          /\ d.names = [st.names EXCEPT ![o] = NoEntry]
          /\ d.vmap = [t \in Tables |-> IF t = st.table[o] THEN st.vmap[t] \ {st.names[o]}
                                                           ELSE st.vmap[t]]
      BY <1>1, <1>3 DEF Detach, NamingType
    <2>2. d \in NamingType
      BY <1>1, <1>3 DEF Detach, NamingType
    <2>3. DistinctKeys(d)
      BY <1>1, <2>1 DEF DistinctKeys
    <2>4. \A t \in Tables : \A e \in d.vmap[t] : e \in st.vmap[t] /\ e.value # o
      BY <1>1, <2>1 DEF CurrentEntries
    <2>5. \A t \in Tables : \A e \in st.vmap[t] : e.value \in Objects
      BY <1>1 DEF NamingType, Entries
    <2>6. CurrentEntries(d)
      BY <1>1, <2>1, <2>4, <2>5 DEF CurrentEntries, NamingType
    <2>7. FoundObjects(d)
      <3>1. ASSUME NEW p \in d.live, d.hasName[p]
            PROVE  /\ d.names[p] # NoEntry /\ d.names[p].value = p
                   /\ d.table[p] # NoTable => d.names[p] \in d.vmap[d.table[p]]
        <4>1. p # o /\ p \in st.live /\ p \in Objects /\ st.hasName[p]
          BY <1>1, <2>1, <3>1 DEF NamingType
        <4>2. d.names[p] = st.names[p] /\ st.names[p].value = p /\ st.names[p] # NoEntry
          BY <1>1, <2>1, <4>1 DEF FoundObjects, NamingType
        <4>3. st.names[o].value = o
          BY <1>1, <1>3 DEF FoundObjects
        <4>4. ASSUME st.table[p] # NoTable
              PROVE  st.names[p] \in d.vmap[st.table[p]]
          <5>1. st.table[p] \in Tables /\ st.names[p] \in st.vmap[st.table[p]]
            BY <1>1, <4>1, <4>4 DEF FoundObjects, NamingType
          <5> QED  BY <2>1, <5>1, <4>1, <4>2, <4>3
        <4> QED  BY <2>1, <4>2, <4>4
      <3> HIDE DEF d
      <3> QED  BY <3>1 DEF FoundObjects
    <2>8. \A p \in Objects \ {o} : GetName(d, p) = GetName(st, p)
      BY <1>1, <2>1 DEF GetName, NamingType
    <2>9. ~d.hasName[o]
      BY <1>1, <2>1 DEF NamingType
    <2> HIDE DEF d
    <2>10. WellFormed(d)
      BY <2>2, <2>3, <2>6, <2>7 DEF WellFormed
    <2> QED  BY <2>1, <2>4, <2>8, <2>9, <2>10 DEF d
  <1> QED  BY <1>2, <1>3

\* Outside a table an object gets exactly the name it is given.
LEMMA AttachWellFormed ==
    ASSUME NEW st, WellFormed(st), NEW o \in st.live, ~st.hasName[o],
           st.table[o] = NoTable, NEW name \in Names,
           NEW a, a = Attach(st, o, [key |-> name, value |-> o])
    PROVE  /\ WellFormed(a)
           /\ a.live = st.live /\ a.table = st.table
           /\ GetName(a, o) = name
           /\ \A p \in Objects \ {o} : GetName(a, p) = GetName(st, p)
  <1> DEFINE e == [key |-> name, value |-> o]
  <1>1. /\ st \in NamingType /\ DistinctKeys(st)
        /\ CurrentEntries(st) /\ FoundObjects(st)
    BY DEF WellFormed
  <1>2. o \in Objects /\ e \in Entries
    BY <1>1 DEF NamingType, Entries
  <1>3. /\ a.live = st.live /\ a.table = st.table /\ a.vmap = st.vmap
        /\ a.lastUnique = st.lastUnique
        /\ a.hasName = [st.hasName EXCEPT ![o] = TRUE]
        /\ a.names = [st.names EXCEPT ![o] = e]
    BY <1>1 DEF Attach, NamingType
  <1>4. a \in NamingType
    BY <1>1, <1>2 DEF Attach, NamingType
  <1>5. DistinctKeys(a)
    BY <1>1, <1>3 DEF DistinctKeys
  <1>6. \A t \in Tables : \A f \in st.vmap[t] : f.value \in Objects /\ f.value # o
    BY <1>1, TableAssumption DEF NamingType, Entries, CurrentEntries
  <1>7. CurrentEntries(a)
    BY <1>1, <1>3, <1>6 DEF CurrentEntries, NamingType
  <1>8. FoundObjects(a)
    BY <1>1, <1>2, <1>3, EntryAssumption DEF FoundObjects, NamingType
  <1>9. GetName(a, o) = name
    BY <1>1, <1>2, <1>3 DEF GetName, NamingType
  <1>10. \A p \in Objects \ {o} : GetName(a, p) = GetName(st, p)
    BY <1>1, <1>3 DEF GetName, NamingType
  <1> QED  BY <1>3, <1>4, <1>5, <1>7, <1>8, <1>9, <1>10 DEF WellFormed

\* In a table it gets the name, or one that is free.
LEMMA CreateEntryWellFormed ==
    ASSUME NEW st, WellFormed(st), NEW o \in st.live, ~st.hasName[o],
           NEW t \in Tables, st.table[o] = t, NEW name \in Names,
           NEW c, c = CreateEntry(st, o, t, name)
    PROVE  /\ WellFormed(c)
           /\ c.live = st.live /\ c.table = st.table
           /\ GetName(c, o) = UniqueKey(st, t, name)
           /\ \A p \in Objects \ {o} : GetName(c, p) = GetName(st, p)
  <1> DEFINE n == UniqueKey(st, t, name)
             e == [key |-> n, value |-> o]
             u == Counter(st, t, UniqueSteps(st, t, name))
  <1>1. /\ st \in NamingType /\ DistinctKeys(st)
        /\ CurrentEntries(st) /\ FoundObjects(st)
    BY DEF WellFormed
  <1>2. n \in Names \ Keys(st, t) /\ u \in 0 .. UniqueModulus - 1
    BY UniqueKeyIsFree
  <1>3. /\ c.live = st.live /\ c.table = st.table
        /\ c.hasName = [st.hasName EXCEPT ![o] = TRUE]
        /\ c.names = [st.names EXCEPT ![o] = e]
        /\ c.vmap = [st.vmap EXCEPT ![t] = @ \cup {e}]
        /\ c.lastUnique = [st.lastUnique EXCEPT ![t] = u]
        /\ c = [live |-> c.live, table |-> c.table, hasName |-> c.hasName,
                names |-> c.names, vmap |-> c.vmap, lastUnique |-> c.lastUnique]
    BY <1>1 DEF CreateEntry, Attach, NamingType
  <1> HIDE DEF n, u
  <1>4. o \in Objects /\ e \in Entries
    BY <1>1, <1>2 DEF NamingType, Entries
  <1>5. c \in NamingType
    <2>1. /\ c.live \in SUBSET Objects
          /\ c.table \in [Objects -> Tables \cup {NoTable}]
          /\ c.hasName \in [Objects -> BOOLEAN]
          /\ c.names \in [Objects -> Entries \cup {NoEntry}]
      BY <1>1, <1>3, <1>4 DEF NamingType
    <2>2. /\ c.vmap \in [Tables -> SUBSET Entries]
          /\ c.lastUnique \in [Tables -> 0 .. UniqueModulus - 1]
      BY <1>1, <1>2, <1>3, <1>4 DEF NamingType
    <2> QED  BY ONLY <2>1, <2>2, <1>3 DEF NamingType
  <1>6. DistinctKeys(c)
    BY <1>1, <1>2, <1>3 DEF DistinctKeys, Keys, NamingType
  <1>7. \A s \in Tables : \A f \in st.vmap[s] : f.value \in Objects /\ f.value # o
    BY <1>1 DEF NamingType, Entries, CurrentEntries
  <1>8. CurrentEntries(c)
    BY <1>1, <1>3, <1>4, <1>7 DEF CurrentEntries, NamingType
  <1>9. FoundObjects(c)
    BY <1>1, <1>3, <1>4, EntryAssumption DEF FoundObjects, NamingType
  <1>10. GetName(c, o) = n
    BY <1>1, <1>3, <1>4 DEF GetName, NamingType
  <1>11. \A p \in Objects \ {o} : GetName(c, p) = GetName(st, p)
    BY <1>1, <1>3 DEF GetName, NamingType
  <1> QED  BY <1>3, <1>5, <1>6, <1>8, <1>9, <1>10, <1>11 DEF WellFormed, n

----------------------------------------------------------------------------
\* The names that objects of table t other than o have.
OtherNames(st, t, o) ==
    {GetName(st, p) : p \in {q \in st.live \ {o} : st.table[q] = t}} \ {EmptyName}

\* The names that o may have in table t after it asked for name.
Granted(st, name, t, o) ==
    IF name = EmptyName \/ t = NoTable \/ name \notin OtherNames(st, t, o) THEN {name}
    ELSE {[name EXCEPT !.suffixes = Append(@, k)] : k \in 0 .. UniqueModulus - 1}
            \ OtherNames(st, t, o)

\* The keys of a table are the names of its objects.
LEMMA KeysAreNames ==
    ASSUME NEW st, WellFormed(st), NEW o \in st.live, ~st.hasName[o], NEW t \in Tables
    PROVE  Keys(st, t) = OtherNames(st, t, o)
  <1>1. /\ st \in NamingType /\ CurrentEntries(st) /\ FoundObjects(st)
    BY DEF WellFormed
  <1>2. ASSUME NEW n \in Keys(st, t)
        PROVE  n \in OtherNames(st, t, o)
    <2>1. PICK e \in st.vmap[t] : e.key = n
      BY DEF Keys
    <2>2. /\ e \in Entries /\ e.value \in st.live \ {o} /\ st.table[e.value] = t
          /\ GetName(st, e.value) = n
      BY <1>1, <2>1 DEF CurrentEntries, GetName, NamingType
    <2>3. n # EmptyName
      BY <2>1, <2>2, NameAssumption DEF Entries
    <2> QED  BY <2>2, <2>3 DEF OtherNames
  <1>3. ASSUME NEW n \in OtherNames(st, t, o)
        PROVE  n \in Keys(st, t)
    <2>1. PICK p \in st.live \ {o} : st.table[p] = t /\ GetName(st, p) = n /\ n # EmptyName
      BY DEF OtherNames
    <2>2. st.hasName[p] /\ st.names[p].key = n
      BY <2>1 DEF GetName
    <2>3. st.names[p] \in st.vmap[t]
      BY <1>1, <2>1, <2>2, TableAssumption DEF FoundObjects
    <2> QED  BY <2>2, <2>3 DEF Keys
  <1> QED  BY <1>2, <1>3

\* What an object is called, it alone is called in its table.
LEMMA OwnNameIsOwn ==
    ASSUME NEW st, WellFormed(st), NEW o \in st.live, NEW t \in Tables, st.table[o] = t
    PROVE  GetName(st, o) \notin OtherNames(st, t, o)
  <1>1. /\ st \in NamingType /\ DistinctKeys(st) /\ FoundObjects(st)
    BY DEF WellFormed
  <1> SUFFICES ASSUME NEW p \in st.live \ {o}, st.table[p] = t,
                      GetName(st, p) = GetName(st, o), GetName(st, p) # EmptyName
               PROVE  FALSE
    BY DEF OtherNames
  <1>2. /\ st.hasName[p] /\ st.hasName[o]
        /\ st.names[p].key = st.names[o].key
    BY DEF GetName
  <1>3. /\ st.names[p] \in st.vmap[t] /\ st.names[p].value = p
        /\ st.names[o] \in st.vmap[t] /\ st.names[o].value = o
    BY <1>1, <1>2, TableAssumption DEF FoundObjects
  <1> QED  BY <1>1, <1>2, <1>3 DEF DistinctKeys

\* A name is a Name, or empty.
LEMMA GetNameType ==
    ASSUME NEW st, WellFormed(st), NEW o \in st.live
    PROVE  GetName(st, o) \in Names \cup {EmptyName}
  BY DEF WellFormed, NamingType, FoundObjects, GetName, Entries

\* setName: the object gets the name it asks for or, if another object of the
\* table has it, one with one more suffix; no other object is touched.
LEMMA SetNameWellFormed ==
    ASSUME NEW st, WellFormed(st), NEW o \in st.live, NEW name \in Names \cup {EmptyName},
           NEW r, r = SetName(st, o, name)
    PROVE  /\ WellFormed(r)
           /\ r.live = st.live /\ r.table = st.table
           /\ GetName(r, o) \in Granted(st, name, st.table[o], o)
           /\ \A p \in Objects \ {o} : GetName(r, p) = GetName(st, p)
  <1> DEFINE d == Detach(st, o)
             t == st.table[o]
  <1>1. t \in Tables \cup {NoTable} /\ o \in Objects
    BY DEF WellFormed, NamingType
  <1>2. /\ WellFormed(d) /\ ~d.hasName[o] /\ d.live = st.live /\ d.table = st.table
        /\ \A p \in Objects \ {o} : GetName(d, p) = GetName(st, p)
    BY DetachWellFormed
  <1>3. OtherNames(d, t, o) = OtherNames(st, t, o)
    <2>1. \A p \in st.live : p \in Objects
      BY DEF WellFormed, NamingType
    <2> HIDE DEF d
    <2> QED  BY <1>2, <2>1 DEF OtherNames
  <1> HIDE DEF d
  <1>4. CASE GetName(st, o) = name
    <2>1. r = st
      BY <1>4 DEF SetName
    <2>2. name \in Granted(st, name, t, o)
      BY <1>1, <1>4, OwnNameIsOwn DEF Granted
    <2> QED  BY <1>4, <2>1, <2>2
  <1>5. CASE GetName(st, o) # name /\ name = EmptyName
    <2>1. r = d
      BY <1>5 DEF SetName, d
    <2>2. GetName(r, o) = EmptyName
      BY <1>2, <2>1 DEF GetName
    <2> QED  BY <1>2, <1>5, <2>1, <2>2 DEF Granted
  <1>6. CASE GetName(st, o) # name /\ name # EmptyName /\ t = NoTable
    <2>1. r = Attach(d, o, [key |-> name, value |-> o])
      BY <1>6 DEF SetName, d
    <2>2. /\ WellFormed(r) /\ r.live = d.live /\ r.table = d.table /\ GetName(r, o) = name
          /\ \A p \in Objects \ {o} : GetName(r, p) = GetName(d, p)
      BY <1>2, <1>6, <2>1, AttachWellFormed
    <2> QED  BY <1>2, <1>6, <2>2 DEF Granted
  <1>7. CASE GetName(st, o) # name /\ name # EmptyName /\ t # NoTable
    <2>1. r = CreateEntry(d, o, t, name) /\ t \in Tables /\ name \in Names
      BY <1>1, <1>7 DEF SetName, d
    <2>2. /\ WellFormed(r) /\ r.live = d.live /\ r.table = d.table
          /\ GetName(r, o) = UniqueKey(d, t, name)
          /\ \A p \in Objects \ {o} : GetName(r, p) = GetName(d, p)
      BY <1>2, <2>1, CreateEntryWellFormed
    <2>3. Keys(d, t) = OtherNames(st, t, o)
      BY <1>2, <1>3, <2>1, KeysAreNames
    <2>4. UniqueKey(d, t, name) \in Granted(st, name, t, o)
      <3>1. CASE UniqueKey(d, t, name) = name
        BY <2>1, <2>3, <3>1, <1>2, UniqueKeyIsFree DEF Granted
      <3>2. CASE UniqueKey(d, t, name) # name
        BY <1>2, <1>7, <2>1, <2>3, <3>2, UniqueKeyIsFree DEF Granted, Suffixed
      <3> QED  BY <3>1, <3>2
    <2> QED  BY <1>2, <2>2, <2>4
  <1> QED  BY <1>4, <1>5, <1>6, <1>7

\* setSymbolTable: the object is in the new table, under its old name or, if
\* another object of that table has the name, under one with one more suffix.
LEMMA SetSymbolTableWellFormed ==
    ASSUME NEW st, WellFormed(st), NEW o \in st.live, NEW t \in Tables \cup {NoTable},
           NEW r, r = SetSymbolTable(st, o, t)
    PROVE  /\ WellFormed(r)
           /\ r.live = st.live /\ r.table = [st.table EXCEPT ![o] = t]
           /\ GetName(r, o) \in Granted(st, GetName(st, o), t, o)
           /\ \A p \in Objects \ {o} : GetName(r, p) = GetName(st, p)
  <1> DEFINE n == GetName(st, o)
             u == SetName(st, o, EmptyName)
             m == [u EXCEPT !.table[o] = t]
  <1>1. o \in Objects /\ n \in Names \cup {EmptyName} /\ st \in NamingType
    BY GetNameType DEF WellFormed, NamingType
  <1>2. CASE st.table[o] = t
    <2>1. r = st /\ st.table = [st.table EXCEPT ![o] = t]
      BY <1>1, <1>2 DEF SetSymbolTable, NamingType
    <2>2. n \in Granted(st, n, t, o)
      BY <1>2, OwnNameIsOwn DEF Granted
    <2> QED  BY <2>1, <2>2
  <1>3. CASE st.table[o] # t
    <2>1. /\ WellFormed(u) /\ u.live = st.live /\ u.table = st.table
          /\ GetName(u, o) = EmptyName
          /\ \A p \in Objects \ {o} : GetName(u, p) = GetName(st, p)
      BY SetNameWellFormed DEF Granted
    <2>2. u \in NamingType /\ DistinctKeys(u) /\ CurrentEntries(u) /\ FoundObjects(u)
      BY <2>1 DEF WellFormed
    <2>3. ~u.hasName[o]
      <3>1. u.hasName[o] => u.names[o].key \in Names
        BY <2>1, <2>2 DEF FoundObjects, NamingType, Entries
      <3> QED  BY <2>1, <3>1, NameAssumption DEF GetName
    <2> HIDE DEF u
    <2>4. /\ m.live = u.live /\ m.hasName = u.hasName /\ m.names = u.names
          /\ m.vmap = u.vmap /\ m.lastUnique = u.lastUnique
          /\ m.table = [u.table EXCEPT ![o] = t]
          /\ m \in NamingType
      BY <1>1, <2>2 DEF NamingType
    <2> HIDE DEF m
    <2>5. DistinctKeys(m)
      BY <2>2, <2>4 DEF DistinctKeys
    <2>6. CurrentEntries(m)
      BY <1>1, <2>2, <2>3, <2>4 DEF CurrentEntries, NamingType, Entries
    <2>7. FoundObjects(m)
      BY <1>1, <2>2, <2>3, <2>4 DEF FoundObjects, NamingType
    <2>8. WellFormed(m) /\ o \in m.live
      BY <2>1, <2>4, <2>5, <2>6, <2>7 DEF WellFormed
    <2>9. m.table[o] = t
      BY <1>1, <2>2, <2>4 DEF NamingType
    <2>10. \A p \in Objects : GetName(m, p) = GetName(u, p)
      BY <2>4 DEF GetName
    <2>11. r = SetName(m, o, n)
      BY <1>3 DEF SetSymbolTable, u, m
    <2>12. OtherNames(m, t, o) = OtherNames(st, t, o)
      <3>1. \A p \in st.live \ {o} : /\ p \in Objects
                                     /\ m.table[p] = st.table[p]
                                     /\ GetName(m, p) = GetName(st, p)
        BY <1>1, <2>1, <2>4, <2>10 DEF NamingType
      <3> QED  BY <2>1, <2>4, <3>1 DEF OtherNames
    <2>13. Granted(m, n, t, o) = Granted(st, n, t, o)
      BY <2>12 DEF Granted
    <2>14. /\ WellFormed(r) /\ r.live = m.live /\ r.table = m.table
           /\ GetName(r, o) \in Granted(m, n, m.table[o], o)
           /\ \A p \in Objects \ {o} : GetName(r, p) = GetName(m, p)
      BY <1>1, <2>8, <2>11, SetNameWellFormed
    <2> QED  BY <1>1, <2>1, <2>4, <2>9, <2>10, <2>13, <2>14
  <1> QED  BY <1>2, <1>3

----------------------------------------------------------------------------
\* WellFormed is inductive.
LEMMA EmptyWellFormed ==
    ASSUME NEW r, r = NamingInit
    PROVE  /\ WellFormed(r) /\ r.live = {}
           /\ r.table = [o \in Objects |-> NoTable]
  <1>1. UniqueModulus \in Nat /\ UniqueModulus > 0
    BY ModulusAssumption, FS_CardinalityType
  <1>2. r \in NamingType /\ r.live = {} /\ r.table = [o \in Objects |-> NoTable]
    BY <1>1 DEF NamingInit, NamingType
  <1>3. DistinctKeys(r) /\ CurrentEntries(r) /\ FoundObjects(r)
    BY DEF NamingInit, DistinctKeys, CurrentEntries, FoundObjects
  <1> QED  BY <1>2, <1>3 DEF WellFormed

LEMMA InitWellFormed == Init => WellFormed(naming)
  BY EmptyWellFormed DEF Init

LEMMA ConstructWellFormed ==
    ASSUME NEW st, WellFormed(st), NEW o \in Objects \ st.live, NEW r, r = Construct(st, o)
    PROVE  /\ WellFormed(r) /\ r.live = st.live \cup {o}
           /\ r.table = [st.table EXCEPT ![o] = NoTable]
           /\ r.hasName = [st.hasName EXCEPT ![o] = FALSE]
  <1>1. /\ st \in NamingType /\ DistinctKeys(st) /\ CurrentEntries(st) /\ FoundObjects(st)
    BY DEF WellFormed
  <1>2. /\ r.live = st.live \cup {o} /\ o \notin st.live
        /\ r.table = [st.table EXCEPT ![o] = NoTable]
        /\ r.hasName = [st.hasName EXCEPT ![o] = FALSE]
        /\ r.names = st.names /\ r.vmap = st.vmap /\ r.lastUnique = st.lastUnique
        /\ r \in NamingType
    BY <1>1 DEF Construct, NamingType
  <1>3. DistinctKeys(r)
    BY <1>1, <1>2 DEF DistinctKeys
  <1>4. CurrentEntries(r)
    BY <1>1, <1>2 DEF CurrentEntries, NamingType, Entries
  <1>5. FoundObjects(r)
    BY <1>1, <1>2 DEF FoundObjects, NamingType
  <1> QED  BY <1>2, <1>3, <1>4, <1>5 DEF WellFormed

LEMMA DestroyWellFormed ==
    ASSUME NEW st, WellFormed(st), NEW o \in Objects, st.table[o] = NoTable,
           NEW r, r = Destroy(st, o)
    PROVE  /\ WellFormed(r) /\ r.live = st.live \ {o} /\ r.table = st.table
  <1>1. /\ st \in NamingType /\ DistinctKeys(st) /\ CurrentEntries(st) /\ FoundObjects(st)
    BY DEF WellFormed
  <1>2. /\ r.live = st.live \ {o} /\ r.table = st.table
        /\ r.hasName = [st.hasName EXCEPT ![o] = FALSE]
        /\ r.names = st.names /\ r.vmap = st.vmap /\ r.lastUnique = st.lastUnique
        /\ r \in NamingType
    BY <1>1 DEF Destroy, NamingType
  <1>3. DistinctKeys(r)
    BY <1>1, <1>2 DEF DistinctKeys
  <1>4. CurrentEntries(r)
    BY <1>1, <1>2, TableAssumption DEF CurrentEntries, NamingType, Entries
  <1>5. FoundObjects(r)
    BY <1>1, <1>2 DEF FoundObjects, NamingType
  <1> QED  BY <1>2, <1>3, <1>4, <1>5 DEF WellFormed

\* A table's counter may start again, whatever the table holds.
LEMMA RecountWellFormed ==
    ASSUME NEW st, WellFormed(st), NEW t \in Tables, NEW r, r = [st EXCEPT !.lastUnique[t] = 0]
    PROVE  WellFormed(r) /\ r.live = st.live /\ r.table = st.table
  <1>1. /\ st \in NamingType /\ DistinctKeys(st) /\ CurrentEntries(st) /\ FoundObjects(st)
    BY DEF WellFormed
  <1>2. UniqueModulus \in Nat /\ UniqueModulus > 0
    BY ModulusAssumption, FS_CardinalityType
  <1>3. /\ r.live = st.live /\ r.table = st.table /\ r.hasName = st.hasName
        /\ r.names = st.names /\ r.vmap = st.vmap /\ r \in NamingType
    BY <1>1, <1>2 DEF NamingType
  <1> QED  BY <1>1, <1>3 DEF WellFormed, DistinctKeys, CurrentEntries, FoundObjects

LEMMA NewWellFormed ==
    ASSUME WellFormed(naming), NEW o \in Objects, New(o)
    PROVE  WellFormed(naming')
  BY ConstructWellFormed DEF New

LEMMA DeleteWellFormed ==
    ASSUME WellFormed(naming), NEW o \in Objects, Delete(o)
    PROVE  WellFormed(naming')
  BY DestroyWellFormed DEF Delete

LEMMA RenewWellFormed ==
    ASSUME WellFormed(naming), NEW t \in Tables, Renew(t)
    PROVE  WellFormed(naming')
  <1>1. /\ naming \in NamingType /\ DistinctKeys(naming)
        /\ CurrentEntries(naming) /\ FoundObjects(naming)
    BY DEF WellFormed
  <1>2. /\ naming'.live = naming.live /\ naming'.table = naming.table
        /\ naming'.hasName = naming.hasName /\ naming'.names = naming.names
        /\ naming'.vmap = [naming.vmap EXCEPT ![t] = {}]
        /\ naming'.lastUnique = [naming.lastUnique EXCEPT ![t] = 0]
        /\ naming' = [live |-> naming'.live, table |-> naming'.table,
                      hasName |-> naming'.hasName, names |-> naming'.names,
                      vmap |-> naming'.vmap, lastUnique |-> naming'.lastUnique]
    BY <1>1 DEF Renew, NamingType
  <1>3. UniqueModulus \in Nat /\ UniqueModulus > 0
    BY ModulusAssumption, FS_CardinalityType
  <1>4. naming' \in NamingType
    <2>1. /\ naming'.vmap \in [Tables -> SUBSET Entries]
          /\ naming'.lastUnique \in [Tables -> 0 .. UniqueModulus - 1]
      BY <1>1, <1>2, <1>3 DEF NamingType
    <2>2. /\ naming'.live \in SUBSET Objects
          /\ naming'.table \in [Objects -> Tables \cup {NoTable}]
          /\ naming'.hasName \in [Objects -> BOOLEAN]
          /\ naming'.names \in [Objects -> Entries \cup {NoEntry}]
      BY <1>1, <1>2 DEF NamingType
    <2> QED  BY ONLY <2>1, <2>2, <1>2 DEF NamingType
  <1>5. DistinctKeys(naming')
    BY <1>1, <1>2 DEF DistinctKeys, NamingType
  <1>6. CurrentEntries(naming')
    BY <1>1, <1>2 DEF CurrentEntries, NamingType
  <1>7. FoundObjects(naming')
    <2>1. \A o \in naming.live : naming.table[o] # t
      BY DEF Renew
    <2> QED  BY <1>1, <1>2, <2>1 DEF FoundObjects, NamingType
  <1> QED  BY <1>4, <1>5, <1>6, <1>7 DEF WellFormed

LEMMA NextWellFormed == WellFormed(naming) /\ [Next]_naming => WellFormed(naming')
  <1> SUFFICES ASSUME WellFormed(naming), [Next]_naming PROVE WellFormed(naming')
    OBVIOUS
  <1>1. CASE UNCHANGED naming
    BY <1>1
  <1>2. ASSUME NEW o \in Objects, New(o) PROVE WellFormed(naming')
    BY <1>2, NewWellFormed
  <1>3. ASSUME NEW o \in Objects, Delete(o) PROVE WellFormed(naming')
    BY <1>3, DeleteWellFormed
  <1>4. ASSUME NEW o \in Objects, NEW n \in GivenNames \cup {EmptyName}, Name(o, n)
        PROVE  WellFormed(naming')
    BY <1>4, SetNameWellFormed, NameAssumption DEF Name
  <1>5. ASSUME NEW o \in Objects, NEW t \in Tables \cup {NoTable}, Move(o, t)
        PROVE  WellFormed(naming')
    BY <1>5, SetSymbolTableWellFormed DEF Move
  <1>6. ASSUME NEW t \in Tables, Renew(t) PROVE WellFormed(naming')
    BY <1>6, RenewWellFormed
  <1> QED  BY <1>1, <1>2, <1>3, <1>4, <1>5, <1>6 DEF Next

\* The tables and the objects of every reachable state are each other's inverse.
THEOREM AlwaysWellFormed == Spec => []NamingInv
  <1>1. Init => NamingInv
    BY InitWellFormed DEF NamingInv
  <1>2. NamingInv /\ [Next]_naming => NamingInv'
    BY NextWellFormed DEF NamingInv
  <1> QED  BY <1>1, <1>2, PTL DEF Spec

\* The state of names keeps its types.
THEOREM TypeCorrect == Spec => []TypeOK
  <1>1. NamingInv => TypeOK
    BY DEF NamingInv, WellFormed, TypeOK
  <1> QED  BY <1>1, AlwaysWellFormed, PTL

\* Names are unique in a table (SymbolTable.h:23), for every number of objects
\* and tables and every modulus of the counter above the number of objects.
THEOREM NamesAreUnique == Spec => []UniqueNames
  <1>1. NamingInv => UniqueNames
    BY DEF NamingInv, WellFormed, UniqueNames
  <1> QED  BY <1>1, AlwaysWellFormed, PTL

\* A table never answers with an object that died, left or has another name.
THEOREM EntriesAreCurrent == Spec => []TableEntriesAreCurrent
  <1>1. NamingInv => TableEntriesAreCurrent
    BY DEF NamingInv, WellFormed, TableEntriesAreCurrent
  <1> QED  BY <1>1, AlwaysWellFormed, PTL

\* The assertion of getSymbolTableEntry (Named.cpp:52) holds, and a table
\* knows each of its named objects.
THEOREM ObjectsAreFound == Spec => []NamedObjectsAreFound
  <1>1. NamingInv => NamedObjectsAreFound
    BY DEF NamingInv, WellFormed, NamedObjectsAreFound
  <1> QED  BY <1>1, AlwaysWellFormed, PTL

\* The assertion of ~SymbolTable (SymbolTable.cpp:25) holds when its members
\* have left.
THEOREM AbandonedAreEmpty == Spec => []AbandonedTablesAreEmpty
  <1>1. NamingInv => AbandonedTablesAreEmpty
    BY DEF NamingInv, WellFormed, CurrentEntries, AbandonedTablesAreEmpty, NamingType
  <1> QED  BY <1>1, AlwaysWellFormed, PTL

----------------------------------------------------------------------------
\* A step moves at most the object it names.
LEMMA OnlyMoveChangesTable ==
    ASSUME NamingInv, [Next]_naming, NEW o \in naming.live \cap naming'.live,
           naming.table[o] # naming'.table[o]
    PROVE  \E t \in Tables \cup {NoTable} : Move(o, t)
  <1>1. WellFormed(naming) /\ naming \in NamingType /\ o \in Objects
    BY DEF NamingInv, WellFormed, NamingType
  <1>2. naming' # naming
    OBVIOUS
  <1>3. ASSUME NEW p \in Objects, New(p) PROVE FALSE
    BY <1>1, <1>3 DEF New, Construct, NamingType
  <1>4. ASSUME NEW p \in Objects, Delete(p) PROVE FALSE
    BY <1>1, <1>4 DEF Delete, Destroy, NamingType
  <1>5. ASSUME NEW p \in Objects, NEW n \in GivenNames \cup {EmptyName}, Name(p, n)
        PROVE  FALSE
    BY <1>1, <1>5, SetNameWellFormed, NameAssumption DEF Name
  <1>6. ASSUME NEW t \in Tables, Renew(t) PROVE FALSE
    BY <1>1, <1>6 DEF Renew, NamingType
  <1>7. ASSUME NEW p \in Objects, NEW t \in Tables \cup {NoTable}, Move(p, t)
        PROVE  p = o
    <2>1. naming'.table = [naming.table EXCEPT ![p] = t]
      BY <1>1, <1>7, SetSymbolTableWellFormed DEF Move
    <2> QED  BY <1>1, <2>1 DEF NamingType
  <1> QED  BY <1>2, <1>3, <1>4, <1>5, <1>6, <1>7 DEF Next

\* An object that changes tables keeps its name, or its name was taken there.
THEOREM MovingKeepsNames == Spec => MovesKeepNames
  <1> DEFINE Step == \A o \in naming.live \cap naming'.live :
                naming.table[o] # naming'.table[o] =>
                   LET old == GetName(naming, o)
                       new == GetName(naming', o)
                   IN  \/ new = old
                       \/ /\ Lookup(naming, naming'.table[o], old) \notin {{}, {o}}
                          /\ \E n \in 0 .. UniqueModulus - 1 : new = Suffixed(old, n)
  <1>1. NamingInv /\ [Next]_naming => Step
    <2> SUFFICES ASSUME NamingInv, [Next]_naming,
                        NEW o \in naming.live \cap naming'.live,
                        naming.table[o] # naming'.table[o],
                        GetName(naming', o) # GetName(naming, o)
                 PROVE  /\ Lookup(naming, naming'.table[o], GetName(naming, o)) \notin {{}, {o}}
                        /\ \E n \in 0 .. UniqueModulus - 1 :
                              GetName(naming', o) = Suffixed(GetName(naming, o), n)
      OBVIOUS
    <2> DEFINE old == GetName(naming, o)
    <2>1. PICK t \in Tables \cup {NoTable} : Move(o, t)
      BY OnlyMoveChangesTable
    <2>2. WellFormed(naming) /\ naming \in NamingType /\ FoundObjects(naming)
      BY DEF NamingInv, WellFormed
    <2>3. /\ naming'.table = [naming.table EXCEPT ![o] = t]
          /\ GetName(naming', o) \in Granted(naming, old, t, o)
      BY <2>1, <2>2, SetSymbolTableWellFormed DEF Move
    <2>4. naming'.table[o] = t
      BY <2>2, <2>3 DEF NamingType
    <2>5. /\ old \in OtherNames(naming, t, o) /\ t \in Tables
          /\ \E n \in 0 .. UniqueModulus - 1 : GetName(naming', o) = Suffixed(old, n)
      BY <2>3 DEF Granted, Suffixed
    <2>6. PICK p \in naming.live \ {o} :
             naming.table[p] = t /\ GetName(naming, p) = old /\ old # EmptyName
      BY <2>5 DEF OtherNames
    <2>7. naming.hasName[p] /\ naming.names[p].key = old
      BY <2>6 DEF GetName
    <2>8. naming.names[p] \in naming.vmap[t] /\ naming.names[p].value = p
      BY <2>2, <2>5, <2>6, <2>7, TableAssumption DEF FoundObjects
    <2>9. p \in Lookup(naming, t, old) /\ p # o
      BY <2>6, <2>7, <2>8 DEF Lookup
    <2> QED  BY <2>4, <2>5, <2>9
  <1> HIDE DEF Step
  <1>2. Spec => [][Step]_naming
    BY <1>1, AlwaysWellFormed, PTL DEF Spec
  <1> QED  BY <1>2 DEF MovesKeepNames, Step

\* Named and SymbolTable implement the name space.
THEOREM NamingImplementsNameSpace == Spec => ImplementsNameSpace
  <1>1. Init => NameSpaceOf!Init
    BY DEF Init, NamingInit, NameSpaceOf!Init
  <1>2. NamingInv /\ [Next]_naming => [NameSpaceOf!Next]_(NameSpaceOf!vars)
    <2> SUFFICES ASSUME NamingInv, [Next]_naming
                 PROVE  [NameSpaceOf!Next]_(NameSpaceOf!vars)
      OBVIOUS
    <2> DEFINE member == [o \in Objects |->
                            IF o \in naming.live THEN naming.table[o] ELSE NoTable]
               label == [o \in Objects |->
                            IF o \in naming.live THEN GetName(naming, o) ELSE EmptyName]
    <2>1. WellFormed(naming) /\ naming \in NamingType
      BY DEF NamingInv, WellFormed
    <2>2. \A o \in naming.live : o \in Objects
      BY <2>1 DEF NamingType
    <2>3. \A o \in naming.live, t \in Tables \cup {NoTable} :
             NameSpaceOf!Taken(t, o) = OtherNames(naming, t, o)
      BY <2>2 DEF NameSpaceOf!Taken, OtherNames
    <2>4. \A n \in Names \cup {EmptyName}, o \in naming.live, t \in Tables \cup {NoTable} :
             NameSpaceOf!Given(n, t, o) = Granted(naming, n, t, o)
      BY <2>3 DEF NameSpaceOf!Given, Granted
    <2>5. CASE UNCHANGED naming
      BY <2>5 DEF NameSpaceOf!vars
    <2>6. ASSUME NEW o \in Objects, New(o) PROVE NameSpaceOf!Next
      <3>1. /\ naming'.live = naming.live \cup {o} /\ o \notin naming.live
            /\ naming'.table = [naming.table EXCEPT ![o] = NoTable]
            /\ naming'.hasName = [naming.hasName EXCEPT ![o] = FALSE]
            /\ naming'.names = naming.names
        BY <2>1, <2>6 DEF New, Construct, NamingType
      <3>2. member' = member
        BY <2>1, <3>1 DEF NamingType
      <3>3. label' = label
        BY <2>1, <3>1 DEF GetName, NamingType
      <3>4. NameSpaceOf!Appear(o)
        BY <3>1, <3>2, <3>3 DEF NameSpaceOf!Appear
      <3> QED  BY <3>4 DEF NameSpaceOf!Next
    <2>7. ASSUME NEW o \in Objects, Delete(o) PROVE NameSpaceOf!Next
      <3>1. /\ naming'.live = naming.live \ {o} /\ o \in naming.live
            /\ naming.table[o] = NoTable /\ naming'.table = naming.table
            /\ naming'.hasName = [naming.hasName EXCEPT ![o] = FALSE]
            /\ naming'.names = naming.names
        BY <2>1, <2>7 DEF Delete, Destroy, NamingType
      <3>2. member' = member /\ member[o] = NoTable
        BY <2>1, <3>1 DEF NamingType
      <3>3. label' = [label EXCEPT ![o] = EmptyName]
        BY <2>1, <3>1 DEF GetName, NamingType
      <3>4. NameSpaceOf!Disappear(o)
        BY <3>1, <3>2, <3>3 DEF NameSpaceOf!Disappear
      <3> QED  BY <3>4 DEF NameSpaceOf!Next
    <2>8. ASSUME NEW o \in Objects, NEW n \in GivenNames \cup {EmptyName}, Name(o, n)
          PROVE  NameSpaceOf!Next
      <3>1. o \in naming.live /\ n \in Names \cup {EmptyName}
        BY <2>8, NameAssumption DEF Name
      <3>2. /\ naming'.live = naming.live /\ naming'.table = naming.table
            /\ GetName(naming', o) \in Granted(naming, n, naming.table[o], o)
            /\ \A p \in Objects \ {o} : GetName(naming', p) = GetName(naming, p)
        BY <2>1, <2>8, <3>1, SetNameWellFormed DEF Name
      <3>3. member' = member /\ member[o] = naming.table[o]
            /\ member[o] \in Tables \cup {NoTable}
        BY <2>1, <3>1, <3>2 DEF NamingType
      <3>4. label' = [label EXCEPT ![o] = GetName(naming', o)]
        BY <3>1, <3>2
      <3>5. GetName(naming', o) \in NameSpaceOf!Given(n, member[o], o)
        BY <2>4, <3>1, <3>2, <3>3
      <3>6. NameSpaceOf!Ask(o, n)
        BY <3>1, <3>2, <3>3, <3>4, <3>5 DEF NameSpaceOf!Ask
      <3> QED  BY <2>8, <3>6 DEF NameSpaceOf!Next
    <2>9. ASSUME NEW o \in Objects, NEW t \in Tables \cup {NoTable}, Move(o, t)
          PROVE  NameSpaceOf!Next
      <3>1. o \in naming.live
        BY <2>9 DEF Move
      <3>2. /\ naming'.live = naming.live
            /\ naming'.table = [naming.table EXCEPT ![o] = t]
            /\ GetName(naming', o) \in Granted(naming, GetName(naming, o), t, o)
            /\ \A p \in Objects \ {o} : GetName(naming', p) = GetName(naming, p)
        BY <2>1, <2>9, <3>1, SetSymbolTableWellFormed DEF Move
      <3>3. member' = [member EXCEPT ![o] = t]
        BY <2>1, <3>1, <3>2 DEF NamingType
      <3>4. label' = [label EXCEPT ![o] = GetName(naming', o)]
        BY <3>1, <3>2
      <3>5. label[o] = GetName(naming, o) /\ label[o] \in Names \cup {EmptyName}
        BY <2>1, <2>2, <3>1, GetNameType
      <3>6. GetName(naming', o) \in NameSpaceOf!Given(label[o], t, o)
        BY <2>4, <3>1, <3>2, <3>5
      <3>7. NameSpaceOf!Join(o, t)
        BY <3>1, <3>2, <3>3, <3>4, <3>6 DEF NameSpaceOf!Join
      <3> QED  BY <2>9, <3>7 DEF NameSpaceOf!Next
    <2>10. ASSUME NEW t \in Tables, Renew(t) PROVE UNCHANGED NameSpaceOf!vars
      <3>1. /\ naming'.live = naming.live /\ naming'.table = naming.table
            /\ naming'.hasName = naming.hasName /\ naming'.names = naming.names
        BY <2>1, <2>10 DEF Renew, NamingType
      <3> QED  BY <3>1 DEF NameSpaceOf!vars, GetName
    <2> QED  BY <2>5, <2>6, <2>7, <2>8, <2>9, <2>10 DEF Next
  <1> QED  BY <1>1, <1>2, AlwaysWellFormed, PTL DEF Spec, ImplementsNameSpace, NameSpaceOf!Spec
=============================================================================
