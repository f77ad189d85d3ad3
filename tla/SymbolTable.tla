---------------------------- MODULE SymbolTable ----------------------------
(***************************************************************************)
(* Names of objects (Named.cpp) and the tables that keep the names of a    *)
(* module's classes unique (SymbolTable.cpp).                              *)
(*                                                                         *)
(* The state of the two files is one record, so that the modules built on  *)
(* this one can compose the calls as the code does, one after the other:   *)
(*                                                                         *)
(*   live        the objects whose constructor ran and destructor did not  *)
(*   table       Named::d_symbol_table                                     *)
(*   hasName     Named::d_has_name                                         *)
(*   names       LLAIRContextImpl::names(), keyed by the ADDRESS of an     *)
(*               object: it outlives the object                            *)
(*   vmap        SymbolTable::vmap, the set of its entries                 *)
(*   lastUnique  SymbolTable::LastUnique, modulo UniqueModulus (2^32)      *)
(*                                                                         *)
(* An Object is an address: it may be destroyed and constructed again.     *)
(***************************************************************************)
EXTENDS Naturals, Sequences, FiniteSets

CONSTANTS Objects,         \* addresses of Named objects
          Tables,          \* symbol tables, one per module
          Bases,           \* names before any automatic suffix
          GivenNames,      \* names that callers pass
          EmptyName,       \* the empty string
          NoTable,         \* nullptr as a symbol table
          NoEntry,         \* no key in names()
          UniqueModulus,   \* LastUnique wraps to 0 here
          MaxSuffixes      \* bound: automatic suffixes on one name

\* A name is a base and the ".<n>" suffixes that followed it.
Names == [base : Bases, suffixes : Seq(Nat)]

\* StringMapEntry<Named *>: a key and the object it names.
Entries == [key : Names, value : Objects]

ASSUME TableAssumption   == NoTable \notin Tables
ASSUME NameAssumption    == /\ GivenNames \subseteq Names
                            /\ EmptyName \notin Names
ASSUME EntryAssumption   == NoEntry \notin Entries
\* makeUniqueName ends because 2^32 exceeds the objects a table can hold.
ASSUME ModulusAssumption == /\ IsFiniteSet(Objects)
                            /\ UniqueModulus \in Nat
                            /\ UniqueModulus > Cardinality(Objects)

VARIABLE naming

----------------------------------------------------------------------------
(* The code's functions, as transformers of the record st.                 *)

Keys(st, t) == {e.key : e \in st.vmap[t]}

GetName(st, o) == IF st.hasName[o] THEN st.names[o].key ELSE EmptyName

\* SymbolTable::lookup, as a set of at most one object.
Lookup(st, t, name) == {e.value : e \in {f \in st.vmap[t] : f.key = name}}

\* "A" with ".n" appended: the name makeUniqueName tries next.
Suffixed(name, n) == [name EXCEPT !.suffixes = Append(@, n)]

\* Mutant: LastUnique never wraps.
CounterUnwrapped(st, t, k) == st.lastUnique[t] + k

\* LastUnique after k increments; k is at most UniqueModulus.
Counter(st, t, k) ==
    LET n == st.lastUnique[t] + k
    IN  IF n < UniqueModulus THEN n ELSE n - UniqueModulus

\* The numbers of increments at which makeUniqueName could stop.
FreeSteps(st, t, name) ==
    {k \in 1 .. UniqueModulus : Suffixed(name, Counter(st, t, k)) \notin Keys(st, t)}

\* How often makeUniqueName increments LastUnique: until the first free name.
UniqueSteps(st, t, name) ==
    IF name \notin Keys(st, t) THEN 0
    ELSE CHOOSE k \in FreeSteps(st, t, name) :
            \A j \in FreeSteps(st, t, name) : k <= j

\* Mutant: makeUniqueName takes the first name it tries.
UniqueKeyUntested(st, t, name) ==
    IF name \notin Keys(st, t) THEN name ELSE Suffixed(name, Counter(st, t, 1))

\* createSymbolTableEntry's key: the name itself, or the name made unique.
UniqueKey(st, t, name) ==
    IF name \notin Keys(st, t) THEN name
    ELSE Suffixed(name, Counter(st, t, UniqueSteps(st, t, name)))

\* Mutant: insert instead of operator[], which keeps a destroyed object's key.
AttachUnlessKnown(st, o, e) ==
    [st EXCEPT !.hasName[o] = TRUE,
               !.names[o] = IF @ = NoEntry THEN e ELSE @]

\* setSymbolTableEntry(e): the object now has e as its entry.
Attach(st, o, e) ==
    [st EXCEPT !.hasName[o] = TRUE,
               !.names[o] = e]

\* Mutant: the entry stays in the table.
DetachKeepingEntry(st, o) ==
    [st EXCEPT !.hasName[o] = FALSE, !.names[o] = NoEntry]

\* removeSymbolTableEntry, destroySymbolTableEntry, setSymbolTableEntry(nullptr).
Detach(st, o) ==
    IF ~st.hasName[o] THEN st
    ELSE [st EXCEPT !.hasName[o] = FALSE,
                    !.names[o] = NoEntry,
                    !.vmap = [t \in Tables |->
                                IF t = st.table[o] THEN @[t] \ {st.names[o]} ELSE @[t]]]

\* createSymbolTableEntry(name, o) in the object's table, and its attachment.
CreateEntry(st, o, t, name) ==
    LET e == [key |-> UniqueKey(st, t, name), value |-> o]
    IN  [Attach(st, o, e) EXCEPT
            !.vmap[t] = @ \cup {e},
            !.lastUnique[t] = Counter(st, t, UniqueSteps(st, t, name))]

\* Mutant: the empty name is ignored.
SetNameIgnoringEmpty(st, o, name) ==
    IF name \in {EmptyName, GetName(st, o)} THEN st
    ELSE IF st.table[o] = NoTable
         THEN Attach(Detach(st, o), o, [key |-> name, value |-> o])
         ELSE CreateEntry(Detach(st, o), o, st.table[o], name)

SetName(st, o, name) ==
    IF GetName(st, o) = name THEN st
    ELSE IF name = EmptyName THEN Detach(st, o)
    ELSE IF st.table[o] = NoTable
         THEN Attach(Detach(st, o), o, [key |-> name, value |-> o])
         ELSE CreateEntry(Detach(st, o), o, st.table[o], name)

\* Mutants: the table changes before the name is taken out of the old one; the
\* name is not given again.
SetSymbolTableEarly(st, o, t) ==
    IF st.table[o] = t THEN st
    ELSE LET moved == [st EXCEPT !.table[o] = t]
         IN  SetName(SetName(moved, o, EmptyName), o, GetName(st, o))

SetSymbolTableUnnamed(st, o, t) ==
    IF st.table[o] = t THEN st
    ELSE [SetName(st, o, EmptyName) EXCEPT !.table[o] = t]

SetSymbolTable(st, o, t) ==
    IF st.table[o] = t THEN st
    ELSE LET unnamed == SetName(st, o, EmptyName)
             moved   == [unnamed EXCEPT !.table[o] = t]
         IN  SetName(moved, o, GetName(st, o))

\* The constructor of a Named: its members' initialisers, and nothing else.
Construct(st, o) ==
    [st EXCEPT !.live = @ \cup {o},
               !.table[o] = NoTable,
               !.hasName[o] = FALSE]

\* ~Named is empty: the key of the object stays in names(). Its own members are
\* gone, and stand here as the next constructor will leave them.
Destroy(st, o) ==
    [st EXCEPT !.live = @ \ {o},
               !.hasName[o] = FALSE]

----------------------------------------------------------------------------
NamingInit ==
    [live       |-> {},
     table      |-> [o \in Objects |-> NoTable],
     hasName    |-> [o \in Objects |-> FALSE],
     names      |-> [o \in Objects |-> NoEntry],
     vmap       |-> [t \in Tables |-> {}],
     lastUnique |-> [t \in Tables |-> 0]]

Init == naming = NamingInit

\* Bound: stop where a name would carry more than MaxSuffixes suffixes.
WithinBound(o) ==
    \/ ~naming'.hasName[o]
    \/ Len(naming'.names[o].key.suffixes) <= MaxSuffixes

New(o) ==
    /\ o \notin naming.live
    /\ naming' = Construct(naming, o)

Name(o, name) ==
    /\ o \in naming.live
    /\ naming' = SetName(naming, o, name)
    /\ WithinBound(o)

\* An owner takes the object in, or (t = NoTable) lets it go.
Move(o, t) ==
    /\ o \in naming.live
    /\ naming' = SetSymbolTable(naming, o, t)
    /\ WithinBound(o)

\* An owner detaches an object from its table before it deletes it
\* (removeNodeFromList runs before deleteNode).
Delete(o) ==
    /\ o \in naming.live
    /\ naming.table[o] = NoTable
    /\ naming' = Destroy(naming, o)

\* A table goes away with its module, whose destructor empties it first; the
\* next module at this address has a table with a new counter.
Renew(t) ==
    /\ \A o \in naming.live : naming.table[o] # t
    /\ naming' = [naming EXCEPT !.vmap[t] = {},
                                !.lastUnique[t] = 0]

Next ==
    \/ \E o \in Objects : New(o) \/ Delete(o)
    \/ \E o \in Objects, n \in GivenNames \cup {EmptyName} : Name(o, n)
    \/ \E o \in Objects, t \in Tables \cup {NoTable} : Move(o, t)
    \/ \E t \in Tables : Renew(t)

Spec == Init /\ [][Next]_naming

----------------------------------------------------------------------------
\* The types of the fields. What names() holds under an address is an entry or
\* nothing, for destroyed objects too.
NamingType ==
    [live       : SUBSET Objects,
     table      : [Objects -> Tables \cup {NoTable}],
     hasName    : [Objects -> BOOLEAN],
     names      : [Objects -> Entries \cup {NoEntry}],
     vmap       : [Tables -> SUBSET Entries],
     lastUnique : [Tables -> 0 .. UniqueModulus - 1]]

DistinctKeys(st) ==
    \A t \in Tables : \A e, f \in st.vmap[t] : e.key = f.key => e = f

CurrentEntries(st) ==
    \A t \in Tables : \A e \in st.vmap[t] :
        /\ e.value \in st.live
        /\ st.table[e.value] = t
        /\ st.hasName[e.value]
        /\ st.names[e.value] = e

FoundObjects(st) ==
    \A o \in st.live : st.hasName[o] =>
        /\ st.names[o] # NoEntry
        /\ st.names[o].value = o
        /\ st.table[o] # NoTable => st.names[o] \in st.vmap[st.table[o]]

\* The state of names keeps its types.
TypeOK == naming \in NamingType

\* No two entries of a table have the same name: the table ensures "uniqueness
\* of names" (SymbolTable.h:23), whatever is renamed, moved in or moved out, and
\* also after LastUnique has wrapped.
UniqueNames == DistinctKeys(naming)

\* What a table holds under a name is a live object that is in this table and
\* whose own entry is this one: getClass never returns a destroyed class, one
\* that left the module, or one that has another name by now.
TableEntriesAreCurrent == CurrentEntries(naming)

\* A live object with a name finds its own entry in names() (the assertion of
\* Named.cpp:52), although keys of destroyed objects stay there and their
\* addresses are used again; in a table, the table knows it under that name.
NamedObjectsAreFound == FoundObjects(naming)

\* "Values remain in symbol table!" (SymbolTable.cpp:25) never fires: a table
\* that every live object has left is empty.
AbandonedTablesAreEmpty ==
    \A t \in Tables :
        (\A o \in naming.live : naming.table[o] # t) => naming.vmap[t] = {}

\* Moving an object between tables keeps its name, unless another object of
\* the new table has that name already: then the name grows by one suffix.
MovesKeepNames ==
    [][\A o \in naming.live \cap naming'.live :
          naming.table[o] # naming'.table[o] =>
             LET old == GetName(naming, o)
                 new == GetName(naming', o)
             IN  \/ new = old
                 \/ /\ Lookup(naming, naming'.table[o], old) \notin {{}, {o}}
                    /\ \E n \in 0 .. UniqueModulus - 1 : new = Suffixed(old, n)]_naming

----------------------------------------------------------------------------
\* The name space the entries, maps and counters stand for.
NameSpaceOf == INSTANCE NameSpace WITH
    present <- naming.live,
    member  <- [o \in Objects |-> IF o \in naming.live THEN naming.table[o] ELSE NoTable],
    label   <- [o \in Objects |-> IF o \in naming.live THEN GetName(naming, o) ELSE EmptyName]

\* Named and SymbolTable together implement the name space: getName() always
\* answers what the last setName or move gave, and a name given is either the
\* one asked for or, only when an object of the table has it, a suffixed one.
ImplementsNameSpace == NameSpaceOf!Spec
=============================================================================
