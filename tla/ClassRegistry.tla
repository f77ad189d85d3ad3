--------------------------- MODULE ClassRegistry ---------------------------
(***************************************************************************)
(* The classes of a module (Class.cpp, the class part of Module.cpp): the  *)
(* list d_classes, the names of the classes in the module's symbol table,  *)
(* and the operands of the llvm::Module's named metadata "llair.class".    *)
(*                                                                         *)
(* A class's metadata node (d_md) is a uniqued tuple of its name, its type *)
(* and its methods' functions; here it is the name and the address of the  *)
(* node, for syncMetadata orders nodes by address. A class's d_module is   *)
(* the module whose symbol table it is in: setModule sets the two together.*)
(***************************************************************************)
EXTENDS Naturals, Sequences, FiniteSets

CONSTANTS Objects, Bases, GivenNames, EmptyName, NoEntry,
          UniqueModulus, MaxSuffixes,
          Modules,        \* addresses of modules
          NoModule,       \* nullptr as a module
          Addresses,      \* addresses of metadata nodes: bounds their number
          Null,           \* an operand that setOperand cleared
          MaxOperands,    \* bound: length of a list of operands
          MaxUnique       \* bound: LastUnique of a module's symbol table

ASSUME ModuleAssumption  == NoModule \notin Modules
ASSUME AddressAssumption == Addresses \subseteq Nat /\ MaxOperands \in Nat

\* What SymbolTable assumes, said here for the proofs, and of null.
ASSUME NamesAssumption   ==
    LET AllNames == [base : Bases, suffixes : Seq(Nat)]
    IN  /\ GivenNames \subseteq AllNames /\ EmptyName \notin AllNames
        /\ NoEntry \notin [key : AllNames, value : Objects]
        /\ IsFiniteSet(Objects) /\ UniqueModulus \in Nat /\ UniqueModulus > Cardinality(Objects)
ASSUME NullAssumption    == Null \notin [name : GivenNames \cup {EmptyName}, address : Addresses]

VARIABLES naming,      \* names of the classes, see SymbolTable
          classes,     \* Module::d_classes
          md,          \* Class::d_md
          operands,    \* the operands of "llair.class" in d_llmodule
          open,        \* the modules that exist
          aborted      \* llvm::cast met a null node

vars == <<naming, classes, md, operands, open, aborted>>

Names == INSTANCE SymbolTable WITH Tables <- Modules, NoTable <- NoModule

Nodes == [name : GivenNames \cup {EmptyName}, address : Addresses]

ListedIn(m) == {classes[m][i] : i \in 1 .. Len(classes[m])}

----------------------------------------------------------------------------
(* Nodes that exist, and nodes a call may make or find.                    *)

KnownNodes == {md[o] : o \in Objects}
              \cup UNION {{operands[m][i] : i \in 1 .. Len(operands[m])} : m \in Modules}

UnusedAddresses == Addresses \ {n.address : n \in KnownNodes \ {Null}}

\* MDTuple::get finds the node of equal operands or makes one.
NodesFor(name) ==
    {n \in Nodes : n.name = name /\ (n \in KnownNodes \/ n.address \in UnusedAddresses)}

----------------------------------------------------------------------------
(* Class::setModule, called by the list's traits.                          *)

\* Mutant: a class that leaves stays an operand.
PunchedNothing(ops, n) == ops

\* The operands without o's node: its first occurrence becomes null.
Punched(ops, n) ==
    IF n \notin {ops[i] : i \in 1 .. Len(ops)} THEN ops
    ELSE LET first == CHOOSE i \in 1 .. Len(ops) :
                        ops[i] = n /\ \A j \in 1 .. i - 1 : ops[j] # n
         IN  [ops EXCEPT ![first] = Null]

\* The list without o, which is in it once.
Without(list, o) ==
    LET place == CHOOSE i \in 1 .. Len(list) : list[i] = o
    IN  [i \in 1 .. Len(list) - 1 |-> IF i < place THEN list[i] ELSE list[i + 1]]

\* addNodeToList: into the table, and the node becomes an operand. The class has its
\* node, unless a constructor made from metadata calls this (NamesAfter), and the
\* module its llvm::Module, for its release is not an action of this module.
Join(o, m, st, node) ==
    /\ naming' = Names!SetSymbolTable(st, o, m)
    /\ classes' = [classes EXCEPT ![m] = Append(@, o)]
    /\ operands' = [operands EXCEPT ![m] = Append(@, node)]
    /\ Len(operands'[m]) <= MaxOperands

\* Mutant: the class stays in the symbol table.
LeaveNamed(o, m, st) ==
    /\ naming' = naming
    /\ classes' = [classes EXCEPT ![m] = Without(@, o)]
    /\ operands' = [operands EXCEPT ![m] = Punched(@, md[o])]

\* removeNodeFromList: out of the table, and the operand becomes null.
Leave(o, m, st) ==
    /\ naming' = st
    /\ classes' = [classes EXCEPT ![m] = Without(@, o)]
    /\ operands' = [operands EXCEPT ![m] = Punched(@, md[o])]

----------------------------------------------------------------------------
(* Module::syncMetadata, the part about classes.                           *)

\* The nodes of m's classes in ascending order of address.
SortedNodes(m) ==
    LET nodes == [i \in 1 .. Len(classes[m]) |-> md[classes[m][i]]]
        rank(i) == Cardinality({j \in 1 .. Len(nodes) :
                        \/ nodes[j].address < nodes[i].address
                        \/ nodes[j].address = nodes[i].address /\ j <= i})
    IN  [k \in 1 .. Len(nodes) |-> nodes[CHOOSE i \in 1 .. Len(nodes) : rank(i) = k]]

\* Mutants of the merge: an equal element counts as missing; what is left of the
\* first range behind the end of the second is forgotten.
TurnOrEqual(ops, sorted, s) ==
    IF s.i > Len(ops) THEN s
    ELSE IF s.j > Len(sorted) \/ ops[s.i].address <= sorted[s.j].address
    THEN [s EXCEPT !.i = @ + 1, !.only = Append(@, ops[s.i])]
    ELSE [s EXCEPT !.j = @ + 1]

TurnWithoutTail(ops, sorted, s) ==
    IF s.i > Len(ops) \/ s.j > Len(sorted) THEN s
    ELSE IF ops[s.i].address < sorted[s.j].address
    THEN [s EXCEPT !.i = @ + 1, !.only = Append(@, ops[s.i])]
    ELSE IF sorted[s.j].address < ops[s.i].address THEN [s EXCEPT !.j = @ + 1]
    ELSE [s EXCEPT !.i = @ + 1, !.j = @ + 1]

\* A turn of for_each_symmetric_difference: the positions i and j in the ranges, and
\* the elements of the first, in the order they have, for which it called fn1.
Turn(ops, sorted, s) ==
    IF s.i > Len(ops) THEN s
    ELSE IF s.j > Len(sorted) \/ ops[s.i].address < sorted[s.j].address
    THEN [s EXCEPT !.i = @ + 1, !.only = Append(@, ops[s.i])]
    ELSE IF sorted[s.j].address < ops[s.i].address THEN [s EXCEPT !.j = @ + 1]
    ELSE [s EXCEPT !.i = @ + 1, !.j = @ + 1]

\* The operands that become classes; the second range is the classes' nodes, sorted.
FirstOnly(ops, sorted) ==
    LET after[k \in 0 .. Len(ops) + Len(sorted)] ==
          IF k = 0 THEN [i |-> 1, j |-> 1, only |-> <<>>] ELSE Turn(ops, sorted, after[k - 1])
    IN  after[Len(ops) + Len(sorted)].only

\* Mutant: the constructor names the class and does not enter the table.
NamesAfterUnlisted(m, nodes, new) ==
    LET after[k \in 0 .. Len(new)] ==
          IF k = 0 THEN naming
          ELSE Names!SetName(Names!Construct(after[k - 1], new[k]), new[k], nodes[k].name)
    IN  after[Len(new)]

\* Class(md, module) for each of the nodes: the constructor joins the list while
\* d_md is still null, so no operand is added, and sets the name last.
NamesAfter(m, nodes, new) ==
    LET after[k \in 0 .. Len(new)] ==
          IF k = 0 THEN naming
          ELSE Names!SetName(
                 Names!SetSymbolTable(Names!Construct(after[k - 1], new[k]), new[k], m),
                 new[k], nodes[k].name)
    IN  after[Len(new)]

\* Sequences of n different addresses for new objects.
Fresh(n) ==
    {s \in [1 .. n -> Objects \ naming.live] : \A i, j \in 1 .. n : s[i] = s[j] => i = j}

\* syncMetadata when the operands of m are ops. A null operand is below every
\* class and meets llvm::cast in the constructor, which ends the program.
SyncWith(m, ops) ==
    IF Null \in {ops[i] : i \in 1 .. Len(ops)}
    THEN /\ aborted' = TRUE
         /\ UNCHANGED <<naming, classes, md, operands>>
    ELSE LET nodes == FirstOnly(ops, SortedNodes(m))
         IN  \E new \in Fresh(Len(nodes)) :
                /\ naming' = NamesAfter(m, nodes, new)
                /\ classes' = [classes EXCEPT ![m] = @ \o new]
                /\ md' = [o \in Objects |->
                            IF \E k \in 1 .. Len(new) : new[k] = o
                            THEN nodes[CHOOSE k \in 1 .. Len(new) : new[k] = o]
                            ELSE md[o]]
                /\ operands' = [operands EXCEPT ![m] = ops]
                /\ UNCHANGED aborted

----------------------------------------------------------------------------
Init ==
    /\ naming = Names!NamingInit
    /\ classes = [m \in Modules |-> <<>>]
    /\ md = [o \in Objects |-> Null]
    /\ operands = [m \in Modules |-> <<>>]
    /\ open = {}
    /\ aborted = FALSE

\* Module(name, context): no classes, no operands.
OpenEmpty(m) ==
    /\ m \notin open
    /\ open' = open \cup {m}
    /\ UNCHANGED <<naming, classes, md, operands, aborted>>

\* Module(llmodule): the llvm::Module, read from bitcode, brings operands, and
\* the constructor calls syncMetadata.
OpenLoaded(m) ==
    /\ m \notin open
    /\ open' = open \cup {m}
    /\ \E n \in 1 .. MaxOperands :
         \E ops \in [1 .. n -> {node \in Nodes : node.address \in UnusedAddresses}] :
            /\ \A i, j \in 1 .. n : ops[i].address = ops[j].address => i = j
            /\ SyncWith(m, ops)

\* ~Module: d_classes.clear() erases the classes one by one, which leaves the
\* symbol table to its own destructor; the llvm::Module goes too.
Close(m) ==
    LET list == classes[m]
        cleared[k \in 0 .. Len(list)] ==
          IF k = 0 THEN naming
          ELSE Names!Destroy(Names!SetSymbolTable(cleared[k - 1], list[k], NoModule), list[k])
    IN  /\ m \in open
        /\ open' = open \ {m}
        /\ naming' = [cleared[Len(list)] EXCEPT !.lastUnique[m] = 0]
        /\ classes' = [classes EXCEPT ![m] = <<>>]
        /\ md' = [o \in Objects |-> IF o \in ListedIn(m) THEN Null ELSE md[o]]
        /\ operands' = [operands EXCEPT ![m] = <<>>]
        /\ UNCHANGED aborted

\* Class::Create(type, names, functions, name, m): the node is made with the
\* name the class has before it joins, which joining may change.
Create(o, name, m) ==
    /\ o \notin naming.live
    /\ \E node \in NodesFor(name) :
          LET st == Names!SetName(Names!Construct(naming, o), o, name)
          IN  /\ md' = [md EXCEPT ![o] = node]
              /\ IF m = NoModule THEN naming' = st /\ UNCHANGED <<classes, operands>>
                 ELSE m \in open /\ Join(o, m, st, node)
    /\ UNCHANGED <<open, aborted>>

\* getOrLoadClassFromABI(name) and each turn of getOrLoadAllClassesFromABI's
\* second loop: the class is created only when the table has none of that name.
GetOrLoad(o, name, m) ==
    /\ name # EmptyName
    /\ m \in open
    /\ Names!Lookup(naming, m, name) = {}
    /\ Create(o, name, m)

\* getClassList().push_back(o)
Insert(o, m) ==
    /\ o \in naming.live
    /\ m \in open
    /\ naming.table[o] = NoModule
    /\ Join(o, m, naming, md[o])
    /\ UNCHANGED <<md, open, aborted>>

\* getClassList().remove(o): the caller owns the class now.
Remove(o, m) ==
    /\ o \in ListedIn(m)
    /\ Leave(o, m, Names!SetSymbolTable(naming, o, NoModule))
    /\ UNCHANGED <<md, open, aborted>>

\* getClassList().erase(o)
Erase(o, m) ==
    /\ o \in ListedIn(m)
    /\ Leave(o, m, Names!Destroy(Names!SetSymbolTable(naming, o, NoModule), o))
    /\ md' = [md EXCEPT ![o] = Null]
    /\ UNCHANGED <<open, aborted>>

\* Its owner deletes a class that is in no list.
Delete(o) ==
    /\ o \in naming.live
    /\ naming.table[o] = NoModule
    /\ naming' = Names!Destroy(naming, o)
    /\ md' = [md EXCEPT ![o] = Null]
    /\ UNCHANGED <<classes, operands, open, aborted>>

\* Named::setName on a class; its node keeps the old name.
Rename(o, name) ==
    /\ o \in naming.live
    /\ naming' = Names!SetName(naming, o, name)
    /\ UNCHANGED <<classes, md, operands, open, aborted>>

\* syncMetadata() on its own.
Sync(m) ==
    /\ m \in open
    /\ SyncWith(m, operands[m])
    /\ UNCHANGED open

\* linkModules(dst, src): every operand of src is mapped to the node that names
\* dst's functions instead, a new one or one that was there, and appended; then
\* dst is synced.
LinkModules(dst, src) ==
    /\ dst # src /\ {dst, src} \subseteq open
    /\ Len(operands[dst]) + Len(operands[src]) <= MaxOperands
    /\ UNCHANGED open
    /\ IF Null \in {operands[src][i] : i \in DOMAIN operands[src]}
       THEN /\ aborted' = TRUE
            /\ UNCHANGED <<naming, classes, md, operands>>
       ELSE \E mapped \in [DOMAIN operands[src] -> Nodes] :
               /\ \A i \in DOMAIN mapped : mapped[i] \in NodesFor(operands[src][i].name)
               /\ \A i, j \in DOMAIN mapped :
                     mapped[i] = mapped[j] <=> operands[src][i] = operands[src][j]
               /\ \A i, j \in DOMAIN mapped :
                     mapped[i].address = mapped[j].address => mapped[i] = mapped[j]
               /\ SyncWith(dst, operands[dst] \o mapped)

Running(m) ==
    \/ OpenEmpty(m) \/ OpenLoaded(m) \/ Close(m) \/ Sync(m)
    \/ \E src \in Modules : LinkModules(m, src)
    \/ \E o \in Objects : Insert(o, m) \/ Remove(o, m) \/ Erase(o, m)
    \/ \E o \in Objects, name \in GivenNames : GetOrLoad(o, name, m)

\* Bounds: names carry at most MaxSuffixes suffixes, of numbers up to MaxUnique.
WithinBound ==
    /\ \A o \in naming'.live :
          naming'.hasName[o] => Len(naming'.names[o].key.suffixes) <= MaxSuffixes
    /\ \A m \in Modules : naming'.lastUnique[m] <= MaxUnique

Next ==
    /\ ~aborted
    /\ \/ \E m \in Modules : Running(m)
       \/ \E o \in Objects : Delete(o)
       \/ \E o \in Objects, name \in GivenNames \cup {EmptyName} :
            \/ Rename(o, name)
            \/ \E m \in Modules \cup {NoModule} : Create(o, name, m)
    /\ WithinBound

Spec == Init /\ [][Next]_vars

----------------------------------------------------------------------------
\* A module's list, its symbol table and the classes' own idea of their module
\* agree: getClass finds every named class of the list under its present name
\* and nothing else, through creation, renaming, moves, syncing and linking.
ListMatchesTable ==
    \A m \in Modules :
        /\ \A o \in naming.live : o \in ListedIn(m) <=> naming.table[o] = m
        /\ ListedIn(m) \subseteq naming.live
        /\ {e.value : e \in naming.vmap[m]} = {o \in ListedIn(m) : naming.hasName[o]}
        /\ \A o \in ListedIn(m) : naming.hasName[o] =>
              Names!Lookup(naming, m, Names!GetName(naming, o)) = {o}

Count(seq, x) == Cardinality({i \in DOMAIN seq : seq[i] = x})

NodesOf(m) == [i \in DOMAIN classes[m] |-> md[classes[m][i]]]

\* The classes of a module cover its metadata: each operand that is not null has
\* a class of its own in the list, whatever was created, removed, synced or
\* linked, in whatever order the nodes were allocated. What a reader of the
\* bitcode would find as a class is always found in the list too.
OperandsHaveClasses ==
    \A m \in Modules : \A i \in DOMAIN operands[m] :
        operands[m][i] # Null =>
            Count(operands[m], operands[m][i]) <= Count(NodesOf(m), operands[m][i])

Ascending(ops) ==
    \A i, j \in DOMAIN ops : i < j => ops[i].address <= ops[j].address

\* The calls that sync the module's metadata.
Syncs(m) == OpenLoaded(m) \/ Sync(m) \/ \E src \in Modules : LinkModules(m, src)

\* When a module is loaded, linked into or synced on its own, it gets a class for
\* each operand that has none and no other, if the operands are then in ascending
\* order of address, as the merge wants its first range. The code never sorts them
\* (README, "Duplicated classes").
SortedSyncAddsOnlyMissing ==
    [][\A m \in open' :
          (Syncs(m) /\ ~aborted' /\ Ascending(operands'[m])) =>
              \A n \in Nodes :
                 Count(NodesOf(m)', n) =
                    IF Count(NodesOf(m), n) < Count(operands'[m], n)
                    THEN Count(operands'[m], n) ELSE Count(NodesOf(m), n)]_vars
=============================================================================
