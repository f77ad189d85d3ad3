---------------------------- MODULE Dispatchers ----------------------------
(***************************************************************************)
(* Who owns what (Dispatcher.cpp, Interface.cpp, LLAIRContextImpl.h and    *)
(* Module.cpp): the modules and the llvm::Modules they wrap, the context's *)
(* map from the second to the first, the dispatchers in a module's list,   *)
(* the module's table of dispatchers by interface, the operands of the     *)
(* llvm::Module's named metadata "llair.dispatcher", and the llvm::Module  *)
(* that the functions of a dispatcher's methods are in.                    *)
(*                                                                         *)
(* A node stands for the tuple of an interface and the functions of its    *)
(* methods, of which there is at least one; a dispatcher and the one read  *)
(* from its node share it. Which classes a dispatcher implements is in     *)
(* Dispatch.                                                               *)
(***************************************************************************)
EXTENDS Naturals, Sequences, FiniteSets

CONSTANTS Modules,      \* addresses of modules
          LLModules,    \* addresses of llvm::Modules
          Objects,      \* addresses of dispatchers
          Interfaces,   \* addresses of interfaces: bounds how many are made
          Contents,     \* what an interface consists of: type, names, function types
          Addresses,    \* addresses of nodes: bounds how many are made
          None,         \* a null pointer
          MaxOperands   \* bound: length of a list of operands

\* Where the functions are that were deleted.
Gone == "deleted"

ASSUME NoneAssumption ==
    /\ None \notin Modules \cup LLModules \cup Objects \cup Interfaces \cup Contents \cup Addresses
    /\ Gone \notin LLModules \cup {None}
ASSUME AddressAssumption == Addresses \subseteq Nat /\ MaxOperands \in Nat
ASSUME FiniteAssumption  == IsFiniteSet(Objects)

VARIABLES open,         \* the modules that exist
          llmodule,     \* Module::d_llmodule
          known,        \* the context's modules(): pairs of a key and its module
          operands,     \* the llvm::Modules that exist, with their operands
          interfaces,   \* the context's interfaces(): what each interface consists of
          dispatchers,  \* d_interface, d_md and d_module of the dispatchers that exist
          entries,      \* Module::d_dispatchers_by_interface, as pairs
          nodes,        \* the nodes that exist: the interface's content
          home,         \* the llvm::Module that a node's functions are in
          released,     \* history: the addresses of llvm::Modules once released or read
          shared,       \* history: the nodes that two objects had at one time
          stopped       \* a null pointer or a function of another list was used

vars == <<open, llmodule, known, operands, interfaces, dispatchers, entries, nodes, home,
          released, shared, stopped>>

Init ==
    /\ open = {} /\ llmodule = [m \in Modules |-> None] /\ known = {}
    /\ operands = [x \in {} |-> <<>>]
    /\ interfaces = [i \in {} |-> None]
    /\ dispatchers = [d \in {} |-> None]
    /\ entries = [m \in Modules |-> {}]
    /\ nodes = [a \in {} |-> None]
    /\ home = [a \in {} |-> None]
    /\ released = {} /\ shared = {} /\ stopped = FALSE

Listed(m) == {d \in DOMAIN dispatchers : dispatchers[d].module = m}

Loose == DOMAIN operands \ {llmodule[m] : m \in open}

Without(f, xs) == [x \in DOMAIN f \ xs |-> f[x]]

\* f with g's values where g is defined.
Override(f, g) == [x \in DOMAIN f \cup DOMAIN g |-> IF x \in DOMAIN g THEN g[x] ELSE f[x]]

Stop ==
    /\ stopped' = TRUE
    /\ UNCHANGED <<open, llmodule, known, operands, interfaces, dispatchers, entries, nodes,
                   home, released, shared>>

----------------------------------------------------------------------------
(* Interface::get and LLAIRContextImpl::interfaces().                      *)

\* The set is searched with the hash of a key and filled with the hash of an
\* interface, which differ: an equal interface is found or it is not.
Get(content, i) ==
    \/ i \in DOMAIN interfaces /\ interfaces[i] = content
    \/ i \notin DOMAIN interfaces

GetInterface(content, i) ==
    /\ i \notin DOMAIN interfaces
    /\ interfaces' = Override(interfaces, [x \in {i} |-> content])
    /\ UNCHANGED <<open, llmodule, known, operands, dispatchers, entries, nodes, home,
                   released, shared, stopped>>

----------------------------------------------------------------------------
(* Dispatcher::setModule, called by the list's traits.                     *)

\* Mutant: whichever operand is first becomes null.
PunchedFirst(ops, n) == IF ops = <<>> THEN ops ELSE [ops EXCEPT ![1] = None]

\* The operands without the node: its first occurrence becomes null.
Punched(ops, n) ==
    IF n \notin {ops[i] : i \in 1 .. Len(ops)} THEN ops
    ELSE LET first == CHOOSE i \in 1 .. Len(ops) :
                        ops[i] = n /\ \A j \in 1 .. i - 1 : ops[j] # n
         IN  [ops EXCEPT ![first] = None]

\* A list that gains or loses the functions of a node, which is in the llvm::Module
\* "from": undefined when it is not, or when there is no llvm::Module.
CanMove(n, from, x) == x # None /\ home[n] = from

\* addNodeToList for a dispatcher that has its interface and its node.
Join(objects, d, m, where) ==
    /\ dispatchers' = [objects EXCEPT ![d].module = m]
    /\ entries' = [entries EXCEPT ![m] = @ \cup {<<objects[d].interface, d>>}]
    /\ home' = [where EXCEPT ![objects[d].node] = llmodule[m]]
    /\ operands' = [operands EXCEPT ![llmodule[m]] = Append(@, objects[d].node)]
    /\ Len(operands[llmodule[m]]) < MaxOperands

\* Mutants: the dispatcher stays in the table; the functions stay in the list.
EntriesWith(m, d) == entries[m]

EntriesWithout(m, d) == entries[m] \ {<<dispatchers[d].interface, d>>}

HomeKept(n) == home

HomeWithout(n) == [home EXCEPT ![n] = None]

CanCreate(i, d, n) ==
    i \in DOMAIN interfaces /\ d \notin DOMAIN dispatchers /\ n \notin DOMAIN nodes

Create(i, n) == nodes' = Override(nodes, [a \in {n} |-> interfaces[i]])

Made(i, d, n) ==
    Override(dispatchers, [x \in {d} |-> [interface |-> i, node |-> n, module |-> None]])

\* Dispatcher::Create without a module.
CreateDetached(i, d, n) ==
    /\ CanCreate(i, d, n)
    /\ Create(i, n)
    /\ dispatchers' = Made(i, d, n)
    /\ home' = Override(home, [a \in {n} |-> None])
    /\ UNCHANGED <<open, llmodule, known, operands, interfaces, entries, released, shared,
                   stopped>>

\* Dispatcher::Create with a module.
CreateListed(i, m, d, n) ==
    /\ m \in open /\ CanCreate(i, d, n)
    /\ IF llmodule[m] = None THEN Stop
       ELSE /\ Create(i, n)
            /\ Join(Made(i, d, n), d, m, Override(home, [a \in {n} |-> None]))
            /\ UNCHANGED <<open, llmodule, known, interfaces, released, shared, stopped>>

\* Module::getDispatchers.
getDispatchers(i, m) == {d \in Objects : <<i, d>> \in entries[m]}

\* Module::getOrInsertDispatchers: a dispatcher is made when the table has none.
getOrInsertDispatchers(i, m, d, n) ==
    /\ getDispatchers(i, m) = {}
    /\ CreateListed(i, m, d, n)

\* push_back of a dispatcher that is in no list.
Insert(d, m) ==
    /\ d \in DOMAIN dispatchers /\ dispatchers[d].module = None /\ m \in open
    /\ IF CanMove(dispatchers[d].node, None, llmodule[m])
       THEN /\ Join(dispatchers, d, m, home)
            /\ UNCHANGED <<open, llmodule, known, interfaces, nodes, released, shared, stopped>>
       ELSE Stop

\* remove: the dispatcher goes on without a module.
Remove(d) ==
    /\ d \in DOMAIN dispatchers /\ dispatchers[d].module # None
    /\ LET m == dispatchers[d].module
           n == dispatchers[d].node
           x == llmodule[m]
       IN  IF ~CanMove(n, x, x) THEN Stop
           ELSE /\ dispatchers' = [dispatchers EXCEPT ![d].module = None]
                /\ entries' = [entries EXCEPT ![m] = EntriesWithout(m, d)]
                /\ home' = HomeWithout(n)
                /\ operands' = [operands EXCEPT ![x] = Punched(@, n)]
                /\ UNCHANGED <<open, llmodule, known, interfaces, nodes, released, shared,
                               stopped>>

\* ~Dispatcher of a dispatcher that is in no list: its functions go, and must be in
\* no llvm::Module.
Delete(d) ==
    /\ d \in DOMAIN dispatchers /\ dispatchers[d].module = None
    /\ LET n == dispatchers[d].node
       IN  IF home[n] # None THEN Stop
           ELSE /\ dispatchers' = Without(dispatchers, {d})
                /\ home' = [home EXCEPT ![n] = Gone]
                /\ UNCHANGED <<open, llmodule, known, operands, interfaces, entries, nodes,
                               released, shared, stopped>>

----------------------------------------------------------------------------
(* Module::syncMetadata, the part about dispatchers.                       *)

\* The nodes of m's dispatchers in ascending order of address.
SortedNodes(m) ==
    LET before(d, e) == dispatchers[d].node < dispatchers[e].node
        order == CHOOSE s \in [1 .. Cardinality(Listed(m)) -> Listed(m)] :
                    \A j, k \in DOMAIN s : j < k => s[j] # s[k] /\ ~before(s[k], s[j])
    IN  [k \in DOMAIN order |-> dispatchers[order[k]].node]

Less(a, b) == IF a = None THEN b # None ELSE b # None /\ a < b

\* Mutant: an operand that is met counts as missed too.
TurnOrEqual(ops, sorted, s) ==
    IF s.i > Len(ops) THEN s
    ELSE IF s.j > Len(sorted) \/ ~Less(sorted[s.j], ops[s.i])
    THEN [s EXCEPT !.i = @ + 1, !.only = @ \cup {s.i}]
    ELSE [s EXCEPT !.j = @ + 1]

\* A turn of for_each_symmetric_difference, a merge: the positions i and j in the
\* ranges, and the places of the operands for which it called fn1. The operands come
\* in the order they have.
Turn(ops, sorted, s) ==
    IF s.i > Len(ops) THEN s
    ELSE IF s.j > Len(sorted) \/ Less(ops[s.i], sorted[s.j])
    THEN [s EXCEPT !.i = @ + 1, !.only = @ \cup {s.i}]
    ELSE IF Less(sorted[s.j], ops[s.i]) THEN [s EXCEPT !.j = @ + 1]
    ELSE [s EXCEPT !.i = @ + 1, !.j = @ + 1]

FirstOnly(ops, sorted) ==
    LET after[k \in 0 .. Len(ops) + Len(sorted)] ==
          IF k = 0 THEN [i |-> 1, j |-> 1, only |-> {}] ELSE Turn(ops, sorted, after[k - 1])
    IN  after[Len(ops) + Len(sorted)].only

\* What that merge comes to, see MergeFindsTheMissed: an operand is missed if a
\* greater one came before it, or if it occurs more often up to its place than
\* there are dispatchers with that node.
Missed(m) ==
    LET ops == operands[llmodule[m]]
    IN  {i \in DOMAIN ops :
           \/ \E j \in 1 .. i - 1 : Less(ops[i], ops[j])
           \/ Cardinality({j \in 1 .. i : ops[j] = ops[i]}) >
                 Cardinality({d \in Listed(m) : dispatchers[d].node = ops[i]})}

Injections(S, T) == {f \in [S -> T] : \A a, b \in S : f[a] = f[b] => a = b}

\* The operands of an llvm::Module that no one has changed: no node twice.
FreshOperands == UNION {Injections(1 .. n, Addresses) : n \in 0 .. MaxOperands}

\* The constructor enters the list while it has no interface.
LoadedEntries(objects) == {<<None, d>> : d \in objects}

\* Dispatcher(md, module) for each of the nodes.
Load(m, loaded) ==
    \E f \in Injections(DOMAIN loaded, Objects \ DOMAIN dispatchers) :
    \E g \in [DOMAIN loaded -> Interfaces] :
       /\ \A k \in DOMAIN loaded : Get(nodes[loaded[k]], g[k])
       /\ \A j, k \in DOMAIN loaded : g[j] = g[k] => nodes[loaded[j]] = nodes[loaded[k]]
       /\ interfaces' = [i \in DOMAIN interfaces \cup {g[k] : k \in DOMAIN g} |->
                           IF i \in DOMAIN interfaces THEN interfaces[i]
                           ELSE nodes[loaded[CHOOSE k \in DOMAIN g : g[k] = i]]]
       /\ dispatchers' = Override(dispatchers,
                           [d \in {f[k] : k \in DOMAIN f} |->
                              LET k == CHOOSE j \in DOMAIN f : f[j] = d
                              IN  [interface |-> g[k], node |-> loaded[k], module |-> m]])
       /\ entries' = [entries EXCEPT ![m] = @ \cup LoadedEntries({f[k] : k \in DOMAIN f})]
       /\ shared' = shared \cup {loaded[k] : k \in {j \in DOMAIN loaded :
                        \/ \E d \in DOMAIN dispatchers : dispatchers[d].node = loaded[j]
                        \/ \E l \in DOMAIN loaded : l # j /\ loaded[l] = loaded[j]}}

\* The nodes to load from llvm::Module x: llvm::cast stops at a null node and at a
\* function that was deleted.
Sync(m, loaded) ==
    IF \E k \in DOMAIN loaded :
          loaded[k] = None \/ home[loaded[k]] = Gone
    THEN stopped' = TRUE /\ UNCHANGED <<interfaces, dispatchers, entries, shared>>
    ELSE Load(m, loaded) /\ UNCHANGED stopped

syncMetadata(m) ==
    /\ m \in open /\ llmodule[m] # None
    /\ Sync(m, [i \in Missed(m) |-> operands[llmodule[m]][i]])
    /\ UNCHANGED <<open, llmodule, known, operands, nodes, home, released>>

----------------------------------------------------------------------------
(* Modules.                                                                *)

\* DenseMap::insert keeps the module that the key has.
Known(x, m) == IF \E p \in known : p[1] = x THEN known ELSE known \cup {<<x, m>>}

\* Module(id, context).
NewModule(m, x) ==
    /\ m \notin open /\ x \notin DOMAIN operands
    /\ open' = open \cup {m}
    /\ llmodule' = [llmodule EXCEPT ![m] = x]
    /\ known' = Known(x, m)
    /\ operands' = Override(operands, [y \in {x} |-> <<>>])
    /\ entries' = [entries EXCEPT ![m] = {}]
    /\ UNCHANGED <<interfaces, dispatchers, nodes, home, released, shared, stopped>>

\* A caller reads an llvm::Module, say from bitcode, with the nodes of some
\* dispatchers as its operands.
ReadLLModule(x, ops, content) ==
    /\ x \notin DOMAIN operands
    /\ \A k \in DOMAIN ops : ops[k] \notin DOMAIN nodes
    /\ nodes' = Override(nodes, [a \in {ops[k] : k \in DOMAIN ops} |-> content])
    /\ home' = Override(home, [a \in {ops[k] : k \in DOMAIN ops} |-> x])
    /\ operands' = Override(operands, [y \in {x} |-> ops])
    /\ released' = released \cup {x}
    /\ UNCHANGED <<open, llmodule, known, interfaces, dispatchers, entries, shared, stopped>>

\* Module(std::unique_ptr<llvm::Module>&&).
WrapModule(m, x) ==
    /\ m \notin open /\ x \in Loose
    /\ open' = open \cup {m}
    /\ llmodule' = [llmodule EXCEPT ![m] = x]
    /\ known' = Known(x, m)
    /\ Sync(m, operands[x])
    /\ UNCHANGED <<operands, nodes, home, released>>

\* Module::releaseLLModule: the caller has the llvm::Module, the context keeps the key.
releaseLLModule(m) ==
    /\ m \in open /\ llmodule[m] # None
    /\ llmodule' = [llmodule EXCEPT ![m] = None]
    /\ released' = released \cup {llmodule[m]}
    /\ UNCHANGED <<open, known, operands, interfaces, dispatchers, entries, nodes, home,
                   shared, stopped>>

\* The functions of an llvm::Module that is destroyed.
HomeAfter(xs, where) == [n \in DOMAIN where |-> IF where[n] \in xs THEN Gone ELSE where[n]]

\* The caller destroys the llvm::Module that it got.
DropLLModule(x) ==
    /\ x \in Loose
    /\ operands' = Without(operands, {x})
    /\ home' = HomeAfter({x}, home)
    /\ UNCHANGED <<open, llmodule, known, interfaces, dispatchers, entries, nodes, released,
                   shared, stopped>>

\* clear() deletes one dispatcher after the other: each takes its functions along.
CanClear(m) ==
    /\ \A d \in Listed(m) : CanMove(dispatchers[d].node, llmodule[m], llmodule[m])
    /\ \A d, e \in Listed(m) : dispatchers[d].node = dispatchers[e].node => d = e

\* Mutant: the key stays.
KnownStill(x) == known

KnownWithout(x) == {p \in known : p[1] # x}

\* ~Module: clear the dispatchers, forget the key, destroy the llvm::Module.
DestroyModule(m) ==
    /\ m \in open
    /\ IF ~CanClear(m) THEN Stop
       ELSE LET x == llmodule[m]
                cleared == {dispatchers[d].node : d \in Listed(m)}
            IN  /\ open' = open \ {m}
                /\ llmodule' = [llmodule EXCEPT ![m] = None]
                /\ known' = KnownWithout(x)
                /\ operands' = Without(operands, {x})
                /\ dispatchers' = Without(dispatchers, Listed(m))
                /\ entries' = [entries EXCEPT ![m] = {}]
                /\ home' = HomeAfter({x} \ {None}, [n \in DOMAIN home |->
                                             IF n \in cleared THEN Gone ELSE home[n]])
                /\ UNCHANGED <<interfaces, nodes, released, shared, stopped>>

----------------------------------------------------------------------------

Next ==
    /\ ~stopped
    /\ \/ \E c \in Contents, i \in Interfaces : GetInterface(c, i)
       \/ \E i \in Interfaces, d \in Objects, n \in Addresses : CreateDetached(i, d, n)
       \/ \E i \in Interfaces, m \in Modules, d \in Objects, n \in Addresses :
             CreateListed(i, m, d, n)
       \/ \E i \in Interfaces, m \in Modules, d \in Objects, n \in Addresses :
             getOrInsertDispatchers(i, m, d, n)
       \/ \E d \in Objects, m \in Modules : Insert(d, m)
       \/ \E d \in Objects : Remove(d)
       \/ \E d \in Objects : Delete(d)
       \/ \E m \in Modules : syncMetadata(m)
       \/ \E m \in Modules, x \in LLModules : NewModule(m, x)
       \/ \E x \in LLModules, ops \in FreshOperands, c \in Contents : ReadLLModule(x, ops, c)
       \/ \E m \in Modules, x \in LLModules : WrapModule(m, x)
       \/ \E m \in Modules : releaseLLModule(m)
       \/ \E x \in LLModules : DropLLModule(x)
       \/ \E m \in Modules : DestroyModule(m)

Spec == Init /\ [][Next]_vars

----------------------------------------------------------------------------
(* Properties.                                                             *)

\* Module::getDispatchers yields dispatchers of that interface in the module's list,
\* none that was deleted or moved; and it yields each of them, except those that
\* syncMetadata read, which the table has under no interface.
LookupsAreExact ==
    \A m \in open :
       /\ \A i \in Interfaces : getDispatchers(i, m)
                                   \subseteq {d \in Listed(m) : dispatchers[d].interface = i}
       /\ \A d \in Listed(m) : \/ <<dispatchers[d].interface, d>> \in entries[m]
                               \/ <<None, d>> \in entries[m]

\* Module::Get finds the module of every llvm::Module that was never released, and
\* for an address of a module that was destroyed it finds nothing.
NeverReleasedAreKnown ==
    \A x \in LLModules \ released, m \in Modules :
       <<x, m>> \in known <=> m \in open /\ llmodule[m] = x

\* The functions of a listed dispatcher are in the llvm::Module of its module and its
\* node is among the operands there, unless another object had the node too.
FunctionsFollow ==
    \A d \in DOMAIN dispatchers :
       LET m == dispatchers[d].module
           n == dispatchers[d].node
       IN  m # None /\ llmodule[m] # None /\ n \notin shared =>
             /\ home[n] = llmodule[m]
             /\ \E k \in DOMAIN operands[llmodule[m]] : operands[llmodule[m]][k] = n

\* The merge of syncMetadata, whose first range is not sorted as it should be,
\* finds the operands that Missed says it finds.
MergeFindsTheMissed ==
    \A m \in open : llmodule[m] # None =>
       FirstOnly(operands[llmodule[m]], SortedNodes(m)) = Missed(m)

\* A call meets a null pointer or a foreign function only if a module that released
\* its llvm::Module is still in use, or an operand was cleared by a removal, or two
\* objects shared functions.
CrashesAreExplained ==
    [][stopped' => \/ \E m \in open : llmodule[m] = None
                   \/ \E x \in DOMAIN operands : \E k \in DOMAIN operands[x] :
                         operands[x][k] = None
                   \/ shared # {}]_vars

=============================================================================
