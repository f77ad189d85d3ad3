---------------------------- MODULE EntryPoints ----------------------------
(***************************************************************************)
(* The entry points of a module: the list d_entry_points, the context's map*)
(* entry_points() from functions to entry points, and the operands of the  *)
(* named metadata "air.vertex" and "air.kernel". What the code does for    *)
(* fragments is what it does for vertices.                                 *)
(*                                                                         *)
(* Functions are addresses, used again when a function has gone; the map is*)
(* keyed by them. syncMetadata sorts both ranges of its merges, so operands*)
(* are counted here and have no order.                                     *)
(***************************************************************************)
EXTENDS Naturals, FiniteSets

CONSTANTS Objects,      \* addresses of entry points
          Functions,    \* addresses of functions
          Modules,      \* addresses of modules
          Nodes,        \* metadata nodes of entry points: bounds their number
          MaxOperands,  \* bound: operands of one kind
          Null          \* nullptr

ASSUME NullAssumption  == Null \notin Objects \cup Functions \cup Modules \cup Nodes
ASSUME BoundAssumption == MaxOperands \in Nat
ASSUME FiniteAssumption == IsFiniteSet(Objects) /\ IsFiniteSet(Functions)

Kinds == {"vertex", "kernel"}

VARIABLES home,         \* the llvm::Module of a function
          describes,    \* the function a node names
          entry,        \* the entry points that exist
          registered,   \* LLAIRContextImpl::entry_points()
          operands,     \* how often a node is an operand
          named,        \* the modules that have an "air.vertex"
          open,         \* the modules that exist
          aborted,      \* a null node or function was used
          stale,        \* functions that went while they were keys of the map
          shared        \* functions that had two entry points at a time

vars == <<home, describes, entry, registered, operands, named, open, aborted, stale, shared>>

llvm == <<home, describes, named, open>>

NoEntryPoint == [live |-> FALSE]

Live == {o \in Objects : entry[o].live}

Listed(m) == {o \in Live : entry[o].module = m}

\* Entry points that are in some list and have the function f.
EntryPointsOf(f) == {o \in Live : entry[o].module # Null /\ entry[o].function = f}

Used == {entry[o].node : o \in Live}
        \cup {n \in Nodes : \E m \in Modules, k \in Kinds : operands[m][k][n] > 0}

FreeFunctions == {f \in Functions : home[f] = Null}

NoOperands == [k \in Kinds |-> [n \in Nodes \cup {Null} |-> 0]]

Total(ops) == LET sum[S \in SUBSET (Nodes \cup {Null})] ==
                    IF S = {} THEN 0
                    ELSE LET n == CHOOSE n \in S : TRUE IN ops[n] + sum[S \ {n}]
              IN  sum[Nodes \cup {Null}]

----------------------------------------------------------------------------
(* EntryPoint::setModule, which the list's traits call.                    *)

\* Mutant: an entry point without a place in the metadata keeps its key.
UnregisteredIfWritten(o) ==
    LET f == entry[o].function
    IN  IF f = Null \/ operands[entry[o].module][entry[o].kind][entry[o].node] = 0
        THEN registered
        ELSE [registered EXCEPT ![f] = Null]

\* The key goes, whichever entry point it led to.
Unregistered(o) ==
    IF entry[o].function = Null THEN registered
    ELSE [registered EXCEPT ![entry[o].function] = Null]

\* Mutants: the operands are left alone; std::find's result is not tested.
StruckNothing(o) == operands

\* setModule(nullptr): the node's first operand becomes null. Kernels are left
\* where they are.
Struck(o) ==
    LET m == entry[o].module
        n == entry[o].node
        row == operands[m]["vertex"]
    IN  IF entry[o].kind = "kernel" \/ ~named[m] \/ row[n] = 0 THEN operands
        ELSE [operands EXCEPT ![m]["vertex"] = [row EXCEPT ![n] = @ - 1, ![Null] = @ + 1]]

\* Mutant: only the constructor registers.
RegisteredOnce(o, f) ==
    IF o \in Live \/ f = Null \/ registered[f] # Null THEN registered
    ELSE [registered EXCEPT ![f] = o]

\* DenseMap::insert: a key that is there keeps what it leads to.
Registered(o, f) ==
    IF f = Null \/ registered[f] # Null THEN registered ELSE [registered EXCEPT ![f] = o]

SharedBy(f) == IF f # Null /\ EntryPointsOf(f) # {} THEN shared \cup {f} ELSE shared

\* Functions fs cease to exist: references to them become null, but not the keys
\* of the map.
Vanish(fs, es, reg) ==
    /\ entry' = [o \in Objects |->
          IF es[o].live /\ es[o].function \in fs THEN [es[o] EXCEPT !.function = Null] ELSE es[o]]
    /\ describes' = [n \in Nodes |-> IF describes[n] \in fs THEN Null ELSE describes[n]]
    /\ registered' = reg
    /\ stale' = {f \in stale \cup fs : reg[f] # Null}
    /\ shared' = shared \ fs

----------------------------------------------------------------------------
(* The entry-point part of Module::syncMetadata.                           *)

Count(m, k, n) == Cardinality({o \in Listed(m) : entry[o].kind = k /\ entry[o].node = n})

\* Mutant: equal elements of the two ranges do not cancel out.
MissingOfAll(m, ops, k, n) == IF ops[k][n] > 0 THEN ops[k][n] - Count(m, k, n) + 1 ELSE 0

\* for_each_symmetric_difference on two sorted ranges: a node has as many new
\* entry points as it has operands more than entry points.
Missing(m, ops, k, n) ==
    IF ops[k][n] > Count(m, k, n) THEN ops[k][n] - Count(m, k, n) ELSE 0

\* The i-th entry point of kind k that is missing for the node n.
Extra(m, ops) == UNION {{<<k, n, i>> : i \in 1 .. Missing(m, ops, k, n)} : k \in Kinds, n \in Nodes}

\* Null nodes and nodes whose function has gone are cast.
CastsNull(m, ops, naming) ==
    \/ \E k \in Kinds : ops[k][Null] > 0
    \/ \E x \in Extra(m, ops) : naming[x[2]] = Null

\* The new entry points of the function f.
NewOf(f, extra, new, naming) == {new[x] : x \in {y \in extra : naming[y[2]] = f}}

\* The constructor enters the list of m, and so the map, before d_md is set, so
\* that no operand is added. The order of a function's new entry points is open.
Enter(m, extra, new, naming) ==
    /\ entry' = [o \in Objects |->
          IF \E x \in extra : new[x] = o
          THEN LET x == CHOOSE x \in extra : new[x] = o
               IN  [live |-> TRUE, kind |-> x[1], node |-> x[2],
                    function |-> naming[x[2]], module |-> m]
          ELSE entry[o]]
    /\ registered' \in {r \in [Functions -> Objects \cup {Null}] :
          \A f \in Functions :
             IF registered[f] # Null \/ NewOf(f, extra, new, naming) = {} THEN r[f] = registered[f]
             ELSE r[f] \in NewOf(f, extra, new, naming)}
    /\ shared' = shared \cup {f \in Functions : NewOf(f, extra, new, naming) # {}
          /\ \E o, p \in NewOf(f, extra, new, naming) \cup EntryPointsOf(f) : o # p}

\* When the operands are ops and the nodes name the functions of naming.
SyncWith(m, ops, naming) ==
    IF CastsNull(m, ops, naming)
    THEN /\ aborted' = TRUE
         /\ UNCHANGED <<entry, registered, operands, stale, shared>>
    ELSE \E new \in [Extra(m, ops) -> Objects \ Live] :
            /\ \A x, y \in Extra(m, ops) : new[x] = new[y] => x = y
            /\ Enter(m, Extra(m, ops), new, naming)
            /\ operands' = [operands EXCEPT ![m] = ops]
            /\ UNCHANGED <<aborted, stale>>

----------------------------------------------------------------------------
Init ==
    /\ home = [f \in Functions |-> Null]
    /\ describes = [n \in Nodes |-> Null]
    /\ entry = [o \in Objects |-> NoEntryPoint]
    /\ registered = [f \in Functions |-> Null]
    /\ operands = [m \in Modules |-> NoOperands]
    /\ named = [m \in Modules |-> FALSE]
    /\ open = {}
    /\ aborted = FALSE
    /\ stale = {}
    /\ shared = {}

\* Module(name, context)
OpenEmpty(m) ==
    /\ m \notin open
    /\ open' = open \cup {m}
    /\ UNCHANGED <<home, describes, entry, registered, operands, named, aborted, stale, shared>>

\* The functions fs with their nodes, as operands of their kinds, are now m's, and
\* m is synced.
Bring(m, fs, node, kind) ==
    LET naming == [n \in Nodes |->
                     IF \E f \in fs : node[f] = n
                     THEN CHOOSE f \in fs : node[f] = n ELSE describes[n]]
        ops == [k \in Kinds |-> [n \in Nodes \cup {Null} |->
                  operands[m][k][n] + Cardinality({f \in fs : node[f] = n /\ kind[f] = k})]]
    IN  /\ \A f, g \in fs : node[f] = node[g] => f = g
        /\ \A k \in Kinds : Total(ops[k]) <= MaxOperands
        /\ home' = [f \in Functions |-> IF f \in fs THEN m ELSE home[f]]
        /\ describes' = naming
        /\ named' = [named EXCEPT ![m] = @ \/ \E f \in fs : kind[f] = "vertex"]
        /\ SyncWith(m, ops, naming)

\* As a file or another module has them.
Arrive(m) ==
    \E fs \in SUBSET FreeFunctions \ {{}} :
        \E node \in [fs -> Nodes \ Used], kind \in [fs -> Kinds] : Bring(m, fs, node, kind)

\* Module(llmodule), read from a file.
OpenLoaded(m) ==
    /\ m \notin open
    /\ open' = open \cup {m}
    /\ Arrive(m)

\* linkModules(m, src): copies of src's functions and of their nodes.
LinkInto(m) ==
    /\ m \in open
    /\ Arrive(m)
    /\ UNCHANGED open

Sync(m) ==
    /\ m \in open
    /\ SyncWith(m, operands[m], describes)
    /\ UNCHANGED llvm

\* ~Module: d_entry_points.clear() takes each entry point out and deletes it, then
\* the llvm::Module goes with its functions.
Close(m) ==
    LET gone == Listed(m)
        keys == {entry[o].function : o \in gone}
    IN  /\ m \in open
        /\ open' = open \ {m}
        /\ home' = [f \in Functions |-> IF home[f] = m THEN Null ELSE home[f]]
        /\ operands' = [operands EXCEPT ![m] = NoOperands]
        /\ named' = [named EXCEPT ![m] = FALSE]
        /\ Vanish({f \in Functions : home[f] = m},
                  [o \in Objects |-> IF o \in gone THEN NoEntryPoint ELSE entry[o]],
                  [f \in Functions |-> IF f \in keys THEN Null ELSE registered[f]])
        /\ UNCHANGED aborted

\* VertexEntryPoint::Create and its like: the entry point is listed before it has
\* a node, and is not written to the metadata. Its node may be that of another
\* entry point of the same function, if their arguments are alike.
Create(o, k, f, n, m) ==
    /\ o \notin Live
    /\ m \in open
    /\ home[f] # Null
    /\ n \notin Used \/ describes[n] = f
    /\ describes' = [describes EXCEPT ![n] = f]
    /\ entry' = [entry EXCEPT ![o] =
          [live |-> TRUE, kind |-> k, node |-> n, function |-> f, module |-> m]]
    /\ registered' = Registered(o, f)
    /\ shared' = SharedBy(f)
    /\ UNCHANGED <<home, operands, named, open, aborted, stale>>

\* getEntryPointList().push_back(o), for one that has been taken out.
Insert(o, m) ==
    LET e == entry[o]
    IN  /\ o \in Live /\ e.module = Null
        /\ m \in open
        /\ entry' = [entry EXCEPT ![o].module = m]
        /\ registered' = Registered(o, e.function)
        /\ shared' = SharedBy(e.function)
        /\ operands' = IF e.kind = "kernel" \/ ~named[m] THEN operands
                       ELSE [operands EXCEPT ![m]["vertex"][e.node] = @ + 1]
        /\ Total(operands'[m]["vertex"]) <= MaxOperands
        /\ UNCHANGED <<home, describes, named, open, aborted, stale>>

\* getEntryPointList().remove(o), after which the caller owns it, and erase(o).
TakeOut(o, after) ==
    /\ o \in Live /\ entry[o].module # Null
    /\ registered' = Unregistered(o)
    /\ stale' = {f \in stale : registered'[f] # Null}
    /\ operands' = Struck(o)
    /\ entry' = [entry EXCEPT ![o] = after]
    /\ UNCHANGED <<home, describes, named, open, aborted, shared>>

Remove(o) == o \in Live /\ TakeOut(o, [entry[o] EXCEPT !.module = Null])

Erase(o) == TakeOut(o, NoEntryPoint)

Delete(o) ==
    /\ o \in Live /\ entry[o].module = Null
    /\ entry' = [entry EXCEPT ![o] = NoEntryPoint]
    /\ UNCHANGED <<home, describes, registered, operands, named, open, aborted, stale, shared>>

\* The client adds a function to a module, or takes one away.
AddFunction(f, m) ==
    /\ f \in FreeFunctions
    /\ m \in open
    /\ home' = [home EXCEPT ![f] = m]
    /\ UNCHANGED <<describes, entry, registered, operands, named, open, aborted, stale, shared>>

EraseFunction(f) ==
    /\ home[f] # Null
    /\ home' = [home EXCEPT ![f] = Null]
    /\ Vanish({f}, entry, registered)
    /\ UNCHANGED <<operands, named, open, aborted>>

Next ==
    /\ ~aborted
    /\ \/ \E m \in Modules :
             \/ OpenEmpty(m) \/ OpenLoaded(m) \/ LinkInto(m) \/ Sync(m) \/ Close(m)
             \/ \E f \in Functions : AddFunction(f, m)
             \/ \E o \in Objects : Insert(o, m)
             \/ \E o \in Objects, k \in Kinds, f \in Functions, n \in Nodes : Create(o, k, f, n, m)
       \/ \E o \in Objects : Remove(o) \/ Erase(o) \/ Delete(o)
       \/ \E f \in Functions : EraseFunction(f)

Spec == Init /\ [][Next]_vars

----------------------------------------------------------------------------
\* EntryPoint::Get never returns an entry point that has been deleted or taken out,
\* nor one of another function, however entry points come and go, as long as the
\* address is not one of a function that was erased under its entry point: nothing
\* takes the key of such a function out of the context's map.
LookupsAreLive ==
    \A f \in Functions \ stale :
        registered[f] # Null => registered[f] \in EntryPointsOf(f)

\* Every listed entry point is found under its function, unless its function has or
\* had another one: the first of two takes the key, and either takes it away.
EntryPointsAreFound ==
    \A f \in Functions \ (stale \cup shared) :
        \A o \in EntryPointsOf(f) : registered[f] = o

\* What a reader of the bitcode would take for a vertex function is always in the
\* list too. (A kernel that is taken out stays in the metadata.)
OperandsHaveEntryPoints ==
    \A m \in Modules, n \in Nodes : operands[m]["vertex"][n] <= Count(m, "vertex", n)

\* A sync adds an entry point for each operand that has none, and no other: syncing
\* again changes nothing.
SyncAddsOnlyMissing ==
    [][\A m \in Modules : (Sync(m) /\ ~aborted') =>
          \A k \in Kinds, n \in Nodes :
             /\ Count(m, k, n)' >= operands[m][k][n]
             /\ Count(m, k, n)' > Count(m, k, n) => Count(m, k, n)' = operands[m][k][n]]_vars
=============================================================================
