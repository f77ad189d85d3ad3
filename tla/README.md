# A verification of LLAIR

LLAIR is a C++ library that reads, makes and links Metal shading programs as
LLVM modules. This directory holds TLA+ models of the parts of it that keep
state or make promises, TLC configurations that check them on small instances,
and proofs that TLAPS checks for every value of the constants.

File names without a directory below are under `src/lib/`.

## 1. The system

| Part | State | Operations | Talks to |
|---|---|---|---|
| Names (`IR/Named.cpp`) and tables (`IR/SymbolTable.cpp`) | an object's table and `d_has_name`; the table's `vmap` and `LastUnique`; the context's `names()` | `setName`, `getName`, `setSymbolTable`, `createSymbolTableEntry`, `makeUniqueName` | called by `Class::setModule` and the constructors of `Class` |
| Classes (`IR/Class.cpp`) | a module's list `d_classes`, each class's node `d_md`, the operands of `llair.class` | `Class::Create`, list insertion and removal (the traits call `setModule`), `getOrLoadClassFromABI`, `syncMetadata` | symbol table, LLVM's named metadata |
| Interfaces and dispatchers (`IR/Interface.cpp`, `IR/Dispatcher.cpp`) | the context's set of interfaces; a dispatcher's implementations and its functions' switches; a module's map by interface | `Interface::get`, `getOrInsertDispatchers`, `insertImplementation`, `setModule` | classes, named metadata `llair.dispatcher` |
| Linker (`Linker/Linker.cpp`) | symbols and named metadata of the destination | `linkModules`, `finalizeInterfaces` | `syncMetadata`, dispatchers |
| Module (`IR/Module.cpp`) | the lists above, entry points, version and language nodes, the context's `modules()` | constructors, destructor, `syncMetadata`, setters | everything |
| Entry points (`IR/EntryPoint.cpp`) | node of the function, nodes of arguments, `entry_points()` of the context | creation from code and from metadata, `setModule`, argument setters | named metadata `air.vertex`, `air.fragment`, `air.kernel` |
| Name parser (`extsrc/llvm-demangle/.../ItaniumDemangle.h`) | the position in a name, the nodes made so far, the tables of substitutions, template parameters and forward references | `parse` and the production functions it calls | called by `parseClassPathAndMethodName` of `Module.cpp` |
| Functions as methods (`IR/Module.cpp:45-489`) | none of its own: reads a module's functions and their mangled names | `getOrLoadClassFromABI`, `getOrLoadAllClassesFromABI`, `getAllInterfacesFromABI` | name parser, classes, interfaces |
| Context (`IR/LLAIRContext.cpp`) | `names()`, `modules()`, `entry_points()`, `interfaces()` | lookups | all of `IR` |
| Tools (`Tools/`) | two pipes, a child process, descriptors | `popen2`, `openProgram`, `runProgram`, `compileBuffer`, `makeLibrary` | command-line tools of Xcode |
| Drivers (`src/tools/`) | the kinds of classes | `llair-link`, `llair-metallib`, `llair-dump` | the library |

The library runs in one thread. What makes it hard is not interleaving but the
number of places that must agree after each call: an object's own idea of its
name, the context's `names()`, the table of its module, the module's list, and
LLVM's metadata, which outlives all of them and comes back through
`syncMetadata`. The exception is `Tools/`: there a parent and a child process
run concurrently over two bounded pipes.

What makes each part correct:

- **Names.** Names of a table are unique; a table finds an object under its
  present name and no destroyed one; moves keep names; the assertion of
  `~SymbolTable` holds although addresses are used again.
- **Classes.** List, symbol table and `d_module` agree; every operand of
  `llair.class` has its class; syncing adds what is missing and nothing else.
- **Names and methods.** The parser reads a mangled name as the compiler wrote
  it; what is cut out of it tells two methods apart exactly when C++ does; a
  class that is made is one C++ scope with all its strong methods.
- **Ownership of dispatchers.** Lookups by interface and by `llvm::Module` find
  what is there and nothing that is gone; a dispatcher's functions are in the
  `llvm::Module` of its module.
- **Dispatch.** A call of an interface's method reaches the method of the
  object's class; no implementing class is forgotten; the assertions hold.
- **Tools.** A call returns, and returns the tool's whole output.
- **Entry points.** The context's map leads to entry points that are listed and
  of that function, and to all of them; what the metadata calls a vertex function
  is in the list; a sync adds what is missing. What an argument says of itself is
  what its node says, and the tuple of an entry point holds what a caller asked
  for, although LLVM shares equal nodes and the setters change them in place.
- **Linker.** Whatever the order of linking, a declaration ends at the one
  definition of its name, and a definition is never replaced.

`PROJECT.json` lists each hazard at its line with the properties that cover it.

## 2. The modules

| Module | Models | State and actions |
|---|---|---|
| `SymbolTable` | `Named.cpp`, `SymbolTable.cpp` | One record `naming` with the fields of both; the code's functions are operators from record to record, so that a caller composes them in the code's order. Actions: `New`, `Name`, `Move`, `Delete`, `Renew`. |
| `NameSpace` | what naming promises | Objects present, their table and their label. |
| `ClassRegistry` | `Class.cpp`, class part of `Module.cpp` and `Linker.cpp` | Uses `SymbolTable` (`Names == INSTANCE SymbolTable`) with modules for tables. One action per constructor, list operation, sync and link. |
| `Dispatch` | `finalizeInterfaces`, `Dispatcher.cpp`, kinds of `llair-link` | The loop over classes (`VisitClass`), over matching interfaces (`InsertImplementation`, or `FailAssertion` where one of `insertImplementation`'s assertions is false) and the link at the end. `failed` is the interface at which the program ended. |
| `Program` | `popen2.c`, `Program.cpp` | Parent, child and two pipes; calls follow each other until descriptors run out. |
| `Linker` | values in `Linker::linkModule` | `kind` is what each module says of a name; `holder`, `body` and `refs` are the destination's symbol table, the bodies of its values and `VMap`. One action: linking one module. |
| `LinkedNames` | what linking promises | `first`, the first module with a name, and `reaches`, whose definition a name of a module stands for. |
| `EntryPoints` | `EntryPoint::setModule`, the list's traits, `entry_points()`, entry-point part of `syncMetadata` | `entry` is an entry point's own record, `registered` the map, `operands` the named metadata, `home` and `describes` what LLVM has of functions and nodes. One action per constructor, list operation, sync, and per thing a client does to functions. `stale` and `shared` are history variables for the premises of properties. |
| `ArgumentNodes` | arguments and outputs in `EntryPoint.cpp` | `nodes` and `tuples` are LLVM's stores of uniqued nodes, `points` the entry points; `wanted` and `stage` follow what careful callers ask for. Actions: `Create`, `Load`, `SetName`, `InitDetails`, `Delete`. |
| `ItaniumParser` | the parser of mangled names, `ItaniumDemangle.h:2263-5421` | No variables: an operator per `parse` function, from parser state to parser state. `Parse(rule, st)` is the function `parse<rule>`, for the rules that call one another in a circle. |
| `Mangler` | the compiler that wrote the names (external) | The same kind of tree, written by the rules of the Itanium C++ ABI with its own table of substitutions. |
| `ClassesFromABI` | `Module.cpp:115-132`, `297-489` | `functions` of the `llvm::Module`, each with what is read of its name; `classes`, `interfaces`, `stopped`. Actions: `AddFunction` and the three calls. The functions a compiler may make are a constant, of which `ReadingAssumption` says that names are read as they were written. |
| `ABI` | `Module.cpp:45-113` | No variables of its own: what is read of a name, and what its declaration says. `CompiledFunctions` is the constant of `ClassesFromABI`. |
| `Dispatchers` | constructors, `setModule` and destructor of `Dispatcher`, `Interface::get`, constructors, `releaseLLModule` and destructor of `Module`, the dispatcher part of `syncMetadata` | `dispatchers`, a module's table `entries`, `operands` of `llair.dispatcher`, `home` of a node's functions, `known` for the context's `modules()`. One action per operation, and per thing a caller does to an `llvm::Module` it owns. `released` and `shared` are history variables for the premises of properties. |
| `MC...` | small instances of the module of that name | Names, files and symmetry. |
| `SymbolTableProofs`, `ClassRegistryProofs`, `LinkerProofs`, `ProgramProofs`, `DispatchProofs`, `DispatchersProofs`, `EntryPointsProofs`, `ArgumentNodesProofs` | theorems about the module of that name | `DispatchProofs` is about `ClassesFromABI` too. `ClassRegistryProofs` cites the lemmas of `SymbolTableProofs` for the names of classes (`P == INSTANCE SymbolTableProofs`). |

`ClassRegistry` composes classes with naming. `ABI` composes parser, compiler
and `ClassesFromABI`, which makes something of the names; it starts where an
`llvm::Module` has functions and ends where `ClassRegistry` and `Dispatch` start,
with classes, interfaces and lists of methods. `ClassesFromABI` is apart from the
parser so that it can be proved about. `Dispatchers` is about who owns a dispatcher and
`Dispatch` about what is in one: the first never looks at implementations and
the second never moves anything. `EntryPoints` and `ArgumentNodes`
split one source file where its two halves share no state: registration never
looks into an argument, and setters never touch list, map or named metadata.

Abstractions that run through all of them:

- An object, a class, a module is an **address**. It is destroyed and made
  again, which is how the stale keys of `names()` come into play.
- A **name** is a base and the numbers of the suffixes `makeUniqueName` added,
  so that a caller's "A.1" and an automatic "A.1" are the same name.
  `LastUnique` is kept modulo `UniqueModulus` (2^32 in the code).
- The empty name is `EmptyName`; `~Named` is empty in the code and changes only
  what a destroyed object's own members are.
- A **metadata node** is its contents and its address. LLVM makes nodes with
  equal contents one node, and `syncMetadata` orders nodes by address, so both
  matter; which address a new node gets is not known and is chosen freely.
- In `EntryPoints` operands are **counted**, for `syncMetadata` sorts both ranges
  of these merges and `std::find` strikes any one of equal operands. Fragments
  are treated as vertices are, with other words.
- In `ArgumentNodes` the eleven kinds of details are two: those read only if all
  their words are known, and those with an interpolation, which has a default.
  Name and type name are one text, for every line treats them alike.
  `updateOutputMetadata` of vertex outputs calls `resolve()` on a node that is
  resolved, which only a build of LLVM with assertions notices; the model is of
  a build without.
- In `ItaniumParser` a mangled name is a sequence of **tokens**: a letter, or a
  whole source name, number, literal's data or prefix. A node's kind, text and
  children are kept and the position of its text in the name, for that is what
  `getBaseName` gives out; what only printing needs is not.
- In `ABI` the constant `Functions` is what a compiler may put into a module: a
  declaration, a linkage, and the struct that the first parameter points to.
  Texts are identifiers and tokens run together; a text whose ends lie in two
  different strings is `Undefined`. The functions of a module are a set: their
  order in the code decides which of two assertions fails first, and the order of
  lists that are compared as sets or sorted later.
- In `Dispatchers` a **node** stands for the tuple of an interface and the
  functions of its methods, at least one, which move as one. `syncMetadata`
  makes dispatchers for the operands that `Missed` names by a formula; that the
  merge of the code finds the same is the invariant `MergeFindsTheMissed`, and a
  theorem.
  `Interface::get` searches with one hash and inserts with another
  (`LLAIRContextImpl.h:73`), so it finds an equal interface or makes a second.
- In `Linker` a name is a function's or a variable's for all modules, and a
  module mentions a name once. A value that LLVM gives a suffix because its name
  is taken is a value that `holder` does not have.
- In `Dispatch` names of methods are numbers, for the code only compares them.
  Overloads that differ in `const` have one name (`Module.cpp:110` cuts the
  name from behind the qualifiers).
- Assertions of LLAIR are part of the models: the builds are those with assertions, and one that fails
  ends the program (`failed` in `Dispatch`, `stopped` in `ClassesFromABI`).
- In `Program` bytes are counted. The tool may divide its output into any calls of
  `write`; a call of at most `AtomicWrite` bytes is taken at once or waits (POSIX,
  `PIPE_BUF`). Descriptor ends are pairs of a process and an
  end, and a pipe is at its end of file when nobody holds its writing end.

Operators whose comment starts with "Mutant" are slips of the kind a programmer
could make in the definition below them. No specification uses them; they exist
to show that the properties tell the code from its mutants.

## 3. The runs

| Run | Instance | Shows |
|---|---|---|
| `SymbolTable` | 3 objects, 2 tables, names A and A.1, modulus 4, one automatic suffix | All invariants of naming, `MovesKeepNames`, and that naming implements `NameSpace`. |
| `ClassRegistry` | 3 classes, 2 modules, 2 node addresses, 2 operands, modulus 4, one automatic suffix, counter at most 1 | List, table and operands agree through the life of modules, when classes move and when modules are linked; loading, syncing and linking add exactly the missing classes when the operands ascend. |
| `Dispatch` | 3 classes, 2 interfaces, lists of at most 2 methods over 2 names, all of them as initial states | Matching, dispatch, completeness, which assertions can fail, and the end of the loop. |
| `OverloadAssertion` | 2 classes with overloads | violates `assert(klass->doesImplement(d_interface))` |
| `Program` | three kinds of tool, inputs 0, 3, 10, outputs 0, 1, 5, 8, 13, pipe 8, chunk 4, atomic write 2 | How calls can hang, when a returned buffer is shorter than the output, when calls return. |
| `LongOutput` | an output written in two pieces | the buffer is cut off |
| `ABI` | 207 functions: 16 methods, interfaces and misleading names in modules of up to three, and 191 declarations with the constructs listed below in modules of one; 3 classes | The parser reads what the compiler wrote, but for the `::` of new expressions and unresolved names, with the same substitutions; method names tell signatures; classes and interfaces are scopes; what ends the program is explained. |
| `Dispatchers` | 2 modules, 2 `llvm::Module`s, 3 dispatchers, 2 interfaces, 2 contents, 2 nodes, 2 operands | Lookups are exact but for what was read or released; functions follow their dispatcher; crashes are explained. |
| `EntryPoints` | 3 entry points, 2 functions, 2 nodes, 1 module, 2 operands | The context's map, the list and the named metadata agree as far as the properties say; syncing twice is syncing once. |
| `ArgumentNodes` | 2 entry points of 2 arguments or outputs, 1 text, 4 files; 6 nodes for careful callers and 3 for others, 2 tuples | Details, places and names survive sharing. |
| `Linker` | 3 modules, 1 function, 1 variable, every kind for each | Functions resolve in every order, definitions are their own, what is resolved stays so; linking implements `LinkedNames`. |
| `VariableLink` | the same | violates that variables resolve too |

Why the bounds are enough:

- **Naming.** Three objects are what it takes for a name to be taken, its first
  automatic successor to be taken too, and a third object to be given the next;
  with modulus 4 the counter wraps in a few moves; two tables let an object
  leave one that others stay in. `MaxSuffixes` stops names that grow when an
  object moves to and fro, and is the only bound on behaviour. The proofs need
  none of these bounds.
- **Classes.** Two operands in descending order are what makes the merge take one
  that has a class for missing, and the third object is the class it then makes; it
  also takes the name or the address that another had, in either module. Two
  operands allow a duplicate, a hole, and a loaded class beside a created one;
  `OpenLoaded` and `LinkModules` bring operands that have no class yet, so the syncs of
  `SortedSyncAddsOnlyMissing` do add. `MaxOperands`, `Addresses` and `MaxUnique`
  bound how often a node is added and how far the counter goes. Longer lists are
  the proof's.
- **Dispatch.** Three classes fill the default block and two cases; two names
  and two methods include every overlap of a class with an interface, equal lists, proper subsets, and overloads on either side. Any of the classes may
  have no name, two of them before or after one that has.
- **Program.** The ratios of pipe, chunk and atomic write to one another matter
  and not their sizes: the outputs lie at nothing, below an atomic write, between chunks, at
  a multiple of the chunk, and above the pipe; the input of 10 does not fit.
  Three calls use up the eight descriptors, so every failure of `popen2` occurs.

- **Entry points.** Two entry points of one function and a third of another, or
  a third that takes the address of one that went; two functions, so that an
  address is used again while another is in use. One module, because an entry
  point that is taken out and put into another module goes through the same two
  calls, and the map is the context's. Two operands allow a node twice, or a
  node beside a hole.
- **Argument nodes.** Two entry points of two arguments share nodes within one
  and between two. `careful` in the initial state says whether callers follow
  the protocol (which is about making and changing them: what files hold and
  whether vertex inputs are described is free); without it nodes multiply fast, and three are what it takes for
  two arguments to be given equal nodes and be changed apart. With it six nodes
  cover two entry points with names and details of their own. The files have
  words that LLAIR does not write and arguments without names.
- **Linker.** A declaration before a definition, after it, and between two; the
  proofs need no bound.
- **Names and methods.** A production of the grammar reads its own tokens, the
  substitutions and the template arguments so far and nothing else, so every type
  is mangled first alone, then twice and behind a pointer, which reads it
  again as a substitution, then inside a class beside other components. The
  constructs are: built-in, qualified, pointer, reference, array, vector, function
  (with qualifiers and with each kind of exception specification), member pointer,
  class, template, elaborated and vendor-qualified types; arguments that are types,
  packs, literals, functions and expressions; operators of one, two and three
  operands, casts, calls, members, `new` and `delete` with and without `::`,
  initializer lists, folds; unresolved names with `gs`, with levels after a type or a
  name, with operators and destructors; operator, conversion, literal, constructor and
  destructor names; ABI tags, local names, lambdas, `std` and its abbreviations;
  tables, guards and thunks. Not in the vocabulary, though in the
  parser, are most operators that differ from one above in their letters only,
  `typeid`, `alignof` and the other casts, folds with an initializer, designated
  initializers, Objective-C, block and vendor type names, structured bindings,
  pixel vectors, type-information tables, covariant thunks, reference temporaries and
  `enable_if` attributes. Three of
  the sixteen methods make a class that has two methods and a third that agrees,
  disagrees, or belongs to a class of a similar name; three classes let one that
  has no name be made again.
- **Dispatchers.** Two modules and two `llvm::Module`s, so that one module wraps
  what the other released, or is made at an address that was freed. Three
  dispatchers on two nodes, so that two share one. Two operands are a list out of order, a
  node beside a hole, or a node twice. The proofs need no bound.

**Fairness.** The modules of naming, classes, entry points, arguments,
dispatchers, names and linking state safety only: their actions are calls that a
client may or may not make. `Dispatch` has weak fairness of its
next step, because `finalizeInterfaces` is one function that runs to its end.
`Program` has weak fairness of the parent and of the tool: the operating system
runs a process that is not blocked. `ReadFails` is not fair.

Deadlock is not checked in `ClassRegistry`, `EntryPoints` and `Dispatchers`
(`Next` stops when the program has ended on a null pointer), `ABI` (it ends the
same way), `ArgumentNodes` (the bounds end it), `Linker` (which ends when all
modules are linked), `Dispatch` (it ends) and `Program` (where hanging is what
the properties are about).

## 4. What the runs found

- **Overloads.** `finalizeInterfaces` counts methods of the class that occur in
  the interface. With two overloads `bar` in the class and `bar`, `baz` in the
  interface the count is right and the conclusion wrong. `AssertionsAreExplained` shows
  that it is right when no list repeats a name.
- **Unnamed classes.** Kinds are given by name (`llair-link.cpp:73`) and a class made
  of a template has no name, so the second such class that implements an interface has
  the first's kind, and `assert(it_implementation == d_implementations.end())`
  (`Dispatcher.cpp:228`) ends the program. `AssertionsAreExplained` says that this and
  the overloads are the only ways to fail the two assertions; the mutant
  `InsertUnasserted` shows what a build without them does: the second class's calls
  are lost, and `ImplementationsAreListed` is violated. It has no run of its own that
  expects a violation.
- **Output that comes in pieces** is cut off at the first short read.
  `CutsAreExplained` says what does hold: all that had been written is returned, and
  the tool was still to write the rest. How the tool divides its output decides it,
  and no size of output is safe.
- **Variables and the order of linking.** A variable's definition that comes
  after a declaration becomes a second variable, and the references made before
  stay with the declaration. Functions do not have this problem: `FunctionsResolve`
  is proved.

The following behaviours contradict no document, assertion or test of the
repository, so they are part of the models and no findings.

### Tools

- A tool that cannot be run makes `runProgram` wait forever, because the parent
  keeps its copy of the writing end of the output pipe. `HangsAreExplained` lists
  this and the other ways to hang.

### Duplicated classes

`syncMetadata` merges two ranges that should be sorted: the operands of
`llair.class` and the classes' nodes. It sorts the second only (for entry points
it sorts both, `Module.cpp:560`). When the operands are not in ascending order of
address the merge takes operands that have a class for missing ones and makes a
second class of the same node, under a suffixed name, and so again at each
sync. What holds is weaker, and is what the runs check: no operand is left
without a class (`OperandsHaveClasses`), and if the operands are ascending the
loading, the sync or the link adds exactly the missing ones
(`SortedSyncAddsOnlyMissing`). Dropping `Ascending` from that property makes TLC
produce the duplicate in three steps of the run's own instance.
Likewise a class that leaves a module leaves a null operand, and the next sync
or link casts it and ends the program (`aborted`).

### Names and methods

- `Module.cpp:84-110` cuts texts out of the mangled name between the base names of
  tree nodes. For `std`, the unnamed namespace and templates in a path, and for
  operators, constructors, destructors and ABI tags, a base name lies in another string than
  the mangled name and the text is undefined (`Undefined`).
- The name of a class that is a template is empty, so the symbol table never has it
  and the class is made anew by each load. `NamedOnce` excepts it.
- A free function of a namespace counts as a method of a class of that name, and
  the assertion that first parameters have one type (`Module.cpp:412`, `463`, and
  `334` for interfaces) fails if a static method, or one that returns a
  structure, is beside methods. `getParamType(0)` (`Module.cpp:117`) of a
  function without parameters is undefined. `StopsAreExplained` lists these.
- Scopes are told apart by their text in the mangled name, without the length of the
  first identifier but with those of the others (`Module.cpp:98-100`): `ns::A` and
  a namespace `ns1A` are one text. If a free function of `ns1A` has a pointer to `ns::A` first,
  the assertion holds and one class is made of both scopes. `Confused` is this case,
  which the run reaches and `ClassesAreScopes` excepts.
- Types of the class's own scope are part of a method's text as substitutions
  whose numbers depend on the scope's depth: classes of different depth may have
  different texts for one signature. `MethodNamesTellSignatures` compares
  scopes of one depth.
- `parseExpr` reads `gs` (`ItaniumDemangle.h:4420`) before it calls
  `parseUnresolvedName` or `parseNewExpr`, which look for it again: the `::` of
  `::x` and `::new` is lost, that of `::delete` is not. `RoundTrip` says so
  (`WithoutGlobal`) and the vocabulary has all three.

### Dispatchers and modules

- A dispatcher that is read from metadata has no interface yet when it is put into
  the list, so it is entered under null (`Dispatcher.cpp:64`).
  `getOrInsertDispatchers` does not find it and makes a second, and taking it
  out looks under its interface and leaves the null entry behind.
- `Interface::get` makes a second interface of the same content when the two
  hashes differ, so two dispatchers of one content need not meet.
- `releaseLLModule` leaves the key of the context's map, and inserting a key that
  is there does nothing: a module that wraps the released `llvm::Module` is not
  found, and the one that released it is, even after it was destroyed.
- A module without `llvm::Module` cannot be destroyed with dispatchers in its list
  nor take one in (`Module.cpp:213`). A null operand that a removal left ends the
  program at the next sync.
- Merging unsorted operands makes a second dispatcher of the same functions; when
  one of two moves to another module the other's functions go with it.
  `FunctionsFollow` and `CrashesAreExplained` except what `shared` records.

### Entry points

- The map keeps the first of two entry points of one function, and removing
  either erases the key: `EntryPoint::Get` then finds neither. `EntryPointsAreFound`
  excepts such functions (`shared`).
- A function that is erased before its entry point leaves its key. The entry
  point has no function any more and cannot remove it, and a new function at
  that address finds it, even when it has been deleted. `LookupsAreLive` excepts
  such addresses (`stale`), and says that there are no other bad lookups.
- A constructor writes no named metadata: an entry point made in code reaches
  `air.vertex` only if it is taken out and put in again. So
  `OperandsHaveEntryPoints` has one direction.
- Vertex functions leave a null operand when they are taken out, which ends the
  program at the next sync, and kernels are not struck at all and come back at
  the next sync.

### Arguments and outputs

- Outputs made in code share one node until each has details. Naming one of them
  before that names all. Equal entry points share their tuples in the same way.
- Outputs that are read from metadata all have `d_md_index` 0: giving one of them
  details overwrites the first.
- `CarefulUseIsSafe` says what protects a caller from this: make entry points one
  after the other, give each argument its details and then a name that is not
  empty, before the next one, and leave alone what was read from metadata. It has two
  exceptions, and the run has both. `InitDetailsAsVertexInput` writes nothing
  (`EntryPoint.cpp:731`), so a vertex input that was described has its name and no
  details in the node. An argument that its file left without a name shares its
  node with a new one of the same contents, and `setName` on that (`EntryPoint.cpp:870`)
  names both.
- The identifier of a vertex input read from metadata is the keyword before it,
  for the outer iterator is read, and `InitDetailsAsVertexInput` writes nothing
  (`// TODO`). `DetailsMatchNodes` excepts vertex inputs.

### Documentation

A difference between code and documentation that no run concerns: `README.md:8`
says that `makeLibrary` runs `metallib`; `Tools/MakeLibrary.cpp:67` calls the
LLVM fork's writer.

## 5. What is proved

`SymbolTableProofs` proves, for any number of objects (finite), tables, names
and any modulus above the number of objects, and without the bound on suffixes
playing a part:

- the inductive invariant `WellFormed` (`AlwaysWellFormed`): the types of the
  fields, `DistinctKeys`, `CurrentEntries` and `FoundObjects`. None is inductive
  alone. A table's keys stay distinct only if the entry taken out is the
  object's own (`FoundObjects`); what a table holds stays current only if no
  two entries share an object; an object finds its entry only if nobody else's
  detachment removes it, which needs `CurrentEntries`. `FoundObjects` ranges
  over live objects only, and that is what makes it indifferent to stale keys.
- from it the invariants the run checks: `TypeCorrect`, `NamesAreUnique`,
  `EntriesAreCurrent`, `ObjectsAreFound`, `AbandonedAreEmpty`, the action
  property `MovingKeepsNames`, and the refinement `NamingImplementsNameSpace`.
- `FreeStepExists`: the loop of `makeUniqueName` ends. The suffixed names of
  `UniqueModulus` consecutive counter values are different, each that is taken
  belongs to a different object, and there are fewer objects than values. The
  assumption on the modulus is used here and nowhere else.

The assumptions are the `ASSUME`s of `SymbolTable`, which the runs evaluate.
The argument follows the code: lemmas about `Detach`, `Attach` and
`CreateEntry`, then about `SetName` and `SetSymbolTable`, which are sequences
of those, then one lemma per action.

`LinkerProofs` proves, for any finite or infinite set of modules and names, the
invariant `LinkerInvariant` and from it `LinkerTypes`, `DefinitionsStayOwn`,
`OrderDoesNotMatter` (`FunctionsResolve`) and `ResolutionIsFinal`. What a run
checks is not inductive: that a declaration ends at the definition needs to know
where declarations stand before the definition comes. The invariant adds that
only linked modules have values in the destination (`OnlyLinked`), and that all
users of a function with one strong definition have one value between them, the
holder of the name, which is not weak and has the definition for its body as
soon as that is linked (`OneValue`). When the definition comes it fills that
value; when a declaration comes it is mapped to it.

`LinkingImplementsLinkedNames` proves the refinement. `LinkedNames` has no values
and no bodies: the first module with a name decides what later declarations are
offered, and while that is nothing the first function defined after it answers all
that wait. `Linker` has values that outlive their module's part in this: one created
for a declaration gets another module's body and keeps its own linkage. The
mapping says that a name stands for the module whose body its value has. For it
`FirstComers` is needed: the holder of a name is what the holder's own module
refers to, and while it has no body every declaration refers to it. A
declaration that was mapped elsewhere waits in vain if it waits at all; that this
happens only when the name's holder is weak and has a body is the step
`OwnNames`. `Linker.TypeOK` is proved (`LinkerTypes`) and no longer run.

`ProgramProofs` proves, for any sizes of inputs, outputs, pipe, chunk and atomic
write and any number of descriptors, the invariant `ProgramInvariant`: types, how
far the parent and the tool of a call are, and that what was read and what is in the pipe
are together what was written. The last is what `CutsExplained` needs: the parent returns at a
read that is short, which leaves nothing in the pipe, so what it has is all that was written, and
a tool that has exited has written all.

A second invariant, `WaitInv`, says what a process may wait for: pipes hold at
most `Capacity`, the parent goes on reading after full chunks only, the end that
the tool reads to is held by nobody but a parent that still writes, and the tool
never owes more than its output. From both follows `HangsExplained`: the three
ways to hang that `HangsAreExplained` lists are all there are, for every tool and
all sizes. `Stuck` says by the guards of the actions (`ParentGoesOn`,
`ToolGoesOn`) what TLA+ calls `ENABLED`, of which TLAPS cannot reason; each
action is such a guard and assignments, its amounts chosen from a set that the
guard says has a member. `FilterReturns` has TLC compute `ENABLED` itself.

Of `FilterReturns` all but the scheduling is proved. `CallsProgress` gives a number
(`WorkLeft`) that every step of a call lessens unless it returns: a byte of the
input is moved twice and a byte of the output three times, and each process has a few stages. `FiltersGoOn` shows that
a tool that reads to the end before it answers is never in a state where neither
process can go on. Its invariant `FilterInv` is that such a tool owes, writes and exits
only after it saw the end of its input, which is not before the parent has
closed its end: that excludes both ways to hang in a write, and the third
needs an output that is a multiple of the chunk. What is left to the model checker is
that a step which can be taken is taken, which is `Fairness`.

`ClassRegistryProofs` proves, for any finite set of classes and any modules, names,
nodes and operands, the invariant `Registered` and from it `ListsMatchTables`,
`OperandsCovered` and the action property `SortedSyncExact`. `Registered` has two
parts. `Agree` is about lists, tables and live classes, and is where naming is
cited: what `SetName`, `SetSymbolTable`, construction and destruction do to a
`WellFormed` table was proved once, in `SymbolTableProofs`, and the constructor that
syncs and the destructor that clears are sequences of those. `Metadata` is about
nodes and operands. What the run checks, that every operand has a class, is not
inductive: a removal makes one operand null and takes one class from the list,
and that strikes the right one only if two nodes in use never have one
address (`Addressed`). The centre of the proof is the merge of `syncMetadata`: for
every two ranges, sorted or not, what it calls `fn1` for covers what the second
range lacks, and if both ascend it is exactly that (`Merged`). The proof follows the
turns of the loop with what has been passed in either range; that `SortedNodes`
ascends and has every node as often as the list is `SortedByRank`.

`DispatchProofs` proves, for any numbers of classes, interfaces and methods, the
invariant `DispatchInv` and from it `AssertionsExplained`, `CallsReach` and
`ImplementationsListed`; and about lists of methods of every length `InclusionHolds`. The merge pairs
the first method of a name with the first, the second with the second and so on
(`Partner`), whence a class implements an interface with repeated names exactly if it
has each as often. The invariant says of a dispatcher that its first class is in
the default block and the others in cases under their kinds, that kinds tell
names apart, and that no two classes that were inserted share a kind, which is what the
second assertion of `insertImplementation` is for; a call with the kind of a class then
finds its case, or no case and the default block, which is its own. When an
assertion fails the class has overloads that the count (`CountDecides`, a lemma) does
not allow for, or the kind was given to a class of the same, empty, name.
`NothingIsLostInLinking` says what the module has when it has read its dispatchers
back. `LoopsEnd` and `EndsComplete` are what `EndsLinked` says but for the
fairness: every step brings the loops nearer to their end, in the lexicographic order of
the classes to come, the interfaces in the count map and the link; and where no step is left, all classes were visited and
what they implement is linked, or an assertion has ended the program.

The last part of `DispatchProofs` is about `ClassesFromABI`: `LoadingSafe` and from it
`ClassesNamedOnce`, `StopsExplained` and the action property `MadeAreScopes`, for
any number of functions and of calls between which functions come. All three loading
calls are one lemma to the list of classes (`StepMakes`): what is appended are classes
of readable functions, not there before and named apart, whatever order the
hash table has. Of what is read of a name the proofs use `ReadingAssumption` only,
which TLC evaluates on every function of the run `ABI`: a name read as a method's is one,
its class is called as the scope is spelled or has no text, clear names are read, and functions of one scope have one
class. That the parser makes it true for all declarations is induction over
trees and stays with TLC.

`ArgumentNodesProofs` proves, for any number of entry points and arguments, any
files and texts and without the bounds on nodes, the invariant `ArgumentsInv` and
from it `DetailsMatch`, `PositionsHold`, `CarefulUse` and the action property
`NamesSurviveDetails`. LLVM's stores only grow and a node that changes in place
changes its name only, so details and positions survive sharing. What a careful
caller asked for survives because only nodes without a name change: the invariant
(`Protocol`) says that at most one argument of one entry point has details and no
name, and that all other changing nodes have neither, but for the arguments that a
file left without a name, of which the property says nothing.

`DispatchersProofs` proves, for any sets of modules, interfaces and nodes and any
finite set of dispatchers, the invariant `DispatchersInvariant` and from it `LookupsExact`,
`KeysOfUnreleased`, `FunctionsStay` and `CrashesExplained`. It ties the map of
modules, the tables, the operands and the functions together, because a lookup, a
key and the place of a function all depend on which `llvm::Module` a module
has: `FunctionsFollow` survives the end of a module only if no other module owns the
same `llvm::Module`, and a node that was never shared is an operand at most once, so
that striking it strikes all of it. One lemma covers `syncMetadata` and the
constructor that wraps an `llvm::Module`, which ends with the same merge.

The merge itself is `MergeExact`. The operands come as they are stored, so a sorted
range is merged with one that is not, and `Merging` is what holds after each turn
all the same: no node still to come is below an operand that was passed, and the
operands passed that equal a node still to come have all been paired. An operand
is then missed exactly if a greater one came before it or its copies outnumber the
dispatchers that have it. That `SortedNodes` ascends and has each node as often as
the list (`SortedNodesAscend`) needs the list to be finite (`FiniteAssumption`),
which the code's is.

`EntryPointsProofs` proves, for any finite sets of entry points and functions
(`FiniteAssumption`), the invariant `EntryPointsInvariant` and from it
`LookupsLive`, `EntryPointsFound`, `OperandsListed` and `SyncsAddOnlyMissing`. It
is types, facts about the map and facts about operands. A key leads to a listed
entry point only if a function erased under a key is remembered with that key
and if two unshared entry points never have one function; neither is among the
checked invariants. Operands never outnumber entry points only if
a module without the named metadata has none. The argument for a sync is
one of counting: what it adds for a node is in bijection with `1..Missing`.

Induction over data. The library's induction theorems take an operator and cannot
be used here, but loops are written as functions on `0..n`, the state after each turn
(`Dispatch.Pairs`, `ClassRegistry.FirstOnly`, `Dispatchers.FirstOnly`, `NamesAfter`,
`ArgumentNodes.GetAll`), and
about those the lemma `Induction` is enough, which is about a set of numbers: that
the function exists is proved first, then what holds after each turn.

Only model-checked: `RoundTrip` and `MethodNamesTellSignatures`, which speak of the
parser and the compiler, and these are `RECURSIVE` operators that no prover here
takes; and the liveness properties `EndsLinked` and
`FilterReturns`, of which the safety halves are proved, but not the step from
fairness to progress: it needs `ENABLED`, of which TLAPS cannot reason.

## 6. What is not modelled

The contents of types, functions and instructions; printing and dumping;
LLVM's own passes, bitcode reader and writers; the demangler of Microsoft's
names, which nothing in LLAIR calls, and the printing of demangled trees, of which
LLAIR reads base names only; `Library.cpp`, whose state is LLVM's; the
examples. `setVersion` and `setLanguage` write one operand each. `SymbolTable::reinsertValue` has no caller. `Named`'s allocators: each
entry is freed with the allocator that made it, or, for an object destroyed with
a name, not at all. A child that a returned call leaves behind is not followed
on into the next call.

In the linker: `available_externally` definitions, for which LLVM's two tests
(`isDeclarationForLinker` at `Linker.cpp:267` and `274`, `isDeclaration` at 316 and 341)
differ; aliases, `TypeMapper`, the named metadata other than classes
that is copied once (`Linker.cpp:433`), and distinct nodes, which linking moves. In entry points: an
argument that its file has no node for, whose object `~EntryPoint` destroys
without it having been made; `setFunction`, which is empty.

## 7. Plan

Done: naming with its abstract specification; classes, dispatch, tools, entry
points, their arguments, resolution in the linker, dispatchers and modules; all of
these with proofs; the name parser and what `Module.cpp` makes of names. Left, in
this order:

1. **Linker**: aliases, types and the other named metadata.
2. **Modules**: version and language.
