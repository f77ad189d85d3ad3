--------------------------- MODULE ClassesFromABI ---------------------------
(***************************************************************************)
(* Classes and interfaces made from the functions of a module alone        *)
(* (Module.cpp): what is read of a function's mangled name decides which   *)
(* class it belongs to and under which method name, and the type that its  *)
(* first parameter points to must be that of the class.                    *)
(*                                                                         *)
(* A function has a declaration, a linkage, that type (self), what is read *)
(* of its name (name) and what its declaration says of it (said). A        *)
(* module's functions are a set: their order decides which of two failed   *)
(* assertions comes first, and nothing else.                               *)
(***************************************************************************)
EXTENDS Naturals, Sequences, FiniteSets

CONSTANTS Compiled,       \* the functions that a compiler may put into a module
          Combined,       \* those of them that are put into modules of several
          MaxFunctions,   \* bound: functions of such a module
          MaxClasses,     \* bound: classes of the module
          Undefined       \* a text whose ends are not in one string

ASSUME CombinedAssumption == Combined \subseteq Compiled
ASSUME BoundAssumption    == {MaxFunctions, MaxClasses} \subseteq Nat

\* Names are read as they were written: what is read as a member of a class is one,
\* and the class's name is that of its scope; functions of one scope are read as
\* members of one class. Only of clear names (said.clear: a source name in a scope
\* whose text is one piece of the function's name) is it said that they can be read.
ASSUME ReadingAssumption ==
    \A f \in Compiled :
        /\ f.name.found => f.said.method /\ f.name.class \in {f.said.spelling, Undefined}
        /\ f.said.method /\ f.said.clear =>
              f.name.found /\ Undefined \notin {f.name.class, f.name.method}
        /\ \A g \in Compiled :
              f.said.method /\ g.said.method /\ f.said.scope = g.said.scope =>
                 f.name.found = g.name.found /\ f.name.class = g.name.class

VARIABLES functions,    \* of the llvm::Module
          classes,      \* Module::d_classes, in order: name, type and methods
          interfaces,   \* what the last getAllInterfacesFromABI returned
          stopped       \* an assertion failed, or an undefined text was read

loading == <<functions, classes, interfaces, stopped>>

NoSelf == "none"        \* the first parameter is not a pointer to a struct
NoParameter == "unread" \* there is no first parameter
NoName == ""

----------------------------------------------------------------------------
\* Mutant: the linkage is not looked at.
ReadableAny(linkages) == {f \in functions : f.name.found}

\* A module's functions of these linkages whose names can be read
Readable(linkages) == {f \in functions : f.linkage \in linkages /\ f.name.found}

\* Mutant: what is not a pointer to a struct is a method too.
MethodsOfAny(fs, class) == {f \in fs : f.name.class = class}

\* What a ClassSpec or an InterfaceSpec collects: functions without a self type are
\* passed over.
MethodsOf(fs, class) == {f \in fs : f.name.class = class /\ f.self # NoSelf}

\* Whether the program ends while it makes these classes of these functions: there is
\* no parameter 0, the assertion on the type fails, or a method's name has no text.
Ends(fs, names) ==
    \/ \E f \in fs : f.name.class \in names /\ f.self = NoParameter
    \/ \E c \in names : \E f, g \in MethodsOf(fs, c) : f.self # g.self
    \/ \E c \in names : \E f \in MethodsOf(fs, c) : f.name.method = Undefined

Class(fs, name) ==
    [name |-> name, type |-> CHOOSE t \in {f.self : f \in MethodsOf(fs, name)} : TRUE,
     methods |-> {<<f.name.method, f>> : f \in MethodsOf(fs, name)}]

\* Mutant: only the class that was made last is found.
ExistingLast(name) == {i \in {Len(classes)} \ {0} : name # NoName /\ classes[i].name = name}

\* The symbol table has no entry for the empty name.
Existing(name) == {i \in DOMAIN classes : name # NoName /\ classes[i].name = name}

ClassNames(fs) == {f.name.class : f \in fs}

\* The orders in which a hash table may be gone through
Orders(set) ==
    {s \in [1 .. Cardinality(set) -> set] : \A i, j \in DOMAIN s : s[i] = s[j] => i = j}

----------------------------------------------------------------------------
InitLoading ==
    /\ functions = {}
    /\ classes = <<>>
    /\ interfaces = {}
    /\ stopped = FALSE

\* A function comes into the module.
AddFunction(f) ==
    /\ ~stopped
    /\ functions = {} \/ functions \cup {f} \subseteq Combined
    /\ Cardinality(functions) < MaxFunctions
    /\ \A g \in functions : g.decl # f.decl
    /\ functions' = functions \cup {f}
    /\ UNCHANGED <<classes, interfaces, stopped>>

\* Strong definitions only; a class that is there is returned as it is.
getOrLoadClassFromABI(name) ==
    LET fs == Readable({"strong"})
    IN  /\ ~stopped
        /\ Existing(name) = {}
        /\ Len(classes) < MaxClasses
        /\ stopped' = Ends(fs, {name})
        /\ classes' = IF stopped' \/ MethodsOf(fs, name) = {} THEN classes
                      ELSE Append(classes, Class(fs, name))
        /\ UNCHANGED <<functions, interfaces>>

\* Classes that are there are only returned; new ones are made in the order of
\* a hash table.
getOrLoadAllClassesFromABI ==
    LET fs == Readable({"strong"})
        missing == {c \in ClassNames(fs) : Existing(c) = {}}
        new == {c \in missing : MethodsOf(fs, c) # {}}
    IN  /\ ~stopped
        /\ Len(classes) + Cardinality(new) <= MaxClasses
        /\ stopped' = (Undefined \in missing \/ Ends(fs, missing))
        /\ \E order \in Orders(new) :
              classes' = IF stopped' THEN classes
                         ELSE classes \o [i \in DOMAIN order |-> Class(fs, order[i])]
        /\ UNCHANGED <<functions, interfaces>>

getAllInterfacesFromABI ==
    LET fs == Readable({"declaration"})
        made == {c \in ClassNames(fs) : MethodsOf(fs, c) # {}}
    IN  /\ ~stopped
        /\ stopped' = (Undefined \in made \/ Ends(fs, ClassNames(fs)))
        /\ interfaces' = IF stopped' THEN interfaces ELSE {Class(fs, c) : c \in made}
        /\ UNCHANGED <<functions, classes>>

NextLoading ==
    \/ \E f \in Compiled : AddFunction(f)
    \/ \E c \in ClassNames(Readable({"strong"})) \ {Undefined} : getOrLoadClassFromABI(c)
    \/ getOrLoadAllClassesFromABI
    \/ getAllInterfacesFromABI

Loading == InitLoading /\ [][NextLoading]_loading

----------------------------------------------------------------------------
\* Of the functions with this linkage, those that belong to a scope
OfScope(linkage, scope) ==
    {f \in functions : f.linkage = linkage /\ f.said.method /\ f.said.scope = scope}

\* The class has all methods of a scope, by which it is called, and no others.
IsScope(class, linkage) ==
    \E f \in functions :
        /\ f.said.method /\ class.name = f.said.spelling
        /\ {m[2] : m \in class.methods} =
              {g \in OfScope(linkage, f.said.scope) : g.self # NoSelf}

\* Two scopes whose identifiers run together to one text, like ns::A and ns1A, with
\* functions that have a pointer to one struct first
Confused(linkage, spelling) ==
    \E f, g \in functions :
        /\ {f.linkage, g.linkage} = {linkage} /\ f.said.method /\ g.said.method
        /\ f.said.scope # g.said.scope /\ f.self = g.self /\ f.self # NoSelf
        /\ f.said.spelling = spelling /\ g.said.spelling = spelling

IsScopeOrConfused(class, linkage) == IsScope(class, linkage) \/ Confused(linkage, class.name)

\* A class or an interface that is made is one C++ scope, with all of the scope's
\* strong functions (declarations) whose first parameter is a pointer to a struct,
\* although scopes are told apart by the text of their names and the first parameter.
ClassesAreScopes ==
    [][/\ \A i \in DOMAIN classes' \ DOMAIN classes : IsScopeOrConfused(classes'[i], "strong")
       /\ \A c \in interfaces' \ interfaces : IsScopeOrConfused(c, "declaration")]_loading

\* The functions that a program could not make classes or interfaces of.
Mixed(fs) ==
    \/ \E f \in fs : f.self = NoParameter
    \/ \E f \in fs : ~f.said.clear
    \/ \E f, g \in fs :
          /\ NoSelf \notin {f.self, g.self} /\ f.self # g.self
          /\ f.said.spelling = g.said.spelling

\* Making classes or interfaces ends the program only for functions without a
\* parameter, constructors, destructors and operators, scopes inside std, an
\* unnamed namespace or a template, or functions of one spelling whose first
\* parameters differ (free functions of a namespace, static methods, returned
\* structs). Weak functions never do.
StopsAreExplained ==
    stopped =>
        \E linkage \in {"strong", "declaration"} :
            Mixed({f \in functions : f.linkage = linkage /\ f.said.method})

\* A class with a name is made once, however often classes are loaded.
NamedOnce ==
    \A i, j \in DOMAIN classes :
        classes[i].name = classes[j].name => i = j \/ classes[i].name = NoName
=============================================================================
