------------------------------- MODULE Linker -------------------------------
(***************************************************************************)
(* Resolution of names in linkModule (Linker.cpp): modules are linked, one *)
(* after the other and in any order, into a destination that starts empty. *)
(*                                                                         *)
(* A value of the destination is called after the source module it was     *)
(* created for and its name there: <<c, n>>. The first value created with a*)
(* name has it; LLVM gives later ones a name with a suffix, by which no    *)
(* source module asks for them.                                            *)
(***************************************************************************)
EXTENDS FiniteSets

CONSTANTS Modules,      \* the source modules
          Names,        \* names of functions and of variables
          Variables,    \* the names of variables
          None          \* nullptr

ASSUME NameAssumption   == Variables \subseteq Names
ASSUME ModuleAssumption == None \notin Modules

\* What a module has under a name: nothing, a declaration, or a definition that
\* is strong, weak (an inline function, for instance) or internal.
\* available_externally is left out: a body for which LLVM has two tests (a
\* declaration to isDeclarationForLinker, a definition to isDeclaration).
Kinds == {"none", "declared", "strong", "weak", "internal"}

VARIABLES kind,      \* the source modules
          linked,    \* the modules that have been linked
          holder,    \* llvm::Module::getNamedValue of the destination
          body,      \* the definition a value of the destination has
          refs       \* VMap: the value that a source value became

vars == <<kind, linked, holder, body, refs>>

Defines(m, n) == kind[m][n] \in {"strong", "weak", "internal"}

----------------------------------------------------------------------------
(* The value of the destination that has the name n, if there is one.      *)

\* Mutant: the linkage of the value decides, not whether it has a body by now.
IsDeclarationByOrigin(n) == holder[n] # None /\ kind[holder[n]][n] = "declared"

IsDeclaration(n) == holder[n] # None /\ body[holder[n]][n] = None

\* Mutant: a value takes over the linkage of its body.
IsStrongByBody(n) ==
    holder[n] # None /\ body[holder[n]][n] # None /\ kind[body[holder[n]][n]][n] # "weak"

\* A value keeps the linkage it was created with, whatever becomes its body.
IsStrongDefinition(n) ==
    holder[n] # None /\ body[holder[n]][n] # None /\ kind[holder[n]][n] # "weak"

\* Mutant: the test for a null dst_global_value is missing.
MapsDeclarationUntested(n) == holder[n] = None \/ IsDeclaration(n) \/ IsStrongDefinition(n)

\* Mutant: a declaration is mapped to declarations only.
MapsDeclarationOnly(n) == IsDeclaration(n)

\* Whether a declaration is mapped to the value that has its name.
MapsDeclaration(n) == IsDeclaration(n) \/ IsStrongDefinition(n)

\* Mutant: getFunction's result is used whether or not it has a body.
FillsDeclarationOrDefinition(n) == n \notin Variables /\ holder[n] # None

\* Definitions of functions fill a declaration; those of variables do not.
FillsDeclaration(n) == n \notin Variables /\ IsDeclaration(n)

\* What n of module m becomes: the value with that name, or a new one.
Target(m, n) ==
    IF kind[m][n] = "none" THEN None
    ELSE IF \/ kind[m][n] = "declared" /\ MapsDeclaration(n)
            \/ Defines(m, n) /\ FillsDeclaration(n)
         THEN holder[n]
         ELSE m

----------------------------------------------------------------------------
Init ==
    /\ kind \in [Modules -> [Names -> Kinds]]
    /\ linked = {}
    /\ holder = [n \in Names |-> None]
    /\ body = [c \in Modules |-> [n \in Names |-> None]]
    /\ refs = [m \in Modules |-> [n \in Names |-> None]]

Link(m) ==
    /\ m \notin linked
    /\ linked' = linked \cup {m}
    /\ refs' = [refs EXCEPT ![m] = [n \in Names |-> Target(m, n)]]
    /\ holder' = [n \in Names |-> IF holder[n] = None THEN Target(m, n) ELSE holder[n]]
    /\ body' = [c \in Modules |-> [n \in Names |->
                  IF Defines(m, n) /\ Target(m, n) = c THEN m ELSE body[c][n]]]
    /\ UNCHANGED kind

Next == \E m \in Modules : Link(m)

Spec == Init /\ [][Next]_vars

----------------------------------------------------------------------------
\* The types of the state. A source value has an image exactly when its module has
\* been linked: VMap misses no value, and has none that the source has not.
TypeOK ==
    /\ kind \in [Modules -> [Names -> Kinds]]
    /\ linked \subseteq Modules
    /\ holder \in [Names -> Modules \cup {None}]
    /\ body \in [Modules -> [Names -> Modules \cup {None}]]
    /\ refs \in [Modules -> [Names -> Modules \cup {None}]]
    /\ \A m \in Modules, n \in Names :
          refs[m][n] # None <=> m \in linked /\ kind[m][n] # "none"

\* What a reference to n in module m reaches in the destination.
Reached(m, n) == body[refs[m][n]][n]

\* A module's own definitions stay its own: a reference to a name that the module
\* defines reaches that definition, whatever was linked before it or after it
\* under the same name, and so no definition is overwritten by another.
OwnDefinitionsAreUsed ==
    \A m \in linked, n \in Names : Defines(m, n) => Reached(m, n) = m

\* d is the only definition of n, and a strong one.
OnlyDefinition(d, n) ==
    /\ kind[d][n] = "strong"
    /\ \A m \in Modules \ {d} : kind[m][n] \in {"none", "declared"}

\* A function that one module defines and others declare is reached from all of
\* them, in whatever order the modules are linked: a declaration that came first
\* is filled by the definition, one that comes later is mapped to it.
FunctionsResolve ==
    \A d \in linked, n \in Names \ Variables :
        OnlyDefinition(d, n) =>
            \A m \in linked : kind[m][n] = "declared" => Reached(m, n) = d

\* A reference that reaches a definition reaches it for good: linking further
\* modules changes nothing of what has been linked.
ResolvedForGood ==
    [][\A m \in linked, n \in Names :
          (kind[m][n] # "none" /\ Reached(m, n) # None) => Reached(m, n)' = Reached(m, n)]_vars

\* "Performs a task similar to LLVM's link `linkModules()`" (Linker.cpp:251): what
\* one module defines and another declares is linked, for variables too.
DefinitionsResolve ==
    \A d \in linked, n \in Names :
        OnlyDefinition(d, n) =>
            \A m \in linked : kind[m][n] = "declared" => Reached(m, n) = d

----------------------------------------------------------------------------
\* What a reference stands for is the definition that its value has.
LinkedNamesOf == INSTANCE LinkedNames WITH
    first   <- holder,
    reaches <- [m \in Modules |-> [n \in Names |->
                  IF refs[m][n] = None THEN None ELSE Reached(m, n)]]

\* Values, their linkages and VMaps come to what LinkedNames says: what a name in a
\* module stands for is decided by the module that was linked first with that name and
\* by the first definition after it, and by nothing else the destination holds.
ImplementsLinkedNames == LinkedNamesOf!Spec
=============================================================================
