---------------------------- MODULE LinkerProofs ----------------------------
(***************************************************************************)
(* Proofs about Linker, for every set of modules and names. Values and     *)
(* bodies belong to modules that have been linked (Linking), and a function*)
(* with one definition has one value in the destination (OneValue): the two*)
(* together are inductive.                                                 *)
(***************************************************************************)
EXTENDS Linker, TLAPS

\* Nothing of a module that is yet to be linked is in the destination.
OnlyLinked ==
    /\ \A n \in Names : holder[n] # None => holder[n] \in linked
    /\ \A m \in Modules, n \in Names : refs[m][n] # None => refs[m][n] \in linked
    /\ \A c \in Modules, n \in Names : body[c][n] # None => c \in linked

Linking == TypeOK /\ OnlyLinked /\ OwnDefinitionsAreUsed

\* All that use a function with one definition share one value, which has that
\* definition for its body as soon as it is there.
OneValue ==
    \A d \in Modules, n \in Names \ Variables :
        OnlyDefinition(d, n) =>
            /\ \A m \in linked : kind[m][n] # "none" => refs[m][n] = holder[n]
            /\ holder[n] # None =>
                  /\ kind[holder[n]][n] # "weak"
                  /\ body[holder[n]][n] = IF d \in linked THEN d ELSE None

LinkerInv == Linking /\ OneValue

----------------------------------------------------------------------------
\* What Link does to one name, in the terms the proofs use.
LEMMA TargetType ==
    ASSUME Linking, NEW m \in Modules, m \notin linked, NEW n \in Names
    PROVE  /\ Target(m, n) = None <=> kind[m][n] = "none"
           /\ Target(m, n) # None => Target(m, n) \in linked \cup {m}
  BY ModuleAssumption
  DEF Linking, TypeOK, OnlyLinked, Target, MapsDeclaration, FillsDeclaration,
      IsDeclaration, IsStrongDefinition, Defines, Kinds

\* A definition gets a value that has no body.
LEMMA FreshBody ==
    ASSUME Linking, NEW m \in Modules, m \notin linked, NEW n \in Names, Defines(m, n)
    PROVE  Target(m, n) \in Modules /\ body[Target(m, n)][n] = None
  <1>1. body[m][n] = None
    BY DEF Linking, OnlyLinked
  <1>2. kind[m][n] # "declared" /\ kind[m][n] # "none"
    BY DEF Defines
  <1>3. CASE FillsDeclaration(n)
    <2>1. Target(m, n) = holder[n]
      BY <1>2, <1>3 DEF Target
    <2> QED  BY <2>1, <1>3 DEF FillsDeclaration, IsDeclaration, Linking, TypeOK
  <1>4. CASE ~ FillsDeclaration(n)
    <2>1. Target(m, n) = m
      BY <1>2, <1>4 DEF Target
    <2> QED  BY <2>1, <1>1
  <1> QED  BY <1>3, <1>4

\* The arrays after a step.
LEMMA LinkEffect ==
    ASSUME Linking, NEW m \in Modules, Link(m), NEW n \in Names
    PROVE  /\ refs'[m][n] = Target(m, n)
           /\ \A k \in Modules \ {m} : refs'[k][n] = refs[k][n]
           /\ holder'[n] = IF holder[n] = None THEN Target(m, n) ELSE holder[n]
           /\ \A c \in Modules : body'[c][n] =
                 IF Defines(m, n) /\ Target(m, n) = c THEN m ELSE body[c][n]
  BY DEF Linking, TypeOK, Link

\* A value that has a body keeps it.
LEMMA BodiesStay ==
    ASSUME Linking, NEW m \in Modules, Link(m), NEW n \in Names,
           NEW c \in Modules, body[c][n] # None
    PROVE  body'[c][n] = body[c][n]
  <1>1. m \notin linked
    BY DEF Link
  <1>2. Defines(m, n) => Target(m, n) # c
    BY <1>1, FreshBody
  <1> QED  BY <1>2, LinkEffect

----------------------------------------------------------------------------
\* The first part of the inductive invariant holds initially and is preserved.
LEMMA LinkingInit == Init => Linking
  BY DEF Init, Linking, TypeOK, OnlyLinked, OwnDefinitionsAreUsed

LEMMA LinkingStep ==
    ASSUME Linking, NEW m \in Modules, Link(m)
    PROVE  Linking'
  <1>1. m \notin linked /\ linked' = linked \cup {m} /\ kind' = kind
    BY DEF Link
  <1>2. TypeOK'
    <2>1. \A n \in Names : Target(m, n) \in Modules \cup {None}
      BY <1>1, TargetType DEF Linking, TypeOK
    <2>2. /\ kind' \in [Modules -> [Names -> Kinds]]
          /\ linked' \subseteq Modules
      BY <1>1 DEF Linking, TypeOK
    <2>3. holder' \in [Names -> Modules \cup {None}]
      BY <2>1 DEF Link, Linking, TypeOK
    <2>4. body' \in [Modules -> [Names -> Modules \cup {None}]]
      BY <2>1 DEF Link, Linking, TypeOK
    <2>5. refs' \in [Modules -> [Names -> Modules \cup {None}]]
      BY <2>1 DEF Link, Linking, TypeOK
    <2>6. ASSUME NEW k \in Modules, NEW n \in Names
          PROVE  refs'[k][n] # None <=> k \in linked' /\ kind'[k][n] # "none"
      <3>1. CASE k = m
        BY <1>1, <3>1, LinkEffect, TargetType
      <3>2. CASE k # m
        BY <1>1, <3>2, LinkEffect DEF Linking, TypeOK
      <3> QED  BY <3>1, <3>2
    <2> QED  BY <2>2, <2>3, <2>4, <2>5, <2>6 DEF TypeOK
  <1>3. OnlyLinked'
    <2>1. ASSUME NEW n \in Names
          PROVE  holder'[n] # None => holder'[n] \in linked'
      BY <1>1, LinkEffect, TargetType DEF Linking, OnlyLinked
    <2>2. ASSUME NEW k \in Modules, NEW n \in Names
          PROVE  refs'[k][n] # None => refs'[k][n] \in linked'
      BY <1>1, LinkEffect, TargetType DEF Linking, OnlyLinked
    <2>3. ASSUME NEW c \in Modules, NEW n \in Names
          PROVE  body'[c][n] # None => c \in linked'
      <3>1. CASE Defines(m, n) /\ Target(m, n) = c
        BY <1>1, <3>1, TargetType, ModuleAssumption
      <3>2. CASE ~ (Defines(m, n) /\ Target(m, n) = c)
        BY <1>1, <3>2, LinkEffect DEF Linking, OnlyLinked
      <3> QED  BY <3>1, <3>2
    <2> QED  BY <2>1, <2>2, <2>3 DEF OnlyLinked
  <1>4. OwnDefinitionsAreUsed'
    <2> SUFFICES ASSUME NEW k \in linked', NEW n \in Names, Defines(k, n)
                 PROVE  body'[refs'[k][n]][n] = k
      BY <1>1 DEF OwnDefinitionsAreUsed, Reached, Defines
    <2>1. CASE k = m
      BY <1>1, <2>1, LinkEffect, FreshBody
    <2>2. CASE k # m
      <3>1. k \in linked /\ k \in Modules
        BY <1>1, <2>2 DEF Linking, TypeOK
      <3>2. refs[k][n] # None
        BY <3>1 DEF Linking, TypeOK, Defines
      <3>3. refs[k][n] \in Modules /\ body[refs[k][n]][n] = k
        BY <3>1, <3>2 DEF Linking, TypeOK, OwnDefinitionsAreUsed, Reached
      <3>4. body'[refs[k][n]][n] = k
        BY <3>1, <3>3, BodiesStay, ModuleAssumption
      <3> QED  BY <2>2, <3>1, <3>4, LinkEffect
    <2> QED  BY <2>1, <2>2
  <1> QED  BY <1>2, <1>3, <1>4 DEF Linking

----------------------------------------------------------------------------
\* The second part.
LEMMA OneValueStep ==
    ASSUME Linking, OneValue, NEW m \in Modules, Link(m)
    PROVE  OneValue'
  <1>1. m \notin linked /\ linked' = linked \cup {m} /\ kind' = kind
    BY DEF Link
  <1> SUFFICES ASSUME NEW d \in Modules, NEW n \in Names \ Variables,
                      OnlyDefinition(d, n)
               PROVE  /\ \A k \in linked' : kind[k][n] # "none" => refs'[k][n] = holder'[n]
                      /\ holder'[n] # None =>
                            /\ kind[holder'[n]][n] # "weak"
                            /\ body'[holder'[n]][n] = IF d \in linked' THEN d ELSE None
    BY <1>1 DEF OneValue, OnlyDefinition
  <1>2. /\ \A k \in linked : kind[k][n] # "none" => refs[k][n] = holder[n]
        /\ holder[n] # None =>
              /\ kind[holder[n]][n] # "weak"
              /\ body[holder[n]][n] = IF d \in linked THEN d ELSE None
    BY DEF OneValue
  <1>3. /\ kind[d][n] = "strong"
        /\ m # d => kind[m][n] \in {"none", "declared"}
        /\ Defines(m, n) <=> m = d
    BY DEF OnlyDefinition, Defines
  <1>4. linked \subseteq Modules /\ holder[n] \in Modules \cup {None}
    BY DEF Linking, TypeOK
  <1>5. CASE holder[n] = None
    <2>1. \A k \in linked : kind[k][n] = "none"
      BY <1>2, <1>4, <1>5 DEF Linking, TypeOK
    <2>2. holder'[n] = Target(m, n) /\ refs'[m][n] = Target(m, n)
      BY <1>5, LinkEffect
    <2>3. kind[m][n] # "none" => Target(m, n) = m
      BY <1>5 DEF Target, MapsDeclaration, FillsDeclaration, IsDeclaration,
                  IsStrongDefinition
    <2>4. kind[m][n] = "none" => Target(m, n) = None
      BY DEF Target
    <2>5. d \notin linked
      BY <2>1, <1>3
    <2>6. body[m][n] = None
      BY <1>1 DEF Linking, OnlyLinked
    <2>7. kind[m][n] # "none" => body'[m][n] = IF d \in linked' THEN d ELSE None
      BY <1>1, <1>3, <2>3, <2>5, <2>6, LinkEffect
    <2>8. kind[m][n] # "weak"
      BY <1>3
    <2> QED  BY <1>1, <2>1, <2>2, <2>3, <2>4, <2>7, <2>8
  <1>6. CASE holder[n] # None
    <2>1. holder'[n] = holder[n] /\ holder[n] \in linked
      BY <1>6, LinkEffect DEF Linking, OnlyLinked
    <2>2. kind[m][n] # "none" => Target(m, n) = holder[n]
      <3>1. CASE m = d
        BY <1>1, <1>2, <1>3, <1>6, <3>1 DEF Target, FillsDeclaration, IsDeclaration
      <3>2. CASE kind[m][n] = "declared"
        BY <1>2, <1>6, <3>2 DEF Target, MapsDeclaration, IsDeclaration, IsStrongDefinition
      <3> QED  BY <1>3, <3>1, <3>2
    <2>3. kind[m][n] # "none" => refs'[m][n] = holder'[n]
      BY <2>1, <2>2, LinkEffect
    <2>4. \A k \in linked : kind[k][n] # "none" => refs'[k][n] = holder'[n]
      BY <1>1, <1>2, <1>4, <2>1, LinkEffect
    <2>5. body'[holder[n]][n] = IF d \in linked' THEN d ELSE None
      <3>1. CASE m = d
        BY <1>1, <1>3, <1>4, <1>6, <2>2, <3>1, LinkEffect
      <3>2. CASE m # d
        BY <1>1, <1>2, <1>3, <1>4, <1>6, <3>2, LinkEffect
      <3> QED  BY <3>1, <3>2
    <2> QED  BY <1>1, <1>2, <1>6, <2>1, <2>3, <2>4, <2>5
  <1> QED  BY <1>5, <1>6

----------------------------------------------------------------------------
\* LinkerInv is an inductive invariant of linkModule.
THEOREM LinkerInvariant == Spec => []LinkerInv
  <1>1. Init => LinkerInv
    <2>1. Init => OneValue
      BY DEF Init, OneValue
    <2> QED  BY <2>1, LinkingInit DEF LinkerInv
  <1>2. LinkerInv /\ [Next]_vars => LinkerInv'
    <2> SUFFICES ASSUME LinkerInv, [Next]_vars PROVE LinkerInv'
      OBVIOUS
    <2>1. ASSUME NEW m \in Modules, Link(m) PROVE LinkerInv'
      BY <2>1, LinkingStep, OneValueStep DEF LinkerInv
    <2>2. CASE UNCHANGED vars
      BY <2>2 DEF vars, LinkerInv, Linking, TypeOK, OnlyLinked, OwnDefinitionsAreUsed,
                  Reached, Defines, OneValue, OnlyDefinition
    <2> QED  BY <2>1, <2>2 DEF Next
  <1> QED  BY <1>1, <1>2, PTL DEF Spec

\* The state keeps its types, and every source value of a linked module has an
\* image: the cast<Function>(VMap[...]) of the later loops never meets a null.
THEOREM LinkerTypes == Spec => []TypeOK
  <1>1. LinkerInv => TypeOK
    BY DEF LinkerInv, Linking
  <1> QED  BY <1>1, LinkerInvariant, PTL

\* A definition is never replaced by one of another module, for any number of
\* modules that define the same name.
THEOREM DefinitionsStayOwn == Spec => []OwnDefinitionsAreUsed
  <1>1. LinkerInv => OwnDefinitionsAreUsed
    BY DEF LinkerInv, Linking
  <1> QED  BY <1>1, LinkerInvariant, PTL

\* A function with one strong definition is reached by all that declare it, in
\* every order of linking.
THEOREM OrderDoesNotMatter == Spec => []FunctionsResolve
  <1>1. LinkerInv => FunctionsResolve
    <2> SUFFICES ASSUME LinkerInv, NEW d \in linked, NEW n \in Names \ Variables,
                        OnlyDefinition(d, n), NEW m \in linked, kind[m][n] = "declared"
                 PROVE  body[refs[m][n]][n] = d
      BY DEF FunctionsResolve, Reached
    <2>1. d \in Modules /\ m \in Modules
      BY DEF LinkerInv, Linking, TypeOK
    <2>2. refs[m][n] = holder[n] /\ refs[m][n] # None
      BY <2>1 DEF LinkerInv, Linking, TypeOK, OneValue
    <2> QED  BY <2>1, <2>2 DEF LinkerInv, OneValue
  <1> QED  BY <1>1, LinkerInvariant, PTL

\* What a reference has been resolved to stays, whatever is linked afterwards.
THEOREM ResolutionIsFinal == Spec => ResolvedForGood
  <1>1. LinkerInv /\ [Next]_vars =>
          [\A m \in linked, n \in Names :
             (kind[m][n] # "none" /\ Reached(m, n) # None) => Reached(m, n)' = Reached(m, n)]_vars
    <2> SUFFICES ASSUME LinkerInv, NEW k \in Modules, Link(k),
                        NEW m \in linked, NEW n \in Names,
                        kind[m][n] # "none", Reached(m, n) # None
                 PROVE  Reached(m, n)' = Reached(m, n)
      BY DEF Next
    <2>1. Linking /\ m \in Modules /\ m # k
      BY DEF LinkerInv, Linking, TypeOK, Link
    <2>2. refs[m][n] \in Modules
      BY <2>1 DEF Linking, TypeOK
    <2>3. refs'[m][n] = refs[m][n]
      BY <2>1, LinkEffect
    <2>4. body'[refs[m][n]][n] = body[refs[m][n]][n]
      BY <2>1, <2>2, BodiesStay DEF Reached
    <2> QED  BY <2>3, <2>4 DEF Reached
  <1> QED  BY <1>1, LinkerInvariant, PTL DEF Spec, ResolvedForGood

----------------------------------------------------------------------------
(* LinkedNames is implemented. What makes the one value that has a name    *)
(* stand for the first module with that name is FirstComers: that module's *)
(* own reference goes to the value, and so does every declaration as long  *)
(* as the value has no body.                                               *)

FirstComers ==
    \A n \in Names :
        /\ holder[n] # None => refs[holder[n]][n] = holder[n]
        /\ \A c \in linked :
              /\ kind[c][n] # "none" => holder[n] # None
              /\ kind[c][n] = "declared" /\ IsDeclaration(n) => refs[c][n] = holder[n]

LEMMA FirstComersStep ==
    ASSUME Linking, FirstComers, NEW m \in Modules, Link(m)
    PROVE  FirstComers'
  <1>1. m \notin linked /\ linked' = linked \cup {m} /\ kind' = kind
    BY DEF Link
  <1> SUFFICES ASSUME NEW n \in Names
               PROVE  /\ holder'[n] # None => refs'[holder'[n]][n] = holder'[n]
                      /\ \A c \in linked' :
                            /\ kind[c][n] # "none" => holder'[n] # None
                            /\ (/\ kind[c][n] = "declared"
                                /\ holder'[n] # None /\ body'[holder'[n]][n] = None)
                                  => refs'[c][n] = holder'[n]
    BY <1>1 DEF FirstComers, IsDeclaration
  <1>2. linked \subseteq Modules /\ holder[n] \in Modules \cup {None}
    BY DEF Linking, TypeOK
  <1>3. refs'[m][n] = Target(m, n) /\ (Target(m, n) = None <=> kind[m][n] = "none")
    BY <1>1, TargetType, LinkEffect
  <1>4. CASE holder[n] = None
    <2>1. holder'[n] = Target(m, n) /\ Target(m, n) \in {None, m}
      BY <1>4, LinkEffect DEF Target
    <2>2. \A c \in linked : kind[c][n] = "none"
      BY <1>4 DEF FirstComers
    <2> QED  BY <1>1, <1>3, <2>1, <2>2
  <1>5. CASE holder[n] # None
    <2>1. holder'[n] = holder[n] /\ holder[n] \in linked
      BY <1>5, LinkEffect DEF Linking, OnlyLinked
    <2>2. \A c \in linked : refs'[c][n] = refs[c][n]
      BY <1>1, <1>2, LinkEffect
    <2>3. refs'[holder[n]][n] = holder[n]
      BY <1>5, <2>1, <2>2 DEF FirstComers
    <2>4. ASSUME body'[holder[n]][n] = None
          PROVE  IsDeclaration(n)
      BY <1>2, <1>5, <2>4, BodiesStay DEF IsDeclaration
    <2>5. kind[m][n] = "declared" /\ IsDeclaration(n) => Target(m, n) = holder[n]
      BY DEF Target, MapsDeclaration
    <2>6. ASSUME NEW c \in linked', kind[c][n] = "declared", body'[holder[n]][n] = None
          PROVE  refs'[c][n] = holder[n]
      BY <1>1, <1>3, <2>2, <2>4, <2>5, <2>6 DEF FirstComers
    <2> QED  BY <1>5, <2>1, <2>3, <2>6
  <1> QED  BY <1>4, <1>5

\* What a name stands for, as LinkedNamesOf has it.
StandsFor(m, n) == IF refs[m][n] = None THEN None ELSE Reached(m, n)

\* What Link makes a name stand for in the module that is linked...
LEMMA OwnNames ==
    ASSUME Linking, FirstComers, NEW m \in Modules, Link(m), NEW n \in Names
    PROVE  StandsFor(m, n)' =
              IF Defines(m, n) THEN m
              ELSE IF kind[m][n] # "declared" THEN None
              ELSE IF holder[n] = None \/ kind[holder[n]][n] = "weak" THEN None
              ELSE StandsFor(holder[n], n)
  <1>1. m \notin linked /\ linked' = linked \cup {m} /\ kind' = kind
    BY DEF Link
  <1>2. /\ refs'[m][n] = Target(m, n)
        /\ Target(m, n) = None <=> kind[m][n] = "none"
        /\ holder[n] \in Modules \cup {None} /\ kind[m][n] \in Kinds
    BY <1>1, TargetType, LinkEffect DEF Linking, TypeOK
  <1>3. CASE Defines(m, n)
    <2>1. OwnDefinitionsAreUsed'
      BY LinkingStep DEF Linking
    <2>2. Reached(m, n)' = m
      BY <1>1, <1>3, <2>1 DEF OwnDefinitionsAreUsed, Defines
    <2>3. refs'[m][n] # None
      BY <1>2, <1>3 DEF Defines
    <2> QED  BY <1>3, <2>2, <2>3 DEF StandsFor
  <1>4. CASE kind[m][n] = "none"
    BY <1>2, <1>4 DEF StandsFor, Defines
  <1>5. CASE kind[m][n] = "declared"
    <2>1. ~ Defines(m, n)
      BY <1>5 DEF Defines
    <2>2. \A c \in Modules : body'[c][n] = body[c][n]
      BY <2>1, LinkEffect
    <2>3. CASE MapsDeclaration(n)
      <3>1. holder[n] \in Modules /\ refs'[m][n] = holder[n]
        BY <1>2, <1>5, <2>3 DEF Target, MapsDeclaration, IsDeclaration, IsStrongDefinition
      <3>2. StandsFor(m, n)' = body[holder[n]][n]
        BY <2>2, <3>1, ModuleAssumption DEF StandsFor, Reached
      <3>3. StandsFor(holder[n], n) = body[holder[n]][n]
        BY <3>1, ModuleAssumption DEF FirstComers, StandsFor, Reached
      <3>4. kind[holder[n]][n] = "weak" => body[holder[n]][n] = None
        BY <2>3 DEF MapsDeclaration, IsDeclaration, IsStrongDefinition
      <3>5. holder[n] # None
        BY <3>1, ModuleAssumption
      <3> QED  BY <1>5, <2>1, <3>2, <3>3, <3>4, <3>5
    <2>4. CASE ~ MapsDeclaration(n)
      <3>1. refs'[m][n] = m /\ body[m][n] = None
        BY <1>1, <1>2, <1>5, <2>1, <2>4 DEF Target, Linking, OnlyLinked
      <3>2. StandsFor(m, n)' = None
        BY <2>2, <3>1 DEF StandsFor, Reached
      <3>3. holder[n] = None \/ kind[holder[n]][n] = "weak"
        BY <2>4 DEF MapsDeclaration, IsDeclaration, IsStrongDefinition
      <3> QED  BY <1>5, <2>1, <3>2, <3>3
    <2> QED  BY <2>3, <2>4
  <1> QED  BY <1>2, <1>3, <1>4, <1>5 DEF Defines, Kinds

\* ... and in the others: it changes where a declaration waits for the name that the
\* value without a body has.
LEMMA NamesOfOthers ==
    ASSUME Linking, FirstComers, NEW m \in Modules, Link(m), NEW n \in Names,
           NEW c \in Modules, c # m
    PROVE  StandsFor(c, n)' =
              IF /\ c \in linked /\ kind[c][n] = "declared" /\ StandsFor(c, n) = None
                 /\ Defines(m, n) /\ n \notin Variables
                 /\ holder[n] # None /\ StandsFor(holder[n], n) = None
              THEN m ELSE StandsFor(c, n)
  <1>1. m \notin linked /\ linked' = linked \cup {m} /\ kind' = kind
    BY DEF Link
  <1>2. /\ refs'[c][n] = refs[c][n]
        /\ refs[c][n] \in Modules \cup {None} /\ holder[n] \in Modules \cup {None}
        /\ refs[c][n] # None <=> c \in linked /\ kind[c][n] # "none"
    BY LinkEffect DEF Linking, TypeOK
  <1>3. CASE refs[c][n] = None
    <2>1. ~ (c \in linked /\ kind[c][n] = "declared")
      BY <1>2, <1>3
    <2> QED  BY <1>2, <1>3, <2>1 DEF StandsFor
  <1>4. CASE refs[c][n] # None
    <2>1. c \in linked /\ refs[c][n] \in Modules /\ refs[c][n] \in linked
      BY <1>2, <1>4 DEF Linking, OnlyLinked
    <2>2. StandsFor(c, n) = body[refs[c][n]][n]
      BY <1>4 DEF StandsFor, Reached
    <2>3. StandsFor(c, n)' =
             IF Defines(m, n) /\ Target(m, n) = refs[c][n] THEN m ELSE body[refs[c][n]][n]
      BY <1>2, <1>4, <2>1, LinkEffect DEF StandsFor, Reached
    <2>4. holder[n] # None => StandsFor(holder[n], n) = body[holder[n]][n]
      BY DEF FirstComers, StandsFor, Reached
    <2>5. ASSUME Defines(m, n), Target(m, n) = refs[c][n]
          PROVE  /\ kind[c][n] = "declared" /\ body[refs[c][n]][n] = None
                 /\ n \notin Variables /\ holder[n] # None /\ body[holder[n]][n] = None
      <3>1. Target(m, n) # m
        BY <1>1, <2>1, <2>5
      <3>2. FillsDeclaration(n) /\ Target(m, n) = holder[n]
        BY <2>5, <3>1 DEF Target, Defines
      <3>3. n \notin Variables /\ holder[n] # None /\ body[holder[n]][n] = None
        BY <3>2 DEF FillsDeclaration, IsDeclaration
      <3>4. ~ Defines(c, n)
        BY <2>1, <2>5, <3>2, <3>3, ModuleAssumption DEF Linking, OwnDefinitionsAreUsed, Reached
      <3>5. kind[c][n] \in Kinds /\ kind[c][n] # "none"
        BY <1>2, <1>4 DEF Linking, TypeOK
      <3>6. kind[c][n] = "declared"
        BY <3>4, <3>5 DEF Defines, Kinds
      <3> QED  BY <2>5, <3>2, <3>3, <3>6
    <2>6. ASSUME kind[c][n] = "declared", Defines(m, n), n \notin Variables,
                 holder[n] # None, body[holder[n]][n] = None
          PROVE  Target(m, n) = refs[c][n]
      <3>1. IsDeclaration(n)
        BY <2>6 DEF IsDeclaration
      <3>2. refs[c][n] = holder[n]
        BY <2>1, <2>6, <3>1 DEF FirstComers
      <3>3. kind[m][n] # "none"
        BY <2>6 DEF Defines
      <3> QED  BY <2>6, <3>1, <3>2, <3>3 DEF Target, FillsDeclaration
    <2> QED  BY <2>1, <2>2, <2>3, <2>4, <2>5, <2>6
  <1> QED  BY <1>3, <1>4

\* The destination's values, bodies and VMaps implement LinkedNames, for any number of
\* modules: only the first module with a name and the first definition after it matter
\* to what that name stands for.
THEOREM LinkingImplementsLinkedNames == Spec => ImplementsLinkedNames
  <1> DEFINE Inv == LinkerInv /\ FirstComers
  <1>1. Init => Inv
    <2>1. Init => LinkerInv
      BY LinkingInit DEF Init, OneValue, LinkerInv
    <2>2. Init => FirstComers
      BY DEF Init, FirstComers
    <2> QED  BY <2>1, <2>2
  <1>2. Inv /\ [Next]_vars => Inv'
    <2> SUFFICES ASSUME Inv, [Next]_vars PROVE Inv'
      OBVIOUS
    <2>1. ASSUME NEW m \in Modules, Link(m) PROVE Inv'
      BY <2>1, LinkingStep, OneValueStep, FirstComersStep DEF LinkerInv
    <2>2. CASE UNCHANGED vars
      BY <2>2 DEF vars, LinkerInv, Linking, TypeOK, OnlyLinked, OwnDefinitionsAreUsed,
                  Reached, Defines, OneValue, OnlyDefinition, FirstComers, IsDeclaration
    <2> QED  BY <2>1, <2>2 DEF Next
  <1>3. Init => LinkedNamesOf!Init
    BY DEF Init, LinkedNamesOf!Init, Kinds
  <1>4. Inv /\ [Next]_vars => [LinkedNamesOf!Next]_(LinkedNamesOf!vars)
    <2> SUFFICES ASSUME Inv, [Next]_vars
                 PROVE  [LinkedNamesOf!Next]_(LinkedNamesOf!vars)
      OBVIOUS
    <2> DEFINE reaches == [m \in Modules |-> [n \in Names |->
                             IF refs[m][n] = None THEN None ELSE Reached(m, n)]]
    <2>1. Linking
      BY DEF LinkerInv
    <2>2. CASE UNCHANGED vars
      BY <2>2 DEF vars, Reached, LinkedNamesOf!vars
    <2>3. ASSUME NEW m \in Modules, Link(m) PROVE LinkedNamesOf!Next
      <3>1. /\ m \notin linked /\ linked' = linked \cup {m} /\ kind' = kind
            /\ kind \in [Modules -> [Names -> Kinds]]
            /\ holder \in [Names -> Modules \cup {None}]
        BY <2>1, <2>3 DEF Link, Linking, TypeOK
      <3>2. \A k \in Modules, n \in Names : LinkedNamesOf!Defines(k, n) <=> Defines(k, n)
        BY <3>1 DEF LinkedNamesOf!Defines, Defines, Kinds
      <3>3. holder' = [n \in Names |->
                          IF holder[n] = None /\ kind[m][n] # "none" THEN m ELSE holder[n]]
        <4>1. ASSUME NEW n \in Names, holder[n] = None
              PROVE  Target(m, n) = IF kind[m][n] # "none" THEN m ELSE None
          BY <4>1 DEF Target, MapsDeclaration, FillsDeclaration, IsDeclaration,
                      IsStrongDefinition
        <4> QED  BY <2>3, <4>1 DEF Link
      <3>4. \A k \in Modules, n \in Names : reaches[k][n] = StandsFor(k, n)
        BY DEF StandsFor
      <3>5. reaches' = [c \in Modules |-> [n \in Names |-> StandsFor(c, n)']]
        BY DEF StandsFor
      <3>6. ASSUME NEW n \in Names
            PROVE  StandsFor(m, n)' = LinkedNamesOf!Own(m, n)
        <4>1. holder[n] # None => reaches[holder[n]][n] = StandsFor(holder[n], n)
          BY <3>1, <3>4
        <4> QED  BY <2>1, <2>3, <3>2, <4>1, OwnNames
                 DEF LinkedNamesOf!Own, LinkedNamesOf!Offered
      <3>7. ASSUME NEW c \in Modules, NEW n \in Names, c # m
            PROVE  StandsFor(c, n)' =
                      IF c \in LinkedNamesOf!Waiting(n) /\ LinkedNamesOf!Answers(m, n)
                      THEN m ELSE reaches[c][n]
        <4>1. holder[n] # None => reaches[holder[n]][n] = StandsFor(holder[n], n)
          BY <3>1, <3>4
        <4> QED  BY <2>1, <2>3, <3>2, <3>4, <3>7, <4>1, NamesOfOthers
                 DEF LinkedNamesOf!Waiting, LinkedNamesOf!Answers
      <3>8. reaches' = [c \in Modules |-> [n \in Names |->
               IF c = m THEN LinkedNamesOf!Own(m, n)
               ELSE IF c \in LinkedNamesOf!Waiting(n) /\ LinkedNamesOf!Answers(m, n) THEN m
               ELSE reaches[c][n]]]
        BY <3>5, <3>6, <3>7
      <3>9. LinkedNamesOf!Link(m)
        BY <3>1, <3>3, <3>8 DEF LinkedNamesOf!Link
      <3> QED  BY <3>9 DEF LinkedNamesOf!Next
    <2> QED  BY <2>2, <2>3 DEF Next
  <1> HIDE DEF Inv
  <1>5. Spec => []Inv
    BY <1>1, <1>2, PTL DEF Spec
  <1> QED  BY <1>3, <1>4, <1>5, PTL DEF Spec, ImplementsLinkedNames, LinkedNamesOf!Spec
=============================================================================
