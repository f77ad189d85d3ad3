------------------------------ MODULE Dispatch ------------------------------
(***************************************************************************)
(* finalizeInterfaces (Linker.cpp): a dispatcher for every interface that a*)
(* class of the module implements (Dispatcher.cpp), and linking them into  *)
(* the module. A method of an interface becomes a function that switches on*)
(* the kind stored in the object and calls the class's method of that name.*)
(*                                                                         *)
(* A method name is a number: the code only compares names. Two methods of *)
(* a class or an interface have one name when they are const and non-const *)
(* overloads, for the method name is taken from behind the qualifiers of   *)
(* the mangled name. A class's method is the class and its position.       *)
(***************************************************************************)
EXTENDS Naturals, Sequences, FiniteSets

CONSTANTS Interfaces,
          MethodNames,     \* numbers, in the order of the names
          ClassCount,      \* classes in the module's list
          MaxMethods,      \* bound: methods of a class or an interface
          Unnamed,         \* the empty name, which several classes may have
          Overloads,       \* whether a list of methods may repeat a name
          UnnamedClasses   \* whether classes may have no name

ASSUME MethodAssumption == MethodNames \subseteq Nat /\ MaxMethods \in Nat
ASSUME ClassAssumption  == ClassCount \in Nat /\ Unnamed \notin 1 .. ClassCount
ASSUME FlagAssumption   == {Overloads, UnnamedClasses} \subseteq BOOLEAN

VARIABLES name,          \* Class::getName
          methods,       \* Class::d_methods, the names in ascending order
          declared,      \* Interface::d_methods, the names in ascending order
          current,       \* the class that for_each of finalizeInterfaces visits
          pending,       \* interfaces of its count map still to be handled
          kinds,         \* the tool's class_kinds
          dispatchers,   \* of dispatcher_module, by interface
          failed,        \* the interface at which an assertion ended the program
          linked         \* what syncMetadata read back into the module

vars == <<name, methods, declared, current, pending, kinds, dispatchers, failed, linked>>

Classes == 1 .. ClassCount

\* Names are compared for equality only; those of a module's named classes
\* differ (SymbolTable), so a named class is called after its place in the list.
Names == Classes \cup {Unnamed}

Ascending(s) == \A i, j \in DOMAIN s : i < j => s[i] <= s[j]

\* std::sort leaves each constructor's methods in ascending order of name.
MethodLists ==
    {s \in UNION {[1 .. n -> MethodNames] : n \in 0 .. MaxMethods} :
        /\ Ascending(s)
        /\ Overloads \/ \A i, j \in DOMAIN s : s[i] = s[j] => i = j}

Occurrences(s, m) == {i \in DOMAIN s : s[i] = m}

----------------------------------------------------------------------------
\* Mutant: on equal names only the interface's position advances.
TurnReusing(is, ms, s) ==
    IF s.i > Len(is) \/ s.j > Len(ms) THEN s
    ELSE IF is[s.i] < ms[s.j] THEN [s EXCEPT !.i = @ + 1]
    ELSE IF ms[s.j] < is[s.i] THEN [s EXCEPT !.j = @ + 1]
    ELSE [s EXCEPT !.i = @ + 1, !.pairs = @ \cup {<<s.i, s.j>>}]

\* A turn of the merge: the positions i and j, and the pairs found so far.
Turn(is, ms, s) ==
    IF s.i > Len(is) \/ s.j > Len(ms) THEN s
    ELSE IF is[s.i] < ms[s.j] THEN [s EXCEPT !.i = @ + 1]
    ELSE IF ms[s.j] < is[s.i] THEN [s EXCEPT !.j = @ + 1]
    ELSE [i |-> s.i + 1, j |-> s.j + 1, pairs |-> s.pairs \cup {<<s.i, s.j>>}]

\* The merge of doesImplement and insertImplementation over an interface's and
\* a class's sorted methods: the pairs of positions where the names are equal.
Pairs(is, ms) ==
    LET after[k \in 0 .. Len(is) + Len(ms)] ==
          IF k = 0 THEN [i |-> 1, j |-> 1, pairs |-> {}] ELSE Turn(is, ms, after[k - 1])
    IN  after[Len(is) + Len(ms)].pairs

\* Class::doesImplement
DoesImplement(c, I) == Cardinality(Pairs(declared[I], methods[c])) = Len(declared[I])

\* implemented_method_count: each method of the class counts once for every
\* interface that has a method of its name.
ImplementedCount(c, I) ==
    Cardinality({j \in DOMAIN methods[c] : Occurrences(declared[I], methods[c][j]) # {}})

\* The interfaces that the count takes to be implemented; interfaces that no
\* method of the class is in are not in the map.
Matched(c) ==
    {I \in Interfaces : ImplementedCount(c, I) > 0 /\ ImplementedCount(c, I) = Len(declared[I])}

----------------------------------------------------------------------------
NoDispatcher == [implementations |-> {}, switch |-> <<>>]

Exists(I) == dispatchers[I].switch # <<>>

\* Dispatcher(interface): each method switches to an empty default block.
NewDispatcher(I) ==
    [implementations |-> {},
     switch |-> [i \in DOMAIN declared[I] |-> [default |-> {}, cases |-> {}]]]

\* Mutant: every call goes into the default block.
WithCallInDefault(sw, kind, f) == [sw EXCEPT !.default = {f}]

\* A call of class method f under kind: the empty default block is used up
\* first, later calls are cases.
WithCall(sw, kind, f) ==
    IF sw.default = {} THEN [sw EXCEPT !.default = {f}]
    ELSE [sw EXCEPT !.cases = @ \cup {<<kind, f>>}]

\* What Dispatcher::insertImplementation makes of a dispatcher.
WithImplementation(d, I, kind, c) ==
    [implementations |-> d.implementations \cup {<<kind, name[c]>>},
     switch |->
        [i \in DOMAIN d.switch |->
            IF \E j \in DOMAIN methods[c] : <<i, j>> \in Pairs(declared[I], methods[c])
            THEN WithCall(d.switch[i], kind,
                    <<c, CHOOSE j \in DOMAIN methods[c] :
                            <<i, j>> \in Pairs(declared[I], methods[c])>>)
            ELSE d.switch[i]]]

\* Mutant: every class has the same kind.
KindOfAny(c) == 0

\* getKindForClass of llair-link: a new name gets the number of names so far.
KindOf(c) ==
    IF \E e \in kinds : e[1] = name[c] THEN (CHOOSE e \in kinds : e[1] = name[c])[2]
    ELSE Cardinality(kinds)

\* What Dispatcher::insertImplementation asserts: the class implements the
\* interface, and its kind has no entry yet.
Insertable(c, I) ==
    /\ DoesImplement(c, I)
    /\ \A e \in dispatchers[I].implementations : e[1] # KindOf(c)

----------------------------------------------------------------------------
Init ==
    /\ name \in [Classes -> Names]
    /\ \A c \in Classes : name[c] = c \/ (UnnamedClasses /\ name[c] = Unnamed)
    /\ methods \in [Classes -> MethodLists]
    /\ declared \in [Interfaces -> MethodLists \ {<<>>}]
    /\ current = 0
    /\ pending = {}
    /\ kinds = {}
    /\ dispatchers = [I \in Interfaces |-> NoDispatcher]
    /\ failed = {}
    /\ linked = {}

\* Mutant: the loop over the classes stops one short.
VisitClassButLast ==
    /\ failed = {} /\ pending = {} /\ current + 1 < ClassCount
    /\ current' = current + 1
    /\ pending' = Matched(current + 1)
    /\ UNCHANGED <<name, methods, declared, kinds, dispatchers, failed, linked>>

\* The loop over the module's classes.
VisitClass ==
    /\ failed = {} /\ pending = {} /\ current < ClassCount
    /\ current' = current + 1
    /\ pending' = Matched(current + 1)
    /\ UNCHANGED <<name, methods, declared, kinds, dispatchers, failed, linked>>

\* getOrInsertDispatchers: the dispatcher that finalizeInterfaces inserts into.
Found(I) == IF Exists(I) THEN dispatchers[I] ELSE NewDispatcher(I)

\* Mutant: a build without assertions, where the map keeps an entry it has.
InsertUnasserted(I) ==
    /\ failed = {} /\ I \in pending
    /\ LET d    == Found(I)
           made == WithImplementation(d, I, KindOf(current), current)
       IN  dispatchers' = [dispatchers EXCEPT ![I] =
             IF \E e \in d.implementations : e[1] = KindOf(current)
             THEN [made EXCEPT !.implementations = d.implementations] ELSE made]
    /\ pending' = pending \ {I}
    /\ kinds' = kinds \cup {<<name[current], KindOf(current)>>}
    /\ UNCHANGED <<name, methods, declared, current, failed, linked>>

\* The loop over the count map, in any order: getOrInsertDispatchers, the class's
\* kind, and insertImplementation.
InsertImplementation(I) ==
    /\ failed = {} /\ I \in pending
    /\ Insertable(current, I)
    /\ pending' = pending \ {I}
    /\ kinds' = kinds \cup {<<name[current], KindOf(current)>>}
    /\ dispatchers' =
         [dispatchers EXCEPT ![I] = WithImplementation(Found(I), I, KindOf(current), current)]
    /\ UNCHANGED <<name, methods, declared, current, failed, linked>>

\* The same, where an assertion of insertImplementation fails and ends the program.
FailAssertion(I) ==
    /\ failed = {} /\ I \in pending
    /\ ~Insertable(current, I)
    /\ failed' = {I}
    /\ kinds' = kinds \cup {<<name[current], KindOf(current)>>}
    /\ dispatchers' = [dispatchers EXCEPT ![I] = Found(I)]
    /\ UNCHANGED <<name, methods, declared, current, pending, linked>>

\* linkModules(module, dispatcher_module): the dispatchers' metadata is appended
\* and syncMetadata makes a dispatcher of each operand. The constructor enters
\* the list, and the map by interface, before it knows its interface.
Link ==
    /\ failed = {} /\ pending = {} /\ current = ClassCount
    /\ linked = {}
    /\ linked' = {[interface |-> I, implementations |-> dispatchers[I].implementations,
                   switch |-> dispatchers[I].switch] : I \in {J \in Interfaces : Exists(J)}}
    /\ UNCHANGED <<name, methods, declared, current, pending, kinds, dispatchers, failed>>

Next ==
    \/ VisitClass
    \/ \E I \in Interfaces : InsertImplementation(I) \/ FailAssertion(I)
    \/ Link

Spec == Init /\ [][Next]_vars /\ WF_vars(Next)

----------------------------------------------------------------------------
\* doesImplement, a merge of two sorted lists, is inclusion with multiplicity:
\* the class has every method name as often as the interface declares it.
DoesImplementIsInclusion ==
    \A c \in Classes, I \in Interfaces :
        DoesImplement(c, I) <=>
            \A m \in MethodNames :
                Cardinality(Occurrences(declared[I], m)) <= Cardinality(Occurrences(methods[c], m))

Implements(c, I) == \A i \in DOMAIN declared[I] : Occurrences(methods[c], declared[I][i]) # {}

\* No name twice in the list, no name shared with another class.
Distinct(s) == \A i, j \in DOMAIN s : s[i] = s[j] => i = j
Named(c) == name[c] # Unnamed

\* The implementations of I that finalizeInterfaces has inserted so far.
Done(c, I) ==
    /\ Distinct(methods[c]) /\ Distinct(declared[I])
    /\ Implements(c, I)
    /\ c < current \/ (c = current /\ I \notin pending)

\* What a call of method i of I on an object of the given kind reaches.
Reached(d, i, kind) ==
    IF \E e \in d.switch[i].cases : e[1] = kind
    THEN {e[2] : e \in {x \in d.switch[i].cases : x[1] = kind}}
    ELSE d.switch[i].default

KindsOf(c) == {e[2] : e \in {x \in kinds : x[1] = name[c]}}

\* finalizeInterfaces decides by counting methods that a class implements an
\* interface, and gives classes kinds by their names, which may be empty. What
\* insertImplementation asserts (Dispatcher.cpp:225, 228) is false only where that
\* count or that kind misleads it: a list of methods repeats a name, or an earlier
\* class without a name, like this one, is in the dispatcher already.
AssertionsAreExplained ==
    \A I \in failed :
        \/ /\ ~DoesImplement(current, I)
           /\ ~Distinct(methods[current]) \/ ~Distinct(declared[I])
        \/ /\ DoesImplement(current, I) /\ ~Named(current)
           /\ \E c \in 1 .. current - 1 : DoesImplement(c, I) /\ ~Named(c)

\* Calling a method of an interface on an object of a class that implements it
\* reaches that class's method of that name and no other, however many classes
\* implement the interface, in whatever order they and the interfaces come,
\* although the first of them is reached through the default block only, and
\* although classes without a name share a kind.
CallsReachTheClass ==
    \A I \in Interfaces, c \in Classes :
        Done(c, I) =>
            \A i \in DOMAIN declared[I] : \A k \in KindsOf(c) :
                Reached(dispatchers[I], i, k) =
                    {<<c, j>> : j \in Occurrences(methods[c], declared[I][i])}

\* No implementing class is left out, and none stands for another: once it was
\* visited its name has a kind, the dispatcher lists it under that kind, and no
\* other class that implements the interface has that kind.
ImplementationsAreListed ==
    \A I \in Interfaces, c \in Classes :
        Done(c, I) =>
            /\ \E k \in KindsOf(c) : <<k, name[c]>> \in dispatchers[I].implementations
            /\ \A d \in Classes \ {c} : Done(d, I) => KindsOf(c) \cap KindsOf(d) = {}

\* assert(klass->doesImplement(d_interface)) of insertImplementation
\* (Dispatcher.cpp:225): finalizeInterfaces decides by counting methods that the
\* class implements the interface.
InsertedClassImplements == \A I \in pending : DoesImplement(current, I)

\* finalizeInterfaces ends: at an assertion, or when the module has read back a
\* dispatcher for every interface that some class implements, with each of the
\* implementations.
EndsLinked ==
    <>[]\/ failed # {}
        \/ /\ current = ClassCount
           /\ \A c \in Classes, I \in Interfaces :
                Done(c, I) => \E d \in linked :
                   /\ d.interface = I
                   /\ \E e \in d.implementations : e[2] = name[c]
=============================================================================
