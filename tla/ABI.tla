-------------------------------- MODULE ABI --------------------------------
(***************************************************************************)
(* What Module.cpp reads of the mangled names of functions, from which     *)
(* ClassesFromABI makes classes and interfaces. The functions are given by *)
(* their declarations (trees that Mangler mangles), and their names are    *)
(* parsed; what the declarations say is for the properties only.           *)
(***************************************************************************)
EXTENDS Mangler, ClassesFromABI

CONSTANTS Functions,      \* declaration, linkage and self type of each function
          Several,        \* of which the first are put into modules of several
          Identifier      \* what a source name is without its length: 3foo is foo

ASSUME FunctionAssumption ==
    /\ Several \in 0 .. Len(Functions)
    /\ \A i \in DOMAIN Functions : Functions[i].linkage \in {"declaration", "weak", "strong"}
ASSUME IdentifierAssumption == DOMAIN Identifier = Names

Ids == DOMAIN Functions

(***************************************************************************)
(* Reading a name. A text is a part of the mangled name (from token first  *)
(* to token last), one of the parser's own strings, or empty at null.      *)
(***************************************************************************)
Null == [from |-> 0, to |-> 0, own |-> ""]

\* Node::getBaseName: most kinds have none
RECURSIVE getBaseName(_)
getBaseName(node) ==
    CASE node.kind = "NameType" /\ node.at > 0 -> [from |-> node.at, to |-> node.at, own |-> ""]
      [] node.kind = "NameType" /\ node.at = 0 -> [Null EXCEPT !.own = node.name]
      [] node.kind \in {"SpecialSubstitution", "ExpandedSpecialSubstitution"} ->
           [Null EXCEPT !.own = node.name]
      [] node.kind \in {"NestedName", "QualifiedName"} -> getBaseName(node.kids[2])
      [] node.kind \in {"NameWithTemplateArgs", "StdQualifiedName", "GlobalQualifiedName"} ->
           getBaseName(node.kids[1])
      [] OTHER -> Null

\* The characters of the tokens from first to last, without the length of the
\* source name that comes first.
Characters(tokens, first, last) ==
    FoldLeft(LAMBDA a, t : a \o t, Identifier[tokens[first]], SubSeq(tokens, first + 1, last))

\* StringRef(a.begin(), distance(a.begin(), b.end())) in the name tokens
Between(tokens, a, b) ==
    CASE a.from > 0 /\ b.from > 0 -> Characters(tokens, a.from, b.to)
      [] a.from = 0 /\ a = b -> a.own
      [] OTHER -> Undefined

\* The parts of the path, outermost first: a chain of nested names that a
\* source name or a node of another kind (whose text is not read) begins.
RECURSIVE PathParts(_)
PathParts(node) ==
    CASE node.kind = "NestedName" -> Append(PathParts(node.kids[1]), getBaseName(node.kids[2]))
      [] node.kind = "NameType" -> <<getBaseName(node)>>
      [] OTHER -> <<Null>>

\* Mutant: the method's name ends with its identifier.
MethodTextShort(tokens, name) ==
    LET base == getBaseName(name) IN Between(tokens, base, base)

\* From the identifier to the end of the mangled name.
MethodText(tokens, name) ==
    LET base == getBaseName(name)
    IN  IF base.from = 0 THEN Undefined ELSE Characters(tokens, base.from, Len(tokens))

PathText(tokens, path) == Between(tokens, Head(path), Last(path))

None == [found |-> FALSE, class |-> "", method |-> ""]

\* The name of a parsed function that is a member of something
ReadName(tokens, name) ==
    [found |-> TRUE, class |-> PathText(tokens, PathParts(name.kids[1])),
     method |-> MethodText(tokens, name.kids[2])]

ReadNode(tokens, node) ==
    IF node.kind # "FunctionEncoding" \/ node.kids[1].kind # "NestedName" THEN None
    ELSE ReadName(tokens, node.kids[1])

ReadTree(tokens, ast) == IF ast.ok THEN ReadNode(tokens, Last(ast.out)) ELSE None

parseClassPathAndMethodName(tokens) == ReadTree(tokens, parse(tokens))

----------------------------------------------------------------------------
(***************************************************************************)
(* What a declaration says of a function, which only the compiler knew.    *)
(***************************************************************************)
\* The scopes around a scope and itself, outermost first.
RECURSIVE ScopeChain(_)
ScopeChain(scope) ==
    IF scope.kind = "NestedName" THEN Append(ScopeChain(scope.kids[1]), scope) ELSE <<scope>>

IsMethod(decl) == decl.kind = "FunctionEncoding" /\ decl.kids[1].kind = "NestedName"

Scope(decl) == decl.kids[1].kids[1]

BaseName(decl) == decl.kids[1].kids[2]

IsSourceName(node) == node.kind = "NameType" /\ node.name \in Names \ Anonymous

\* Namespaces and classes that are no templates and all have names
IsPlainScope(scope) ==
    \A i \in DOMAIN ScopeChain(scope) :
        LET s == ScopeChain(scope)[i] IN IsSourceName(IF i = 1 THEN s ELSE s.kids[2])

\* A scope whose name is no part of the function's name, but is one text
IsOneText(scope) == scope.kind # "NestedName" /\ scope # Std /\ ~IsSourceName(scope)

\* What the class of a scope is called: the identifiers run together, but for
\* the length of the first; templates have no name.
Spelling(scope) ==
    LET chain == ScopeChain(scope)
        names == [i \in DOMAIN chain |-> IF i = 1 THEN chain[1].name ELSE chain[i].kids[2].name]
    IN  CASE IsPlainScope(scope) -> FoldLeft(LAMBDA a, n : a \o n, Identifier[names[1]], Tail(names))
          [] scope.kind = "NameType" /\ ~IsPlainScope(scope) -> scope.name
          [] OTHER -> ""

Said(decl) ==
    IF ~IsMethod(decl) THEN [method |-> FALSE]
    ELSE [method |-> TRUE, scope |-> Scope(decl), spelling |-> Spelling(Scope(decl)),
          clear |-> /\ IsSourceName(BaseName(decl))
                    /\ IsPlainScope(Scope(decl)) \/ IsOneText(Scope(decl))]

\* The functions that a compiler may make, with what is read of their names.
CompiledFunctions ==
    {[id |-> f, decl |-> Functions[f].decl, linkage |-> Functions[f].linkage,
      self |-> Functions[f].self, said |-> Said(Functions[f].decl),
      name |-> parseClassPathAndMethodName(Mangle(Functions[f].decl).toks)] : f \in Ids}

CombinedFunctions == {f \in CompiledFunctions : f.id <= Several}

ASSUME CompiledAssumption == Compiled = CompiledFunctions /\ Combined = CombinedFunctions

----------------------------------------------------------------------------
\* A type in which the scopes of a method are called by their depth.
RECURSIVE Relative(_, _)
Relative(node, chain) ==
    IF Contains(chain, node) THEN Node("Scope", ToString(SelectInSeq(chain, LAMBDA s : s = node)), <<>>)
    ELSE [node EXCEPT !.kids = [i \in DOMAIN @ |-> Relative(@[i], chain)]]

Signature(decl) ==
    LET chain == ScopeChain(Scope(decl))
    IN  <<BaseName(decl), [i \in 2 .. Len(decl.kids) |-> Relative(decl.kids[i], chain)]>>

\* What is to be read where the compiler wrote the node
ToBeRead(node, decl) == Plain(WithoutGlobal(Bound(node, ArgumentsOf(decl.kids[1]))))

\* read, the parser's last state, has the node and the substitutions that were
\* mangled to m.
ReadsBack(decl, m, read) ==
    /\ read.ok
    /\ Plain(read.out[1]) = ToBeRead(decl, decl)
    /\ [i \in DOMAIN read.subs |-> Plain(read.subs[i])] = [i \in DOMAIN m.tab |-> ToBeRead(m.tab[i], decl)]

ReadsItself(decl, m) == ReadsBack(decl, m, parse(m.toks))

\* The functions whose names the parser reads as they were written.
ReadBack == {f \in Ids : ReadsItself(Functions[f].decl, Mangle(Functions[f].decl))}

\* The parser gives back what the compiler mangled but for one thing, the ::
\* of new expressions and of names that a template leaves unresolved, and its
\* substitutions are the compiler's but for the same: no later S_ means another
\* type to one than to the other.
RoundTrip == {f.id : f \in functions} \subseteq ReadBack

\* The method name cut out of a mangled name says of two methods, in scopes of
\* one depth, exactly whether identifier and parameter types are equal when
\* each calls its own scopes by their depth. Qualifiers are not part of it.
\* Matching methods by this name is what makes a class implement an interface.
MethodNamesTellSignatures ==
    \A f, g \in functions :
        /\ IsMethod(f.decl) /\ IsSourceName(BaseName(f.decl)) /\ IsPlainScope(Scope(f.decl))
        /\ IsMethod(g.decl) /\ IsSourceName(BaseName(g.decl)) /\ IsPlainScope(Scope(g.decl))
        /\ Len(ScopeChain(Scope(f.decl))) = Len(ScopeChain(Scope(g.decl)))
        => (f.name.method = g.name.method <=> Signature(f.decl) = Signature(g.decl))
=============================================================================
