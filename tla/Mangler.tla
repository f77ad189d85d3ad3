------------------------------ MODULE Mangler ------------------------------
(***************************************************************************)
(* How a C++ compiler writes the names that ItaniumParser reads: the       *)
(* mangling of the Itanium C++ ABI (5.1), for the constructs LLAIR's input *)
(* may hold. Outside src/; the modules LLAIR loads were made by such a     *)
(* compiler. A declaration is a tree of the parser's own nodes, with       *)
(* TemplateParam nodes where the template's text names a parameter.        *)
(*                                                                         *)
(* m is the mangling so far: its tokens toks and the table tab of the      *)
(* components a later S<n>_ may stand for.                                 *)
(***************************************************************************)
EXTENDS ItaniumParser

\* Write(part, node, m) writes the node as this part of a name, for the parts
\* that hold one another: its expressions, types, names and encodings.
RECURSIVE Write(_, _, _), Bound(_, _), Plain(_), WithoutGlobal(_), Levels(_)

Fresh == [toks |-> <<>>, tab |-> <<>>]

Emit(m, toks) == [m EXCEPT !.toks = @ \o toks]

Enter(m, node) == [m EXCEPT !.tab = Append(@, node)]

Known(m, node) == Contains(m.tab, node)

\* S_ is the first entry, S0_ the second.
Reference(m, node) ==
    LET i == SelectInSeq(m.tab, LAMBDA e : e = node)
    IN  Emit(m, IF i = 1 THEN <<"S", "_">> ELSE <<"S", SeqDigits[i - 1], "_">>)

Std == Node("NameType", "std", <<>>)

InStd(node) == node.kind = "NestedName" /\ node.kids[1] = Std

Named(name) == Node("NameType", name, <<>>)

TokenOf(table, meaning) == CHOOSE t \in DOMAIN table : table[t] = meaning

Builtin(node) == node.kind = "NameType" /\ \E t \in DOMAIN BuiltinTypes : BuiltinTypes[t] = node.name

Special(node) == node.kind = "SpecialSubstitution"

TemplateParam(i) == Node("TemplateParam", ToString(i), <<>>)

Param(node) == IF node.name = "0" THEN <<"T", "_">> ELSE <<"T", ToString(Index(node.name) - 1), "_">>

\* What two-letter codes stand for, and whether an E closes the operands.
Code(node) ==
    CASE node.kind = "BinaryExpr" /\ node.name = "+" -> <<"p", "l">>
      [] node.kind = "BinaryExpr" /\ node.name = "<<" -> <<"l", "s">>
      [] node.kind = "BinaryExpr" /\ node.name = "," -> <<"c", "m">>
      [] node.kind = "BinaryExpr" /\ node.name = "/" -> <<"d", "v">>
      [] node.kind = "BinaryExpr" /\ node.name = "==" -> <<"e", "q">>
      [] node.kind = "PrefixExpr" /\ node.name = "-" -> <<"n", "g">>
      [] node.kind = "PrefixExpr" /\ node.name = "~" -> <<"c", "o">>
      [] node.kind = "PrefixExpr" /\ node.name = "++" -> <<"p", "p", "_">>
      [] node.kind = "PostfixExpr" -> <<"p", "p">>
      [] node.kind = "ConditionalExpr" -> <<"q", "u">>
      [] node.kind = "CastExpr" -> <<"s", "c">>
      [] node.kind = "MemberExpr" -> <<"d", "t">>
      [] node.kind = "CallExpr" -> <<"c", "l">>
      [] node.kind = "ArraySubscriptExpr" -> <<"i", "x">>
      [] node.kind = "InitListExpr" -> IF node.name = "typed" THEN <<"t", "l">> ELSE <<"i", "l">>
      [] node.kind = "ConversionExpr" -> <<"c", "v">>
      [] node.kind = "DeleteExpr" -> IF node.name = "delete" THEN <<"d", "l">> ELSE <<"g", "s", "d", "l">>
      [] node.kind = "ThrowExpr" -> <<"t", "w">>
      [] node.kind = "ParameterPackExpansion" -> <<"s", "p">>
      [] node.kind = "SizeofParamPackExpr" -> <<"s", "Z">>
      [] node.kind = "EnclosingExpr" /\ node.name = "sizeof" -> <<"s", "t">>
      [] node.kind = "EnclosingExpr" /\ node.name = "noexcept" -> <<"n", "x">>
      [] node.kind = "FoldExpr" -> <<"f", "l", "p", "l">>

TypeFirst(node) ==
    \/ node.kind \in {"CastExpr", "ConversionExpr"}
    \/ node.kind = "InitListExpr" /\ node.name = "typed"
    \/ node.kind = "EnclosingExpr" /\ node.name = "sizeof"

Closed(node) == node.kind \in {"CallExpr", "InitListExpr"}

\* -3 is written n3.
Numeral(number) ==
    IF number \in Numbers THEN <<number>> ELSE <<"n", CHOOSE n \in Numbers : number = "-" \o n>>

OperatorTokens ==
    ("operator()" :> <<"c", "l">>) @@ ("operator+" :> <<"p", "l">>) @@ ("operator=" :> <<"a", "S">>) @@
    ("operator==" :> <<"e", "q">>) @@ ("operator[]" :> <<"i", "x">>) @@ ("operator++" :> <<"p", "p">>) @@
    ("operator new" :> <<"n", "w">>)

IsOperator(node) == node.kind = "NameType" /\ node.name \in DOMAIN OperatorTokens

WriteAll(part, nodes, m) == FoldLeft(LAMBDA sofar, node : Write(part, node, sofar), m, nodes)

TemplateArguments(node, m) == Emit(WriteAll("Argument", node.kids, Emit(m, <<"I">>)), <<"E">>)

(***************************************************************************)
(* Names that only an instance of the template resolves. A chain of        *)
(* qualified names starts with a type or with a simple name of a level.    *)
(***************************************************************************)
Levels(node) == IF node.kind = "QualifiedName" THEN Append(Levels(node.kids[1]), node.kids[2]) ELSE <<node>>

IsSimpleId(node) ==
    LET name == IF node.kind = "NameWithTemplateArgs" THEN node.kids[1] ELSE node
    IN  name.kind = "NameType" /\ name.name \in Names

\* A simple name, an operator or a destructor, with or without arguments
Base(node, m) ==
    CASE node.kind = "NameWithTemplateArgs" -> TemplateArguments(node.kids[2], Write("Base", node.kids[1], m))
      [] IsOperator(node) -> Emit(m, <<"o", "n">> \o OperatorTokens[node.name])
      [] node.kind = "DtorName" -> Write(IF IsSimpleId(node.kids[1]) THEN "Base" ELSE "Type", node.kids[1],
                                         Emit(m, <<"d", "n">>))
      [] node.kind = "GlobalQualifiedName" -> Write("Base", node.kids[1], m)
      [] OTHER -> Emit(m, <<node.name>>)

Unresolved(node, m) ==
    LET levels == Levels(node)
        root == Head(levels)
        global == IF root.kind = "GlobalQualifiedName" THEN Emit(m, <<"g", "s">>) ELSE m
        named(start) == Write("Base", Last(levels),
                              Emit(WriteAll("Base", Front(levels), Emit(start, <<"s", "r">>)), <<"E">>))
        inner == SubSeq(levels, 2, Len(levels) - 1)
    IN  CASE Len(levels) = 1 -> Write("Base", root, global)
          [] Len(levels) > 1 /\ (root.kind = "GlobalQualifiedName" \/ IsSimpleId(root)) -> named(global)
          [] Len(levels) = 2 /\ ~(root.kind = "GlobalQualifiedName" \/ IsSimpleId(root)) ->
               Write("Base", Last(levels), Write("Type", root, Emit(m, <<"s", "r">>)))
          [] OTHER -> Write("Base", Last(levels),
                            Emit(WriteAll("Base", inner, Write("Type", root, Emit(m, <<"s", "r", "N">>))),
                                 <<"E">>))

UnresolvedNames == {"NameType", "NameWithTemplateArgs", "QualifiedName", "GlobalQualifiedName", "DtorName"}

\* new T, ::new T, new T[] and new T(x), without placement
New(node, m) ==
    LET global == IF node.name \in {"::new", "::new[]"} THEN <<"g", "s">> ELSE <<>>
        code == IF node.name \in {"new[]", "::new[]"} THEN <<"n", "a", "_">> ELSE <<"n", "w", "_">>
        type == Write("Type", node.kids[1], Emit(m, global \o code))
    IN  Emit(IF node.name = "new()"
             THEN WriteAll("Expression", Tail(node.kids), Emit(type, <<"p", "i">>)) ELSE type, <<"E">>)

Expression(node, m) ==
    CASE node.kind \in UnresolvedNames -> Unresolved(node, m)
      [] node.kind = "IntegerLiteral" -> Emit(m, <<"L", "i">> \o Numeral(node.name) \o <<"E">>)
      [] node.kind = "BoolExpr" -> Emit(m, <<"L", "b", node.name, "E">>)
      [] node.kind = "FloatLiteral" -> Emit(m, <<"L", "f", node.name, "E">>)
      [] node.kind = "IntegerCastExpr" ->
           Emit(Write("Type", node.kids[1], Emit(m, <<"L">>)), <<node.name, "E">>)
      [] node.kind = "FunctionEncoding" -> Emit(Write("Encoding", node, Emit(m, <<"L", "_Z">>)), <<"E">>)
      [] node.kind = "FunctionParam" -> Emit(m, <<"f", "p", "_">>)
      [] node.kind = "TemplateParam" -> Emit(m, Param(node))
      [] node.kind = "NewExpr" -> New(node, m)
      [] TypeFirst(node) ->
           Emit(WriteAll("Expression", Tail(node.kids), Write("Type", Head(node.kids), Emit(m, Code(node)))),
                IF Closed(node) THEN <<"E">> ELSE <<>>)
      [] OTHER -> Emit(WriteAll("Expression", node.kids, Emit(m, Code(node))),
                       IF Closed(node) THEN <<"E">> ELSE <<>>)

Literals == {"IntegerLiteral", "BoolExpr", "FloatLiteral", "IntegerCastExpr", "FunctionEncoding"}

Expressions == {"BinaryExpr", "PrefixExpr", "PostfixExpr", "ConditionalExpr", "CastExpr", "MemberExpr",
                "CallExpr", "ArraySubscriptExpr", "InitListExpr", "ConversionExpr", "DeleteExpr", "ThrowExpr",
                "SizeofParamPackExpr", "FoldExpr", "QualifiedName", "GlobalQualifiedName", "NewExpr",
                "FunctionParam"}

IsExpression(node) ==
    node.kind \in Expressions \/ (node.kind = "EnclosingExpr" /\ node.name # "decltype")

Argument(node, m) ==
    CASE node.kind = "TemplateArgumentPack" ->
           Emit(WriteAll("Argument", node.kids, Emit(m, <<"J">>)), <<"E">>)
      [] node.kind \in Literals -> Write("Expression", node, m)
      [] IsExpression(node) -> Emit(Write("Expression", node, Emit(m, <<"X">>)), <<"E">>)
      [] OTHER -> Write("Type", node, m)

\* <bare-function-type>
Parameters(nodes, m) == IF nodes = <<>> THEN Emit(m, <<"v">>) ELSE WriteAll("Type", nodes, m)

\* The part of a name after its qualifiers.
Component(node, m) ==
    CASE node.kind = "NameType" /\ node.name \in Names -> Emit(m, <<node.name>>)
      [] node.kind = "NameType" /\ node.name = "(anonymous namespace)" ->
           Emit(m, <<CHOOSE n \in Anonymous : TRUE>>)
      [] node.kind = "CtorDtorName" ->
           Emit(m, IF node.name \in {"C1", "C2"} THEN <<"C", IF node.name = "C1" THEN "1" ELSE "2">>
                                                 ELSE <<"D", "1">>)
      [] node.kind = "ConversionOperatorType" -> Write("Type", node.kids[1], Emit(m, <<"c", "v">>))
      [] node.kind = "LiteralOperator" -> Emit(m, <<"l", "i", node.kids[1].name>>)
      [] node.kind = "AbiTagAttr" -> Emit(Write("Component", node.kids[1], m), <<"B", node.name>>)
      [] node.kind = "UnnamedTypeName" -> Emit(m, <<"U", "t", "_">>)
      [] node.kind = "ClosureTypeName" -> Emit(Parameters(node.kids, Emit(m, <<"U", "l">>)), <<"E", "_">>)
      [] node.kind = "NameWithTemplateArgs" ->
           TemplateArguments(node.kids[2], Write("Component", node.kids[1], m))
      [] OTHER -> Emit(m, OperatorTokens[node.name])

\* What qualifies a later component: every prefix becomes a component of its own.
Prefix(node, m) ==
    CASE node = Std -> Emit(m, <<"S", "t">>)
      [] Special(node) -> Emit(m, <<"S", TokenOf(SpecialNames, node.name)>>)
      [] node # Std /\ Known(m, node) -> Reference(m, node)
      [] OTHER -> Enter(CASE node.kind = "NestedName" ->
                               Write("Component", node.kids[2], Write("Prefix", node.kids[1], m))
                          [] node.kind = "NameWithTemplateArgs" ->
                               TemplateArguments(node.kids[2], Write("Prefix", node.kids[1], m))
                          [] node.kind = "TemplateParam" -> Emit(m, Param(node))
                          [] OTHER -> Write("Component", node, m), node)

\* A whole name; quals are the cv- and ref-qualifiers of a method.
NameOf(node, m, quals) ==
    CASE InStd(node) /\ quals = <<>> -> Write("Component", node.kids[2], Emit(m, <<"S", "t">>))
      [] node.kind = "NestedName" /\ ~(InStd(node) /\ quals = <<>>) ->
           Emit(Write("Component", node.kids[2],
                      Write("Prefix", node.kids[1], Emit(m, <<"N">> \o quals))), <<"E">>)
      [] node.kind = "NameWithTemplateArgs" /\ node.kids[1].kind = "NestedName" /\ ~InStd(node.kids[1]) ->
           Emit(TemplateArguments(node.kids[2],
                                  Write("Prefix", node.kids[1], Emit(m, <<"N">> \o quals))), <<"E">>)
      [] node.kind = "NameWithTemplateArgs" /\ ~(node.kids[1].kind = "NestedName" /\ ~InStd(node.kids[1])) ->
           TemplateArguments(node.kids[2],
                             IF Known(m, node.kids[1]) \/ Special(node.kids[1])
                             THEN Write("Prefix", node.kids[1], m)
                             ELSE Enter(Write("Name", node.kids[1], m), node.kids[1]))
      [] node.kind = "LocalName" ->
           Write("Name", node.kids[2], Emit(Write("Encoding", node.kids[1], Emit(m, <<"Z">>)), <<"E">>))
      [] OTHER -> Write("Component", node, m)

PrefixToken(node) == TokenOf(PrefixedTypes, <<node.kind, node.name>>)

\* What a function may throw is written before F.
ExceptionSpec(node, m) ==
    CASE node.kind = "NoexceptSpec" -> Emit(Write("Expression", node.kids[1], Emit(m, <<"D", "O">>)), <<"E">>)
      [] node.kind = "DynamicExceptionSpec" -> Emit(WriteAll("Type", node.kids, Emit(m, <<"D", "w">>)), <<"E">>)
      [] OTHER -> Emit(m, <<"D", "o">>)

IsExceptionSpec(node) == node.kind \in {"NoexceptSpec", "DynamicExceptionSpec"} \/ node = Named("noexcept")

\* The qualifiers of a function type come before F, its reference qualifier last.
FunctionBody(node, m) ==
    LET spec == IsExceptionSpec(node.kids[1])
        rest == IF spec THEN Tail(node.kids) ELSE node.kids
        start == Emit(m, IF node.name = "K" THEN <<"K">> ELSE <<>>)
        thrown == IF spec THEN ExceptionSpec(node.kids[1], start) ELSE start
        written == Parameters(Tail(rest), Write("Type", Head(rest), Emit(thrown, <<"F">>)))
    IN  Emit(written, IF node.name = "R" THEN <<"R", "E">> ELSE <<"E">>)

QualifierTokens(quals) ==
    CASE quals = "" -> <<>>
      [] quals = "VK" -> <<"V", "K">>
      [] quals = "KR" -> <<"K", "R">>
      [] OTHER -> <<quals>>

TypeBody(node, m) ==
    CASE node.kind \in {"PointerType", "ReferenceType", "PostfixQualifiedType"} ->
           Write("Type", node.kids[1], Emit(m, <<PrefixToken(node)>>))
      [] node.kind = "QualType" -> Write("Type", node.kids[1], Emit(m, QualifierTokens(node.name)))
      [] node.kind = "VendorExtQualType" -> Write("Type", node.kids[1], Emit(m, <<"U", node.name>>))
      [] node.kind = "ArrayType" ->
           IF Len(node.kids) = 2
           THEN Write("Type", node.kids[2], Emit(Write("Expression", node.kids[1], Emit(m, <<"A">>)), <<"_">>))
           ELSE Write("Type", node.kids[1],
                      Emit(m, IF node.name = "" THEN <<"A", "_">> ELSE <<"A", node.name, "_">>))
      [] node.kind = "VectorType" -> Write("Type", node.kids[1], Emit(m, <<"D", "v", node.name, "_">>))
      [] node.kind = "PointerToMemberType" -> WriteAll("Type", node.kids, Emit(m, <<"M">>))
      [] node.kind = "FunctionType" -> FunctionBody(node, m)
      [] node.kind = "EnclosingExpr" ->
           Emit(Write("Expression", node.kids[1], Emit(m, <<"D", "T">>)), <<"E">>)
      [] node.kind = "ParameterPackExpansion" -> Write("Type", node.kids[1], Emit(m, <<"D", "p">>))
      [] node.kind = "ElaboratedTypeSpefType" -> Write("Name", node.kids[1], Emit(m, <<"T", "s">>))
      [] node.kind = "TemplateParam" -> Emit(m, Param(node))
      [] node.kind = "NameWithTemplateArgs" /\ node.kids[1].kind = "TemplateParam" ->
           TemplateArguments(node.kids[2], Write("Type", node.kids[1], m))
      [] OTHER -> NameOf(node, m, <<>>)

Type(node, m) ==
    CASE Builtin(node) -> Emit(m, <<TokenOf(BuiltinTypes, node.name)>>)
      [] ~Builtin(node) /\ Special(node) -> Write("Prefix", node, m)
      [] Known(m, node) -> Reference(m, node)
      [] OTHER -> Enter(TypeBody(node, m), node)

\* The name of what is declared ends in template arguments, and is no
\* constructor, destructor or conversion: its return type is written too.
ReturnsType(name) ==
    /\ name.kind = "NameWithTemplateArgs"
    /\ LET n == name.kids[1]
           last == IF n.kind = "NestedName" THEN n.kids[2] ELSE n
       IN  last.kind \notin {"CtorDtorName", "ConversionOperatorType"}

Encoding(node, m) ==
    CASE node.kind = "FunctionEncoding" ->
           Parameters(Tail(node.kids), NameOf(Head(node.kids), m, QualifierTokens(node.name)))
      [] node.kind = "SpecialName" /\ node.name = "vtable for " ->
           Write("Type", node.kids[1], Emit(m, <<"T", "V">>))
      [] node.kind = "SpecialName" /\ node.name = "non-virtual thunk to " ->
           Write("Encoding", node.kids[1], Emit(m, <<"T", "h", "n", "4", "_">>))
      [] node.kind = "SpecialName" /\ node.name = "virtual thunk to " ->
           Write("Encoding", node.kids[1], Emit(m, <<"T", "v", "0", "_", "n", "4", "_">>))
      [] node.kind = "SpecialName" /\ node.name = "guard variable for " ->
           Write("Name", node.kids[1], Emit(m, <<"G", "V">>))
      [] OTHER -> NameOf(node, m, <<>>)

Write(part, node, m) ==
    CASE part = "Expression" -> Expression(node, m)
      [] part = "Base" -> Base(node, m)
      [] part = "Argument" -> Argument(node, m)
      [] part = "Component" -> Component(node, m)
      [] part = "Prefix" -> Prefix(node, m)
      [] part = "Name" -> NameOf(node, m, <<>>)
      [] part = "Type" -> Type(node, m)
      [] part = "Encoding" -> Encoding(node, m)

Mangle(node) == Write("Encoding", node, Emit(Fresh, <<"_Z">>))

(***************************************************************************)
(* What a reader of the name should get back: the tree itself, parameters  *)
(* replaced by the innermost arguments of the declared name, and one form  *)
(* for the members of std, which a name writes in two ways.                *)
(***************************************************************************)
ArgumentsOf(name) ==
    CASE name.kind = "NameWithTemplateArgs" -> name.kids[2].kids
      [] name.kind = "NestedName" /\ name.kids[1].kind = "NameWithTemplateArgs" -> name.kids[1].kids[2].kids
      [] OTHER -> <<>>

Bound(node, args) ==
    IF node.kind = "TemplateParam"
    THEN LET a == args[Index(node.name) + 1]
         IN  IF a.kind = "TemplateArgumentPack" THEN [a EXCEPT !.kind = "ParameterPack"] ELSE a
    ELSE [node EXCEPT !.kids = [i \in DOMAIN @ |-> Bound(@[i], args)]]

\* The parser does not keep the :: of new expressions and of unresolved names:
\* parseExpr takes gs, and the functions it calls look for it once more.
WithoutGlobal(node) ==
    LET kids == [i \in DOMAIN node.kids |-> WithoutGlobal(node.kids[i])]
    IN  CASE node.kind = "GlobalQualifiedName" -> kids[1]
          [] node.kind = "NewExpr" /\ node.name \in {"::new", "::new[]"} ->
               Node("NewExpr", IF node.name = "::new" THEN "new" ELSE "new[]", kids)
          [] OTHER -> [node EXCEPT !.kids = kids]

Plain(node) ==
    LET kids == [i \in DOMAIN node.kids |-> Plain(node.kids[i])]
    IN  IF node.kind = "StdQualifiedName" THEN Node("NestedName", "", <<Std>> \o kids)
                                          ELSE Node(node.kind, node.name, kids)
=============================================================================
