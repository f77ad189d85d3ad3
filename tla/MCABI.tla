------------------------------- MODULE MCABI -------------------------------
(***************************************************************************)
(* Functions for the model checker: declarations with the constructs that  *)
(* Mangler writes, and a few methods that modules of several functions are *)
(* made of.                                                                *)
(***************************************************************************)
EXTENDS ABI

Numerals == {"0", "1", "2", "3", "4", "1.5"}

SourceNames == {"1A", "1B", "1X", "1T", "3foo", "3bar", "2ns", "2mm", "4ns1A", "3tag", "4anon"}

Unnamed == {"4anon"}

Identifiers ==
    "1A" :> "A" @@ "1B" :> "B" @@ "1X" :> "X" @@ "1T" :> "T" @@ "3foo" :> "foo" @@ "3bar" :> "bar" @@
    "2ns" :> "ns" @@ "2mm" :> "mm" @@ "4ns1A" :> "ns1A" @@ "3tag" :> "tag" @@ "4anon" :> "anon"

N(name) == Named(name)
In(scope, name) == Node("NestedName", "", <<scope, name>>)
Inst(name, args) == Node("NameWithTemplateArgs", "", <<name, Node("TemplateArgs", "", args)>>)
Fun(name, quals, params) == Node("FunctionEncoding", quals, <<name>> \o params)

IntT == N("int")
Ptr(t) == Node("PointerType", "", <<t>>)
Ref(t) == Node("ReferenceType", "&", <<t>>)
Const(t) == Node("QualType", "K", <<t>>)
Lit(n) == Node("IntegerLiteral", n, <<>>)
T0 == TemplateParam(0)
T1 == TemplateParam(1)
Foo == N("3foo")
Anon == N("(anonymous namespace)")
NsA == In(N("2ns"), N("1A"))
NsX == In(N("2ns"), N("1X"))
MmX == In(N("2mm"), N("1X"))
MmB == In(N("2mm"), N("1B"))
Vector == In(Std, N("1B"))

\* SomeTypes a parameter may have
SomeTypes ==
    <<IntT, Ptr(IntT), Ptr(NsA), Ref(Const(NsA)), Node("ReferenceType", "&&", <<NsX>>),
     Const(Ptr(Const(IntT))), Node("QualType", "VK", <<IntT>>),
     Node("PostfixQualifiedType", " complex", <<N("float")>>), Ptr(Node("ArrayType", "4", <<IntT>>)),
     Ptr(Node("ArrayType", "", <<NsA>>)), Node("VectorType", "4", <<N("float")>>),
     Node("PointerToMemberType", "", <<NsA, IntT>>),
     Node("PointerToMemberType", "", <<NsA, Node("FunctionType", "K", <<IntT, Ptr(NsA)>>)>>),
     Ptr(Node("FunctionType", "", <<IntT, NsX, Ptr(NsX)>>)), Ptr(Node("FunctionType", "R", <<IntT>>)),
     Ptr(Node("FunctionType", "", <<N("noexcept"), IntT, Ptr(NsX)>>)),
     Ptr(Node("FunctionType", "", <<Node("DynamicExceptionSpec", "", <<NsA, Ptr(NsA)>>), IntT, NsA>>)),
     Inst(N("1T"), <<IntT>>), Inst(N("1T"), <<Ptr(NsA), Inst(N("1T"), <<Ptr(NsA)>>)>>),
     Inst(NsA, <<IntT, Lit("4")>>), In(Inst(NsA, <<IntT>>), N("1B")),
     Inst(N("1T"), <<Lit("-3"), Node("BoolExpr", "1", <<>>), Node("FloatLiteral", "1.5", <<>>)>>),
     Inst(N("1T"), <<Node("IntegerCastExpr", "2", <<NsX>>)>>),
     Inst(N("1T"), <<Fun(In(NsA, Foo), "", <<IntT>>)>>),
     Inst(N("1T"), <<Node("TemplateArgumentPack", "", <<IntT, Ptr(NsA)>>)>>),
     Vector, Ptr(Inst(Vector, <<NsX>>)), Inst(Node("SpecialSubstitution", "allocator", <<>>), <<IntT>>),
     Node("SpecialSubstitution", "string", <<>>), Node("ElaboratedTypeSpefType", "struct", <<NsX>>),
     Node("VendorExtQualType", "3tag", <<Ptr(IntT)>>),
     In(NsA, Node("UnnamedTypeName", "", <<>>)), In(NsA, Node("ClosureTypeName", "", <<IntT, Ptr(IntT)>>)),
     Node("LocalName", "", <<Fun(In(NsA, Foo), "", <<IntT>>), N("1X")>>), Inst(N("1T"), <<>>)>>

\* Expressions over a template's parameters
SomeOperators ==
    <<Node("BinaryExpr", "+", <<T0, Lit("1")>>), Node("BinaryExpr", "<<", <<T0, T0>>),
     Node("BinaryExpr", ",", <<T0, T0>>), Node("BinaryExpr", "/", <<T0, T0>>),
     Node("BinaryExpr", "==", <<T0, T0>>), Node("PrefixExpr", "-", <<T0>>),
     Node("PrefixExpr", "~", <<T0>>), Node("PrefixExpr", "++", <<T0>>), Node("PostfixExpr", "++", <<T0>>),
     Node("ConditionalExpr", "", <<T0, Lit("1"), Lit("2")>>),
      Node("CastExpr", "static_cast", <<Ptr(NsA), T0>>),
     Node("MemberExpr", ".", <<T0, N("3bar")>>), Node("CallExpr", "", <<N("3bar"), T0>>),
     Node("ArraySubscriptExpr", "", <<T0, Lit("0")>>), Node("InitListExpr", "", <<T0, T0>>),
     Node("InitListExpr", "typed", <<NsA, T0>>), Node("ConversionExpr", "", <<NsA, T0>>),
     Node("DeleteExpr", "delete", <<T0>>), Node("DeleteExpr", "::delete", <<T0>>),
     Node("ThrowExpr", "", <<T0>>), Node("EnclosingExpr", "sizeof", <<NsA>>),
     Node("EnclosingExpr", "noexcept", <<T0>>), Node("QualifiedName", "", <<T0, N("3bar")>>),
     Node("NewExpr", "new", <<NsA>>), Node("NewExpr", "::new", <<NsA>>), Node("NewExpr", "new[]", <<NsA>>),
     Node("NewExpr", "::new[]", <<T0>>), Node("NewExpr", "new()", <<NsA, T0, T0>>),
     Node("FunctionParam", "", <<>>), Node("FoldExpr", "l+", <<T0>>)>>

Qualified(scope, name) == Node("QualifiedName", "", <<scope, name>>)
Global(name) == Node("GlobalQualifiedName", "", <<name>>)
Dtor(name) == Node("DtorName", "", <<name>>)
Plus == N("operator+")
TOf(t) == Inst(N("1T"), <<t>>)

\* Names that a template leaves unresolved
SomeNames ==
    <<Global(N("3bar")), Global(TOf(T0)), Qualified(T0, TOf(T0)), Qualified(Qualified(T0, N("1A")), N("3bar")),
     Qualified(Qualified(Qualified(T0, TOf(NsA)), N("1A")), N("3bar")), Qualified(N("2ns"), N("3bar")),
     Qualified(Qualified(Global(N("2ns")), TOf(T0)), N("3bar")), Qualified(Global(N("2ns")), Plus),
     Qualified(Node("EnclosingExpr", "decltype", <<T0>>), N("3bar")),
     Qualified(T0, Plus), Qualified(Qualified(T0, N("1A")), Inst(Plus, <<NsA>>)), Qualified(T0, Dtor(T0)),
     Qualified(N("1A"), Dtor(TOf(T0))), Node("CallExpr", "", <<Plus, T0, T0>>),
     Node("CallExpr", "", <<Global(Plus), T0>>), Node("MemberExpr", ".", <<T0, Dtor(N("1A"))>>),
     Node("CallExpr", "", <<Node("MemberExpr", ".", <<T0, Qualified(N("1A"), Dtor(N("1A")))>>)>>)>>

\* Operators that functions are called
SomeOperatorNames ==
    <<N("operator()"), Plus, N("operator="), N("operator=="), N("operator[]"), N("operator++"),
     N("operator new")>>

Free(params) == Fun(Foo, "", params)

Template(args, params) == Fun(Inst(Foo, args), "", params)

Each(s, Made(_)) == [i \in DOMAIN s |-> Made(s[i])]

\* Declarations of every kind, for modules of one function
Vocabulary ==
    Each(SomeTypes, LAMBDA t : Free(<<t>>))
    \o Each(SomeTypes, LAMBDA t : Free(<<t, t, Ptr(t)>>))
    \o Each(SomeTypes, LAMBDA t : Fun(In(NsA, Foo), "K", <<t, Ref(t), NsX, Ptr(NsX)>>))
    \o Each(SomeOperators,
            LAMBDA e : Template(<<IntT>>, <<Node("EnclosingExpr", "decltype", <<e>>), T0>>))
    \o Each(SomeNames,
            LAMBDA e : Template(<<NsA>>, <<Node("EnclosingExpr", "decltype", <<e>>), T0, Ptr(NsA)>>))
    \o Each(SomeOperatorNames, LAMBDA n : Fun(In(NsA, n), "K", <<Ref(NsA), IntT>>))
    \o Each(SomeOperatorNames, LAMBDA n : Fun(Inst(n, <<NsX>>), "", <<IntT, T0, Ptr(NsA)>>))
    \o <<Template(<<NsA, IntT>>, <<IntT, T0, Ptr(T1), IntT, Ptr(T0)>>),
          Template(<<NsA, IntT>>, <<Ptr(T0), T0, Ptr(T1), Ptr(T0), Ptr(T0)>>),
          Template(<<NsA, IntT>>, <<Ptr(NsA), T0, Ptr(T1), NsX, Ptr(T0)>>),
          Fun(Inst(In(NsA, Foo), <<Ptr(NsA)>>), "", <<IntT, T0, Ptr(T0)>>),
          Fun(In(Inst(NsA, <<IntT>>), Node("ConversionOperatorType", "", <<T0>>)), "K", <<>>),
          Fun(In(NsA, Node("ConversionOperatorType", "", <<Ptr(NsX)>>)), "", <<>>),
          Fun(Inst(In(NsA, Node("ConversionOperatorType", "", <<T0>>)), <<IntT>>), "", <<>>),
          Fun(In(NsA, Node("CtorDtorName", "C1", <<>>)), "", <<NsX>>),
          Fun(Inst(In(NsA, Node("CtorDtorName", "C2", <<>>)), <<IntT>>), "", <<T0>>),
          Template(<<IntT>>, <<IntT, Ptr(Node("FunctionType", "", <<Node("NoexceptSpec", "", <<T0>>), T0, T0>>))>>),
          Fun(In(NsA, Node("CtorDtorName", "D1", <<>>)), "", <<>>),
          Fun(In(NsA, Node("AbiTagAttr", "3tag", <<Foo>>)), "", <<IntT>>),
          Fun(Node("LiteralOperator", "", <<N("3foo")>>), "", <<IntT>>),
          Fun(In(Anon, Foo), "", <<Ptr(In(Anon, N("1X")))>>), Fun(In(In(Anon, N("1A")), Foo), "", <<IntT>>),
          Fun(In(Std, Foo), "", <<Vector, Vector>>),
          Fun(Inst(In(Std, Foo), <<IntT>>), "", <<T0, Vector, Vector>>),
          Fun(In(Vector, Foo), "KR", <<Vector, Ptr(Vector)>>),
          Template(<<Node("TemplateArgumentPack", "", <<IntT, NsA>>)>>,
                   <<IntT, Node("ParameterPackExpansion", "", <<T0>>)>>),
          Node("SpecialName", "vtable for ", <<NsA>>), Node("SpecialName", "guard variable for ", <<NsX>>),
          Node("SpecialName", "non-virtual thunk to ", <<Fun(In(NsA, Foo), "", <<IntT>>)>>),
          Node("SpecialName", "virtual thunk to ", <<Fun(In(NsA, Foo), "", <<Ptr(NsA)>>)>>),
          NsX,
          Fun(Node("LocalName", "", <<Fun(In(NsA, Foo), "", <<IntT>>), In(N("1X"), N("3bar"))>>), "", <<IntT>>)>>

F(decl, linkage, self) == [decl |-> decl, linkage |-> linkage, self |-> self]

\* Methods of classes and interfaces, free functions, and names that mislead
Methods ==
    <<F(Fun(In(NsA, Foo), "", <<Ptr(NsX), Ptr(NsA)>>), "strong", "ns.A"),
      F(Fun(In(NsA, Foo), "K", <<Ptr(NsX), Ptr(NsA)>>), "strong", "ns.A"),
      F(Fun(In(NsA, Foo), "", <<Ptr(MmX), Ptr(NsA)>>), "weak", "ns.A"),
      F(Fun(In(MmB, Foo), "", <<Ptr(MmX), Ptr(MmB)>>), "declaration", "mm.B"),
      F(Fun(In(MmB, Foo), "", <<Ptr(NsX), Ptr(NsA)>>), "declaration", "mm.B"),
      F(Fun(In(MmB, N("3bar")), "", <<>>), "declaration", "mm.B"),
      F(Fun(In(N("4ns1A"), Foo), "", <<IntT>>), "strong", "ns1A"),
      F(Fun(In(N("4ns1A"), N("3bar")), "", <<Ptr(NsA)>>), "strong", "ns.A"),
      F(Fun(In(N("2ns"), Foo), "", <<Ptr(NsA)>>), "strong", "ns.A"),
      F(Fun(In(N("2ns"), Foo), "", <<Ptr(NsX)>>), "strong", "ns.X"),
      F(Fun(In(N("2ns"), N("3bar")), "", <<IntT>>), "strong", NoSelf),
      F(Fun(In(NsA, Node("CtorDtorName", "C1", <<>>)), "", <<>>), "weak", "ns.A"),
      F(Fun(In(Inst(NsA, <<IntT>>), Foo), "", <<IntT>>), "strong", "ns.A.int"),
      F(Fun(In(In(Anon, N("1A")), Foo), "", <<IntT>>), "strong", "A"),
      F(Fun(In(NsA, Node("CtorDtorName", "D1", <<>>)), "", <<>>), "strong", "ns.A"),
      F(Fun(In(N("1X"), Foo), "", <<>>), "strong", NoParameter)>>

AllFunctions == Methods \o Each(Vocabulary, LAMBDA d : F(d, "strong", "ns.A"))

SeveralMethods == Len(Methods)

AllCompiled == CompiledFunctions

CompiledMethods == CombinedFunctions
=============================================================================
