--------------------------- MODULE ItaniumParser ---------------------------
(***************************************************************************)
(* The recursive-descent parser LLAIR reads mangled C++ names with         *)
(* (ItaniumDemangle.h, ManglingParser).                                    *)
(*                                                                         *)
(* A name is a sequence of tokens: one letter, except that a source name   *)
(* ("3foo"), a decimal number, the data of a floating-point literal and    *)
(* the prefixes of whole names ("_Z", "_block_invoke") are one token each. *)
(*                                                                         *)
(* A parser state st is a record: the tokens in, the position p, whether   *)
(* it is still ok, the stack out of nodes made so far (a function returns  *)
(* its node by pushing it; lists take theirs from the end, as Names does), *)
(* the substitutions subs, the template parameters params, the forward     *)
(* references fwd, the three flags, and the NameState ns in force. A       *)
(* failed state has no token left, so every later function fails too.      *)
(***************************************************************************)
EXTENDS Naturals, SequencesExt

CONSTANTS Names,      \* source names
          Numbers,    \* decimal numbers, and data of floating-point literals
          Anonymous,  \* the source names that start with _GLOBAL__N
          Protocols   \* the source names that start with objcproto

ASSUME TokenAssumption == /\ Names \cap Numbers = {}
                          /\ Anonymous \subseteq Names
                          /\ Protocols \subseteq Names

\* Parse(rule, st) is the function of the source named parse<rule>, for the
\* rules that call one another in a circle.
RECURSIVE Parse(_, _), parseAbiTags(_), NestedLoop(_, _), ArgumentLoop(_), ParameterLoop(_), EncodingLoop(_),
          LevelLoop(_), Until(_, _, _), Resolve(_, _)

(***************************************************************************)
(* Nodes. at is where in the name the text of a source name starts, and 0  *)
(* when the text is the parser's own ("std", "operator()").                *)
(***************************************************************************)
NodeAt(kind, name, at, kids) == [kind |-> kind, name |-> name, at |-> at, kids |-> kids]

Node(kind, name, kids) == NodeAt(kind, name, 0, kids)

NoState == [given |-> FALSE, ctor |-> FALSE, endsArgs |-> FALSE, cv |-> "", ref |-> ""]

NewState == [NoState EXCEPT !.given = TRUE]

Start(name) == [in |-> name, p |-> 1, ok |-> TRUE, out |-> <<>>, subs |-> <<>>,
                params |-> <<>>, fwd |-> <<>>, tryArgs |-> TRUE, permit |-> FALSE,
                lambda |-> FALSE, ns |-> NoState]

Fail(st) == [st EXCEPT !.ok = FALSE, !.p = Len(st.in) + 1]

look(st, n) == IF st.p + n <= Len(st.in) THEN st.in[st.p + n] ELSE ""

numLeft(st) == Len(st.in) + 1 - st.p

Digit(t) == t \in Names \cup Numbers

Ahead(st, s) == \A i \in DOMAIN s : look(st, i - 1) = s[i]

Skip(st, n) == IF st.ok THEN [st EXCEPT !.p = @ + n] ELSE st

consumeIf(st, s) == IF Ahead(st, s) THEN Skip(st, Len(s)) ELSE st

\* if (!consumeIf(s)) return nullptr
Need(st, s) == IF Ahead(st, s) THEN Skip(st, Len(s)) ELSE Fail(st)

Push(st, node) == IF st.ok THEN [st EXCEPT !.out = Append(@, node)] ELSE st

Pop(st, n) == IF st.ok THEN [st EXCEPT !.out = SubSeq(@, 1, Len(@) - n)] ELSE st

\* The last n nodes of the stack become the children of a new one.
Make(st, kind, name, n) ==
    IF st.ok THEN Push(Pop(st, n), Node(kind, name, SubSeq(st.out, Len(st.out) - n + 1, Len(st.out))))
             ELSE st

\* popTrailingNodeArray, with the node that is made of the array
Collect(st, kind, name, from) == IF st.ok THEN Make(st, kind, name, Len(st.out) - from) ELSE st

Remember(st) == IF st.ok THEN [st EXCEPT !.subs = Append(@, Last(st.out))] ELSE st

SetState(st, f) == IF st.ns.given THEN [st EXCEPT !.ns = f] ELSE st

EndsWithArgs(st, yes) == SetState(st, [st.ns EXCEPT !.endsArgs = yes])

\* while (!consumeIf(stop)) parse<rule>()
Until(st, rule, stop) ==
    CASE ~st.ok -> st
      [] Ahead(st, stop) -> Skip(st, Len(stop))
      [] OTHER -> Until(Parse(rule, st), rule, stop)

(***************************************************************************)
(* Numbers and source names.                                               *)
(***************************************************************************)
NumberAt(st, negative) ==
    LET n == IF negative /\ look(st, 0) = "n" THEN 1 ELSE 0
    IN  IF look(st, n) \notin Numbers THEN ""
        ELSE IF n = 1 THEN "-" \o look(st, n) ELSE look(st, n)

\* An n is consumed even when no number follows it.
parseNumber(st, negative) ==
    LET s == IF negative THEN consumeIf(st, <<"n">>) ELSE st
    IN  IF look(s, 0) \in Numbers THEN Skip(s, 1) ELSE s

NeedNumber(st, negative) ==
    IF NumberAt(st, negative) = "" THEN Fail(st) ELSE parseNumber(st, negative)

parseBareSourceName(st) == IF look(st, 0) \in Names THEN Skip(st, 1) ELSE Fail(st)

parseSourceName(st) ==
    CASE look(st, 0) \notin Names -> Fail(st)
      [] look(st, 0) \in Anonymous -> Skip(Push(st, Node("NameType", "(anonymous namespace)", <<>>)), 1)
      [] OTHER -> Skip(Push(st, NodeAt("NameType", look(st, 0), st.p, <<>>)), 1)

parseAbiTags(st) ==
    IF ~Ahead(st, <<"B">>) THEN st
    ELSE parseAbiTags(Make(parseBareSourceName(Skip(st, 1)), "AbiTagAttr", look(st, 1), 1))

Qualifier(st, n, q) == IF look(st, n) = q THEN 1 ELSE 0

\* [r] [V] [K]: how many tokens from the n-th on
QualifiersFrom(st, n) ==
    LET r == Qualifier(st, n, "r")
        v == r + Qualifier(st, n + r, "V")
    IN  v + Qualifier(st, n + v, "K")

Qualifiers(st) == FoldLeft(LAMBDA a, t : a \o t, "", SubSeq(st.in, st.p, st.p + QualifiersFrom(st, 0) - 1))

parseCVQualifiers(st) == Skip(st, QualifiersFrom(st, 0))

(***************************************************************************)
(* Template parameters and arguments, substitutions.                       *)
(***************************************************************************)
Index(t) == CHOOSE n \in 0 .. 40 : ToString(n) = t

parseTemplateParam(st) ==
    LET first == Ahead(st, <<"T", "_">>)
        index == IF first THEN 0 ELSE Index(look(st, 1)) + 1
        after == Skip(st, IF first THEN 2 ELSE 3)
    IN  IF ~first /\ ~(look(st, 0) = "T" /\ look(st, 1) \in Numbers /\ look(st, 2) = "_") THEN Fail(st)
        ELSE CASE st.lambda -> Push(after, Node("NameType", "auto", <<>>))
               [] ~st.lambda /\ st.permit ->
                    Push([after EXCEPT !.fwd = Append(@, index)],
                         NodeAt("ForwardTemplateReference", "", Len(st.fwd) + 1, <<>>))
               [] ~st.lambda /\ ~st.permit /\ index < Len(st.params) -> Push(after, st.params[index + 1])
               [] OTHER -> Fail(st)

\* Forward references above the first n are replaced by what they refer to.
Resolve(node, st) ==
    IF node.kind = "ForwardTemplateReference" /\ node.at > st.n
    THEN st.params[st.fwd[node.at] + 1]
    ELSE [node EXCEPT !.kids = [i \in DOMAIN @ |-> Resolve(@[i], st)]]

resolveForwardTemplateRefs(st, n) ==
    LET all == [fwd |-> st.fwd, params |-> st.params, n |-> n]
        each(s) == [i \in DOMAIN s |-> Resolve(s[i], all)]
    IN  CASE ~st.ok \/ Len(st.fwd) = n -> st
          [] \E i \in n + 1 .. Len(st.fwd) : st.fwd[i] >= Len(st.params) -> Fail(st)
          [] OTHER -> [st EXCEPT !.fwd = SubSeq(@, 1, n), !.out = each(@), !.subs = each(@),
                                 !.params = each(@)]

parseTemplateArg(st) ==
    CASE look(st, 0) = "X" -> Need(Parse("Expr", Skip(st, 1)), <<"E">>)
      [] look(st, 0) = "J" ->
           Collect(Until(Skip(st, 1), "TemplateArg", <<"E">>), "TemplateArgumentPack", "", Len(st.out))
      [] Ahead(st, <<"L", "Z">>) -> Need(Parse("Encoding", Skip(st, 2)), <<"E">>)
      [] look(st, 0) = "L" /\ look(st, 1) # "Z" -> Parse("ExprPrimary", st)
      [] OTHER -> Parse("Type", st)

\* The arguments of the name that is being read: each is parsed with no
\* parameters in force and becomes the next one.
ArgumentLoop(st) ==
    LET arg == Parse("TemplateArg", [st EXCEPT !.params = <<>>])
        top == Last(arg.out)
        entry == IF top.kind = "TemplateArgumentPack" THEN [top EXCEPT !.kind = "ParameterPack"] ELSE top
    IN  CASE ~st.ok -> st
          [] Ahead(st, <<"E">>) -> Skip(st, 1)
          [] OTHER -> IF arg.ok THEN ArgumentLoop([arg EXCEPT !.params = Append(st.params, entry)]) ELSE arg

parseTemplateArgs(st, tag) ==
    LET s == Need(st, <<"I">>)
    IN  Collect(IF tag THEN ArgumentLoop([s EXCEPT !.params = <<>>]) ELSE Until(s, "TemplateArg", <<"E">>),
                "TemplateArgs", "", Len(st.out))

\* <template-name> <template-args>, the name being on the stack
WithArgs(st, tag) == Make(parseTemplateArgs(st, tag), "NameWithTemplateArgs", "", 2)

SpecialNames == [a |-> "allocator", b |-> "basic_string", s |-> "string",
                 i |-> "istream", o |-> "ostream", d |-> "iostream"]

SeqDigits == <<"0", "1", "2", "3", "4", "5", "6", "7", "8", "9", "A", "B", "C", "D", "E", "F", "G",
               "H", "I", "J", "K", "L", "M", "N", "O", "P", "Q", "R", "S", "T", "U", "V", "W",
               "X", "Y", "Z">>

\* The tokens of the <seq-id> that starts here, and the number they stand for.
SeqTokens(st) ==
    LET run == {n \in 0 .. numLeft(st) : \A i \in 0 .. n - 1 : Contains(SeqDigits, look(st, i))}
    IN  SubSeq(st.in, st.p, st.p + Max(run) - 1)

SeqId(tokens) ==
    FoldLeft(LAMBDA id, t : 36 * id + SelectInSeq(SeqDigits, LAMBDA d : d = t) - 1, 0, tokens)

parseSeqId(st) == IF SeqTokens(st) = <<>> THEN Fail(st) ELSE Skip(st, Len(SeqTokens(st)))

parseSubstitution(st) ==
    LET s == Need(st, <<"S">>)
        special == Skip(Push(s, Node("SpecialSubstitution", SpecialNames[look(s, 0)], <<>>)), 1)
        first == look(s, 0) = "_"
        index == IF first THEN 0 ELSE SeqId(SeqTokens(s)) + 1
        after == Need(IF first THEN s ELSE parseSeqId(s), <<"_">>)
    IN  CASE ~s.ok -> s
          [] look(s, 0) \in DOMAIN SpecialNames ->
               IF look(special, 0) = "B" THEN Remember(parseAbiTags(special)) ELSE special
          [] OTHER -> IF after.ok /\ index < Len(s.subs) THEN Push(after, s.subs[index + 1]) ELSE Fail(s)

(***************************************************************************)
(* Names.                                                                  *)
(***************************************************************************)
OperatorNames ==
    [aa |-> "&&", ad |-> "&", an |-> "&", aN |-> "&=", aS |-> "=", cl |-> "()", cm |-> ",",
     co |-> "~", da |-> " delete[]", de |-> "*", dl |-> " delete", dv |-> "/", dV |-> "/=",
     eo |-> "^", eO |-> "^=", eq |-> "==", ge |-> ">=", gt |-> ">", ix |-> "[]"]

LaterOperatorNames ==
    [le |-> "<=", ls |-> "<<", lS |-> "<<=", lt |-> "<", mi |-> "-", mI |-> "-=", ml |-> "*",
     mL |-> "*=", mm |-> "--", na |-> " new[]", ne |-> "!=", ng |-> "-", nt |-> "!",
     nw |-> " new", oo |-> "||", or |-> "|", oR |-> "|=", pm |-> "->*", pl |-> "+", pL |-> "+=",
     pp |-> "++", ps |-> "+", pt |-> "->", qu |-> "?", rm |-> "%", rM |-> "%=", rs |-> ">>",
     rS |-> ">>=", ss |-> "<=>"]

\* A conversion operator's type is read without template arguments, and may
\* refer to those of the name it ends.
ConversionOperator(st) ==
    LET type == Parse("Type", [Skip(st, 2) EXCEPT !.tryArgs = FALSE, !.permit = @ \/ st.ns.given])
        done == Make([type EXCEPT !.tryArgs = st.tryArgs, !.permit = st.permit],
                     "ConversionOperatorType", "", 1)
    IN  SetState(done, [done.ns EXCEPT !.ctor = TRUE])

parseOperatorName(st) ==
    LET two == look(st, 0) \o look(st, 1)
        named(spelling) == Skip(Push(st, Node("NameType", "operator" \o spelling, <<>>)), 2)
    IN  CASE two \in DOMAIN OperatorNames -> named(OperatorNames[two])
          [] two \in DOMAIN LaterOperatorNames -> named(LaterOperatorNames[two])
          [] two = "cv" -> ConversionOperator(st)
          [] two = "li" -> Make(parseSourceName(Skip(st, 2)), "LiteralOperator", "", 1)
          [] look(st, 0) = "v" /\ Digit(look(st, 1)) ->
               Make(parseSourceName(Skip(st, 2)), "ConversionOperatorType", "", 1)
          [] OTHER -> Fail(st)

\* The name that the constructor or destructor belongs to is on the stack.
parseCtorDtorName(st) ==
    LET soFar == Last(st.out)
        expand == /\ soFar.kind = "SpecialSubstitution"
                  /\ soFar.name \in {"string", "istream", "ostream", "iostream"}
        s == IF expand THEN Push(Pop(st, 1), [soFar EXCEPT !.kind = "ExpandedSpecialSubstitution"]) ELSE st
        c == consumeIf(Need(s, <<"C">>), <<"I">>)
        structor(r, name) == Push(SetState(r, [r.ns EXCEPT !.ctor = TRUE]), Node("CtorDtorName", name, <<>>))
    IN  CASE c.ok /\ look(c, 0) \in {"1", "2", "3", "5"} ->
               IF Ahead(s, <<"C", "I">>)
               THEN structor(Pop(Parse("Name", SetState(Skip(c, 1), [c.ns EXCEPT !.ctor = TRUE])), 1),
                             "C" \o look(c, 0))
               ELSE structor(Skip(c, 1), "C" \o look(c, 0))
          [] look(s, 0) = "D" /\ look(s, 1) \in {"0", "1", "2", "5"} ->
               structor(Skip(s, 2), "D" \o look(s, 1))
          [] OTHER -> Fail(s)

parseUnnamedTypeName(st) ==
    LET s == Skip(st, 2)
        listed == Until(Parse("Type", [s EXCEPT !.lambda = TRUE]), "Type", <<"E">>)
        params == IF Ahead(s, <<"v", "E">>) THEN Skip(s, 2) ELSE [listed EXCEPT !.lambda = st.lambda]
        counted(r) == Need(parseNumber(r, FALSE), <<"_">>)
    IN  CASE Ahead(st, <<"U", "t">>) ->
               Push(counted(s), Node("UnnamedTypeName", NumberAt(s, FALSE), <<>>))
          [] Ahead(st, <<"U", "l">>) ->
               Collect(counted(params), "ClosureTypeName", NumberAt(params, FALSE), Len(st.out))
          [] Ahead(st, <<"U", "b">>) -> Push(counted(s), Node("NameType", "'block-literal'", <<>>))
          [] OTHER -> Fail(st)

parseUnqualifiedName(st) ==
    parseAbiTags(
        CASE look(st, 0) = "U" -> parseUnnamedTypeName(st)
          [] look(st, 0) \in Names -> parseSourceName(st)
          [] Ahead(st, <<"D", "C">>) ->
               Collect(Until(parseSourceName(Skip(st, 2)), "SourceName", <<"E">>),
                       "StructuredBindingName", "", Len(st.out))
          [] OTHER -> parseOperatorName(st))

parseUnscopedName(st) ==
    CASE Ahead(st, <<"S", "t", "L">>) -> Make(parseUnqualifiedName(Skip(st, 3)), "StdQualifiedName", "", 1)
      [] Ahead(st, <<"S", "t">>) -> Make(parseUnqualifiedName(Skip(st, 2)), "StdQualifiedName", "", 1)
      [] OTHER -> parseUnqualifiedName(st)

PushComponent(st, soFar) == EndsWithArgs(IF soFar THEN Make(st, "NestedName", "", 2) ELSE st, FALSE)

\* soFar: there is a prefix, on the stack. What ends the name is not a
\* substitution of its own: the last entry is taken back.
NestedLoop(before, soFar) ==
    LET st == consumeIf(before, <<"L">>)
        sub == parseSubstitution(st)
        next(r) == NestedLoop(Remember(r), TRUE)
    IN  CASE ~before.ok -> before
          [] Ahead(before, <<"E">>) ->
               IF soFar /\ before.subs # <<>> THEN [Skip(before, 1) EXCEPT !.subs = Front(@)] ELSE Fail(before)
          [] Ahead(st, <<"M">>) -> IF soFar THEN NestedLoop(Skip(st, 1), TRUE) ELSE Fail(st)
          [] look(st, 0) = "T" -> next(PushComponent(parseTemplateParam(st), soFar))
          [] look(st, 0) = "I" ->
               IF soFar THEN next(EndsWithArgs(WithArgs(st, st.ns.given), TRUE)) ELSE Fail(st)
          [] look(st, 0) = "D" /\ look(st, 1) \in {"t", "T"} -> next(PushComponent(Parse("Decltype", st), soFar))
          [] look(st, 0) = "S" /\ look(st, 1) # "t" ->
               NestedLoop(PushComponent(IF soFar THEN Remember(sub) ELSE sub, soFar), TRUE)
          [] look(st, 0) = "C" \/ (look(st, 0) = "D" /\ look(st, 1) # "C") ->
               IF soFar THEN next(parseAbiTags(PushComponent(parseCtorDtorName(st), TRUE))) ELSE Fail(st)
          [] OTHER -> next(PushComponent(parseUnqualifiedName(st), soFar))

parseNestedName(st) ==
    LET vendor == consumeIf(Need(st, <<"N">>), <<"U">>)
        quals == IF Ahead(st, <<"N", "U">>) /\ look(vendor, 0) \in Names THEN Skip(vendor, 1) ELSE vendor
        ref == parseCVQualifiers(quals)
        refQual == IF look(ref, 0) \in {"O", "R"} THEN look(ref, 0) ELSE ""
        begin == SetState(IF refQual = "" THEN ref ELSE Skip(ref, 1),
                          [ref.ns EXCEPT !.cv = Qualifiers(quals), !.ref = refQual])
    IN  IF Ahead(begin, <<"S", "t">>)
        THEN NestedLoop(Push(Skip(begin, 2), Node("NameType", "std", <<>>)), TRUE)
        ELSE NestedLoop(begin, FALSE)

parse_discriminator(st) ==
    CASE look(st, 0) = "_" /\ Digit(look(st, 1)) -> Skip(st, 2)
      [] look(st, 0) = "_" /\ look(st, 1) = "_" /\ look(st, 3) = "_" -> Skip(st, 4)
      [] Digit(look(st, 0)) /\ numLeft(st) = 1 -> Skip(st, 1)
      [] OTHER -> st

parseLocalName(st) ==
    LET scope == Need(Parse("Encoding", Need(st, <<"Z">>)), <<"E">>)
        numbered == Need(parseNumber(Skip(scope, 1), TRUE), <<"_">>)
        local(r) == Make(r, "LocalName", "", 2)
    IN  CASE Ahead(scope, <<"s">>) ->
               local(parse_discriminator(Push(Skip(scope, 1), Node("NameType", "string literal", <<>>))))
          [] Ahead(scope, <<"d">>) -> local(Parse("Name", numbered))
          [] OTHER -> local(parse_discriminator(Parse("Name", scope)))

parseName(before) ==
    LET st == consumeIf(before, <<"L">>)
        plain == parseUnscopedName(st)
        args(r) == EndsWithArgs(WithArgs(r, r.ns.given), TRUE)
    IN  CASE look(st, 0) = "N" -> parseNestedName(st)
          [] look(st, 0) = "Z" -> parseLocalName(st)
          [] look(st, 0) = "S" /\ look(st, 1) # "t" -> args(parseSubstitution(st))
          [] OTHER -> IF look(plain, 0) = "I" THEN args(Remember(plain)) ELSE plain

\* parseName(nullptr)
parsePlainName(st) == [Parse("Name", [st EXCEPT !.ns = NoState]) EXCEPT !.ns = st.ns]

(***************************************************************************)
(* Types.                                                                  *)
(***************************************************************************)
BuiltinTypes ==
    [v |-> "void", w |-> "wchar_t", b |-> "bool", c |-> "char", a |-> "signed char",
     h |-> "unsigned char", s |-> "short", t |-> "unsigned short", i |-> "int",
     j |-> "unsigned int", l |-> "long", m |-> "unsigned long", x |-> "long long",
     y |-> "unsigned long long", n |-> "__int128", o |-> "unsigned __int128", f |-> "float",
     d |-> "double", e |-> "long double", g |-> "__float128", z |-> "..."]

BuiltinDTypes ==
    [d |-> "decimal64", e |-> "decimal128", f |-> "decimal32", h |-> "decimal16", i |-> "char32_t",
     s |-> "char16_t", a |-> "auto", c |-> "decltype(auto)", n |-> "std::nullptr_t"]

\* The parameters of a function type, up to E, RE or OE; v is skipped.
ParameterLoop(st) ==
    CASE ~st.ok \/ Ahead(st, <<"E">>) \/ Ahead(st, <<"R", "E">>) \/ Ahead(st, <<"O", "E">>) -> st
      [] Ahead(st, <<"v">>) -> ParameterLoop(Skip(st, 1))
      [] OTHER -> ParameterLoop(Parse("Type", st))

parseExceptionSpec(st) ==
    CASE Ahead(st, <<"D", "o">>) -> Push(Skip(st, 2), Node("NameType", "noexcept", <<>>))
      [] Ahead(st, <<"D", "O">>) -> Make(Need(Parse("Expr", Skip(st, 2)), <<"E">>), "NoexceptSpec", "", 1)
      [] Ahead(st, <<"D", "w">>) ->
           Collect(Until(Skip(st, 2), "Type", <<"E">>), "DynamicExceptionSpec", "", Len(st.out))
      [] OTHER -> st

parseFunctionType(st) ==
    LET spec == parseExceptionSpec(parseCVQualifiers(st))
        return == consumeIf(Need(consumeIf(spec, <<"D", "x">>), <<"F">>), <<"Y">>)
        params == ParameterLoop(Parse("Type", return))
        ref == IF look(params, 0) \in {"R", "O"} THEN look(params, 0) ELSE ""
    IN  Collect(Skip(params, IF ref = "" THEN 1 ELSE 2), "FunctionType", Qualifiers(st) \o ref, Len(st.out))

parseVectorType(st) ==
    LET s == Need(st, <<"D", "v">>)
        counted == Need(parseNumber(s, FALSE), <<"_">>)
        sized == Need(IF Ahead(s, <<"_">>) THEN s ELSE Parse("Expr", s), <<"_">>)
    IN  CASE look(s, 0) \in Numbers /\ Ahead(counted, <<"p">>) ->
               Push(Skip(counted, 1), Node("PixelVectorType", look(s, 0), <<>>))
          [] look(s, 0) \in Numbers /\ ~Ahead(counted, <<"p">>) ->
               Make(Parse("Type", counted), "VectorType", look(s, 0), 1)
          [] OTHER -> Collect(Parse("Type", sized), "VectorType", "", Len(st.out))

parseDecltype(st) ==
    LET s == IF Ahead(st, <<"D", "t">>) THEN Skip(st, 2) ELSE Need(st, <<"D", "T">>)
    IN  Make(Need(Parse("Expr", s), <<"E">>), "EnclosingExpr", "decltype", 1)

parseArrayType(st) ==
    LET s == Need(st, <<"A">>)
        counted == Need(parseNumber(s, FALSE), <<"_">>)
        sized == Need(IF Ahead(s, <<"_">>) THEN s ELSE Parse("Expr", s), <<"_">>)
    IN  IF Digit(look(s, 0)) THEN Make(Parse("Type", counted), "ArrayType", look(s, 0), 1)
                             ELSE Collect(Parse("Type", sized), "ArrayType", "", Len(st.out))

parsePointerToMemberType(st) ==
    Make(Parse("Type", Parse("Type", Need(st, <<"M">>))), "PointerToMemberType", "", 2)

ElaboratedSpecifiers == [s |-> "struct", u |-> "union", e |-> "enum"]

parseClassEnumType(st) ==
    IF look(st, 0) = "T" /\ look(st, 1) \in DOMAIN ElaboratedSpecifiers
    THEN Make(parsePlainName(Skip(st, 2)), "ElaboratedTypeSpefType", ElaboratedSpecifiers[look(st, 1)], 1)
    ELSE parsePlainName(st)

parseQualifiedType(st) ==
    LET vendor == parseBareSourceName(Skip(st, 1))
        quals == Qualifiers(st)
        type == Parse("Type", parseCVQualifiers(st))
    IN  CASE Ahead(st, <<"U">>) ->
               Make(Parse("QualifiedType", vendor),
                    IF look(st, 1) \in Protocols THEN "ObjCProtoName" ELSE "VendorExtQualType", look(st, 1), 1)
          [] quals # "" -> Make(type, "QualType", quals, 1)
          [] OTHER -> type

\* Template arguments follow a template-template parameter or substitution.
WithTypeArgs(st) == IF st.tryArgs /\ Ahead(st, <<"I">>) THEN WithArgs(st, FALSE) ELSE st

TypeAtT(st) ==
    IF look(st, 1) \in DOMAIN ElaboratedSpecifiers THEN parseClassEnumType(st)
                                                   ELSE WithTypeArgs(parseTemplateParam(st))

\* Dd, De, ... are built in; the others are types of their own.
TypeAtD(st) ==
    CASE look(st, 1) \in {"t", "T"} -> Parse("Decltype", st)
      [] look(st, 1) = "v" -> parseVectorType(st)
      [] look(st, 1) = "p" -> Make(Parse("Type", Skip(st, 2)), "ParameterPackExpansion", "", 1)
      [] look(st, 1) \in {"o", "O", "w", "x"} -> parseFunctionType(st)
      [] OTHER -> Fail(st)

PrefixedTypes == [P |-> <<"PointerType", "">>, R |-> <<"ReferenceType", "&">>, O |-> <<"ReferenceType", "&&">>,
                  C |-> <<"PostfixQualifiedType", " complex">>, G |-> <<"PostfixQualifiedType", " imaginary">>]

\* Mutant: such a type is entered here and once more where every type is entered.
TypeAtPrefixTwice(st) ==
    Remember(Make(Parse("Type", Skip(st, 1)), PrefixedTypes[look(st, 0)][1], PrefixedTypes[look(st, 0)][2], 1))

TypeAtPrefix(st) ==
    Make(Parse("Type", Skip(st, 1)), PrefixedTypes[look(st, 0)][1], PrefixedTypes[look(st, 0)][2], 1)

\* A substitution alone is not entered again.
TypeAtS(st) ==
    LET sub == parseSubstitution(st)
    IN  IF st.tryArgs /\ Ahead(sub, <<"I">>) THEN Remember(WithArgs(sub, FALSE)) ELSE sub

\* Built-in types are not entered in the substitution table.
parseType(st) ==
    LET c == look(st, 0)
        after == QualifiersFrom(st, 0)
        function == \/ look(st, after) = "F"
                    \/ look(st, after) = "D" /\ look(st, after + 1) \in {"o", "O", "w", "x"}
    IN  CASE c \in {"r", "V", "K"} ->
               Remember(IF function THEN parseFunctionType(st) ELSE Parse("QualifiedType", st))
          [] c \in DOMAIN BuiltinTypes -> Skip(Push(st, Node("NameType", BuiltinTypes[c], <<>>)), 1)
          [] c = "u" -> Push(parseBareSourceName(Skip(st, 1)), NodeAt("NameType", look(st, 1), st.p + 1, <<>>))
          [] c = "D" /\ look(st, 1) \in DOMAIN BuiltinDTypes ->
               Skip(Push(st, Node("NameType", BuiltinDTypes[look(st, 1)], <<>>)), 2)
          [] c = "S" /\ look(st, 1) \notin {"", "t"} -> TypeAtS(st)
          [] OTHER -> Remember(CASE c = "U" -> Parse("QualifiedType", st)
                                 [] c = "D" -> TypeAtD(st)
                                 [] c = "F" -> parseFunctionType(st)
                                 [] c = "A" -> parseArrayType(st)
                                 [] c = "M" -> parsePointerToMemberType(st)
                                 [] c = "T" -> TypeAtT(st)
                                 [] c \in DOMAIN PrefixedTypes -> TypeAtPrefix(st)
                                 [] OTHER -> parseClassEnumType(st))

(***************************************************************************)
(* Expressions and the names they leave unresolved.                        *)
(***************************************************************************)
parseSimpleId(st) ==
    LET n == parseSourceName(st) IN IF Ahead(n, <<"I">>) THEN WithArgs(n, FALSE) ELSE n

parseUnresolvedType(st) ==
    CASE Ahead(st, <<"T">>) -> Remember(parseTemplateParam(st))
      [] Ahead(st, <<"D">>) -> Remember(Parse("Decltype", st))
      [] OTHER -> parseSubstitution(st)

parseDestructorName(st) ==
    Make(IF Digit(look(st, 0)) THEN parseSimpleId(st) ELSE parseUnresolvedType(st), "DtorName", "", 1)

parseBaseUnresolvedName(st) ==
    LET operator == parseOperatorName([consumeIf(st, <<"o", "n">>) EXCEPT !.ns = NoState])
        named == [operator EXCEPT !.ns = st.ns]
    IN  CASE Digit(look(st, 0)) -> parseSimpleId(st)
          [] Ahead(st, <<"d", "n">>) -> parseDestructorName(Skip(st, 2))
          [] OTHER -> IF Ahead(named, <<"I">>) THEN WithArgs(named, FALSE) ELSE named

\* <simple-id>s up to E, each qualified by what is on the stack.
LevelLoop(st) ==
    IF ~st.ok \/ Ahead(st, <<"E">>) THEN Need(st, <<"E">>)
    ELSE LevelLoop(Make(parseSimpleId(st), "QualifiedName", "", 2))

parseUnresolvedName(before) ==
    LET global == Ahead(before, <<"g", "s">>)
        st == consumeIf(before, <<"g", "s">>)
        globally(r) == IF global THEN Make(r, "GlobalQualifiedName", "", 1) ELSE r
        type(r) == LET t == parseUnresolvedType(r) IN IF Ahead(t, <<"I">>) THEN WithArgs(t, FALSE) ELSE t
        qualified(r) == Make(parseBaseUnresolvedName(r), "QualifiedName", "", 2)
    IN  CASE Ahead(before, <<"s", "r", "N">>) -> qualified(LevelLoop(type(Skip(before, 3))))
          [] ~Ahead(st, <<"s", "r">>) -> globally(parseBaseUnresolvedName(st))
          [] Ahead(st, <<"s", "r">>) /\ Digit(look(st, 2)) ->
               qualified(LevelLoop(globally(parseSimpleId(Skip(st, 2)))))
          [] OTHER -> qualified(type(Skip(st, 2)))

parsePrefixExpr(st, kind) == Make(Parse("Expr", st), "PrefixExpr", kind, 1)

parseBinaryExpr(st, kind) == Make(Parse("Expr", Parse("Expr", st)), "BinaryExpr", kind, 2)

parseIntegerLiteral(st, type) ==
    Push(Need(NeedNumber(st, TRUE), <<"E">>), Node("IntegerLiteral", type \o NumberAt(st, TRUE), <<>>))

\* The data of a floating-point literal is one token.
parseFloatingLiteral(st) ==
    Push(Need(NeedNumber(st, FALSE), <<"E">>), Node("FloatLiteral", look(st, 0), <<>>))

parseFunctionParam(st) ==
    LET outer == Need(NeedNumber(Need(st, <<"f", "L">>), FALSE), <<"p">>)
        s == parseCVQualifiers(IF Ahead(st, <<"f", "p">>) THEN Skip(st, 2) ELSE outer)
    IN  Push(Need(parseNumber(s, FALSE), <<"_">>), Node("FunctionParam", NumberAt(s, FALSE), <<>>))

\* The list of expressions and the list of initializers are kept apart by
\* how the node is named: with or without initializers.
parseNewExpr(before) ==
    LET st == consumeIf(before, <<"g", "s">>)
        global == IF Ahead(before, <<"g", "s">>) THEN "::" ELSE ""
        s == IF Ahead(st, <<"n", "w">>) THEN Skip(st, 2) ELSE Need(st, <<"n", "a">>)
        array == IF look(st, 1) = "a" THEN "[]" ELSE ""
        type == Parse("Type", Until(s, "Expr", <<"_">>))
        name == global \o "new" \o array
    IN  IF Ahead(type, <<"p", "i">>)
        THEN Collect(Until(Skip(type, 2), "Expr", <<"E">>), "NewExpr", name \o "()", Len(st.out))
        ELSE Collect(Need(type, <<"E">>), "NewExpr", name, Len(st.out))

parseConversionExpr(st) ==
    LET type == [Parse("Type", [Need(st, <<"c", "v">>) EXCEPT !.tryArgs = FALSE]) EXCEPT !.tryArgs = st.tryArgs]
    IN  Collect(IF Ahead(type, <<"_">>) THEN Until(Skip(type, 1), "Expr", <<"E">>) ELSE Parse("Expr", type),
                "ConversionExpr", "", Len(st.out))

LiteralTypes ==
    [w |-> "wchar_t", c |-> "char", a |-> "signed char", h |-> "unsigned char", s |-> "short",
     t |-> "unsigned short", i |-> "", j |-> "u", l |-> "l", m |-> "ul", x |-> "ll", y |-> "ull",
     n |-> "__int128", o |-> "unsigned __int128"]

parseNamedLiteral(st) ==
    LET type == Parse("Type", st)
        number == NumberAt(type, FALSE)
    IN  IF number = "" THEN Need(type, <<"E">>)
        ELSE Make(Need(parseNumber(type, FALSE), <<"E">>), "IntegerCastExpr", number, 1)

parseExprPrimary(st) ==
    LET s == Need(st, <<"L">>)
        c == look(s, 0)
    IN  CASE c = "b" -> Push(Need(Need(Skip(s, 1), <<IF look(s, 1) = "0" THEN "0" ELSE "1">>), <<"E">>),
                             Node("BoolExpr", look(s, 1), <<>>))
          [] c \in DOMAIN LiteralTypes -> parseIntegerLiteral(Skip(s, 1), LiteralTypes[c])
          [] c \in {"f", "d", "e"} -> parseFloatingLiteral(Skip(s, 1))
          [] c = "_Z" -> Need(Parse("Encoding", Skip(s, 1)), <<"E">>)
          [] c \in {"_", "T"} -> Fail(s)
          [] OTHER -> parseNamedLiteral(s)

parseBracedExpr(st) ==
    LET s == Skip(st, 2)
    IN  CASE Ahead(st, <<"d", "i">>) -> Make(Parse("BracedExpr", parseSourceName(s)), "BracedExpr", ".", 2)
          [] Ahead(st, <<"d", "x">>) -> Make(Parse("BracedExpr", Parse("Expr", s)), "BracedExpr", "[]", 2)
          [] Ahead(st, <<"d", "X">>) ->
               Make(Parse("BracedExpr", Parse("Expr", Parse("Expr", s))), "BracedRangeExpr", "", 3)
          [] OTHER -> Parse("Expr", st)

FoldOperators ==
    [aa |-> "&&", an |-> "&", aN |-> "&=", aS |-> "=", cm |-> ",", ds |-> ".*", dv |-> "/", dV |-> "/=",
     eo |-> "^", eO |-> "^=", eq |-> "==", ge |-> ">=", gt |-> ">", le |-> "<=", ls |-> "<<",
     lS |-> "<<=", lt |-> "<", mi |-> "-", mI |-> "-=", ml |-> "*", mL |-> "*=", ne |-> "!=",
     oo |-> "||", or |-> "|", oR |-> "|=", pl |-> "+", pL |-> "+=", rm |-> "%", rM |-> "%=",
     rs |-> ">>", rS |-> ">>="]

\* A left fold names its initializer first: pack and initializer change places.
parseFoldExpr(st) ==
    LET kind == look(st, 1)
        two == look(st, 2) \o look(st, 3)
        pack == Parse("Expr", Skip(st, 4))
        both == Parse("Expr", pack)
        swapped == [both EXCEPT !.out = SubSeq(@, 1, Len(@) - 2) \o <<Last(@), @[Len(@) - 1]>>]
    IN  CASE ~(look(st, 0) = "f" /\ kind \in {"l", "r", "L", "R"} /\ two \in DOMAIN FoldOperators) -> Fail(st)
          [] kind \in {"l", "r"} -> Make(pack, "FoldExpr", kind \o FoldOperators[two], 1)
          [] kind = "R" -> Make(both, "FoldExpr", "r" \o FoldOperators[two], 2)
          [] OTHER -> IF both.ok THEN Make(swapped, "FoldExpr", "l" \o FoldOperators[two], 2) ELSE both

Enclosing(st, name) == Make(st, "EnclosingExpr", name, 1)

Cast(st, name) == Make(Parse("Expr", Parse("Type", Skip(st, 2))), "CastExpr", name, 2)

Member(st, name) == Make(Parse("Expr", Parse("Expr", Skip(st, 2))), "MemberExpr", name, 2)

\* pp and mm: prefix when followed by _
Step(st, name) ==
    IF look(st, 2) = "_" THEN parsePrefixExpr(Skip(st, 3), name)
                         ELSE Make(Parse("Expr", Skip(st, 2)), "PostfixExpr", name, 1)

\* The operators of parseExpr by their first letter; two are the first two
\* letters and global says that gs was read before them.
ExprAToC(st, two) ==
    LET s == Skip(st, 2)
        Binary == [aa |-> "&&", an |-> "&", aN |-> "&=", aS |-> "=", cm |-> ","]
        Prefix == [ad |-> "&", co |-> "~"]
    IN  CASE two \in DOMAIN Binary -> parseBinaryExpr(s, Binary[two])
          [] two \in DOMAIN Prefix -> parsePrefixExpr(s, Prefix[two])
          [] two = "at" -> Enclosing(Parse("Type", s), "alignof")
          [] two = "az" -> Enclosing(Parse("Expr", s), "alignof")
          [] two = "cc" -> Cast(st, "const_cast")
          [] two = "cl" -> Collect(Until(Parse("Expr", s), "Expr", <<"E">>), "CallExpr", "", Len(st.out))
          [] two = "cv" -> parseConversionExpr(st)
          [] OTHER -> Fail(st)

ExprD(st, two, global) ==
    LET s == Skip(st, 2)
        delete(name) == Make(Parse("Expr", s), "DeleteExpr", (IF global THEN "::" ELSE "") \o name, 1)
    IN  CASE two = "da" -> delete("delete[]")
          [] two = "dl" -> delete("delete")
          [] two = "dc" -> Cast(st, "dynamic_cast")
          [] two = "de" -> parsePrefixExpr(s, "*")
          [] two = "dn" -> Parse("UnresolvedName", st)
          [] two = "ds" -> Member(st, ".*")
          [] two = "dt" -> Member(st, ".")
          [] two = "dv" -> parseBinaryExpr(s, "/")
          [] two = "dV" -> parseBinaryExpr(s, "/=")
          [] OTHER -> Fail(st)

ExprEToI(st, two) ==
    LET s == Skip(st, 2)
        Binary == [eo |-> "^", eO |-> "^=", eq |-> "==", ge |-> ">=", gt |-> ">"]
    IN  CASE two \in DOMAIN Binary -> parseBinaryExpr(s, Binary[two])
          [] two = "ix" -> Make(Parse("Expr", Parse("Expr", s)), "ArraySubscriptExpr", "", 2)
          [] two = "il" -> Collect(Until(s, "BracedExpr", <<"E">>), "InitListExpr", "", Len(st.out))
          [] OTHER -> Fail(st)

ExprLToO(st, two) ==
    LET s == Skip(st, 2)
        Binary == [le |-> "<=", ls |-> "<<", lS |-> "<<=", lt |-> "<", mi |-> "-", mI |-> "-=", ml |-> "*",
                   mL |-> "*=", ne |-> "!=", oo |-> "||", or |-> "|", oR |-> "|="]
        Prefix == [ng |-> "-", nt |-> "!"]
    IN  CASE two \in DOMAIN Binary -> parseBinaryExpr(s, Binary[two])
          [] two \in DOMAIN Prefix -> parsePrefixExpr(s, Prefix[two])
          [] two = "mm" -> Step(st, "--")
          [] two \in {"na", "nw"} -> parseNewExpr(st)
          [] two = "nx" -> Enclosing(Parse("Expr", s), "noexcept")
          [] two = "on" -> Parse("UnresolvedName", st)
          [] OTHER -> Fail(st)

ExprPToR(st, two) ==
    LET s == Skip(st, 2)
        Binary == [pm |-> "->*", pl |-> "+", pL |-> "+=", rm |-> "%", rM |-> "%=", rs |-> ">>", rS |-> ">>="]
    IN  CASE two \in DOMAIN Binary -> parseBinaryExpr(s, Binary[two])
          [] two = "pp" -> Step(st, "++")
          [] two = "ps" -> parsePrefixExpr(s, "+")
          [] two = "pt" -> Member(st, "->")
          [] two = "qu" -> Make(Parse("Expr", Parse("Expr", Parse("Expr", s))), "ConditionalExpr", "", 3)
          [] two = "rc" -> Cast(st, "reinterpret_cast")
          [] OTHER -> Fail(st)

ExprS(st, two) ==
    LET s == Skip(st, 2)
        pack == Collect(Until(s, "TemplateArg", <<"E">>), "NodeArrayNode", "", Len(st.out))
    IN  CASE two = "sc" -> Cast(st, "static_cast")
          [] two = "sp" -> Make(Parse("Expr", s), "ParameterPackExpansion", "", 1)
          [] two = "sr" -> Parse("UnresolvedName", st)
          [] two = "st" -> Enclosing(Parse("Type", s), "sizeof")
          [] two = "sz" -> Enclosing(Parse("Expr", s), "sizeof")
          [] two = "sZ" /\ look(st, 2) = "T" -> Make(parseTemplateParam(s), "SizeofParamPackExpr", "", 1)
          [] two = "sZ" /\ look(st, 2) = "f" -> Enclosing(parseFunctionParam(s), "sizeof...")
          [] two = "sP" -> Enclosing(pack, "sizeof...")
          [] OTHER -> Fail(st)

ExprT(st, two) ==
    LET s == Skip(st, 2)
    IN  CASE two = "te" -> Enclosing(Parse("Expr", s), "typeid")
          [] two = "ti" -> Enclosing(Parse("Type", s), "typeid")
          [] two = "tl" ->
               Collect(Until(Parse("Type", s), "BracedExpr", <<"E">>), "InitListExpr", "typed", Len(st.out))
          [] two = "tr" -> Push(s, Node("NameType", "throw", <<>>))
          [] two = "tw" -> Make(Parse("Expr", s), "ThrowExpr", "", 1)
          [] OTHER -> Fail(st)

\* What gs says is heard by delete expressions only: the functions that read
\* names and new expressions look for gs again, after it is consumed.
parseExpr(before) ==
    LET st == consumeIf(before, <<"g", "s">>)
        c == look(st, 0)
        two == c \o look(st, 1)
    IN  CASE numLeft(st) < 2 -> Fail(st)
          [] c = "L" -> Parse("ExprPrimary", st)
          [] c = "T" -> parseTemplateParam(st)
          [] c = "f" -> IF look(st, 1) = "p" \/ (look(st, 1) = "L" /\ Digit(look(st, 2)))
                        THEN parseFunctionParam(st) ELSE parseFoldExpr(st)
          [] c \in {"a", "c"} -> ExprAToC(st, two)
          [] c = "d" -> ExprD(st, two, Ahead(before, <<"g", "s">>))
          [] c \in {"e", "g", "i"} -> ExprEToI(st, two)
          [] c \in {"l", "m", "n", "o"} -> ExprLToO(st, two)
          [] c \in {"p", "q", "r"} -> ExprPToR(st, two)
          [] c = "s" -> ExprS(st, two)
          [] c = "t" -> ExprT(st, two)
          [] Digit(c) -> Parse("UnresolvedName", st)
          [] OTHER -> Fail(st)

(***************************************************************************)
(* Encodings and whole names.                                              *)
(***************************************************************************)
parseCallOffset(st) ==
    CASE Ahead(st, <<"h">>) -> Need(NeedNumber(Skip(st, 1), TRUE), <<"_">>)
      [] Ahead(st, <<"v">>) ->
           Need(NeedNumber(Need(NeedNumber(Skip(st, 1), TRUE), <<"_">>), TRUE), <<"_">>)
      [] OTHER -> Fail(st)

SpecialTypes == [V |-> "vtable for ", T |-> "VTT for ", I |-> "typeinfo for ", S |-> "typeinfo name for "]

SpecialObjects == [W |-> "thread-local wrapper routine for ", H |-> "thread-local initialization routine for "]

SpecialAtT(st) ==
    LET c == look(st, 1)
        s == Skip(st, 2)
        special(r, name) == Make(r, "SpecialName", name, 1)
        first == Need(NeedNumber(Parse("Type", s), TRUE), <<"_">>)
    IN  CASE c \in DOMAIN SpecialTypes -> special(Parse("Type", s), SpecialTypes[c])
          [] c \in DOMAIN SpecialObjects -> special(parsePlainName(s), SpecialObjects[c])
          [] c = "c" ->
               special(Parse("Encoding", parseCallOffset(parseCallOffset(s))), "covariant return thunk to ")
          [] c = "C" -> Make(Parse("Type", first), "CtorVtableSpecialName", "", 2)
          [] OTHER -> special(Parse("Encoding", parseCallOffset(Skip(st, 1))),
                              IF c = "v" THEN "virtual thunk to " ELSE "non-virtual thunk to ")

parseSpecialName(st) ==
    LET name == parsePlainName(Skip(st, 2))
        number == parseSeqId(name)
        after == IF number.ok THEN Need(number, <<"_">>) ELSE consumeIf(name, <<"_">>)
    IN  CASE look(st, 0) = "T" -> SpecialAtT(st)
          [] Ahead(st, <<"G", "V">>) -> Make(name, "SpecialName", "guard variable for ", 1)
          [] Ahead(st, <<"G", "R">>) -> Make(after, "SpecialName", "reference temporary for ", 1)
          [] OTHER -> Fail(st)

IsEndOfEncoding(st) == look(st, 0) \in {"", "E", ".", "_", "_block_invoke"}

EncodingLoop(st) == IF ~st.ok \/ IsEndOfEncoding(st) THEN st ELSE EncodingLoop(Parse("Type", st))

EnableIf == <<"U", "a", "9enable_if", "I">>

\* A function template's return type is part of its name.
parseFunctionEncoding(st, from) ==
    LET attrs == IF Ahead(st, EnableIf)
                 THEN Collect(Until(Skip(st, 4), "TemplateArg", <<"E">>), "EnableIfAttr", "", Len(st.out)) ELSE st
        return == IF ~st.ns.ctor /\ st.ns.endsArgs THEN Parse("Type", attrs) ELSE attrs
        params == IF Ahead(return, <<"v">>) THEN Skip(return, 1) ELSE EncodingLoop(Parse("Type", return))
    IN  Collect(params, "FunctionEncoding", st.ns.cv \o st.ns.ref, from)

parseEncoding(st) ==
    LET name == resolveForwardTemplateRefs(Parse("Name", [st EXCEPT !.ns = NewState]), Len(st.fwd))
        whole == IF IsEndOfEncoding(name) THEN name ELSE parseFunctionEncoding(name, Len(st.out))
    IN  IF look(st, 0) \in {"G", "T"} THEN parseSpecialName(st) ELSE [whole EXCEPT !.ns = st.ns]

Parse(rule, st) ==
    CASE rule = "Name" -> parseName(st)
      [] rule = "Type" -> parseType(st)
      [] rule = "Expr" -> parseExpr(st)
      [] rule = "ExprPrimary" -> parseExprPrimary(st)
      [] rule = "Encoding" -> parseEncoding(st)
      [] rule = "TemplateArg" -> parseTemplateArg(st)
      [] rule = "BracedExpr" -> parseBracedExpr(st)
      [] rule = "QualifiedType" -> parseQualifiedType(st)
      [] rule = "Decltype" -> parseDecltype(st)
      [] rule = "UnresolvedName" -> parseUnresolvedName(st)
      [] rule = "SourceName" -> parseSourceName(st)

\* What follows a dot is left aside.
DotSuffix(st) ==
    IF look(st, 0) = "." THEN [Make(st, "DotSuffix", "", 1) EXCEPT !.p = Len(st.in) + 1] ELSE st

BlockNumber(st) == IF Ahead(st, <<"_">>) THEN NeedNumber(Skip(st, 1), FALSE) ELSE parseNumber(st, FALSE)

Block(st) ==
    Make(IF look(st, 0) = "." THEN [st EXCEPT !.p = Len(st.in) + 1] ELSE st,
         "SpecialName", "invocation function for block in ", 1)

\* All of the name must be used up.
Whole(st) == IF st.ok /\ numLeft(st) = 0 THEN st ELSE Fail(st)

\* The rest of a name that starts with this token: _Z, blocks, and bare types
Rest(first, st) ==
    Whole(CASE first \in {"_Z", "__Z"} -> DotSuffix(st)
            [] first \in {"___Z", "____Z"} -> Block(BlockNumber(Need(st, <<"_block_invoke">>)))
            [] OTHER -> st)

parse(name) ==
    LET encoded == look(Start(name), 0) \in {"_Z", "__Z", "___Z", "____Z"}
    IN  Rest(look(Start(name), 0),
             Parse(IF encoded THEN "Encoding" ELSE "Type", Skip(Start(name), IF encoded THEN 1 ELSE 0)))
=============================================================================
