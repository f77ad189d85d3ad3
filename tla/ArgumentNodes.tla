--------------------------- MODULE ArgumentNodes ---------------------------
(***************************************************************************)
(* The metadata nodes of an entry point's arguments and outputs            *)
(* (EntryPoint.cpp). Each argument has a node with its name and its        *)
(* details, and the entry point has a tuple of those nodes. All of them are*)
(* uniqued by LLVM: asking for a node of given contents finds the one there*)
(* is, and the setters change such nodes in place, whoever shares them.    *)
(*                                                                         *)
(* Outputs are like arguments, but for two things: an output's node has no *)
(* position in it, and outputs that are read from metadata do not remember *)
(* their place in the tuple. A behaviour is about arguments or, if not     *)
(* numbered, about outputs; they share neither nodes nor tuples.           *)
(***************************************************************************)
EXTENDS Naturals, Sequences, FiniteSets

CONSTANTS EntryPoints,    \* addresses of entry points
          Size,           \* arguments of each
          Texts,          \* names and type names that callers give
          Files,          \* arguments in files: their names and details
          MaxNodes,       \* bound: nodes that are made, with careful callers
          MaxLooseNodes,  \* and with others
          MaxTuples       \* bound: tuples that are made

ASSUME SizeAssumption == Size \in Nat \ {0}

VARIABLES numbered,       \* arguments, or outputs
          careful,        \* whether callers follow the protocol below
          nodes,          \* the nodes of arguments in the context
          tuples,         \* the tuples of nodes in the context
          points,         \* the entry points
          wanted,         \* what careful callers asked for
          stage           \* and how far they have got with each argument

vars == <<numbered, careful, nodes, tuples, points, wanted, stage>>

Index == 1 .. Size

\* The name of what was not named yet.
NoName == ""

\* The places that a file may give to the arguments.
Orders == {slot \in [Index -> Index] : \A i, j \in Index : slot[i] = slot[j] => i = j}

----------------------------------------------------------------------------
(* LLVM's uniqued nodes. A store is the sequence of nodes made so far.     *)

Found(store, c) == {k \in DOMAIN store : store[k].uniqued /\ store[k].contents = c}

\* MDTuple::get
Get(store, c) ==
    IF Found(store, c) # {} THEN store
    ELSE Append(store, [contents |-> c, uniqued |-> TRUE])

Got(store, c) == CHOOSE k \in DOMAIN store : k \in Found(store, c)

GetAll(store, cs) ==
    LET after[k \in 0 .. Size] == IF k = 0 THEN store ELSE Get(after[k - 1], cs[k])
    IN  after[Size]

\* MDNode::replaceOperandWith: the node changes where it is. If there is a
\* node of the new contents already, this one is no longer uniqued.
Replaced(store, k, c) ==
    IF store[k].contents = c THEN store
    ELSE [store EXCEPT ![k] =
            [contents |-> c, uniqued |-> store[k].uniqued /\ Found(store, c) = {}]]

----------------------------------------------------------------------------
(* What a node says of an argument: "texture" stands for the alternatives  *)
(* that are read only if all keywords are known (buffers, textures, depth, *)
(* render targets), "position" for those with an interpolation, which has  *)
(* a default (positions, fragment inputs, vertex outputs).                 *)

Detail(tag, word) == [tag |-> tag, word |-> word]

NoDetails == Detail("none", NoName)

Access         == {"read", "read_write"}
Interpolations == {"center", "flat"}

\* What callers pass to InitDetailsAs...
Details ==
    {Detail("texture", "read"), Detail("position", "flat")}
    \cup (IF numbered THEN {Detail("vertex_input", "identifier")} ELSE {})

\* What the constructors read from a node: with a word of access that is not known
\* there are no details, and an interpolation that is not known is the default.
ParsedAccess(w)        == IF w.word \in Access THEN w ELSE NoDetails
ParsedInterpolation(w) == IF w.word \in Interpolations THEN w ELSE Detail("position", "center")

\* The identifier of a vertex input is read with the outer iterator, which stands
\* at the keyword before it.
Parsed(w) ==
    CASE w.tag = "texture"      -> ParsedAccess(w)
      [] w.tag = "position"     -> ParsedInterpolation(w)
      [] w.tag = "vertex_input" -> Detail("vertex_input", "air.location_index")
      [] OTHER                  -> NoDetails

Contents(i, name, what) ==
    [position |-> IF numbered THEN i ELSE 0, name |-> name, what |-> what]

NodeOf(e, i) == nodes[points[e].node[i]].contents

\* Argument::getName, getTypeName
GetName(c) == IF c.name = "absent" THEN NoName ELSE c.name

----------------------------------------------------------------------------
(* The protocol: entry points are made one after the other, and in each the*)
(* arguments are treated one after the other, details first and then the   *)
(* name; those from files are left as they are.                            *)

NoPoint == [live |-> FALSE]

Live == {e \in EntryPoints : points[e].live}

Finished(e) == points[e].loaded \/ \A i \in Index : stage[e][i] = "named"

MayAppear == careful => \A e \in Live : Finished(e)

MayDescribe(e, i) ==
    careful => /\ ~points[e].loaded
               /\ stage[e][i] = "made"
               /\ \A j \in Index : stage[e][j] # "described"

\* What has been asked of e, and how far the caller has got.
Asked(e, contents, reached) ==
    IF careful
    THEN /\ wanted' = [wanted EXCEPT ![e] = contents]
         /\ stage' = [stage EXCEPT ![e] = reached]
    ELSE UNCHANGED <<wanted, stage>>

MayName(e, i, text) ==
    careful => ~points[e].loaded /\ stage[e][i] = "described" /\ text # NoName

----------------------------------------------------------------------------
Init ==
    /\ numbered \in BOOLEAN
    /\ careful \in BOOLEAN
    /\ nodes = <<>>
    /\ tuples = <<>>
    /\ points = [e \in EntryPoints |-> NoPoint]
    /\ wanted = [e \in EntryPoints |-> <<>>]
    /\ stage = [e \in EntryPoints |-> <<>>]

\* The constructors: nodes of the contents cs, in the order of the tuple, of
\* which the i-th argument has the one at slot[i].
Construct(e, cs, slot, index, loaded) ==
    LET made == GetAll(nodes, cs)
        row  == [k \in Index |-> Got(made, cs[k])]
    IN  /\ nodes' = made
        /\ tuples' = Get(tuples, row)
        /\ points' = [points EXCEPT ![e] =
              [live    |-> TRUE,
               loaded  |-> loaded,
               node    |-> [i \in Index |-> row[slot[i]]],
               index   |-> index,
               details |-> [i \in Index |-> Parsed(cs[slot[i]].what)],
               tuple   |-> Got(Get(tuples, row), row)]]
        /\ Asked(e, [i \in Index |-> cs[slot[i]]], [i \in Index |-> "made"])

\* EntryPoint(kind, function, module), and outputs in the derived classes.
Create(e) ==
    /\ e \notin Live
    /\ MayAppear
    /\ LET cs   == [i \in Index |-> Contents(i, NoName, NoDetails)]
           same == [i \in Index |-> i]
       IN  Construct(e, cs, same, same, FALSE)
    /\ UNCHANGED <<numbered, careful>>

\* Mutants: the place in the tuple is not kept for arguments either; ++index is
\* written for index++.
LoadedIndexFirst(slot) == [i \in Index |-> 1]
\* d_md_index after loading: the constructor sets it for arguments, for outputs
\* it stays at its initial value, that of the first.
LoadedIndex(slot) == IF numbered THEN slot ELSE [i \in Index |-> 1]

\* EntryPoint(kind, md, module): the tuple of a file lists arguments in any order,
\* and the constructor sorts them.
Load(e) ==
    /\ e \notin Live
    /\ MayAppear
    /\ \E file \in Files, slot \in Orders :
          LET cs == [k \in Index |->
                       LET i == CHOOSE i \in Index : slot[i] = k
                       IN  Contents(i, file[i].name, file[i].what)]
          IN  /\ ~numbered => \A i \in Index : slot[i] = i /\ file[i].what.tag # "vertex_input"
              /\ Construct(e, cs, slot, LoadedIndex(slot), TRUE)
    /\ UNCHANGED <<numbered, careful>>

\* setName, setTypeName: no effect on a node without the keyword.
SetName(e, i, text) ==
    /\ e \in Live
    /\ MayName(e, i, text)
    /\ LET c == NodeOf(e, i)
       IN  /\ nodes' = IF c.name = "absent" THEN nodes
                       ELSE Replaced(nodes, points[e].node[i], [c EXCEPT !.name = text])
           /\ Asked(e, [wanted[e] EXCEPT ![i].name = text], [stage[e] EXCEPT ![i] = "named"])
    /\ UNCHANGED <<numbered, careful, tuples, points>>

\* Mutants: the new node has no name; the keywords of access are swapped.
DescribedUnnamed(e, i, d) == Contents(i, NoName, d)
DescribedSwapped(e, i, d) ==
    Contents(i, GetName(NodeOf(e, i)),
             IF d = Detail("texture", "read") THEN Detail("texture", "read_write") ELSE d)

\* The contents InitDetailsAs... writes: the name and the type name stay.
Described(e, i, d) == Contents(i, GetName(NodeOf(e, i)), d)

\* Mutant: the tuple is left as it was.
TuplesAsTheyWere(e, i, k) == tuples

\* updateArgumentMetadata, updateOutputMetadata
UpdatedTuples(e, i, k) ==
    LET t == points[e].tuple
    IN  Replaced(tuples, t, [tuples[t].contents EXCEPT ![points[e].index[i]] = k])

\* InitDetailsAsBuffer, ...AsTexture and so on.
Describe(e, i, d) ==
    /\ LET c == Described(e, i, d)
           k == Got(Get(nodes, c), c)
       IN  /\ nodes' = Get(nodes, c)
           /\ tuples' = UpdatedTuples(e, i, k)
           /\ points' = [points EXCEPT ![e].node[i] = k, ![e].details[i] = d]
           /\ Asked(e, [wanted[e] EXCEPT ![i] = c], [stage[e] EXCEPT ![i] = "described"])

\* InitDetailsAsVertexInput: "TODO", no metadata is written.
DescribeVertexInput(e, i, d) ==
    /\ points' = [points EXCEPT ![e].details[i] = d]
    /\ Asked(e, [wanted[e] EXCEPT ![i].what = d], [stage[e] EXCEPT ![i] = "described"])
    /\ UNCHANGED <<nodes, tuples>>

InitDetails(e, i, d) ==
    /\ e \in Live
    /\ MayDescribe(e, i)
    /\ IF d.tag = "vertex_input" THEN DescribeVertexInput(e, i, d) ELSE Describe(e, i, d)
    /\ UNCHANGED <<numbered, careful>>

\* ~EntryPoint. The context keeps the nodes.
Delete(e) ==
    /\ e \in Live
    /\ points' = [points EXCEPT ![e] = NoPoint]
    /\ Asked(e, <<>>, <<>>)
    /\ UNCHANGED <<numbered, careful, nodes, tuples>>

WithinBound ==
    /\ Len(nodes') <= IF careful THEN MaxNodes ELSE MaxLooseNodes
    /\ Len(tuples') <= MaxTuples

Next ==
    /\ \E e \in EntryPoints :
          \/ Create(e) \/ Load(e) \/ Delete(e)
          \/ \E i \in Index, text \in Texts : SetName(e, i, text)
          \/ \E i \in Index, d \in Details : InitDetails(e, i, d)
    /\ WithinBound

Spec == Init /\ [][Next]_vars

----------------------------------------------------------------------------
\* An argument's d_details say what its node says, as a reader of the bitcode will
\* understand it, although nodes are shared and changed in place. Vertex inputs
\* are the exception: their details are not written.
DetailsMatchNodes ==
    \A e \in Live, i \in Index :
        points[e].details[i].tag # "vertex_input" =>
            points[e].details[i] = Parsed(NodeOf(e, i).what)

\* The place of an argument in the tuple is always held by a node of that
\* argument's number, whatever shares the tuple and however a file had ordered it.
PositionsStay ==
    numbered => \A e \in Live, i \in Index :
        nodes[tuples[points[e].tuple].contents[points[e].index[i]]].contents.position = i

\* Giving an argument its details changes no name, neither its own nor another's.
DescribingKeepsNames ==
    [][\A e \in Live : points'[e].live /\ points'[e].node # points[e].node =>
          \A f \in Live, j \in Index : GetName(NodeOf(f, j))' = GetName(NodeOf(f, j))]_vars

\* Where an entry point's tuple has the i-th argument or output.
Slot(e, i) == IF numbered THEN points[e].index[i] ELSE i

\* What InitDetailsAs... writes of what a caller asks for: of a vertex input,
\* nothing.
Written(w) == IF w.what.tag = "vertex_input" THEN [w EXCEPT !.what = NoDetails] ELSE w

Expected(e, i) == IF points[e].loaded THEN wanted[e][i] ELSE Written(wanted[e][i])

\* The arguments of which a careful caller can be sure. One that a file leaves
\* without a name shares its node with a new one of the same contents, and is
\* renamed with it (setName).
Sure(e, i) == points[e].loaded => wanted[e][i].name # NoName

\* Callers that follow the protocol get what they asked for: the tuples hold, for
\* every argument of every entry point, the name and the details it was given,
\* although nodes of equal contents are shared. Without the protocol they do not.
\* With it there are two exceptions: a vertex input that was described has a name
\* but no details in its node, and an argument that came from a file without a
\* name may have changed.
CarefulUseIsSafe ==
    careful => \A e \in Live, i \in Index : Sure(e, i) =>
        nodes[tuples[points[e].tuple].contents[Slot(e, i)]].contents = Expected(e, i)
=============================================================================
