------------------------ MODULE ArgumentNodesProofs ------------------------
(***************************************************************************)
(* Proofs about ArgumentNodes, for every number of arguments, every file   *)
(* and every order of calls. LLVM's stores only grow, and the setters that *)
(* change a node in place change its name only; so what was found once     *)
(* stays found, and sharing can do harm through names alone.               *)
(***************************************************************************)
EXTENDS ArgumentNodes, FiniteSetTheorems, FunctionTheorems, WellFoundedInduction, TLAPS

\* The names and the details there can be.
AllNames == Texts \cup {file[i].name : file \in Files, i \in Index} \cup {NoName}

AllWords ==
    {file[i].what : file \in Files, i \in Index} \cup
    {NoDetails, Detail("texture", "read"), Detail("position", "flat"), Detail("position", "center"),
     Detail("vertex_input", "identifier"), Detail("vertex_input", "air.location_index")}

AllContents == [position : Nat, name : AllNames, what : AllWords]

\* The stores whose nodes have contents in C.
Stores(C) == Seq([contents : C, uniqued : BOOLEAN])

Points ==
    {NoPoint} \cup
    [live : {TRUE}, loaded : BOOLEAN, node : [Index -> Nat], index : [Index -> Index],
     details : [Index -> AllWords], tuple : Nat]

Types ==
    /\ numbered \in BOOLEAN /\ careful \in BOOLEAN
    /\ nodes \in Stores(AllContents) /\ tuples \in Stores([Index -> Nat])
    /\ points \in [EntryPoints -> Points]

\* No reference leads nowhere.
References ==
    /\ \A t \in 1 .. Len(tuples), i \in Index : tuples[t].contents[i] \in 1 .. Len(nodes)
    /\ \A e \in Live : /\ \A i \in Index : points[e].node[i] \in 1 .. Len(nodes)
                       /\ points[e].tuple \in 1 .. Len(tuples)

\* The tuple of e.
Row(e) == tuples[points[e].tuple].contents

DetailsOfNodes == Types /\ References /\ DetailsMatchNodes

\* The places of an entry point's arguments are all the places.
Places == numbered => \A e \in Live : points[e].index \in Orders

Stages == {"made", "described", "named"}

\* How far the caller of a careful entry point has got shows in its nodes: it is
\* only those without a name that change.
Progress(e, i) ==
    ~points[e].loaded =>
        /\ stage[e][i] = "made" => wanted[e][i].name = NoName /\ wanted[e][i].what = NoDetails
        /\ stage[e][i] = "described" =>
              /\ wanted[e][i].name = NoName /\ wanted[e][i].what # NoDetails
              /\ wanted[e][i].what.tag = "vertex_input" => numbered
        /\ stage[e][i] = "named" => wanted[e][i].name # NoName

Protocol ==
    /\ \A e \in Live : /\ wanted[e] \in [Index -> AllContents] /\ stage[e] \in [Index -> Stages]
                       /\ \A i \in Index : Progress(e, i)
    /\ \A e, f \in Live : ~Finished(e) /\ ~Finished(f) => e = f
    /\ \A e \in Live : ~Finished(e) =>
          /\ \A i \in Index : /\ points[e].index[i] = i
                              /\ tuples[points[e].tuple].contents[i] = points[e].node[i]
          /\ \A i, j \in Index : stage[e][i] = "described" /\ stage[e][j] = "described" => i = j

CarefulInv ==
    careful => /\ DOMAIN wanted = EntryPoints /\ DOMAIN stage = EntryPoints
               /\ Protocol

ArgumentsInv == DetailsOfNodes /\ Places /\ PositionsStay /\ CarefulInv /\ CarefulUseIsSafe

----------------------------------------------------------------------------
(* The stores.                                                             *)

\* A store and a later state of it: nodes keep their places.
Grows(s, t) == 1 .. Len(s) \subseteq 1 .. Len(t) /\ \A k \in 1 .. Len(s) : t[k] = s[k]

LEMMA StoreType ==
    ASSUME NEW C, NEW s \in Stores(C)
    PROVE  /\ Len(s) \in Nat /\ DOMAIN s = 1 .. Len(s)
           /\ \A k \in 1 .. Len(s) : /\ s[k] \in [contents : C, uniqued : BOOLEAN]
                                     /\ s[k].contents \in C /\ s[k].uniqued \in BOOLEAN
  <1> DEFINE R == [contents : C, uniqued : BOOLEAN]
  <1>1. \A x \in R : x.contents \in C /\ x.uniqued \in BOOLEAN
    OBVIOUS
  <1> HIDE DEF R
  <1>2. s \in Seq(R)
    BY DEF Stores, R
  <1>3. Len(s) \in Nat /\ DOMAIN s = 1 .. Len(s) /\ \A k \in 1 .. Len(s) : s[k] \in R
    BY <1>2
  <1>4. \A k \in 1 .. Len(s) : s[k].contents \in C /\ s[k].uniqued \in BOOLEAN
    BY <1>1, <1>3
  <1> QED  BY <1>3, <1>4 DEF R

\* The node of given contents is there after it was asked for, and no other changed.
LEMMA GetStore ==
    ASSUME NEW C, NEW s \in Stores(C), NEW c \in C
    PROVE  /\ Get(s, c) \in Stores(C) /\ Grows(s, Get(s, c)) /\ Found(Get(s, c), c) # {}
  <1>1. /\ Len(s) \in Nat /\ DOMAIN s = 1 .. Len(s)
    BY StoreType
  <1>2. CASE Found(s, c) # {}
    BY <1>1, <1>2 DEF Get, Grows
  <1>3. CASE Found(s, c) = {}
    <2> DEFINE x == [contents |-> c, uniqued |-> TRUE]
               t == Append(s, x)
               R == [contents : C, uniqued : BOOLEAN]
    <2>1. x \in R /\ x.contents = c /\ x.uniqued
      OBVIOUS
    <2>2. Get(s, c) = t
      BY <1>3 DEF Get
    <2> HIDE DEF x, R
    <2>3. s \in Seq(R)
      BY DEF Stores, R
    <2>4. /\ t \in Seq(R) /\ Len(t) = Len(s) + 1 /\ t[Len(s) + 1] = x
          /\ \A k \in 1 .. Len(s) : t[k] = s[k]
          /\ DOMAIN t = 1 .. Len(s) + 1
      BY <1>1, <2>1, <2>3
    <2> HIDE DEF t
    <2>5. Len(s) + 1 \in Found(t, c)
      BY <1>1, <2>1, <2>4 DEF Found
    <2>6. Grows(s, t)
      BY <1>1, <2>4 DEF Grows
    <2>7. t \in Stores(C)
      BY <2>4 DEF Stores, R
    <2> QED  BY <2>2, <2>5, <2>6, <2>7
  <1> QED  BY <1>2, <1>3

LEMMA GotFound ==
    ASSUME NEW C, NEW s \in Stores(C), NEW c, Found(s, c) # {}
    PROVE  Got(s, c) \in 1 .. Len(s) /\ s[Got(s, c)].contents = c /\ Got(s, c) \in Nat
  <1>1. \E k \in DOMAIN s : k \in Found(s, c)
    BY DEF Found
  <1>2. Got(s, c) \in DOMAIN s /\ Got(s, c) \in Found(s, c)
    BY <1>1, Zenon DEF Got
  <1> QED  BY <1>2, StoreType DEF Found

LEMMA GrowsFurther ==
    ASSUME NEW C, NEW s \in Stores(C), NEW t \in Stores(C), Grows(s, t)
    PROVE  /\ \A c : Found(s, c) # {} => Found(t, c) # {}
           /\ \A u : Grows(t, u) => Grows(s, u)
  BY StoreType DEF Grows, Found

\* In place: the other nodes stay as they are.
LEMMA ReplacedStore ==
    ASSUME NEW C, NEW s \in Stores(C), NEW k \in 1 .. Len(s), NEW c \in C
    PROVE  /\ Replaced(s, k, c) \in Stores(C) /\ Len(Replaced(s, k, c)) = Len(s)
           /\ Replaced(s, k, c)[k].contents = c
           /\ \A l \in 1 .. Len(s) : l # k => Replaced(s, k, c)[l] = s[l]
  <1> DEFINE R == [contents : C, uniqued : BOOLEAN]
             b == s[k].uniqued /\ Found(s, c) = {}
             x == [contents |-> c, uniqued |-> b]
  <1>1. CASE s[k].contents = c
    BY <1>1 DEF Replaced
  <1>2. CASE s[k].contents # c
    <2>1. Replaced(s, k, c) = [s EXCEPT ![k] = x]
      BY <1>2 DEF Replaced
    <2>2. b \in BOOLEAN
      BY StoreType
    <2> HIDE DEF b
    <2>3. x \in R /\ x.contents = c
      BY <2>2
    <2> HIDE DEF x, R
    <2>4. s \in Seq(R) /\ Len(s) \in Nat
      BY DEF Stores, R
    <2>5. /\ [s EXCEPT ![k] = x] \in Seq(R) /\ Len([s EXCEPT ![k] = x]) = Len(s)
          /\ [s EXCEPT ![k] = x][k] = x
          /\ \A l \in 1 .. Len(s) : l # k => [s EXCEPT ![k] = x][l] = s[l]
      BY <2>3, <2>4
    <2> QED  BY <2>1, <2>3, <2>5 DEF Stores, R
  <1> QED  BY <1>1, <1>2

LEMMA Induction ==
    ASSUME NEW T \in SUBSET Nat, 0 \in T, \A k \in T : k + 1 \in T
    PROVE  T = Nat
  <1> DEFINE R == Nat \ T
  <1> SUFFICES ASSUME R # {} PROVE FALSE
    OBVIOUS
  <1>1. PICK k \in R : \A j \in R : ~(<<j, k>> \in OpToRel(<, Nat))
    BY WFMin, NatLessThanWellFounded, Zenon
  <1>2. k \in Nat /\ k # 0 /\ k - 1 \in Nat /\ k - 1 < k
    OBVIOUS
  <1>3. k - 1 \notin R
    BY <1>1, <1>2 DEF OpToRel
  <1>4. k = (k - 1) + 1
    BY <1>2
  <1> QED  BY <1>2, <1>3, <1>4

Gathering(f, m, s, cs) == f = [k \in 0 .. m |-> IF k = 0 THEN s ELSE Get(f[k - 1], cs[k])]

LEMMA GatheringExists ==
    ASSUME NEW s, NEW cs, NEW n \in Nat
    PROVE  \E f : Gathering(f, n, s, cs)
  <1> DEFINE T == {m \in Nat : \E f : Gathering(f, m, s, cs)}
  <1>1. 0 \in T
    <2> DEFINE f == [k \in 0 .. 0 |-> s]
    <2>1. Gathering(f, 0, s, cs)
      BY DEF Gathering
    <2> HIDE DEF f
    <2> QED  BY <2>1
  <1>2. ASSUME NEW m \in T PROVE m + 1 \in T
    <2>1. PICK f : Gathering(f, m, s, cs)
      OBVIOUS
    <2> DEFINE g == [k \in 0 .. m + 1 |-> IF k = m + 1 THEN Get(f[m], cs[m + 1]) ELSE f[k]]
    <2>2. ASSUME NEW k \in 0 .. m + 1
          PROVE  g[k] = IF k = 0 THEN s ELSE Get(g[k - 1], cs[k])
      <3>1. CASE k = 0
        BY <2>1, <3>1 DEF Gathering
      <3>2. CASE k \in 1 .. m
        <4>1. k \in 0 .. m /\ k # 0 /\ k # m + 1 /\ k - 1 \in 0 .. m + 1 /\ k - 1 # m + 1
          BY <3>2
        <4>2. f[k] = Get(f[k - 1], cs[k])
          BY <2>1, <4>1 DEF Gathering
        <4> QED  BY <4>1, <4>2
      <3>3. CASE k = m + 1
        <4>1. (m + 1) - 1 = m /\ m # m + 1 /\ m \in 0 .. m + 1 /\ m + 1 # 0
          OBVIOUS
        <4> QED  BY <3>3, <4>1
      <3> QED  BY <3>1, <3>2, <3>3
    <2>3. g = [k \in 0 .. m + 1 |-> g[k]]
      OBVIOUS
    <2> HIDE DEF g
    <2>4. g = [k \in 0 .. m + 1 |-> IF k = 0 THEN s ELSE Get(g[k - 1], cs[k])]
      BY <2>2, <2>3
    <2> QED  BY <2>4 DEF Gathering
  <1> HIDE DEF T
  <1>3. T = Nat
    BY <1>1, <1>2, Induction DEF T
  <1> QED  BY <1>3 DEF T

\* Getting several nodes one after the other: the first are still there at the end.
LEMMA GetAllStore ==
    ASSUME NEW C, NEW s \in Stores(C), NEW cs \in [Index -> C]
    PROVE  /\ GetAll(s, cs) \in Stores(C) /\ Grows(s, GetAll(s, cs))
           /\ \A i \in Index : Found(GetAll(s, cs), cs[i]) # {}
  <1> DEFINE after == CHOOSE f : Gathering(f, Size, s, cs)
  <1>1. Size \in Nat
    BY SizeAssumption
  <1>2. GetAll(s, cs) = after[Size]
    BY DEF GetAll, Gathering
  <1>3. Gathering(after, Size, s, cs)
    BY <1>1, GatheringExists, Zenon
  <1> HIDE DEF after
  <1> DEFINE T == {k \in Nat : k <= Size =>
                      /\ after[k] \in Stores(C) /\ Grows(s, after[k])
                      /\ \A i \in 1 .. k : Found(after[k], cs[i]) # {}}
  <1>4. 0 \in T
    <2>1. after[0] = s
      BY <1>1, <1>3 DEF Gathering
    <2>2. Grows(s, s)
      BY DEF Grows
    <2> QED  BY <2>1, <2>2
  <1>5. ASSUME NEW k \in T PROVE k + 1 \in T
    <2> SUFFICES ASSUME k + 1 <= Size
                 PROVE  /\ after[k + 1] \in Stores(C) /\ Grows(s, after[k + 1])
                        /\ \A i \in 1 .. k + 1 : Found(after[k + 1], cs[i]) # {}
      OBVIOUS
    <2>1. /\ k \in Nat /\ k + 1 \in Index /\ cs[k + 1] \in C
          /\ after[k] \in Stores(C) /\ Grows(s, after[k])
          /\ \A i \in 1 .. k : Found(after[k], cs[i]) # {}
      BY <1>1 DEF Index
    <2>2. after[k + 1] = Get(after[k], cs[k + 1])
      <3>1. k + 1 \in 0 .. Size /\ k + 1 # 0 /\ (k + 1) - 1 = k
        BY <1>1, <2>1
      <3> QED  BY <1>3, <3>1 DEF Gathering
    <2> HIDE DEF T
    <2>3. /\ after[k + 1] \in Stores(C) /\ Grows(after[k], after[k + 1])
          /\ Found(after[k + 1], cs[k + 1]) # {}
      BY <2>1, <2>2, GetStore
    <2>4. Grows(s, after[k + 1]) /\ \A c : Found(after[k], c) # {} => Found(after[k + 1], c) # {}
      BY <2>1, <2>3, GrowsFurther
    <2>5. \A i \in 1 .. k + 1 : i \in 1 .. k \/ i = k + 1
      BY <2>1
    <2> QED  BY <2>1, <2>3, <2>4, <2>5
  <1>6. T = Nat
    <2> HIDE DEF T
    <2>1. T \in SUBSET Nat
      BY DEF T
    <2> QED  BY <1>4, <1>5, <2>1, Induction
  <1>7. Size \in T
    BY <1>1, <1>6
  <1> QED  BY <1>1, <1>2, <1>7 DEF Index

----------------------------------------------------------------------------
(* The constructors.                                                       *)

LEMMA ParsedType ==
    ASSUME NEW w \in AllWords
    PROVE  Parsed(w) \in AllWords
  <1>1. /\ NoDetails \in AllWords /\ Detail("position", "center") \in AllWords
        /\ Detail("vertex_input", "air.location_index") \in AllWords
    BY DEF AllWords
  <1> QED  BY <1>1 DEF Parsed, ParsedAccess, ParsedInterpolation

\* What a live entry point consists of.
LEMMA PointType ==
    ASSUME Types, NEW e \in Live
    PROVE  /\ e \in EntryPoints /\ points[e].live /\ points[e].loaded \in BOOLEAN
           /\ points[e].node \in [Index -> Nat] /\ points[e].index \in [Index -> Index]
           /\ points[e].details \in [Index -> AllWords] /\ points[e].tuple \in Nat
           /\ points[e] \in [live : {TRUE}, loaded : BOOLEAN, node : [Index -> Nat],
                             index : [Index -> Index], details : [Index -> AllWords], tuple : Nat]
  <1> DEFINE P == [live : {TRUE}, loaded : BOOLEAN, node : [Index -> Nat],
                   index : [Index -> Index], details : [Index -> AllWords], tuple : Nat]
  <1>1. e \in EntryPoints /\ points[e].live /\ (points[e] = NoPoint \/ points[e] \in P)
    BY DEF Live, Types, Points
  <1>2. points[e] # NoPoint
    BY <1>1 DEF NoPoint
  <1>3. \A p \in P : /\ p.loaded \in BOOLEAN /\ p.node \in [Index -> Nat]
                     /\ p.index \in [Index -> Index] /\ p.details \in [Index -> AllWords]
                     /\ p.tuple \in Nat
    OBVIOUS
  <1> HIDE DEF P
  <1>4. points[e] \in P
    BY <1>1, <1>2
  <1> QED  BY <1>1, <1>3, <1>4 DEF P

\* What a constructor leaves behind.
Constructed(e, cs, slot, index, loaded) ==
    /\ nodes' \in Stores(AllContents) /\ Grows(nodes, nodes')
    /\ tuples' \in Stores([Index -> Nat]) /\ Grows(tuples, tuples')
    /\ points' \in [EntryPoints -> Points]
    /\ \A f \in EntryPoints \ {e} : points'[f] = points[f]
    /\ points'[e].live /\ points'[e].loaded = loaded /\ points'[e].index = index
    /\ points'[e].tuple \in 1 .. Len(tuples')
    /\ \A i \in Index :
          /\ points'[e].details[i] = Parsed(cs[slot[i]].what)
          /\ points'[e].node[i] = Row(e)'[slot[i]]
          /\ Row(e)'[i] \in 1 .. Len(nodes') /\ nodes'[Row(e)'[i]].contents = cs[i]
    /\ \A t \in 1 .. Len(tuples'), i \in Index : tuples'[t].contents[i] \in 1 .. Len(nodes')

LEMMA ConstructEffect ==
    ASSUME DetailsOfNodes, NEW e \in EntryPoints, NEW cs \in [Index -> AllContents],
           NEW slot \in [Index -> Index], NEW index \in [Index -> Index],
           NEW loaded \in BOOLEAN, Construct(e, cs, slot, index, loaded)
    PROVE  Constructed(e, cs, slot, index, loaded)
  <1> DEFINE made == GetAll(nodes, cs)
             row  == [k \in Index |-> Got(made, cs[k])]
             rows == Get(tuples, row)
             at   == Got(rows, row)
             p    == [live |-> TRUE, loaded |-> loaded, node |-> [i \in Index |-> row[slot[i]]],
                      index |-> index, details |-> [i \in Index |-> Parsed(cs[slot[i]].what)],
                      tuple |-> at]
  <1>1. /\ nodes' = made /\ tuples' = rows /\ points' = [points EXCEPT ![e] = p]
    BY DEF Construct
  <1>2. nodes \in Stores(AllContents) /\ tuples \in Stores([Index -> Nat])
        /\ points \in [EntryPoints -> Points]
    BY DEF DetailsOfNodes, Types
  <1>3. /\ made \in Stores(AllContents) /\ Grows(nodes, made)
        /\ \A i \in Index : Found(made, cs[i]) # {}
    BY <1>2, GetAllStore
  <1> HIDE DEF made
  <1>4. \A i \in Index : row[i] \in 1 .. Len(made) /\ row[i] \in Nat /\ made[row[i]].contents = cs[i]
    BY <1>3, GotFound
  <1>5. row \in [Index -> Nat]
    BY <1>4
  <1> HIDE DEF row
  <1>6. /\ rows \in Stores([Index -> Nat]) /\ Grows(tuples, rows) /\ Found(rows, row) # {}
    BY <1>2, <1>5, GetStore
  <1>7. at \in 1 .. Len(rows) /\ at \in Nat /\ rows[at].contents = row
    BY <1>6, GotFound
  <1>8. \A i \in Index : cs[slot[i]].what \in AllWords /\ Parsed(cs[slot[i]].what) \in AllWords
    BY ParsedType DEF AllContents
  <1>9. p \in [live : {TRUE}, loaded : BOOLEAN, node : [Index -> Nat], index : [Index -> Index],
               details : [Index -> AllWords], tuple : Nat]
    <2>1. /\ [i \in Index |-> row[slot[i]]] \in [Index -> Nat]
          /\ [i \in Index |-> Parsed(cs[slot[i]].what)] \in [Index -> AllWords]
      BY <1>5, <1>8
    <2> HIDE DEF at
    <2> QED  BY <1>7, <2>1
  <1>10. /\ p.live /\ p.loaded = loaded /\ p.index = index /\ p.tuple = at
         /\ \A i \in Index : p.details[i] = Parsed(cs[slot[i]].what) /\ p.node[i] = row[slot[i]]
    OBVIOUS
  <1> HIDE DEF p, at, rows
  <1>11. /\ points' \in [EntryPoints -> Points] /\ points'[e] = p
         /\ \A f \in EntryPoints \ {e} : points'[f] = points[f]
    BY <1>1, <1>2, <1>9 DEF Points
  <1>12. ASSUME NEW t \in 1 .. Len(rows), NEW i \in Index
         PROVE  rows[t].contents[i] \in 1 .. Len(made)
    <2>1. Len(nodes) \in Nat /\ 1 .. Len(nodes) \subseteq 1 .. Len(made)
      BY <1>2, <1>3, StoreType DEF Grows
    <2>2. t \in 1 .. Len(tuples) => rows[t] = tuples[t]
      BY <1>6 DEF Grows
    <2>3. CASE t \in 1 .. Len(tuples)
      BY <2>1, <2>2, <2>3 DEF DetailsOfNodes, References
    <2>4. CASE t \notin 1 .. Len(tuples)
      <3>1. rows = Append(tuples, [contents |-> row, uniqued |-> TRUE])
        BY <2>4 DEF rows, Get
      <3>2. tuples \in Seq([contents : [Index -> Nat], uniqued : BOOLEAN]) /\ Len(tuples) \in Nat
        BY <1>2, StoreType DEF Stores
      <3> DEFINE x == [contents |-> row, uniqued |-> TRUE]
      <3>3. x.contents = row
        OBVIOUS
      <3> HIDE DEF x
      <3>4. Len(Append(tuples, x)) = Len(tuples) + 1 /\ Append(tuples, x)[Len(tuples) + 1] = x
        BY <3>2
      <3>5. t = Len(tuples) + 1
        BY <2>4, <3>1, <3>2, <3>4 DEF x
      <3>6. rows[t].contents = row
        BY <3>1, <3>3, <3>4, <3>5 DEF x
      <3> QED  BY <1>4, <3>6
    <2> QED  BY <2>3, <2>4
  <1>13. Row(e)' = row
    BY <1>1, <1>7, <1>10, <1>11 DEF Row
  <1> QED  BY <1>1, <1>3, <1>4, <1>6, <1>7, <1>10, <1>11, <1>12, <1>13 DEF Constructed

\* What an entry point holds that the call is not about, while the stores grow.
LEMMA Kept ==
    ASSUME DetailsOfNodes, Grows(nodes, nodes'), Grows(tuples, tuples'),
           NEW f \in Live, points'[f] = points[f]
    PROVE  /\ f \in Live' /\ \A i \in Index : NodeOf(f, i)' = NodeOf(f, i)
           /\ Row(f)' = Row(f)
           /\ \A i \in Index : Row(f)[i] \in 1 .. Len(nodes) /\ nodes'[Row(f)[i]] = nodes[Row(f)[i]]
           /\ \A i \in Index : points[f].node[i] \in 1 .. Len(nodes')
           /\ points[f].tuple \in 1 .. Len(tuples')
  <1>1. /\ \A i \in Index : points[f].node[i] \in 1 .. Len(nodes)
        /\ points[f].tuple \in 1 .. Len(tuples)
        /\ \A i \in Index : tuples[points[f].tuple].contents[i] \in 1 .. Len(nodes)
    BY DEF DetailsOfNodes, References
  <1>2. f \in Live'
    BY DEF Live
  <1>3. \A i \in Index : NodeOf(f, i)' = NodeOf(f, i)
    BY <1>1 DEF NodeOf, Grows
  <1> QED  BY <1>1, <1>2, <1>3 DEF Grows, Row

\* Of what is not a vertex input everything is written, and of one the name.
LEMMA NothingToWrite ==
    ASSUME NEW w \in AllContents
    PROVE  /\ w.what.tag # "vertex_input" => Written(w) = w
           /\ w.what = NoDetails => Written(w) = w
  BY DEF Written, NoDetails, Detail

LEMMA NameWritten ==
    ASSUME NEW w \in AllContents
    PROVE  /\ Written(w).name = w.name /\ Written(w).position = w.position
           /\ \A text : Written([w EXCEPT !.name = text]) = [Written(w) EXCEPT !.name = text]
  <1>1. CASE w.what.tag # "vertex_input"
    <2>1. \A text : [w EXCEPT !.name = text].what = w.what
      BY DEF AllContents
    <2> QED  BY <1>1, <2>1 DEF Written
  <1>2. CASE w.what.tag = "vertex_input"
    <2>1. Written(w) = [w EXCEPT !.what = NoDetails]
      BY <1>2 DEF Written
    <2>2. \A text : [w EXCEPT !.name = text].what = w.what
      BY DEF AllContents
    <2>3. \A text : Written([w EXCEPT !.name = text]) = [[w EXCEPT !.name = text] EXCEPT !.what = NoDetails]
      BY <1>2, <2>2 DEF Written
    <2>4. \A text : [[w EXCEPT !.name = text] EXCEPT !.what = NoDetails]
                       = [[w EXCEPT !.what = NoDetails] EXCEPT !.name = text]
      BY DEF AllContents
    <2>5. Written(w).name = w.name /\ Written(w).position = w.position
      BY <2>1 DEF AllContents
    <2> QED  BY <2>1, <2>3, <2>4, <2>5
  <1> QED  BY <1>1, <1>2

\* A vertex input that is described leaves the node as it was.
LEMMA VertexInputsUnwritten ==
    ASSUME NEW w \in AllContents, w.what = NoDetails, NEW d, d.tag = "vertex_input"
    PROVE  Written([w EXCEPT !.what = d]) = Written(w)
  <1> DEFINE v == [w EXCEPT !.what = d]
  <1>1. v.what = d /\ [v EXCEPT !.what = NoDetails] = w
    BY DEF AllContents
  <1> HIDE DEF v
  <1>2. Written(v) = w
    BY <1>1 DEF Written
  <1> QED  BY <1>2, NothingToWrite DEF v

\* The name that is expected is the one asked for.
LEMMA ExpectedName ==
    ASSUME NEW e, NEW i, wanted[e][i] \in AllContents
    PROVE  Expected(e, i).name = wanted[e][i].name
  BY NameWritten DEF Expected

LEMMA ConstructStep ==
    ASSUME ArgumentsInv, NEW e \in EntryPoints, e \notin Live, MayAppear,
           NEW cs \in [Index -> AllContents], NEW slot \in Orders,
           NEW index \in [Index -> Index], NEW loaded \in BOOLEAN,
           numbered => index = slot /\ \A i \in Index : cs[slot[i]].position = i,
           ~numbered => \A i \in Index : slot[i] = i,
           ~loaded => \A i \in Index : slot[i] = i /\ index[i] = i,
           careful /\ ~loaded => \A i \in Index : cs[i].name = NoName /\ cs[i].what = NoDetails,
           Construct(e, cs, slot, index, loaded), UNCHANGED <<numbered, careful>>
    PROVE  ArgumentsInv'
  <1>0. DetailsOfNodes /\ slot \in [Index -> Index]
    BY DEF ArgumentsInv, Orders
  <1>1. /\ nodes' \in Stores(AllContents) /\ Grows(nodes, nodes')
        /\ tuples' \in Stores([Index -> Nat]) /\ Grows(tuples, tuples')
        /\ points' \in [EntryPoints -> Points]
        /\ \A f \in EntryPoints \ {e} : points'[f] = points[f]
        /\ points'[e].live /\ points'[e].loaded = loaded /\ points'[e].index = index
        /\ points'[e].tuple \in 1 .. Len(tuples')
        /\ \A i \in Index : /\ points'[e].details[i] = Parsed(cs[slot[i]].what)
                            /\ points'[e].node[i] = Row(e)'[slot[i]]
                            /\ Row(e)'[i] \in 1 .. Len(nodes') /\ nodes'[Row(e)'[i]].contents = cs[i]
        /\ \A u \in 1 .. Len(tuples'), i \in Index : tuples'[u].contents[i] \in 1 .. Len(nodes')
    <2>1. Constructed(e, cs, slot, index, loaded)
      BY <1>0, ConstructEffect, Zenon
    <2> QED  BY <2>1 DEF Constructed
  <1>2. \A i \in Index : slot[i] \in Index /\ cs[i] \in AllContents
    BY <1>0
  <1>3. Live' = Live \cup {e} /\ \A f \in Live : f # e /\ f \in EntryPoints /\ points'[f] = points[f]
    <2>1. \A f \in EntryPoints \ {e} : points'[f] = points[f]
      BY <1>1
    <2>2. \A f \in EntryPoints : f \in Live' <=> f \in Live \/ f = e
      BY <1>1 DEF Live
    <2>3. Live' \subseteq EntryPoints /\ Live \subseteq EntryPoints
      BY DEF Live
    <2> QED  BY <2>1, <2>2, <2>3
  <1>4. \A f \in Live :
           /\ \A i \in Index : NodeOf(f, i)' = NodeOf(f, i)
           /\ Row(f)' = Row(f)
           /\ \A i \in Index : Row(f)[i] \in 1 .. Len(nodes) /\ nodes'[Row(f)[i]] = nodes[Row(f)[i]]
           /\ \A i \in Index : points[f].node[i] \in 1 .. Len(nodes')
           /\ points[f].tuple \in 1 .. Len(tuples')
    BY <1>0, <1>1, <1>3, Kept
  <1>5. \A i \in Index : NodeOf(e, i)' = cs[slot[i]]
    BY <1>1, <1>2 DEF NodeOf
  <1>6. Types'
    BY <1>0, <1>1 DEF DetailsOfNodes, Types
  <1>7. References'
    <2>1. \A i \in Index : points'[e].node[i] \in 1 .. Len(nodes')
      BY <1>1, <1>2
    <2> QED  BY <1>1, <1>3, <1>4, <2>1 DEF References
  <1>8. DetailsMatchNodes'
    <2>1. \A i \in Index : points'[e].details[i] = Parsed(NodeOf(e, i)'.what)
      BY <1>1, <1>5
    <2> QED  BY <1>0, <1>3, <1>4, <2>1 DEF DetailsOfNodes, DetailsMatchNodes
  <1>9. Places'
    BY <1>1, <1>3 DEF ArgumentsInv, Places
  <1>10. PositionsStay'
    <2>1. ASSUME numbered, NEW f \in Live, NEW i \in Index
          PROVE  nodes'[Row(f)'[points'[f].index[i]]].contents.position = i
      <3>1. points[f].index[i] \in Index /\ points'[f] = points[f]
        BY <1>0, <1>3, PointType DEF DetailsOfNodes
      <3>2. nodes[Row(f)[points[f].index[i]]].contents.position = i
        BY <2>1 DEF ArgumentsInv, PositionsStay, Row
      <3> QED  BY <1>4, <3>1, <3>2
    <2>2. ASSUME numbered, NEW i \in Index
          PROVE  nodes'[Row(e)'[points'[e].index[i]]].contents.position = i
      BY <1>1, <1>2, <2>2
    <2> QED  BY <1>3, <2>1, <2>2 DEF PositionsStay, Row
  <1>11. CASE ~careful
    BY <1>6, <1>7, <1>8, <1>9, <1>10, <1>11 DEF ArgumentsInv, DetailsOfNodes, CarefulInv, CarefulUseIsSafe
  <1>12. CASE careful
    <2>1. /\ wanted' = [wanted EXCEPT ![e] = [i \in Index |-> cs[slot[i]]]]
          /\ stage' = [stage EXCEPT ![e] = [i \in Index |-> "made"]]
          /\ DOMAIN wanted = EntryPoints /\ DOMAIN stage = EntryPoints
      BY <1>12 DEF Construct, Asked, ArgumentsInv, CarefulInv
    <2>2. /\ DOMAIN wanted' = EntryPoints /\ DOMAIN stage' = EntryPoints
          /\ \A i \in Index : wanted'[e][i] = cs[slot[i]] /\ stage'[e][i] = "made"
          /\ wanted'[e] \in [Index -> AllContents] /\ stage'[e] \in [Index -> Stages]
          /\ \A f \in Live : wanted'[f] = wanted[f] /\ stage'[f] = stage[f]
      BY <2>1, <1>2, <1>3 DEF Stages
    <2>3. \A f \in Live : Finished(f)' /\ Finished(f)
      BY <1>3, <1>12, <2>2 DEF MayAppear, Finished
    <2>4. \A f \in Live : /\ wanted'[f] \in [Index -> AllContents] /\ stage'[f] \in [Index -> Stages]
                          /\ \A i \in Index : Progress(f, i)'
      BY <1>3, <1>12, <2>2 DEF ArgumentsInv, CarefulInv, Protocol, Progress
    <2>5. \A i \in Index : Progress(e, i)'
      BY <1>1, <1>2, <1>12, <2>2 DEF Progress
    <2>6. ~loaded => \A i \in Index :
             points'[e].index[i] = i /\ Row(e)'[i] = points'[e].node[i]
      BY <1>1
    <2>7. Finished(e)' <=> loaded \/ \A i \in Index : stage'[e][i] = "named"
      BY <1>1 DEF Finished
    <2>8. Protocol'
      BY <1>3, <2>2, <2>3, <2>4, <2>5, <2>6, <2>7 DEF Protocol, Row
    <2>9. CarefulUseIsSafe'
      <3>1. ASSUME NEW f \in Live, NEW i \in Index, Sure(f, i)'
            PROVE  nodes'[Row(f)'[Slot(f, i)']].contents = Expected(f, i)'
        <4>1. Slot(f, i)' = Slot(f, i) /\ Slot(f, i) \in Index
          BY <1>0, <1>3, PointType DEF DetailsOfNodes, Slot
        <4>2. Sure(f, i) /\ Expected(f, i)' = Expected(f, i)
          BY <1>3, <2>2, <3>1 DEF Sure, Expected
        <4>3. nodes[Row(f)[Slot(f, i)]].contents = Expected(f, i)
          BY <1>12, <4>2 DEF ArgumentsInv, CarefulUseIsSafe, Row
        <4> QED  BY <1>4, <4>1, <4>2, <4>3
      <3>2. ASSUME NEW i \in Index
            PROVE  nodes'[Row(e)'[Slot(e, i)']].contents = Expected(e, i)'
        <4>1. Slot(e, i)' = slot[i]
          BY <1>1 DEF Slot
        <4>2. wanted'[e][i] = cs[slot[i]] /\ slot[i] \in Index
          BY <1>2, <2>2
        <4>3. Expected(e, i)' = cs[slot[i]]
          <5>1. CASE loaded
            BY <1>1, <4>2, <5>1 DEF Expected
          <5>2. CASE ~loaded
            <6>1. cs[slot[i]].what = NoDetails
              BY <1>12, <4>2, <5>2
            <6> QED  BY <1>1, <4>2, <5>2, <6>1, NothingToWrite DEF Expected
          <5> QED  BY <5>1, <5>2
        <4> QED  BY <1>1, <4>1, <4>2, <4>3
      <3> QED  BY <1>3, <3>1, <3>2 DEF CarefulUseIsSafe, Row
    <2> QED  BY <1>6, <1>7, <1>8, <1>9, <1>10, <2>2, <2>8, <2>9 DEF ArgumentsInv, DetailsOfNodes, CarefulInv
  <1> QED  BY <1>11, <1>12

\* An order names every place.
LEMMA OrdersReach ==
    ASSUME NEW slot \in Orders, NEW k \in Index
    PROVE  \E i \in Index : slot[i] = k
  <1>1. IsFiniteSet(Index)
    BY SizeAssumption, FS_Interval DEF Index
  <1>2. slot \in Injection(Index, Index)
    BY DEF Orders, Injection, IsInjective
  <1>3. slot \in Surjection(Index, Index)
    BY <1>1, <1>2, FS_Injection, Zenon
  <1> QED  BY <1>3 DEF Surjection

LEMMA ContentsType ==
    ASSUME NEW i \in Index, NEW name \in AllNames, NEW what \in AllWords
    PROVE  /\ Contents(i, name, what) \in AllContents
           /\ Contents(i, name, what).name = name /\ Contents(i, name, what).what = what
           /\ numbered => Contents(i, name, what).position = i
  BY SizeAssumption DEF Contents, AllContents, Index

LEMMA CreateStep ==
    ASSUME ArgumentsInv, NEW e \in EntryPoints, Create(e)
    PROVE  ArgumentsInv'
  <1> DEFINE cs   == [i \in Index |-> Contents(i, NoName, NoDetails)]
             same == [i \in Index |-> i]
  <1>1. /\ e \notin Live /\ MayAppear /\ UNCHANGED <<numbered, careful>>
        /\ Construct(e, cs, same, same, FALSE)
    BY DEF Create
  <1>2. NoName \in AllNames /\ NoDetails \in AllWords
    BY DEF AllNames, AllWords
  <1>3. \A i \in Index : /\ cs[i] \in AllContents /\ cs[i].name = NoName /\ cs[i].what = NoDetails
                         /\ numbered => cs[i].position = i
    BY <1>2, ContentsType
  <1>4. same \in [Index -> Index] /\ same \in Orders /\ \A i \in Index : same[i] = i
    BY DEF Orders
  <1>5. cs \in [Index -> AllContents]
    BY <1>3
  <1> HIDE DEF cs, same
  <1>6. numbered => same = same /\ \A i \in Index : cs[same[i]].position = i
    BY <1>3, <1>4
  <1>7. FALSE \in BOOLEAN
    OBVIOUS
  <1> QED  BY <1>1, <1>3, <1>4, <1>5, <1>6, <1>7, ConstructStep, Zenon

LEMMA LoadStep ==
    ASSUME ArgumentsInv, NEW e \in EntryPoints, Load(e)
    PROVE  ArgumentsInv'
  <1>1. e \notin Live /\ MayAppear /\ UNCHANGED <<numbered, careful>>
    BY DEF Load
  <1> DEFINE At(slot, k) == CHOOSE i \in Index : slot[i] = k
             Cs(file, slot) ==
                [k \in Index |-> Contents(At(slot, k), file[At(slot, k)].name, file[At(slot, k)].what)]
  <1>2. PICK file \in Files, slot \in Orders :
           /\ ~numbered => \A i \in Index : slot[i] = i /\ file[i].what.tag # "vertex_input"
           /\ Construct(e, Cs(file, slot), slot, LoadedIndex(slot), TRUE)
    BY DEF Load
  <1> DEFINE at(k) == At(slot, k)
             cs == Cs(file, slot)
  <1>3. slot \in [Index -> Index] /\ \A i, j \in Index : slot[i] = slot[j] => i = j
    BY DEF Orders
  <1>4. \A k \in Index : at(k) \in Index /\ slot[at(k)] = k
    BY OrdersReach
  <1>5. \A i \in Index : at(slot[i]) = i
    BY <1>3, <1>4
  <1> HIDE DEF At
  <1>6. \A i \in Index : file[i].name \in AllNames /\ file[i].what \in AllWords
    BY DEF AllNames, AllWords
  <1>7. \A k \in Index : /\ cs[k] \in AllContents /\ cs[k].name = file[at(k)].name
                         /\ numbered => cs[k].position = at(k)
    BY <1>4, <1>6, ContentsType
  <1>8. cs \in [Index -> AllContents]
    BY <1>7
  <1> HIDE DEF Cs
  <1>9. /\ LoadedIndex(slot) \in [Index -> Index]
        /\ numbered => LoadedIndex(slot) = slot
    <2>1. 1 \in Index
      BY SizeAssumption DEF Index
    <2>2. [i \in Index |-> 1] \in [Index -> Index]
      BY <2>1
    <2> QED  BY <1>3, <2>2 DEF LoadedIndex
  <1>10. numbered => LoadedIndex(slot) = slot /\ \A i \in Index : cs[slot[i]].position = i
    BY <1>3, <1>5, <1>7, <1>9
  <1> DEFINE index == LoadedIndex(slot)
  <1>12. Construct(e, cs, slot, index, TRUE)
    BY <1>2
  <1>13. index \in [Index -> Index]
    BY <1>9
  <1>14. numbered => index = slot /\ \A i \in Index : cs[slot[i]].position = i
    BY <1>10
  <1>15. ~numbered => \A i \in Index : slot[i] = i
    BY <1>2
  <1> HIDE DEF cs, index
  <1> QED  BY <1>1, <1>8, <1>12, <1>13, <1>14, <1>15, ConstructStep, Zenon

LEMMA AbsentIsAName ==
    "absent" # NoName
  BY Zenon DEF NoName

----------------------------------------------------------------------------
(* Names.                                                                  *)

\* setName changes the name in one node, for all who hold it, and nothing else.
LEMMA SetNameEffect ==
    ASSUME DetailsOfNodes, NEW e \in EntryPoints, NEW i \in Index, NEW text \in Texts,
           SetName(e, i, text)
    PROVE  /\ nodes' \in Stores(AllContents) /\ Len(nodes') = Len(nodes)
           /\ \A l \in 1 .. Len(nodes) :
                 /\ nodes'[l].contents.what = nodes[l].contents.what
                 /\ nodes'[l].contents.position = nodes[l].contents.position
                 /\ l # points[e].node[i] => nodes'[l].contents = nodes[l].contents
           /\ NodeOf(e, i).name # "absent" =>
                 nodes'[points[e].node[i]].contents = [NodeOf(e, i) EXCEPT !.name = text]
  <1> DEFINE k == points[e].node[i]
             c == NodeOf(e, i)
             d == [c EXCEPT !.name = text]
  <1>1. /\ e \in Live /\ nodes' = IF c.name = "absent" THEN nodes ELSE Replaced(nodes, k, d)
    BY DEF SetName
  <1>2. nodes \in Stores(AllContents) /\ k \in 1 .. Len(nodes) /\ c = nodes[k].contents
    BY <1>1 DEF DetailsOfNodes, Types, References, NodeOf
  <1>3. c \in AllContents
    BY <1>2, StoreType
  <1>4. d \in AllContents /\ d.what = c.what /\ d.position = c.position
    BY <1>3 DEF AllContents, AllNames
  <1> HIDE DEF c, d, k
  <1>5. CASE c.name = "absent"
    BY <1>1, <1>2, <1>5 DEF c
  <1>6. CASE c.name # "absent"
    <2>1. nodes' = Replaced(nodes, k, d)
      BY <1>1, <1>6
    <2>2. /\ nodes' \in Stores(AllContents) /\ Len(nodes') = Len(nodes)
          /\ nodes'[k].contents = d
          /\ \A l \in 1 .. Len(nodes) : l # k => nodes'[l] = nodes[l]
      BY <1>2, <1>4, <2>1, ReplacedStore
    <2>3. \A l \in 1 .. Len(nodes) : /\ nodes'[l].contents.what = nodes[l].contents.what
                                     /\ nodes'[l].contents.position = nodes[l].contents.position
                                     /\ l # k => nodes'[l].contents = nodes[l].contents
      BY <1>2, <1>4, <2>2
    <2> QED  BY <2>2, <2>3 DEF c, d, k
  <1> QED  BY <1>5, <1>6

LEMMA SetNameStep ==
    ASSUME ArgumentsInv, NEW e \in EntryPoints, NEW i \in Index, NEW text \in Texts,
           SetName(e, i, text)
    PROVE  ArgumentsInv'
  <1> DEFINE k == points[e].node[i]
             c == NodeOf(e, i)
  <1>0. DetailsOfNodes
    BY DEF ArgumentsInv
  <1>1. /\ e \in Live /\ MayName(e, i, text)
        /\ UNCHANGED <<numbered, careful, tuples, points>>
    BY DEF SetName
  <1>2. /\ nodes' \in Stores(AllContents) /\ Len(nodes') = Len(nodes)
        /\ \A l \in 1 .. Len(nodes) : /\ nodes'[l].contents.what = nodes[l].contents.what
                                      /\ nodes'[l].contents.position = nodes[l].contents.position
                                      /\ l # k => nodes'[l].contents = nodes[l].contents
    BY <1>0, SetNameEffect
  <1>3. c.name # "absent" => nodes'[k].contents = [c EXCEPT !.name = text]
    BY <1>0, SetNameEffect
  <1>4. Live' = Live
    BY <1>1 DEF Live
  <1>5. \A f \in Live, j \in Index : Row(f)' = Row(f) /\ Row(f)[j] \in 1 .. Len(nodes)
    BY <1>0, <1>1 DEF DetailsOfNodes, References, Row
  <1>6. \A f \in Live, j \in Index : points[f].index[j] \in Index /\ points[f].node[j] \in 1 .. Len(nodes)
    BY <1>0, PointType DEF DetailsOfNodes, References
  <1>7. Types' /\ References'
    BY <1>0, <1>1, <1>2, <1>4 DEF DetailsOfNodes, Types, References
  <1>8. DetailsMatchNodes'
    <2>1. \A f \in Live, j \in Index : NodeOf(f, j)'.what = NodeOf(f, j).what
      BY <1>1, <1>2, <1>6 DEF NodeOf
    <2> QED  BY <1>0, <1>1, <1>4, <2>1 DEF DetailsOfNodes, DetailsMatchNodes
  <1>9. Places'
    BY <1>1, <1>4 DEF ArgumentsInv, Places
  <1>10. PositionsStay'
    <2> SUFFICES ASSUME numbered, NEW f \in Live, NEW j \in Index
                 PROVE  nodes'[Row(f)'[points[f].index[j]]].contents.position = j
      BY <1>1, <1>4 DEF PositionsStay, Row
    <2>1. nodes[Row(f)[points[f].index[j]]].contents.position = j
      BY DEF ArgumentsInv, PositionsStay, Row
    <2> QED  BY <1>2, <1>5, <1>6, <2>1
  <1> HIDE DEF k, c
  <1>11. CASE ~careful
    BY <1>1, <1>7, <1>8, <1>9, <1>10, <1>11 DEF ArgumentsInv, DetailsOfNodes, CarefulInv, CarefulUseIsSafe
  <1>12. CASE careful
    <2>1. /\ ~points[e].loaded /\ stage[e][i] = "described" /\ text # NoName
          /\ wanted' = [wanted EXCEPT ![e] = [wanted[e] EXCEPT ![i].name = text]]
          /\ stage' = [stage EXCEPT ![e] = [stage[e] EXCEPT ![i] = "named"]]
      BY <1>1, <1>12 DEF MayName, SetName, Asked
    <2>2. DOMAIN wanted = EntryPoints /\ DOMAIN stage = EntryPoints /\ Protocol
      BY <1>12 DEF ArgumentsInv, CarefulInv
    <2>3. \A f \in Live : /\ wanted[f] \in [Index -> AllContents] /\ stage[f] \in [Index -> Stages]
                          /\ \A j \in Index : Progress(f, j)
      BY <2>2 DEF Protocol
    <2>4. /\ DOMAIN wanted' = EntryPoints /\ DOMAIN stage' = EntryPoints
          /\ \A f \in Live \ {e} : wanted'[f] = wanted[f] /\ stage'[f] = stage[f]
          /\ wanted'[e] = [wanted[e] EXCEPT ![i].name = text]
          /\ stage'[e] = [stage[e] EXCEPT ![i] = "named"]
      BY <1>1, <2>1, <2>2 DEF Live
    <2>5. /\ \A j \in Index \ {i} : wanted'[e][j] = wanted[e][j] /\ stage'[e][j] = stage[e][j]
          /\ wanted'[e][i] = [wanted[e][i] EXCEPT !.name = text]
          /\ stage'[e][i] = "named" /\ stage'[e] \in [Index -> Stages]
      BY <1>1, <2>3, <2>4 DEF Stages
    <2>6. wanted'[e][i] \in AllContents /\ wanted'[e][i].name = text
      BY <1>1, <2>3, <2>5 DEF AllContents, AllNames
    <2>7. wanted'[e] \in [Index -> AllContents]
      BY <1>1, <2>3, <2>4, <2>5, <2>6
    <2>8. \A f \in Live : /\ wanted'[f] \in [Index -> AllContents] /\ stage'[f] \in [Index -> Stages]
                          /\ \A j \in Index : Progress(f, j)'
      <3>1. \A f \in Live \ {e} : \A j \in Index : Progress(f, j)'
        BY <1>1, <2>3, <2>4 DEF Progress
      <3>2. \A j \in Index \ {i} : Progress(e, j)'
        BY <1>1, <2>3, <2>5 DEF Progress
      <3>3. Progress(e, i)'
        BY <1>1, <2>1, <2>5, <2>6 DEF Progress
      <3> QED  BY <2>3, <2>4, <2>5, <2>7, <3>1, <3>2, <3>3
    <2>9. ~Finished(e)
      BY <2>1 DEF Finished
    <2>10. \A f \in Live : ~Finished(f) => f = e
      BY <1>1, <2>2, <2>9 DEF Protocol
    <2>11. \A f \in Live : Finished(f) /\ f # e => Finished(f)'
      BY <1>1, <2>4 DEF Finished
    <2>12. \A j \in Index : points[e].index[j] = j /\ Row(e)[j] = points[e].node[j]
      BY <1>1, <2>2, <2>9 DEF Protocol, Row
    <2>13. \A j, l \in Index : stage'[e][j] = "described" /\ stage'[e][l] = "described" => j = l
      <3>1. \A j, l \in Index : stage[e][j] = "described" /\ stage[e][l] = "described" => j = l
        BY <1>1, <2>2, <2>9 DEF Protocol
      <3> QED  BY <2>5, <3>1
    <2>14. Protocol'
      <3>1. \A f, g \in Live : ~Finished(f)' /\ ~Finished(g)' => f = g
        BY <2>10, <2>11
      <3>2. \A f \in Live : ~Finished(f)' =>
               /\ \A j \in Index : /\ points'[f].index[j] = j
                                   /\ tuples'[points'[f].tuple].contents[j] = points'[f].node[j]
               /\ \A j, l \in Index : stage'[f][j] = "described" /\ stage'[f][l] = "described" => j = l
        <4> SUFFICES ASSUME NEW f \in Live, ~Finished(f)'
                     PROVE  f = e
          BY <1>1, <2>12, <2>13 DEF Row
        <4> QED  BY <2>10, <2>11
      <3> QED  BY <1>4, <2>8, <3>1, <3>2 DEF Protocol
    <2>15. \A f \in Live, j \in Index : Slot(f, j) \in Index /\ Slot(f, j)' = Slot(f, j)
      BY <1>1, <1>6 DEF Slot
    <2>16. \A f \in Live, j \in Index :
              Sure(f, j) => nodes[Row(f)[Slot(f, j)]].contents = Expected(f, j)
      BY <1>12 DEF ArgumentsInv, CarefulUseIsSafe, Row
    <2>17. /\ Row(e)[Slot(e, i)] = k /\ Sure(e, i)
           /\ Expected(e, i) = c /\ c = Written(wanted[e][i])
      <3>1. Row(e)[Slot(e, i)] = k
        BY <2>12 DEF Slot, k
      <3>2. Sure(e, i) /\ Expected(e, i) = Written(wanted[e][i])
        BY <2>1 DEF Sure, Expected
      <3> QED  BY <1>1, <2>16, <3>1, <3>2 DEF c, k, NodeOf
    <2>18. nodes'[k].contents = Expected(e, i)'
      <3>1. wanted[e][i] \in AllContents /\ wanted[e][i].name = NoName
        BY <1>1, <2>1, <2>3 DEF Progress
      <3>2. c.name = NoName
        BY <2>17, <3>1, NameWritten
      <3>3. nodes'[k].contents = [Written(wanted[e][i]) EXCEPT !.name = text]
        BY <1>3, <2>17, <3>2, AbsentIsAName
      <3>4. Expected(e, i)' = Written([wanted[e][i] EXCEPT !.name = text])
        BY <1>1, <2>1, <2>5 DEF Expected
      <3> QED  BY <3>1, <3>3, <3>4, NameWritten
    <2>19. CarefulUseIsSafe'
      <3> SUFFICES ASSUME NEW f \in Live, NEW j \in Index, Sure(f, j)'
                   PROVE  nodes'[Row(f)[Slot(f, j)]].contents = Expected(f, j)'
        BY <1>4, <1>5, <2>15 DEF CarefulUseIsSafe, Row
      <3> DEFINE l == Row(f)[Slot(f, j)]
      <3>1. CASE f = e /\ j = i
        BY <2>17, <2>18, <3>1
      <3>2. CASE ~(f = e /\ j = i)
        <4>1. wanted'[f][j] = wanted[f][j]
          BY <2>4, <2>5, <3>2
        <4>2. Sure(f, j) /\ Expected(f, j)' = Expected(f, j)
          BY <1>1, <4>1 DEF Sure, Expected
        <4>3. l \in 1 .. Len(nodes) /\ nodes[l].contents = Expected(f, j)
          BY <1>5, <2>15, <2>16, <4>2
        <4>4. l # k
          <5> SUFFICES ASSUME l = k PROVE FALSE
            OBVIOUS
          <5>1. wanted[f][j] \in AllContents /\ wanted[e][i] \in AllContents
            BY <1>1, <2>3
          <5>2. Expected(f, j) = Expected(e, i)
            BY <1>1, <2>16, <2>17, <4>3
          <5>3. wanted[f][j].name = NoName
            BY <1>1, <2>1, <2>3, <5>1, <5>2, ExpectedName DEF Progress
          <5>4. ~points[f].loaded
            BY <4>2, <5>3 DEF Sure
          <5>5. f = e
            <6>1. stage[f][j] # "named"
              BY <2>3, <5>3, <5>4 DEF Progress
            <6> QED  BY <2>10, <5>4, <6>1 DEF Finished
          <5>6. CASE numbered
            <6>1. nodes[Row(e)[Slot(e, i)]].contents.position = i
              BY <1>1, <5>6 DEF ArgumentsInv, PositionsStay, Row, Slot
            <6>2. nodes[Row(f)[Slot(f, j)]].contents.position = j
              BY <5>6 DEF ArgumentsInv, PositionsStay, Row, Slot
            <6> QED  BY <2>17, <3>2, <5>5, <6>1, <6>2
          <5>7. CASE ~numbered
            <6>1. /\ wanted[e][i].what # NoDetails
                  /\ wanted[e][i].what.tag # "vertex_input"
              BY <1>1, <2>1, <2>3, <5>7 DEF Progress
            <6>2. Expected(e, i).what # NoDetails
              BY <2>17, <5>1, <6>1, NothingToWrite
            <6>3. Expected(f, j) = Written(wanted[f][j])
              BY <5>4 DEF Expected
            <6>4. wanted[f][j].what # NoDetails
              BY <5>1, <5>2, <6>2, <6>3, NothingToWrite
            <6>5. stage[f][j] = "described"
              <7>1. stage[f][j] \in Stages
                BY <2>3
              <7> QED  BY <2>3, <5>3, <5>4, <6>4, <7>1 DEF Progress, Stages
            <6>6. \A m, n \in Index : stage[e][m] = "described" /\ stage[e][n] = "described" => m = n
              BY <1>1, <2>2, <2>9 DEF Protocol
            <6> QED  BY <2>1, <3>2, <5>5, <6>5, <6>6
          <5> QED  BY <5>6, <5>7
        <4> HIDE DEF l
        <4>5. nodes'[l].contents = nodes[l].contents
          BY <1>2, <4>3, <4>4
        <4> QED  BY <4>2, <4>3, <4>5 DEF l
      <3> QED  BY <3>1, <3>2
    <2> QED  BY <1>7, <1>8, <1>9, <1>10, <2>4, <2>14, <2>19 DEF ArgumentsInv, DetailsOfNodes, CarefulInv
  <1> QED  BY <1>11, <1>12

----------------------------------------------------------------------------
(* Details.                                                                *)

\* What the setters write is what the constructors will read.
LEMMA DetailsAreRead ==
    ASSUME NEW d \in Details
    PROVE  /\ d \in AllWords /\ d # NoDetails
           /\ d.tag # "vertex_input" => Parsed(d) = d
  <1>1. d \in {Detail("texture", "read"), Detail("position", "flat"), Detail("vertex_input", "identifier")}
    BY DEF Details
  <1>2. d.tag \in {"texture", "position", "vertex_input"} /\ d \in AllWords
    BY <1>1 DEF Detail, AllWords
  <1>3. d # NoDetails
    BY <1>2 DEF NoDetails, Detail
  <1>4. CASE d = Detail("texture", "read")
    BY <1>2, <1>3, <1>4 DEF Parsed, ParsedAccess, Access, Detail
  <1>5. CASE d = Detail("position", "flat")
    BY <1>2, <1>3, <1>5 DEF Parsed, ParsedInterpolation, Interpolations, Detail
  <1>6. CASE d = Detail("vertex_input", "identifier")
    BY <1>2, <1>3, <1>6 DEF Detail
  <1> QED  BY <1>1, <1>4, <1>5, <1>6

LEMMA DescribedType ==
    ASSUME DetailsOfNodes, NEW e \in Live, NEW i \in Index, NEW d \in Details
    PROVE  /\ Described(e, i, d) \in AllContents
           /\ Described(e, i, d).name = GetName(NodeOf(e, i)) /\ Described(e, i, d).what = d
           /\ numbered => Described(e, i, d).position = i
  <1>1. nodes \in Stores(AllContents) /\ points[e].node[i] \in 1 .. Len(nodes)
    BY DEF DetailsOfNodes, Types, References
  <1>2. NodeOf(e, i) \in AllContents
    BY <1>1, StoreType DEF NodeOf
  <1>3. GetName(NodeOf(e, i)) \in AllNames
    BY <1>2 DEF GetName, AllContents, AllNames
  <1> QED  BY <1>3, DetailsAreRead, ContentsType DEF Described

\* What InitDetails... leaves behind: the node k is of the i-th argument now, and is
\* in the tuple at its place.
DescribedWith(e, i, d, k) ==
    /\ nodes' \in Stores(AllContents) /\ Grows(nodes, nodes')
    /\ k \in 1 .. Len(nodes') /\ nodes'[k].contents = Described(e, i, d)
    /\ tuples' \in Stores([Index -> Nat]) /\ Len(tuples') = Len(tuples)
    /\ \A t \in 1 .. Len(tuples) : t # points[e].tuple => tuples'[t] = tuples[t]
    /\ tuples'[points[e].tuple].contents = [Row(e) EXCEPT ![points[e].index[i]] = k]
    /\ points' \in [EntryPoints -> Points]
    /\ \A f \in EntryPoints \ {e} : points'[f] = points[f]
    /\ points'[e] = [points[e] EXCEPT !.node[i] = k, !.details[i] = d]

LEMMA DescribeEffect ==
    ASSUME DetailsOfNodes, NEW e \in Live, NEW i \in Index, NEW d \in Details, Describe(e, i, d)
    PROVE  \E k : DescribedWith(e, i, d, k)
  <1> DEFINE c == Described(e, i, d)
             k == Got(Get(nodes, c), c)
             t == points[e].tuple
             row == [Row(e) EXCEPT ![points[e].index[i]] = k]
             p == [points[e] EXCEPT !.node[i] = k, !.details[i] = d]
  <1>1. /\ nodes' = Get(nodes, c) /\ tuples' = Replaced(tuples, t, row)
        /\ points' = [points EXCEPT ![e] = p]
    BY DEF Describe, UpdatedTuples, Row
  <1>2. /\ nodes \in Stores(AllContents) /\ tuples \in Stores([Index -> Nat])
        /\ points \in [EntryPoints -> Points] /\ t \in 1 .. Len(tuples)
    BY DEF DetailsOfNodes, Types, References
  <1>3. c \in AllContents
    BY DescribedType
  <1> HIDE DEF c
  <1>4. /\ nodes' \in Stores(AllContents) /\ Grows(nodes, nodes') /\ Found(nodes', c) # {}
    BY <1>1, <1>2, <1>3, GetStore
  <1>5. k \in 1 .. Len(nodes') /\ k \in Nat /\ nodes'[k].contents = c
    BY <1>1, <1>4, GotFound
  <1>6. Row(e) \in [Index -> Nat]
    BY <1>2, StoreType DEF Row
  <1> HIDE DEF k
  <1>7. row \in [Index -> Nat]
    BY <1>5, <1>6
  <1>8. /\ tuples' \in Stores([Index -> Nat]) /\ Len(tuples') = Len(tuples)
        /\ tuples'[t].contents = row
        /\ \A u \in 1 .. Len(tuples) : u # t => tuples'[u] = tuples[u]
    <2> HIDE DEF row
    <2> QED  BY <1>1, <1>2, <1>7, ReplacedStore
  <1>9. p \in Points
    <2> DEFINE q == points[e]
               P == [live : {TRUE}, loaded : BOOLEAN, node : [Index -> Nat],
                     index : [Index -> Index], details : [Index -> AllWords], tuple : Nat]
    <2>1. q \in P /\ q.node \in [Index -> Nat] /\ q.details \in [Index -> AllWords]
      BY PointType DEF DetailsOfNodes
    <2>2. [q.node EXCEPT ![i] = k] \in [Index -> Nat] /\ [q.details EXCEPT ![i] = d] \in [Index -> AllWords]
      BY <1>5, <2>1, DetailsAreRead
    <2> HIDE DEF q
    <2>3. [q EXCEPT !.node = [q.node EXCEPT ![i] = k], !.details = [q.details EXCEPT ![i] = d]] \in P
      BY <2>1, <2>2
    <2>4. p = [q EXCEPT !.node = [q.node EXCEPT ![i] = k], !.details = [q.details EXCEPT ![i] = d]]
      BY <2>1 DEF q
    <2> QED  BY <2>3, <2>4 DEF Points
  <1>10. e \in EntryPoints
    BY DEF Live
  <1> HIDE DEF p, row
  <1>11. /\ points' \in [EntryPoints -> Points] /\ points'[e] = p
         /\ \A f \in EntryPoints \ {e} : points'[f] = points[f]
    BY <1>1, <1>2, <1>9, <1>10
  <1>12. DescribedWith(e, i, d, k)
    BY <1>4, <1>5, <1>8, <1>11 DEF DescribedWith, c, p, row
  <1> QED  BY <1>12

\* Where the i-th argument of e has another node now, and where not.
LEMMA DescribedPoints ==
    ASSUME DetailsOfNodes, NEW e \in Live, NEW i \in Index, NEW d, NEW k, DescribedWith(e, i, d, k)
    PROVE  /\ points'[e].live /\ points'[e].loaded = points[e].loaded
           /\ points'[e].index = points[e].index /\ points'[e].tuple = points[e].tuple
           /\ points'[e].node[i] = k /\ points'[e].details[i] = d
           /\ \A j \in Index \ {i} : /\ points'[e].node[j] = points[e].node[j]
                                     /\ points'[e].details[j] = points[e].details[j]
           /\ Live' = Live
           /\ \A f \in Live : points'[f].tuple = points[f].tuple /\ points'[f].index = points[f].index
           /\ \A f \in Live : f # e => points'[f] = points[f]
           /\ \A f \in Live, j \in Index :
                 IF f = e /\ j = i THEN NodeOf(f, j)' = Described(e, i, d)
                 ELSE NodeOf(f, j)' = NodeOf(f, j) /\ points'[f].details[j] = points[f].details[j]
  <1> DEFINE c == Described(e, i, d)
             s == points[e].index[i]
  <1>1. e \in EntryPoints
    BY DEF Live
  <1>2. /\ nodes' \in Stores(AllContents) /\ Grows(nodes, nodes')
        /\ k \in 1 .. Len(nodes') /\ nodes'[k].contents = c
        /\ tuples' \in Stores([Index -> Nat]) /\ Len(tuples') = Len(tuples)
        /\ \A t \in 1 .. Len(tuples) : t # points[e].tuple => tuples'[t] = tuples[t]
        /\ tuples'[points[e].tuple].contents = [Row(e) EXCEPT ![s] = k]
        /\ points' \in [EntryPoints -> Points]
        /\ \A f \in EntryPoints \ {e} : points'[f] = points[f]
        /\ points'[e] = [points[e] EXCEPT !.node[i] = k, !.details[i] = d]
    BY DEF DescribedWith
  <1>3. \A f \in Live : /\ points[f].live /\ points[f].loaded \in BOOLEAN
                        /\ points[f].node \in [Index -> Nat] /\ points[f].index \in [Index -> Index]
                        /\ points[f].details \in [Index -> AllWords]
                        /\ points[f].tuple \in 1 .. Len(tuples) /\ f \in EntryPoints
                        /\ \A j \in Index : points[f].node[j] \in 1 .. Len(nodes)
    BY PointType DEF DetailsOfNodes, References
  <1>4. points[e] \in [live : {TRUE}, loaded : BOOLEAN, node : [Index -> Nat],
                       index : [Index -> Index], details : [Index -> AllWords], tuple : Nat]
    BY PointType DEF DetailsOfNodes
  <1>5. /\ points'[e].live /\ points'[e].loaded = points[e].loaded
        /\ points'[e].index = points[e].index /\ points'[e].tuple = points[e].tuple
        /\ points'[e].node[i] = k /\ points'[e].details[i] = d
        /\ \A j \in Index \ {i} : /\ points'[e].node[j] = points[e].node[j]
                                  /\ points'[e].details[j] = points[e].details[j]
    <2> DEFINE P == [live : {TRUE}, loaded : BOOLEAN, node : [Index -> Nat],
                     index : [Index -> Index], details : [Index -> AllWords], tuple : Nat]
               p == points[e]
               q == points'[e]
    <2>1. \A r \in P : r.live /\ r.node \in [Index -> Nat] /\ r.details \in [Index -> AllWords]
      OBVIOUS
    <2>2. p.live /\ p.node \in [Index -> Nat] /\ p.details \in [Index -> AllWords]
      BY <1>4, <2>1
    <2>3. p \in P /\ q = [p EXCEPT !.node[i] = k, !.details[i] = d]
      BY <1>2, <1>4
    <2> HIDE DEF p, q
    <2>4. /\ q.live = p.live /\ q.loaded = p.loaded /\ q.index = p.index /\ q.tuple = p.tuple
          /\ q.node = [p.node EXCEPT ![i] = k] /\ q.details = [p.details EXCEPT ![i] = d]
      BY <2>3
    <2> QED  BY <2>2, <2>4 DEF p, q
  <1>6. /\ Live' = Live
        /\ \A f \in Live : points'[f].tuple = points[f].tuple /\ points'[f].index = points[f].index
        /\ \A f \in Live : f # e => points'[f] = points[f]
    <2>1. \A f \in EntryPoints : f \in Live' <=> f \in Live
      BY <1>1, <1>2, <1>5 DEF Live
    <2> QED  BY <1>2, <1>3, <1>5, <2>1 DEF Live
  <1> HIDE DEF c
  <1>7. /\ Len(nodes) \in Nat /\ 1 .. Len(nodes) \subseteq 1 .. Len(nodes')
        /\ \A l \in 1 .. Len(nodes) : nodes'[l] = nodes[l]
    BY <1>2, StoreType DEF Grows, DetailsOfNodes, Types
  <1>8. \A f \in Live, j \in Index :
            IF f = e /\ j = i THEN NodeOf(f, j)' = c
            ELSE NodeOf(f, j)' = NodeOf(f, j) /\ points'[f].details[j] = points[f].details[j]
    <2> SUFFICES ASSUME NEW f \in Live, NEW j \in Index
                 PROVE  IF f = e /\ j = i THEN NodeOf(f, j)' = c
                        ELSE NodeOf(f, j)' = NodeOf(f, j) /\ points'[f].details[j] = points[f].details[j]
      OBVIOUS
    <2>1. CASE f = e /\ j = i
      BY <1>2, <1>5, <2>1 DEF NodeOf
    <2>2. CASE ~(f = e /\ j = i)
      <3>1. points'[f].node[j] = points[f].node[j] /\ points'[f].details[j] = points[f].details[j]
        BY <1>5, <1>6, <2>2
      <3>2. points[f].node[j] \in 1 .. Len(nodes)
        BY <1>3
      <3> QED  BY <1>7, <2>2, <3>1, <3>2 DEF NodeOf
    <2> QED  BY <2>1, <2>2
  <1> QED  BY <1>5, <1>6, <1>8 DEF c

LEMMA DescribeStep ==
    ASSUME ArgumentsInv, NEW e \in Live, NEW i \in Index, NEW d \in Details,
           d.tag # "vertex_input", MayDescribe(e, i),
           Describe(e, i, d), UNCHANGED <<numbered, careful>>
    PROVE  ArgumentsInv'
  <1> DEFINE c == Described(e, i, d)
             s == points[e].index[i]
  <1>0. DetailsOfNodes /\ e \in EntryPoints
    BY DEF ArgumentsInv, Live
  <1>1. PICK k : DescribedWith(e, i, d, k)
    BY <1>0, DescribeEffect
  <1>2. /\ nodes' \in Stores(AllContents) /\ Grows(nodes, nodes')
        /\ k \in 1 .. Len(nodes') /\ nodes'[k].contents = c
        /\ tuples' \in Stores([Index -> Nat]) /\ Len(tuples') = Len(tuples)
        /\ \A t \in 1 .. Len(tuples) : t # points[e].tuple => tuples'[t] = tuples[t]
        /\ tuples'[points[e].tuple].contents = [Row(e) EXCEPT ![s] = k]
        /\ points' \in [EntryPoints -> Points]
        /\ \A f \in EntryPoints \ {e} : points'[f] = points[f]
        /\ points'[e] = [points[e] EXCEPT !.node[i] = k, !.details[i] = d]
    BY <1>1 DEF DescribedWith
  <1>3. \A f \in Live : /\ points[f].live /\ points[f].loaded \in BOOLEAN
                        /\ points[f].node \in [Index -> Nat] /\ points[f].index \in [Index -> Index]
                        /\ points[f].details \in [Index -> AllWords]
                        /\ points[f].tuple \in 1 .. Len(tuples) /\ f \in EntryPoints
                        /\ \A j \in Index : points[f].node[j] \in 1 .. Len(nodes)
    BY <1>0, PointType DEF DetailsOfNodes, References
  <1>4. \A f \in Live, j \in Index :
           IF f = e /\ j = i THEN NodeOf(f, j)' = c
           ELSE NodeOf(f, j)' = NodeOf(f, j) /\ points'[f].details[j] = points[f].details[j]
    BY <1>0, <1>1, DescribedPoints
  <1>5. /\ points'[e].live /\ points'[e].loaded = points[e].loaded
        /\ points'[e].index = points[e].index /\ points'[e].tuple = points[e].tuple
        /\ points'[e].node[i] = k /\ points'[e].details[i] = d
        /\ \A j \in Index \ {i} : /\ points'[e].node[j] = points[e].node[j]
                                  /\ points'[e].details[j] = points[e].details[j]
    BY <1>0, <1>1, DescribedPoints
  <1>6. /\ Live' = Live
        /\ \A f \in Live : points'[f].tuple = points[f].tuple /\ points'[f].index = points[f].index
        /\ \A f \in Live : f # e => points'[f] = points[f]
    BY <1>0, <1>1, DescribedPoints
  <1>7. c \in AllContents /\ c.name = GetName(NodeOf(e, i)) /\ c.what = d
    BY <1>0, DescribedType
  <1>8. numbered => c.position = i
    BY <1>0, DescribedType
  <1> HIDE DEF c
  <1>9. /\ Len(nodes) \in Nat /\ 1 .. Len(nodes) \subseteq 1 .. Len(nodes')
        /\ \A l \in 1 .. Len(nodes) : nodes'[l] = nodes[l]
    BY <1>0, <1>2, StoreType DEF Grows, DetailsOfNodes, Types
  <1>10. \A t \in 1 .. Len(tuples), j \in Index : tuples[t].contents[j] \in 1 .. Len(nodes)
    BY <1>0 DEF DetailsOfNodes, References
  <1>11. Row(e) \in [Index -> Nat] /\ s \in Index
    BY <1>0, <1>3, StoreType DEF DetailsOfNodes, Types, Row
  <1> HIDE DEF s
  <1>12. \A f \in Live, j \in Index :
            /\ Row(f)[j] \in 1 .. Len(nodes)
            /\ points[f].tuple # points[e].tuple => Row(f)'[j] = Row(f)[j]
            /\ points[f].tuple = points[e].tuple =>
                  Row(f)[j] = Row(e)[j] /\ Row(f)'[j] = IF j = s THEN k ELSE Row(e)[j]
    <2>1. \A f \in Live : Row(f)' = tuples'[points[f].tuple].contents
      BY <1>6 DEF Row
    <2>2. \A j \in Index : [Row(e) EXCEPT ![s] = k][j] = IF j = s THEN k ELSE Row(e)[j]
      BY <1>11
    <2> SUFFICES ASSUME NEW f \in Live, NEW j \in Index
                 PROVE  /\ Row(f)[j] \in 1 .. Len(nodes)
                        /\ points[f].tuple # points[e].tuple => Row(f)'[j] = Row(f)[j]
                        /\ points[f].tuple = points[e].tuple =>
                              Row(f)[j] = Row(e)[j] /\ Row(f)'[j] = IF j = s THEN k ELSE Row(e)[j]
      OBVIOUS
    <2>3. points[f].tuple \in 1 .. Len(tuples)
      BY <1>3
    <2>4. Row(f)[j] \in 1 .. Len(nodes)
      BY <1>10, <2>3 DEF Row
    <2>5. CASE points[f].tuple # points[e].tuple
      <3>1. Row(f)' = Row(f)
        BY <1>2, <2>1, <2>3, <2>5 DEF Row
      <3> QED  BY <2>4, <2>5, <3>1
    <2>6. CASE points[f].tuple = points[e].tuple
      <3>1. Row(f) = Row(e) /\ Row(f)' = [Row(e) EXCEPT ![s] = k]
        BY <1>2, <2>1, <2>6 DEF Row
      <3> QED  BY <2>2, <2>4, <2>6, <3>1
    <2> QED  BY <2>5, <2>6
  <1>13. Types'
    BY <1>0, <1>2 DEF DetailsOfNodes, Types
  <1>14. References'
    <2>1. \A t \in 1 .. Len(tuples'), j \in Index : tuples'[t].contents[j] \in 1 .. Len(nodes')
      <3>1. \A j \in Index : tuples'[points[e].tuple].contents[j] \in 1 .. Len(nodes')
        BY <1>2, <1>9, <1>11, <1>12
      <3> QED  BY <1>2, <1>9, <1>10, <3>1
    <2>2. \A f \in Live, j \in Index : points'[f].node[j] \in 1 .. Len(nodes')
      <3> SUFFICES ASSUME NEW f \in Live, NEW j \in Index
                   PROVE  points'[f].node[j] \in 1 .. Len(nodes')
        OBVIOUS
      <3>1. CASE f = e /\ j = i
        BY <1>2, <1>5, <3>1
      <3>2. CASE ~(f = e /\ j = i)
        <4>1. points'[f].node[j] = points[f].node[j]
          BY <1>5, <1>6, <3>2
        <4> QED  BY <1>3, <1>9, <4>1
      <3> QED  BY <3>1, <3>2
    <2> QED  BY <1>2, <1>3, <1>6, <2>1, <2>2 DEF References
  <1>16. DetailsMatchNodes'
    <2> SUFFICES ASSUME NEW f \in Live, NEW j \in Index, points'[f].details[j].tag # "vertex_input"
                 PROVE  points'[f].details[j] = Parsed(NodeOf(f, j)'.what)
      BY <1>6 DEF DetailsMatchNodes
    <2>1. CASE f = e /\ j = i
      BY <1>5, <1>7, <1>4, <2>1, DetailsAreRead
    <2>2. CASE ~(f = e /\ j = i)
      BY <1>0, <1>4, <2>2 DEF DetailsOfNodes, DetailsMatchNodes
    <2> QED  BY <2>1, <2>2
  <1>17. Places'
    BY <1>6 DEF ArgumentsInv, Places
  <1>18. PositionsStay'
    <2> SUFFICES ASSUME numbered, NEW f \in Live, NEW j \in Index
                 PROVE  nodes'[Row(f)'[points[f].index[j]]].contents.position = j
      <3>1. \A f \in Live, j \in Index : numbered =>
               nodes'[Row(f)'[points'[f].index[j]]].contents.position = j
        BY <1>6
      <3> QED  BY <1>6, <3>1 DEF PositionsStay, Row
    <2>1. points[f].index[j] \in Index /\ nodes[Row(f)[points[f].index[j]]].contents.position = j
      BY <1>3 DEF ArgumentsInv, PositionsStay, Row
    <2>2. nodes[Row(e)[s]].contents.position = i
      BY DEF ArgumentsInv, PositionsStay, Row, s
    <2>3. CASE points[f].tuple = points[e].tuple /\ points[f].index[j] = s
      BY <1>2, <1>8, <1>12, <2>1, <2>2, <2>3
    <2>4. CASE ~(points[f].tuple = points[e].tuple /\ points[f].index[j] = s)
      BY <1>9, <1>12, <2>1, <2>4
    <2> QED  BY <2>3, <2>4
  <1>19. CASE ~careful
    BY <1>13, <1>14, <1>16, <1>17, <1>18, <1>19
       DEF ArgumentsInv, DetailsOfNodes, CarefulInv, CarefulUseIsSafe
  <1>20. CASE careful
    <2>1. /\ ~points[e].loaded /\ stage[e][i] = "made"
          /\ \A j \in Index : stage[e][j] # "described"
          /\ wanted' = [wanted EXCEPT ![e] = [wanted[e] EXCEPT ![i] = c]]
          /\ stage' = [stage EXCEPT ![e] = [stage[e] EXCEPT ![i] = "described"]]
      BY <1>20 DEF MayDescribe, Describe, Asked, c
    <2>2. DOMAIN wanted = EntryPoints /\ DOMAIN stage = EntryPoints /\ Protocol
      BY <1>20 DEF ArgumentsInv, CarefulInv
    <2>3. \A f \in Live : /\ wanted[f] \in [Index -> AllContents] /\ stage[f] \in [Index -> Stages]
                          /\ \A j \in Index : Progress(f, j)
      BY <2>2 DEF Protocol
    <2>4. /\ DOMAIN wanted' = EntryPoints /\ DOMAIN stage' = EntryPoints
          /\ \A f \in Live \ {e} : wanted'[f] = wanted[f] /\ stage'[f] = stage[f]
          /\ wanted'[e] = [wanted[e] EXCEPT ![i] = c]
          /\ stage'[e] = [stage[e] EXCEPT ![i] = "described"]
      BY <1>3, <2>1, <2>2
    <2>5. /\ \A j \in Index \ {i} : wanted'[e][j] = wanted[e][j] /\ stage'[e][j] = stage[e][j]
          /\ wanted'[e][i] = c /\ wanted'[e] \in [Index -> AllContents]
          /\ stage'[e][i] = "described" /\ stage'[e] \in [Index -> Stages]
      BY <1>7, <2>3, <2>4 DEF Stages
    <2>6. ~Finished(e)
      BY <2>1 DEF Finished
    <2>7. \A f \in Live : ~Finished(f) => f = e
      BY <2>2, <2>6 DEF Protocol
    <2>8. \A f \in Live : Finished(f) /\ f # e => Finished(f)'
      BY <1>2, <1>3, <2>4 DEF Finished
    <2>9. \A j \in Index : points[e].index[j] = j /\ Row(e)[j] = points[e].node[j]
      BY <2>2, <2>6 DEF Protocol, Row
    <2>10. s = i /\ \A j \in Index : Slot(e, j) = j
      BY <2>9 DEF s, Slot
    <2>11. \A f \in Live, j \in Index : Slot(f, j) \in Index /\ Slot(f, j)' = Slot(f, j)
      BY <1>3, <1>6 DEF Slot
    <2>12. \A f \in Live, j \in Index :
              Sure(f, j) => nodes[Row(f)[Slot(f, j)]].contents = Expected(f, j)
      BY <1>20 DEF ArgumentsInv, CarefulUseIsSafe, Row
    <2>13. wanted[e][i].name = NoName
      BY <2>1, <2>3 DEF Progress
    <2>14. c.name = NoName
      <3>1. Sure(e, i) /\ wanted[e][i] \in AllContents
        BY <2>1, <2>3 DEF Sure
      <3>2. NodeOf(e, i).name = NoName
        BY <2>9, <2>10, <2>12, <2>13, <3>1, ExpectedName DEF NodeOf
      <3> QED  BY <1>7, <3>2 DEF GetName
    <2>15. \A f \in Live : /\ wanted'[f] \in [Index -> AllContents] /\ stage'[f] \in [Index -> Stages]
                           /\ \A j \in Index : Progress(f, j)'
      <3>1. \A f \in Live \ {e} : \A j \in Index : Progress(f, j)'
        BY <1>6, <2>3, <2>4 DEF Progress
      <3>2. \A j \in Index \ {i} : Progress(e, j)'
        BY <1>5, <2>3, <2>5 DEF Progress
      <3>3. Progress(e, i)'
        BY <1>5, <1>7, <2>1, <2>5, <2>14, DetailsAreRead DEF Progress
      <3> QED  BY <2>3, <2>4, <2>5, <3>1, <3>2, <3>3
    <2>16. \A j \in Index : points'[e].index[j] = j /\ Row(e)'[j] = points'[e].node[j]
      BY <1>5, <1>12, <2>9, <2>10
    <2>17. \A j, l \in Index : stage'[e][j] = "described" /\ stage'[e][l] = "described" => j = l
      BY <2>1, <2>5
    <2>18. Protocol'
      <3>1. \A f, g \in Live : ~Finished(f)' /\ ~Finished(g)' => f = g
        BY <2>7, <2>8
      <3>2. \A f \in Live : ~Finished(f)' =>
               /\ \A j \in Index : /\ points'[f].index[j] = j
                                   /\ tuples'[points'[f].tuple].contents[j] = points'[f].node[j]
               /\ \A j, l \in Index : stage'[f][j] = "described" /\ stage'[f][l] = "described" => j = l
        <4> SUFFICES ASSUME NEW f \in Live, ~Finished(f)'
                     PROVE  f = e
          BY <2>16, <2>17 DEF Row
        <4> QED  BY <2>7, <2>8
      <3> QED  BY <1>6, <2>15, <3>1, <3>2 DEF Protocol
    <2>19. CarefulUseIsSafe'
      <3> SUFFICES ASSUME NEW f \in Live, NEW j \in Index, Sure(f, j)'
                   PROVE  nodes'[Row(f)'[Slot(f, j)]].contents = Expected(f, j)'
        BY <1>6, <2>11 DEF CarefulUseIsSafe, Row
      <3>1. CASE f = e /\ j = i
        <4>1. Expected(e, i)' = Written(c)
          BY <1>5, <2>1, <2>5 DEF Expected
        <4>2. Written(c) = c
          BY <1>7, NothingToWrite
        <4> QED  BY <1>2, <1>12, <2>10, <3>1, <4>1, <4>2
      <3>2. CASE ~(f = e /\ j = i)
        <4>1. wanted'[f][j] = wanted[f][j] /\ points'[f].loaded = points[f].loaded
          BY <1>5, <1>6, <2>4, <2>5, <3>2
        <4>2. Sure(f, j) /\ Expected(f, j)' = Expected(f, j)
          BY <4>1 DEF Sure, Expected
        <4>3. Slot(f, j) \in Index /\ nodes[Row(f)[Slot(f, j)]].contents = Expected(f, j)
          BY <2>11, <2>12, <4>2
        <4>4. ~(points[f].tuple = points[e].tuple /\ Slot(f, j) = i)
          <5> SUFFICES ASSUME points[f].tuple = points[e].tuple, Slot(f, j) = i PROVE FALSE
            OBVIOUS
          <5>1. f # e
            BY <2>10, <3>2
          <5>2. Row(f) = Row(e) /\ Sure(e, i)
            BY <2>1 DEF Row, Sure
          <5>3. Expected(f, j) = Expected(e, i)
            BY <2>10, <2>12, <4>3, <5>2
          <5>4. wanted[f][j].name = NoName
            BY <2>3, <2>13, <5>3, ExpectedName
          <5>5. ~points[f].loaded
            BY <4>2, <5>4 DEF Sure
          <5>6. stage[f][j] = "named"
            BY <2>7, <5>1, <5>5 DEF Finished
          <5> QED  BY <2>3, <5>4, <5>5, <5>6 DEF Progress
        <4>5. Row(f)'[Slot(f, j)] = Row(f)[Slot(f, j)] /\ Row(f)[Slot(f, j)] \in 1 .. Len(nodes)
          BY <1>12, <2>10, <4>3, <4>4
        <4> QED  BY <1>9, <4>2, <4>3, <4>5
      <3> QED  BY <3>1, <3>2
    <2> QED  BY <1>13, <1>14, <1>16, <1>17, <1>18, <2>4, <2>18, <2>19
             DEF ArgumentsInv, DetailsOfNodes, CarefulInv
  <1> QED  BY <1>19, <1>20

\* A vertex input's details are in the entry point only.
LEMMA DescribeVertexInputStep ==
    ASSUME ArgumentsInv, NEW e \in Live, NEW i \in Index, NEW d \in Details,
           d.tag = "vertex_input", MayDescribe(e, i),
           DescribeVertexInput(e, i, d), UNCHANGED <<numbered, careful>>
    PROVE  ArgumentsInv'
  <1>0. DetailsOfNodes /\ e \in EntryPoints
    BY DEF ArgumentsInv, Live
  <1> DEFINE P == [live : {TRUE}, loaded : BOOLEAN, node : [Index -> Nat],
                   index : [Index -> Index], details : [Index -> AllWords], tuple : Nat]
             p == points[e]
             q == [p EXCEPT !.details[i] = d]
  <1>2. /\ points' = [points EXCEPT ![e] = q] /\ points \in [EntryPoints -> Points]
        /\ UNCHANGED <<nodes, tuples>>
    BY <1>0 DEF DescribeVertexInput, DetailsOfNodes, Types
  <1>3. p \in P /\ p.details \in [Index -> AllWords] /\ p.live
    BY <1>0, PointType DEF DetailsOfNodes
  <1> HIDE DEF p
  <1>4. /\ q.live = p.live /\ q.loaded = p.loaded /\ q.node = p.node /\ q.index = p.index
        /\ q.tuple = p.tuple /\ q.details = [p.details EXCEPT ![i] = d] /\ q \in P
    <2>1. [p.details EXCEPT ![i] = d] \in [Index -> AllWords]
      BY <1>3, DetailsAreRead
    <2>2. q = [p EXCEPT !.details = [p.details EXCEPT ![i] = d]]
      BY <1>3
    <2> QED  BY <1>3, <2>1, <2>2
  <1> HIDE DEF q
  <1>5. /\ points' \in [EntryPoints -> Points] /\ points'[e] = q
        /\ \A f \in EntryPoints \ {e} : points'[f] = points[f]
    BY <1>0, <1>2, <1>4 DEF Points
  <1>6. Live' = Live
    <2>1. \A f \in EntryPoints : f \in Live' <=> f \in Live
      BY <1>3, <1>4, <1>5 DEF Live, p
    <2> QED  BY <2>1 DEF Live
  <1>7. \A f \in Live : /\ points'[f].node = points[f].node /\ points'[f].index = points[f].index
                        /\ points'[f].tuple = points[f].tuple
    BY <1>4, <1>5 DEF Live, p
  <1>8. \A f \in Live, j \in Index :
           points'[f].details[j] = IF f = e /\ j = i THEN d ELSE points[f].details[j]
    BY <1>3, <1>4, <1>5 DEF Live, p
  <1>9. Types'
    BY <1>0, <1>2, <1>5 DEF DetailsOfNodes, Types
  <1>10. References'
    BY <1>0, <1>2, <1>6, <1>7 DEF DetailsOfNodes, References
  <1>11. DetailsMatchNodes'
    <2>1. \A f \in Live, j \in Index : NodeOf(f, j)' = NodeOf(f, j)
      BY <1>2, <1>7 DEF NodeOf
    <2>2. \A f \in Live, j \in Index : points[f].details[j].tag # "vertex_input" =>
             points[f].details[j] = Parsed(NodeOf(f, j).what)
      BY <1>0 DEF DetailsOfNodes, DetailsMatchNodes
    <2>3. \A f \in Live, j \in Index : points'[f].details[j].tag # "vertex_input" =>
             points'[f].details[j] = Parsed(NodeOf(f, j)'.what)
      BY <1>8, <2>1, <2>2
    <2> QED  BY <1>6, <2>3 DEF DetailsMatchNodes
  <1>12. Places'
    BY <1>6, <1>7 DEF ArgumentsInv, Places
  <1>13. PositionsStay'
    <2>1. \A f \in Live, j \in Index : numbered => nodes[Row(f)[points[f].index[j]]].contents.position = j
      BY DEF ArgumentsInv, PositionsStay, Row
    <2>2. \A f \in Live : Row(f)' = Row(f)
      BY <1>2, <1>7 DEF Row
    <2>3. \A f \in Live, j \in Index :
             numbered => nodes'[Row(f)'[points'[f].index[j]]].contents.position = j
      BY <1>2, <1>7, <2>1, <2>2
    <2> QED  BY <1>6, <2>3 DEF PositionsStay, Row
  <1>14. CASE ~careful
    BY <1>9, <1>10, <1>11, <1>12, <1>13, <1>14
       DEF ArgumentsInv, DetailsOfNodes, CarefulInv, CarefulUseIsSafe
  <1>15. CASE careful
    <2>1. /\ ~points[e].loaded /\ stage[e][i] = "made"
          /\ \A j \in Index : stage[e][j] # "described"
          /\ wanted' = [wanted EXCEPT ![e] = [wanted[e] EXCEPT ![i].what = d]]
          /\ stage' = [stage EXCEPT ![e] = [stage[e] EXCEPT ![i] = "described"]]
      BY <1>15 DEF MayDescribe, DescribeVertexInput, Asked
    <2>2. DOMAIN wanted = EntryPoints /\ DOMAIN stage = EntryPoints /\ Protocol
      BY <1>15 DEF ArgumentsInv, CarefulInv
    <2>3. \A f \in Live : /\ wanted[f] \in [Index -> AllContents] /\ stage[f] \in [Index -> Stages]
                          /\ f \in EntryPoints /\ \A j \in Index : Progress(f, j)
      BY <2>2 DEF Protocol, Live
    <2>4. /\ DOMAIN wanted' = EntryPoints /\ DOMAIN stage' = EntryPoints
          /\ \A f \in Live \ {e} : wanted'[f] = wanted[f] /\ stage'[f] = stage[f]
          /\ wanted'[e] = [wanted[e] EXCEPT ![i].what = d]
          /\ stage'[e] = [stage[e] EXCEPT ![i] = "described"]
      BY <2>1, <2>2, <2>3
    <2>5. /\ \A j \in Index \ {i} : wanted'[e][j] = wanted[e][j] /\ stage'[e][j] = stage[e][j]
          /\ wanted'[e][i] = [wanted[e][i] EXCEPT !.what = d]
          /\ stage'[e][i] = "described" /\ stage'[e] \in [Index -> Stages]
      BY <2>3, <2>4 DEF Stages
    <2>6. wanted'[e][i] \in AllContents /\ wanted'[e][i].what = d
          /\ wanted'[e][i].name = wanted[e][i].name
      BY <2>3, <2>5, DetailsAreRead DEF AllContents
    <2>7. wanted'[e] \in [Index -> AllContents]
      BY <2>3, <2>4, <2>5, <2>6
    <2>8. wanted[e][i].name = NoName /\ wanted[e][i].what = NoDetails
      BY <2>1, <2>3 DEF Progress
    <2>9. \A f \in Live : points'[f].loaded = points[f].loaded
      BY <1>3, <1>4, <1>5 DEF Live, p
    <2>10. numbered
      <3>1. Details = {Detail("texture", "read"), Detail("position", "flat")} \/ numbered
        BY Zenon DEF Details
      <3> QED  BY <3>1 DEF Detail
    <2>11. \A f \in Live : \A j \in Index : Progress(f, j)'
      <3>1. \A f \in Live \ {e} : \A j \in Index : Progress(f, j)'
        BY <2>3, <2>4, <2>9, <2>10 DEF Progress
      <3>2. \A j \in Index \ {i} : Progress(e, j)'
        BY <2>3, <2>5, <2>9 DEF Progress
      <3>3. Progress(e, i)'
        <4>1. numbered'
          BY <2>10
        <4>2. d # NoDetails
          BY DetailsAreRead
        <4> QED  BY <2>5, <2>6, <2>8, <4>1, <4>2 DEF Progress
      <3> QED  BY <3>1, <3>2, <3>3
    <2>12. ~Finished(e)
      BY <2>1 DEF Finished
    <2>13. \A f \in Live : ~Finished(f) => f = e
      BY <2>2, <2>12 DEF Protocol
    <2>14. \A f \in Live : ~Finished(f)' => f = e
      BY <2>4, <2>9, <2>13 DEF Finished
    <2>15. \A j \in Index : points[e].index[j] = j /\ Row(e)[j] = points[e].node[j]
      BY <2>2, <2>12 DEF Protocol, Row
    <2>16. \A j, l \in Index : stage'[e][j] = "described" /\ stage'[e][l] = "described" => j = l
      BY <2>1, <2>5
    <2>17. Protocol'
      <3>1. \A f, g \in Live : ~Finished(f)' /\ ~Finished(g)' => f = g
        BY <2>14
      <3>2. \A f \in Live : ~Finished(f)' =>
               /\ \A j \in Index : /\ points'[f].index[j] = j
                                   /\ tuples'[points'[f].tuple].contents[j] = points'[f].node[j]
               /\ \A j, l \in Index : stage'[f][j] = "described" /\ stage'[f][l] = "described" => j = l
        BY <1>2, <1>7, <2>14, <2>15, <2>16 DEF Row
      <3>3. \A f \in Live : wanted'[f] \in [Index -> AllContents] /\ stage'[f] \in [Index -> Stages]
        BY <2>3, <2>4, <2>5, <2>7
      <3> QED  BY <1>6, <2>11, <3>1, <3>2, <3>3 DEF Protocol
    <2>18. CarefulUseIsSafe'
      <3>1. ASSUME NEW f \in Live, NEW j \in Index, Sure(f, j)'
            PROVE  nodes[Row(f)[Slot(f, j)]].contents = Expected(f, j)'
        <4>1. wanted'[f][j].name = wanted[f][j].name
          BY <2>4, <2>5, <2>6
        <4>2. Sure(f, j)
          BY <2>9, <3>1, <4>1 DEF Sure
        <4>3. nodes[Row(f)[Slot(f, j)]].contents = Expected(f, j)
          BY <1>15, <4>2 DEF ArgumentsInv, CarefulUseIsSafe, Row
        <4>4. CASE f = e /\ j = i
          <5>1. Expected(e, i)' = Written([wanted[e][i] EXCEPT !.what = d])
            BY <2>1, <2>5, <2>9 DEF Expected
          <5>2. Expected(e, i) = Written(wanted[e][i])
            BY <2>1 DEF Expected
          <5>3. wanted[e][i] \in AllContents
            BY <2>3
          <5>4. Written([wanted[e][i] EXCEPT !.what = d]) = Written(wanted[e][i])
            BY <2>8, <5>3, VertexInputsUnwritten
          <5> QED  BY <4>3, <4>4, <5>1, <5>2, <5>4
        <4>5. CASE ~(f = e /\ j = i)
          <5>1. wanted'[f][j] = wanted[f][j]
            BY <2>4, <2>5, <4>5
          <5> QED  BY <2>9, <4>3, <5>1 DEF Expected
        <4> QED  BY <4>4, <4>5
      <3>2. \A f \in Live, j \in Index : Slot(f, j)' = Slot(f, j)
        BY <1>7 DEF Slot
      <3>3. \A f \in Live : Row(f)' = Row(f)
        BY <1>2, <1>7 DEF Row
      <3> QED  BY <1>2, <1>6, <3>1, <3>2, <3>3 DEF CarefulUseIsSafe, Row
    <2> QED  BY <1>9, <1>10, <1>11, <1>12, <1>13, <2>4, <2>17, <2>18
             DEF ArgumentsInv, DetailsOfNodes, CarefulInv
  <1> QED  BY <1>14, <1>15

LEMMA InitDetailsStep ==
    ASSUME ArgumentsInv, NEW e \in EntryPoints, NEW i \in Index, NEW d \in Details,
           InitDetails(e, i, d)
    PROVE  ArgumentsInv'
  <1>1. e \in Live /\ MayDescribe(e, i) /\ UNCHANGED <<numbered, careful>>
    BY DEF InitDetails
  <1>2. CASE d.tag = "vertex_input"
    <2>1. DescribeVertexInput(e, i, d)
      BY <1>2 DEF InitDetails
    <2> QED  BY <1>1, <1>2, <2>1, DescribeVertexInputStep
  <1>3. CASE d.tag # "vertex_input"
    <2>1. Describe(e, i, d)
      BY <1>3 DEF InitDetails
    <2> QED  BY <1>1, <1>3, <2>1, DescribeStep
  <1> QED  BY <1>2, <1>3

----------------------------------------------------------------------------
(* The theorems.                                                           *)

LEMMA DeleteStep ==
    ASSUME ArgumentsInv, NEW e \in EntryPoints, Delete(e)
    PROVE  ArgumentsInv'
  <1>1. /\ points' = [points EXCEPT ![e] = NoPoint] /\ UNCHANGED <<numbered, careful, nodes, tuples>>
        /\ Asked(e, <<>>, <<>>)
    BY DEF Delete
  <1>2. points \in [EntryPoints -> Points]
    BY DEF ArgumentsInv, DetailsOfNodes, Types
  <1>3. points' \in [EntryPoints -> Points] /\ points'[e].live = FALSE
    BY <1>1, <1>2 DEF Points, NoPoint
  <1>4. \A f \in Live' : f \in Live /\ f # e /\ f \in EntryPoints /\ points'[f] = points[f]
    <2>1. \A f \in EntryPoints \ {e} : points'[f] = points[f]
      BY <1>1, <1>2
    <2> QED  BY <1>3, <2>1 DEF Live
  <1>5. Types' /\ References'
    BY <1>1, <1>3, <1>4 DEF ArgumentsInv, DetailsOfNodes, Types, References
  <1>6. DetailsMatchNodes'
    <2>1. \A f \in Live', j \in Index : NodeOf(f, j)' = NodeOf(f, j)
      BY <1>1, <1>4 DEF NodeOf
    <2> QED  BY <1>4, <2>1 DEF ArgumentsInv, DetailsOfNodes, DetailsMatchNodes
  <1>7. Places' /\ PositionsStay'
    <2>1. Places'
      BY <1>1, <1>4 DEF ArgumentsInv, Places
    <2>2. \A f \in Live, j \in Index : numbered => nodes[Row(f)[points[f].index[j]]].contents.position = j
      BY DEF ArgumentsInv, PositionsStay, Row
    <2>3. \A f \in Live' : Row(f)' = Row(f)
      BY <1>1, <1>4 DEF Row
    <2>4. \A f \in Live', j \in Index :
             numbered => nodes'[Row(f)'[points'[f].index[j]]].contents.position = j
      BY <1>1, <1>4, <2>2, <2>3
    <2> QED  BY <1>1, <2>1, <2>4 DEF PositionsStay, Row
  <1>8. careful => /\ DOMAIN wanted' = EntryPoints /\ DOMAIN stage' = EntryPoints
                   /\ \A f \in Live' : wanted'[f] = wanted[f] /\ stage'[f] = stage[f]
    BY <1>1, <1>4 DEF Asked, ArgumentsInv, CarefulInv
  <1>9. CarefulInv'
    <2> SUFFICES ASSUME careful PROVE Protocol'
      BY <1>1, <1>8 DEF CarefulInv
    <2>1. Protocol
      BY DEF ArgumentsInv, CarefulInv
    <2>2. \A f \in Live' : Finished(f)' <=> Finished(f)
      BY <1>4, <1>8 DEF Finished
    <2>3. \A f \in Live' : \A j \in Index : Progress(f, j)' <=> Progress(f, j)
      BY <1>1, <1>4, <1>8 DEF Progress
    <2>4. \A f \in Live' : /\ wanted'[f] \in [Index -> AllContents] /\ stage'[f] \in [Index -> Stages]
                           /\ \A j \in Index : Progress(f, j)'
      BY <1>4, <1>8, <2>1, <2>3 DEF Protocol
    <2>5. \A f, g \in Live' : ~Finished(f)' /\ ~Finished(g)' => f = g
      BY <1>4, <2>1, <2>2 DEF Protocol
    <2>6. \A f \in Live' : ~Finished(f)' =>
             /\ \A j \in Index : /\ points'[f].index[j] = j
                                 /\ tuples'[points'[f].tuple].contents[j] = points'[f].node[j]
             /\ \A j, l \in Index : stage'[f][j] = "described" /\ stage'[f][l] = "described" => j = l
      BY <1>1, <1>4, <1>8, <2>1, <2>2 DEF Protocol
    <2> QED  BY <2>4, <2>5, <2>6 DEF Protocol
  <1>10. CarefulUseIsSafe'
    <2>1. \A f \in Live', j \in Index : Slot(f, j)' = Slot(f, j)
      BY <1>1, <1>4 DEF Slot
    <2>2. \A f \in Live', j \in Index :
             careful => (Sure(f, j)' <=> Sure(f, j)) /\ Expected(f, j)' = Expected(f, j)
      BY <1>4, <1>8 DEF Sure, Expected
    <2>3. \A f \in Live, j \in Index : careful /\ Sure(f, j) =>
             nodes[Row(f)[Slot(f, j)]].contents = Expected(f, j)
      BY DEF ArgumentsInv, CarefulUseIsSafe, Row
    <2>4. \A f \in Live' : Row(f)' = Row(f)
      BY <1>1, <1>4 DEF Row
    <2> SUFFICES ASSUME careful, NEW f \in Live', NEW j \in Index, Sure(f, j)'
                 PROVE  nodes'[Row(f)'[Slot(f, j)']].contents = Expected(f, j)'
      BY <1>1 DEF CarefulUseIsSafe, Row
    <2> QED  BY <1>1, <1>4, <2>1, <2>2, <2>3, <2>4
  <1> QED  BY <1>5, <1>6, <1>7, <1>9, <1>10 DEF ArgumentsInv, DetailsOfNodes

LEMMA ArgumentsStep ==
    ArgumentsInv /\ [Next]_vars => ArgumentsInv'
  <1> SUFFICES ASSUME ArgumentsInv, [Next]_vars PROVE ArgumentsInv'
    OBVIOUS
  <1>1. ASSUME NEW e \in EntryPoints, Create(e) PROVE ArgumentsInv'
    BY <1>1, CreateStep
  <1>2. ASSUME NEW e \in EntryPoints, Load(e) PROVE ArgumentsInv'
    BY <1>2, LoadStep
  <1>3. ASSUME NEW e \in EntryPoints, Delete(e) PROVE ArgumentsInv'
    BY <1>3, DeleteStep
  <1>4. ASSUME NEW e \in EntryPoints, NEW i \in Index, NEW text \in Texts, SetName(e, i, text)
        PROVE  ArgumentsInv'
    BY <1>4, SetNameStep
  <1>5. ASSUME NEW e \in EntryPoints, NEW i \in Index, NEW d \in Details, InitDetails(e, i, d)
        PROVE  ArgumentsInv'
    BY <1>5, InitDetailsStep
  <1>6. CASE UNCHANGED vars
    <2>1. UNCHANGED <<numbered, careful, nodes, tuples, points, wanted, stage>> /\ Live' = Live
      BY <1>6 DEF vars, Live
    <2>2. DetailsOfNodes'
      BY <2>1 DEF ArgumentsInv, DetailsOfNodes, Types, References, DetailsMatchNodes, NodeOf
    <2>3. Places' /\ PositionsStay' /\ CarefulUseIsSafe'
      BY <2>1 DEF ArgumentsInv, Places, PositionsStay, CarefulUseIsSafe, Slot, Sure, Expected
    <2>4. CarefulInv'
      BY <2>1 DEF ArgumentsInv, CarefulInv, Protocol, Progress, Finished
    <2> QED  BY <2>2, <2>3, <2>4 DEF ArgumentsInv
  <1> QED  BY <1>1, <1>2, <1>3, <1>4, <1>5, <1>6 DEF Next

LEMMA ArgumentsStart ==
    Init => ArgumentsInv
  <1> SUFFICES ASSUME Init PROVE ArgumentsInv
    OBVIOUS
  <1>1. /\ numbered \in BOOLEAN /\ careful \in BOOLEAN /\ nodes = <<>> /\ tuples = <<>>
        /\ points = [e \in EntryPoints |-> NoPoint]
        /\ wanted = [e \in EntryPoints |-> <<>>] /\ stage = [e \in EntryPoints |-> <<>>]
    BY DEF Init
  <1>2. Live = {}
    BY <1>1 DEF Live, NoPoint
  <1>3. nodes \in Stores(AllContents) /\ tuples \in Stores([Index -> Nat]) /\ Len(tuples) = 0
    BY <1>1 DEF Stores
  <1>4. Types
    BY <1>1, <1>3 DEF Types, Points
  <1> QED  BY <1>1, <1>2, <1>3, <1>4
           DEF ArgumentsInv, DetailsOfNodes, References, DetailsMatchNodes, Places, PositionsStay,
               CarefulInv, Protocol, CarefulUseIsSafe

\* The invariant: references lead somewhere, the details of every argument are those of
\* its node, the places in the tuples are kept, and what a careful caller has got follows
\* how far it has got.
THEOREM ArgumentsSafe ==
    Spec => []ArgumentsInv
  <1> QED  BY ArgumentsStart, ArgumentsStep, PTL DEF Spec

\* d_details say what the node says, whoever shares it (EntryPoint.cpp, InitDetailsAs...).
THEOREM DetailsMatch ==
    Spec => []DetailsMatchNodes
  <1>1. ArgumentsInv => DetailsMatchNodes
    BY DEF ArgumentsInv, DetailsOfNodes
  <1> QED  BY <1>1, ArgumentsSafe, PTL

\* d_md_index stays the place of the argument, however many share the tuple and in
\* whatever order files list their arguments (updateArgumentMetadata).
THEOREM PositionsHold ==
    Spec => []PositionsStay
  <1>1. ArgumentsInv => PositionsStay
    BY DEF ArgumentsInv
  <1> QED  BY <1>1, ArgumentsSafe, PTL

\* Describing an argument and naming it then, one after the other, is safe (setName
\* changes nodes that others may hold), whatever files are loaded in between: but for
\* the arguments that a file leaves without a name, and the details of vertex inputs.
THEOREM CarefulUse ==
    Spec => []CarefulUseIsSafe
  <1>1. ArgumentsInv => CarefulUseIsSafe
    BY DEF ArgumentsInv
  <1> QED  BY <1>1, ArgumentsSafe, PTL

\* A step that describes an argument: names stay.
LEMMA NamesStay ==
    ASSUME ArgumentsInv, [Next]_vars, NEW e \in Live, points'[e].live, points'[e].node # points[e].node,
           NEW f \in Live, NEW j \in Index
    PROVE  GetName(NodeOf(f, j))' = GetName(NodeOf(f, j))
  <1>1. DetailsOfNodes /\ points \in [EntryPoints -> Points] /\ e \in EntryPoints
    BY DEF ArgumentsInv, DetailsOfNodes, Types, Live
  <1>2. ASSUME NEW g \in EntryPoints, g \notin Live, NEW p, points' = [points EXCEPT ![g] = p] PROVE FALSE
    BY <1>1, <1>2
  <1>3. ASSUME NEW g \in EntryPoints, Create(g) PROVE FALSE
    <2>1. g \notin Live /\ \E p : points' = [points EXCEPT ![g] = p]
      BY <1>3 DEF Create, Construct
    <2> QED  BY <1>2, <2>1
  <1>4. ASSUME NEW g \in EntryPoints, Load(g) PROVE FALSE
    <2>1. g \notin Live /\ \E p : points' = [points EXCEPT ![g] = p]
      BY <1>4 DEF Load, Construct
    <2> QED  BY <1>2, <2>1
  <1>5. ASSUME NEW g \in EntryPoints, Delete(g) PROVE FALSE
    BY <1>1, <1>5 DEF Delete, NoPoint
  <1>6. ASSUME NEW g \in EntryPoints, NEW i \in Index, NEW text \in Texts, SetName(g, i, text) PROVE FALSE
    BY <1>6 DEF SetName
  <1>7. ASSUME NEW g \in EntryPoints, NEW i \in Index, NEW d \in Details, InitDetails(g, i, d)
        PROVE  GetName(NodeOf(f, j))' = GetName(NodeOf(f, j))
    <2>1. CASE d.tag = "vertex_input"
      <3>1. points' = [points EXCEPT ![g].details[i] = d]
        BY <1>7, <2>1 DEF InitDetails, DescribeVertexInput
      <3>2. points'[e].node = points[e].node
        <4> DEFINE P == [live : {TRUE}, loaded : BOOLEAN, node : [Index -> Nat],
                         index : [Index -> Index], details : [Index -> AllWords], tuple : Nat]
                   p == points[e]
        <4>1. p \in P
          BY <1>1, PointType DEF DetailsOfNodes
        <4>2. points'[e] = IF e = g THEN [p EXCEPT !.details[i] = d] ELSE p
          BY <1>1, <3>1
        <4> HIDE DEF p
        <4>3. [p EXCEPT !.details[i] = d].node = p.node
          BY <4>1
        <4> QED  BY <4>2, <4>3 DEF p
      <3> QED  BY <3>2
    <2>2. CASE d.tag # "vertex_input"
      <3>1. g \in Live /\ Describe(g, i, d)
        BY <1>7, <2>2 DEF InitDetails
      <3>2. PICK k : DescribedWith(g, i, d, k)
        BY <1>1, <3>1, DescribeEffect
      <3>3. IF f = g /\ j = i THEN NodeOf(f, j)' = Described(g, i, d) ELSE NodeOf(f, j)' = NodeOf(f, j)
        BY <1>1, <3>1, <3>2, DescribedPoints
      <3>4. GetName(NodeOf(f, j))' = LET c == NodeOf(f, j)' IN IF c.name = "absent" THEN NoName ELSE c.name
        BY DEF GetName
      <3>5. CASE f = g /\ j = i
        <4>1. Described(g, i, d).name = GetName(NodeOf(f, j))
          BY <1>1, <3>1, <3>5, DescribedType
        <4>2. GetName(NodeOf(f, j)) # "absent"
          BY AbsentIsAName DEF GetName
        <4> QED  BY <3>3, <3>4, <3>5, <4>1, <4>2
      <3>6. CASE ~(f = g /\ j = i)
        BY <3>3, <3>4, <3>6 DEF GetName
      <3> QED  BY <3>5, <3>6
    <2> QED  BY <2>1, <2>2
  <1>8. CASE UNCHANGED vars
    BY <1>8 DEF vars
  <1> QED  BY <1>3, <1>4, <1>5, <1>6, <1>7, <1>8 DEF Next

\* InitDetailsAs... makes a new node with the name of the old one, and changes no name,
\* neither the argument's own nor one that another holds.
THEOREM NamesSurviveDetails ==
    Spec => DescribingKeepsNames
  <1>1. ArgumentsInv /\ [Next]_vars =>
           [\A e \in Live : points'[e].live /\ points'[e].node # points[e].node =>
              \A f \in Live, j \in Index : GetName(NodeOf(f, j))' = GetName(NodeOf(f, j))]_vars
    BY NamesStay
  <1> QED  BY <1>1, ArgumentsSafe, PTL DEF Spec, DescribingKeepsNames
=============================================================================
