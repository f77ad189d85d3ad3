------------------------- MODULE EntryPointsProofs -------------------------
(***************************************************************************)
(* Proofs about EntryPoints, for every set of entry points (finite),       *)
(* functions, modules and nodes. What the context's map says depends on    *)
(* which functions have two entry points and which went under theirs; what *)
(* the named metadata says depends on how many entry points have a node.   *)
(***************************************************************************)
EXTENDS EntryPoints, FiniteSetTheorems, TLAPS

EntryRecord ==
    [live : {TRUE}, kind : Kinds, node : Nodes, function : Functions \cup {Null},
     module : Modules \cup {Null}]

RowNumbers == [Nodes \cup {Null} -> Nat]

Numbers == [Modules -> [Kinds -> RowNumbers]]

\* The types of the variables that the proofs look into.
Types ==
    /\ describes \in [Nodes -> Functions \cup {Null}]
    /\ entry \in [Objects -> EntryRecord \cup {NoEntryPoint}]
    /\ registered \in [Functions -> Objects \cup {Null}]
    /\ operands \in Numbers
    /\ named \in [Modules -> BOOLEAN]
    /\ open \subseteq Modules

\* A function on record as gone is still a key.
StaleAreKeys == \A f \in stale : f \in Functions /\ registered[f] # Null

\* A function with two entry points is on record.
OnePerFunction == \A f \in Functions \ shared : \A o, p \in EntryPointsOf(f) : o = p

\* Without an "air.vertex" there are no operands in it.
UnnamedAreEmpty == \A m \in Modules, n \in Nodes : ~named[m] => operands[m]["vertex"][n] = 0

\* The map from functions to entry points.
MapInv == StaleAreKeys /\ OnePerFunction /\ LookupsAreLive /\ EntryPointsAreFound

\* The named metadata.
OperandsInv == UnnamedAreEmpty /\ OperandsHaveEntryPoints

EntryPointsInv == Types /\ MapInv /\ OperandsInv

\* The entry points of m that have the node n and are of kind k.
Row(m, k, n) == {o \in Listed(m) : entry[o].kind = k /\ entry[o].node = n}

----------------------------------------------------------------------------
(* Entry points, by their records.                                         *)

LEMMA LiveRecords ==
    ASSUME Types
    PROVE  /\ \A o \in Objects : o \in Live <=> entry[o] \in EntryRecord
           /\ \A o \in Live : entry[o] \in EntryRecord /\ entry[o].live
           /\ \A o \in Objects \ Live : entry[o] = NoEntryPoint
  <1>1. \A r \in EntryRecord : r.live = TRUE
    BY DEF EntryRecord
  <1>2. NoEntryPoint.live = FALSE
    BY DEF NoEntryPoint
  <1>3. \A o \in Objects : entry[o] \in EntryRecord \/ entry[o] = NoEntryPoint
    BY DEF Types
  <1>4. \A o \in Objects : entry[o] \in EntryRecord => entry[o].live
    BY <1>1, Zenon
  <1>5. \A o \in Objects : entry[o] = NoEntryPoint => ~entry[o].live
    BY <1>2, Zenon
  <1> QED  BY <1>3, <1>4, <1>5, Zenon DEF Live

LEMMA MembersOf ==
    ASSUME NEW f
    PROVE  \A o : o \in EntryPointsOf(f) <=>
                     o \in Live /\ entry[o].module # Null /\ entry[o].function = f
  BY DEF EntryPointsOf

LEMMA RowIsFinite ==
    ASSUME NEW m, NEW k, NEW n
    PROVE  /\ IsFiniteSet(Row(m, k, n)) /\ Row(m, k, n) \subseteq Objects
           /\ Count(m, k, n) = Cardinality(Row(m, k, n)) /\ Count(m, k, n) \in Nat
  <1>1. Row(m, k, n) \in SUBSET Objects
    BY DEF Row, Listed, Live
  <1>2. IsFiniteSet(Row(m, k, n))
    BY <1>1, FiniteAssumption, FS_Subset
  <1>3. Count(m, k, n) = Cardinality(Row(m, k, n))
    BY DEF Count, Row
  <1> QED  BY <1>1, <1>2, <1>3, FS_CardinalityType

----------------------------------------------------------------------------
(* What happens to the map.                                                *)

\* One more entry point of a function.
LEMMA MapJoined ==
    ASSUME Types, MapInv, NEW o \in Objects, NEW f \in Functions \cup {Null},
           \A g \in Functions \ {f} : EntryPointsOf(g)' = EntryPointsOf(g),
           f # Null => EntryPointsOf(f)' = EntryPointsOf(f) \cup {o},
           registered' = Registered(o, f), shared' = SharedBy(f), stale' = stale
    PROVE  MapInv'
  <1> USE DEF MapInv
  <1>0. Null \notin Functions /\ Null \notin Objects
    BY NullAssumption
  <1>1. /\ \A g \in Functions : registered[g] # Null => registered'[g] = registered[g]
        /\ \A g \in Functions \ {f} : registered'[g] = registered[g]
        /\ f # Null /\ registered[f] = Null => registered'[f] = o
    BY DEF Registered, Types
  <1>2. shared \subseteq shared' /\ (f # Null /\ EntryPointsOf(f) # {} => f \in shared')
    BY DEF SharedBy
  <1>3. StaleAreKeys'
    BY <1>1 DEF StaleAreKeys
  <1>4. OnePerFunction'
    <2> SUFFICES ASSUME NEW g \in Functions \ shared', NEW p \in EntryPointsOf(g)',
                        NEW q \in EntryPointsOf(g)'
                 PROVE  p = q
      BY DEF OnePerFunction
    <2>1. CASE g = f
      BY <1>0, <1>2, <2>1
    <2>2. CASE g # f
      BY <1>2, <2>2 DEF OnePerFunction
    <2> QED  BY <2>1, <2>2
  <1>5. LookupsAreLive'
    <2> SUFFICES ASSUME NEW g \in Functions \ stale, registered'[g] # Null
                 PROVE  registered'[g] \in EntryPointsOf(g)'
      BY DEF LookupsAreLive
    <2>1. CASE registered[g] # Null
      <3>1. registered'[g] = registered[g] /\ registered[g] \in EntryPointsOf(g)
        BY <1>1, <2>1 DEF LookupsAreLive
      <3>2. EntryPointsOf(g) \subseteq EntryPointsOf(g)'
        BY <1>0
      <3> QED  BY <3>1, <3>2
    <2>2. CASE registered[g] = Null
      BY <1>0, <1>1, <2>2
    <2> QED  BY <2>1, <2>2
  <1>6. EntryPointsAreFound'
    <2> SUFFICES ASSUME NEW g \in Functions \ (stale \cup shared'), NEW p \in EntryPointsOf(g)'
                 PROVE  registered'[g] = p
      BY DEF EntryPointsAreFound
    <2>1. CASE g = f
      <3>1. EntryPointsOf(f) = {} /\ p = o
        BY <1>0, <1>2, <2>1
      <3>2. registered[f] = Null
        BY <2>1, <3>1 DEF LookupsAreLive
      <3> QED  BY <1>0, <1>1, <2>1, <3>1, <3>2
    <2>2. CASE g # f
      <3>1. registered[g] = p
        BY <1>2, <2>2 DEF EntryPointsAreFound
      <3> QED  BY <1>1, <2>2, <3>1
    <2> QED  BY <2>1, <2>2
  <1> QED  BY <1>3, <1>4, <1>5, <1>6

\* An entry point that was listed leaves.
LEMMA MapLeft ==
    ASSUME Types, MapInv, NEW o \in Live, entry[o].module # Null,
           \A g \in Functions : EntryPointsOf(g)' = EntryPointsOf(g) \ {o},
           registered' = Unregistered(o), stale' = {f \in stale : registered'[f] # Null},
           shared' = shared
    PROVE  MapInv'
  <1> USE DEF MapInv
  <1> DEFINE h == entry[o].function
  <1>0. /\ Null \notin Functions /\ h \in Functions \cup {Null}
        /\ h # Null => o \in EntryPointsOf(h)
    BY NullAssumption, LiveRecords, MembersOf DEF EntryRecord
  <1>1. /\ \A g \in Functions \ {h} : registered'[g] = registered[g]
        /\ h # Null => registered'[h] = Null
    BY <1>0 DEF Unregistered, Types
  <1> HIDE DEF h
  <1>2. StaleAreKeys'
    BY DEF StaleAreKeys
  <1>3. OnePerFunction'
    BY DEF OnePerFunction
  <1>4. LookupsAreLive'
    <2> SUFFICES ASSUME NEW g \in Functions \ stale', registered'[g] # Null
                 PROVE  registered'[g] \in EntryPointsOf(g)'
      BY DEF LookupsAreLive
    <2>1. g # h /\ g \notin stale /\ registered'[g] = registered[g]
      BY <1>0, <1>1
    <2>2. registered[g] \in EntryPointsOf(g)
      BY <2>1 DEF LookupsAreLive
    <2>3. registered[g] # o
      BY <2>1, <2>2, MembersOf DEF h
    <2> QED  BY <2>1, <2>2, <2>3
  <1>5. EntryPointsAreFound'
    <2> SUFFICES ASSUME NEW g \in Functions \ (stale' \cup shared), NEW p \in EntryPointsOf(g)'
                 PROVE  registered'[g] = p
      BY DEF EntryPointsAreFound
    <2>1. p \in EntryPointsOf(g) /\ p # o
      OBVIOUS
    <2>2. g # h
      BY <1>0, <2>1 DEF OnePerFunction
    <2>3. g \notin stale /\ registered'[g] = registered[g]
      BY <1>1, <2>2 DEF StaleAreKeys
    <2> QED  BY <2>1, <2>3 DEF EntryPointsAreFound
  <1> QED  BY <1>2, <1>3, <1>4, <1>5

\* Entry points in gone leave and the functions fs vanish.
LEMMA MapVanished ==
    ASSUME Types, MapInv, NEW gone \in SUBSET Live, \A o \in gone : entry[o].module # Null,
           NEW fs \in SUBSET Functions,
           \A g \in fs : EntryPointsOf(g)' = {},
           \A g \in Functions \ fs : EntryPointsOf(g)' = EntryPointsOf(g) \ gone,
           registered' \in [Functions -> Objects \cup {Null}],
           \A f \in Functions :
              registered'[f] = IF \E o \in gone : entry[o].function = f THEN Null ELSE registered[f],
           stale' = {f \in stale \cup fs : registered'[f] # Null}, shared' = shared \ fs
    PROVE  MapInv'
  <1> USE DEF MapInv
  <1>1. StaleAreKeys'
    BY DEF StaleAreKeys
  <1>2. OnePerFunction'
    BY DEF OnePerFunction
  <1>3. LookupsAreLive'
    <2> SUFFICES ASSUME NEW g \in Functions \ stale', registered'[g] # Null
                 PROVE  registered'[g] \in EntryPointsOf(g)'
      BY DEF LookupsAreLive
    <2>1. g \notin stale /\ g \notin fs /\ registered'[g] = registered[g]
          /\ \A o \in gone : entry[o].function # g
      OBVIOUS
    <2>2. registered[g] \in EntryPointsOf(g)
      BY <2>1 DEF LookupsAreLive
    <2>3. registered[g] \notin gone
      BY <2>1, <2>2, MembersOf
    <2> QED  BY <2>1, <2>2, <2>3
  <1>4. EntryPointsAreFound'
    <2> SUFFICES ASSUME NEW g \in Functions \ (stale' \cup shared'), NEW p \in EntryPointsOf(g)'
                 PROVE  registered'[g] = p
      BY DEF EntryPointsAreFound
    <2>1. g \notin fs /\ g \notin shared /\ p \in EntryPointsOf(g) /\ p \notin gone
      OBVIOUS
    <2>2. \A o \in gone : entry[o].function # g
      BY <2>1, MembersOf DEF OnePerFunction
    <2>3. registered'[g] = registered[g] /\ g \notin stale
      BY <2>2 DEF StaleAreKeys
    <2> QED  BY <2>1, <2>3 DEF EntryPointsAreFound
  <1> QED  BY <1>1, <1>2, <1>3, <1>4

\* A sync adds the entry points in extra(f) for each function f.
LEMMA MapSynced ==
    ASSUME Types, MapInv, NEW added \in [Functions -> SUBSET (Objects \ Live)],
           \A g \in Functions : EntryPointsOf(g)' = EntryPointsOf(g) \cup added[g],
           registered' \in [Functions -> Objects \cup {Null}],
           \A f \in Functions : IF registered[f] # Null \/ added[f] = {} THEN registered'[f] = registered[f]
                                ELSE registered'[f] \in added[f],
           shared' = shared \cup {f \in Functions : added[f] # {}
                                     /\ \E o, p \in added[f] \cup EntryPointsOf(f) : o # p},
           stale' = stale
    PROVE  MapInv'
  <1> USE DEF MapInv
  <1>0. Null \notin Objects
    BY NullAssumption
  <1>1. StaleAreKeys'
    BY DEF StaleAreKeys
  <1>2. OnePerFunction'
    <2> SUFFICES ASSUME NEW g \in Functions \ shared', NEW p \in EntryPointsOf(g)',
                        NEW q \in EntryPointsOf(g)'
                 PROVE  p = q
      BY DEF OnePerFunction
    <2>1. CASE added[g] = {}
      BY <2>1 DEF OnePerFunction
    <2>2. CASE added[g] # {}
      BY <2>2
    <2> QED  BY <2>1, <2>2
  <1>3. LookupsAreLive'
    <2> SUFFICES ASSUME NEW g \in Functions \ stale, registered'[g] # Null
                 PROVE  registered'[g] \in EntryPointsOf(g)'
      BY DEF LookupsAreLive
    <2>1. CASE registered[g] # Null
      BY <2>1 DEF LookupsAreLive
    <2>2. CASE registered[g] = Null
      BY <2>2
    <2> QED  BY <2>1, <2>2
  <1>4. EntryPointsAreFound'
    <2> SUFFICES ASSUME NEW g \in Functions \ (stale \cup shared'), NEW p \in EntryPointsOf(g)'
                 PROVE  registered'[g] = p
      BY DEF EntryPointsAreFound
    <2>1. CASE added[g] = {}
      BY <2>1 DEF EntryPointsAreFound
    <2>2. CASE added[g] # {}
      <3>1. PICK q \in added[g] : TRUE
        BY <2>2
      <3>2. \A a, b \in added[g] \cup EntryPointsOf(g) : a = b
        BY <2>2
      <3>3. q \notin EntryPointsOf(g)
        BY <3>1, MembersOf
      <3>4. EntryPointsOf(g) = {} /\ p = q
        BY <3>1, <3>2, <3>3
      <3>5. registered[g] = Null
        BY <3>4 DEF LookupsAreLive
      <3> QED  BY <2>2, <3>1, <3>2, <3>4, <3>5
    <2> QED  BY <2>1, <2>2
  <1> QED  BY <1>1, <1>2, <1>3, <1>4

----------------------------------------------------------------------------
(* One record changes.                                                     *)

LEMMA Kindness ==
    /\ \A r \in EntryRecord : r.live = TRUE
    /\ NoEntryPoint.live = FALSE
    /\ NoEntryPoint \notin EntryRecord
  <1>1. \A r \in EntryRecord : r.live = TRUE
    BY DEF EntryRecord
  <1>2. NoEntryPoint.live = FALSE
    BY DEF NoEntryPoint
  <1>3. TRUE # FALSE
    OBVIOUS
  <1> QED  BY <1>1, <1>2, <1>3, Zenon

\* The record of o becomes r, and the others stay.
Becomes(o, r) ==
    /\ entry' \in [Objects -> EntryRecord \cup {NoEntryPoint}]
    /\ entry'[o] = r
    /\ \A p \in Objects \ {o} : entry'[p] = entry[p]

LEMMA EntryChanged ==
    ASSUME NEW o \in Objects, NEW r \in EntryRecord \cup {NoEntryPoint}, Becomes(o, r)
    PROVE  /\ \A p \in Objects \ {o} : p \in Live' <=> p \in Live
           /\ \A p \in Objects \ {o} : entry'[p] = entry[p]
           /\ o \in Live' <=> r \in EntryRecord
           /\ entry'[o] = r
  <1>1. /\ entry' \in [Objects -> EntryRecord \cup {NoEntryPoint}]
        /\ \A p \in Objects \ {o} : entry'[p] = entry[p]
        /\ entry'[o] = r
    BY DEF Becomes
  <1>2. \A p \in Objects : p \in Live' <=> entry'[p].live
    BY DEF Live
  <1>3. \A p \in Objects : p \in Live <=> entry[p].live
    BY DEF Live
  <1>4. \A p \in Objects \ {o} : p \in Live' <=> p \in Live
    BY <1>1, <1>2, <1>3, Zenon
  <1>5. o \in Live' <=> r.live
    BY <1>1, <1>2, Zenon
  <1>6. r.live <=> r \in EntryRecord
    BY Kindness, Zenon
  <1> QED  BY <1>1, <1>4, <1>5, <1>6, Zenon

\* The functions' and nodes' entry points after that.
LEMMA SetsChanged ==
    ASSUME NEW o \in Objects, NEW r \in EntryRecord \cup {NoEntryPoint}, Becomes(o, r)
    PROVE  /\ \A g, p : p \in EntryPointsOf(g)' <=>
                 \/ p # o /\ p \in EntryPointsOf(g)
                 \/ p = o /\ r \in EntryRecord /\ r.module # Null /\ r.function = g
           /\ \A m, k, n, p : p \in Row(m, k, n)' <=>
                 \/ p # o /\ p \in Row(m, k, n)
                 \/ p = o /\ r \in EntryRecord /\ r.module = m /\ r.kind = k /\ r.node = n
  <1>1. /\ \A p \in Objects \ {o} : p \in Live' <=> p \in Live
        /\ \A p \in Objects \ {o} : entry'[p] = entry[p]
        /\ o \in Live' <=> r \in EntryRecord
        /\ entry'[o] = r
    BY EntryChanged
  <1>2. Live \subseteq Objects /\ Live' \subseteq Objects
    BY DEF Live
  <1>3. ASSUME NEW g, NEW p
        PROVE  p \in EntryPointsOf(g)' <=>
                 \/ p # o /\ p \in EntryPointsOf(g)
                 \/ p = o /\ r \in EntryRecord /\ r.module # Null /\ r.function = g
    BY <1>1, <1>2 DEF EntryPointsOf
  <1>4. ASSUME NEW m, NEW k, NEW n, NEW p
        PROVE  p \in Row(m, k, n)' <=>
                 \/ p # o /\ p \in Row(m, k, n)
                 \/ p = o /\ r \in EntryRecord /\ r.module = m /\ r.kind = k /\ r.node = n
    BY <1>1, <1>2 DEF Row, Listed
  <1> QED  BY <1>3, <1>4, Zenon

\* More entry points for the same operands.
LEMMA OperandsStay ==
    ASSUME OperandsInv, UNCHANGED <<operands, named>>,
           \A m \in Modules, n \in Nodes : Row(m, "vertex", n) \subseteq Row(m, "vertex", n)',
           \A m \in Modules, n \in Nodes : operands[m]["vertex"][n] \in Nat
    PROVE  OperandsInv'
  <1>1. ASSUME NEW m \in Modules, NEW n \in Nodes
        PROVE  operands[m]["vertex"][n] <= Count(m, "vertex", n)'
    <2> DEFINE R == Row(m, "vertex", n)
               S == Row(m, "vertex", n)'
    <2>1. S \in SUBSET Objects /\ Count(m, "vertex", n)' = Cardinality(S)
      BY DEF Row, Listed, Live, Count
    <2>2. IsFiniteSet(S)
      BY <2>1, FiniteAssumption, FS_Subset
    <2>3. R \in SUBSET S
      OBVIOUS
    <2>4. Cardinality(R) <= Cardinality(S) /\ Cardinality(S) \in Nat
      BY <2>2, <2>3, FS_Subset, FS_CardinalityType
    <2>5. Count(m, "vertex", n) = Cardinality(R) /\ Count(m, "vertex", n) \in Nat
      BY RowIsFinite
    <2>6. operands[m]["vertex"][n] <= Count(m, "vertex", n)
      BY DEF OperandsInv, OperandsHaveEntryPoints
    <2> QED  BY <2>1, <2>4, <2>5, <2>6
  <1>2. OperandsHaveEntryPoints'
    BY <1>1 DEF OperandsHaveEntryPoints
  <1>3. UnnamedAreEmpty'
    BY DEF OperandsInv, UnnamedAreEmpty
  <1> QED  BY <1>2, <1>3 DEF OperandsInv

LEMMA CreateStep ==
    ASSUME EntryPointsInv, NEW o \in Objects, NEW k \in Kinds, NEW f \in Functions, NEW n \in Nodes,
           NEW m \in Modules, Create(o, k, f, n, m)
    PROVE  EntryPointsInv'
  <1> DEFINE r == [live |-> TRUE, kind |-> k, node |-> n, function |-> f, module |-> m]
  <1>1. /\ o \notin Live /\ entry' = [entry EXCEPT ![o] = r]
        /\ describes' = [describes EXCEPT ![n] = f]
        /\ registered' = Registered(o, f) /\ shared' = SharedBy(f)
        /\ UNCHANGED <<operands, named, open, stale>>
    BY DEF Create
  <1>2. r \in EntryRecord /\ r.module = m /\ r.function = f /\ r.kind = k /\ r.node = n
        /\ m # Null /\ f # Null
    BY NullAssumption DEF EntryRecord
  <1> HIDE DEF r
  <1>3. Types
    BY DEF EntryPointsInv
  <1>4. Types'
    <2>1. entry' \in [Objects -> EntryRecord \cup {NoEntryPoint}]
      BY <1>1, <1>2, <1>3 DEF Types
    <2>2. registered' \in [Functions -> Objects \cup {Null}]
      BY <1>1, <1>3 DEF Types, Registered
    <2> QED  BY <1>1, <1>3, <2>1, <2>2 DEF Types
  <1>5. /\ \A g, p : p \in EntryPointsOf(g)' <=>
              \/ p # o /\ p \in EntryPointsOf(g)
              \/ p = o /\ r \in EntryRecord /\ r.module # Null /\ r.function = g
        /\ \A m1, k1, n1, p : p \in Row(m1, k1, n1)' <=>
              \/ p # o /\ p \in Row(m1, k1, n1)
              \/ p = o /\ r \in EntryRecord /\ r.module = m1 /\ r.kind = k1 /\ r.node = n1
    <2>1. Becomes(o, r) /\ r \in EntryRecord \cup {NoEntryPoint}
      BY <1>1, <1>2, <1>3 DEF Becomes, Types
    <2> QED  BY <2>1, SetsChanged
  <1>6. \A g : o \notin EntryPointsOf(g)
    BY <1>1, MembersOf
  <1>7. MapInv'
    <2>1. \A g \in Functions \ {f} : EntryPointsOf(g)' = EntryPointsOf(g)
      BY <1>2, <1>5, <1>6
    <2>2. EntryPointsOf(f)' = EntryPointsOf(f) \cup {o}
      BY <1>2, <1>5, <1>6
    <2> QED  BY <1>1, <1>3, <2>1, <2>2, MapJoined DEF EntryPointsInv
  <1>8. OperandsInv'
    <2>1. \A m1, k1, n1 : o \notin Row(m1, k1, n1)
      BY <1>1 DEF Row, Listed
    <2>2. \A m1 \in Modules, n1 \in Nodes : Row(m1, "vertex", n1) \subseteq Row(m1, "vertex", n1)'
      BY <1>5, <2>1
    <2>3. \A m1 \in Modules, n1 \in Nodes : operands[m1]["vertex"][n1] \in Nat
      BY <1>3 DEF Types, Kinds, Numbers, RowNumbers
    <2> QED  BY <1>1, <2>2, <2>3, OperandsStay DEF EntryPointsInv
  <1> QED  BY <1>4, <1>7, <1>8 DEF EntryPointsInv

LEMMA EntryGone ==
    ASSUME Types, NEW o \in Objects, entry' = [entry EXCEPT ![o] = NoEntryPoint]
    PROVE  /\ \A g : EntryPointsOf(g)' = EntryPointsOf(g) \ {o}
           /\ \A m, k, n : Row(m, k, n)' = Row(m, k, n) \ {o}
  <1> DEFINE r == NoEntryPoint
  <1>1. r \notin EntryRecord /\ r \in EntryRecord \cup {NoEntryPoint}
    BY Kindness
  <1>2. entry' = [entry EXCEPT ![o] = r]
    OBVIOUS
  <1> HIDE DEF r
  <1>3. /\ \A g, p : p \in EntryPointsOf(g)' <=>
              \/ p # o /\ p \in EntryPointsOf(g)
              \/ p = o /\ r \in EntryRecord /\ r.module # Null /\ r.function = g
        /\ \A m, k, n, p : p \in Row(m, k, n)' <=>
              \/ p # o /\ p \in Row(m, k, n)
              \/ p = o /\ r \in EntryRecord /\ r.module = m /\ r.kind = k /\ r.node = n
    <2>1. Becomes(o, r)
      BY <1>1, <1>2 DEF Becomes, Types
    <2> QED  BY <1>1, <2>1, SetsChanged
  <1> QED  BY <1>1, <1>3

LEMMA DeleteStep ==
    ASSUME EntryPointsInv, NEW o \in Objects, Delete(o)
    PROVE  EntryPointsInv'
  <1>1. /\ o \in Live /\ entry[o].module = Null /\ entry' = [entry EXCEPT ![o] = NoEntryPoint]
        /\ UNCHANGED <<describes, registered, operands, named, open, stale, shared>>
    BY DEF Delete
  <1>2. Types
    BY DEF EntryPointsInv
  <1>3. Types'
    <2>1. entry' \in [Objects -> EntryRecord \cup {NoEntryPoint}]
      BY <1>1, <1>2 DEF Types
    <2> QED  BY <1>1, <1>2, <2>1 DEF Types
  <1>4. /\ \A g : EntryPointsOf(g)' = EntryPointsOf(g) \ {o}
        /\ \A m, k, n : Row(m, k, n)' = Row(m, k, n) \ {o}
    BY <1>1, <1>2, EntryGone
  <1>5. \A g : EntryPointsOf(g)' = EntryPointsOf(g)
    BY <1>1, <1>4, MembersOf
  <1>6. MapInv'
    BY <1>1, <1>5 DEF EntryPointsInv, MapInv, StaleAreKeys, OnePerFunction, LookupsAreLive,
                      EntryPointsAreFound
  <1>7. OperandsInv'
    <2>1. \A m \in Modules, n \in Nodes : o \notin Row(m, "vertex", n)
      BY <1>1, NullAssumption DEF Row, Listed
    <2>2. \A m \in Modules, n \in Nodes : Row(m, "vertex", n) \subseteq Row(m, "vertex", n)'
      BY <1>4, <2>1
    <2>3. \A m \in Modules, n \in Nodes : operands[m]["vertex"][n] \in Nat
      BY <1>2 DEF Types, Kinds, Numbers, RowNumbers
    <2> QED  BY <1>1, <2>2, <2>3, OperandsStay DEF EntryPointsInv
  <1> QED  BY <1>3, <1>6, <1>7 DEF EntryPointsInv


\* The operands of m's "air.vertex" are now those of row.
With(ops, m, row) == [ops EXCEPT ![m]["vertex"] = row]

LEMMA OperandsChanged ==
    ASSUME NEW ops \in Numbers, NEW m \in Modules, NEW row \in RowNumbers
    PROVE  /\ With(ops, m, row) \in Numbers
           /\ \A m1 \in Modules :
                 With(ops, m, row)[m1]["vertex"] = IF m1 = m THEN row ELSE ops[m1]["vertex"]
  <1> DEFINE both == [ops[m] EXCEPT !["vertex"] = row]
             new == [ops EXCEPT ![m] = both]
  <1>1. "vertex" \in Kinds
    BY DEF Kinds
  <1>2. both \in [Kinds -> RowNumbers] /\ both["vertex"] = row
    BY <1>1 DEF Numbers
  <1> HIDE DEF both
  <1>3. new \in Numbers /\ new[m] = both /\ \A m1 \in Modules \ {m} : new[m1] = ops[m1]
    BY <1>2 DEF Numbers
  <1>4. new = With(ops, m, row)
    BY DEF new, both, With
  <1> HIDE DEF new
  <1>5. \A m1 \in Modules : new[m1]["vertex"] = IF m1 = m THEN row ELSE ops[m1]["vertex"]
    BY <1>2, <1>3
  <1> QED  BY <1>3, <1>4, <1>5

LEMMA InsertStep ==
    ASSUME EntryPointsInv, NEW o \in Objects, NEW m \in Modules, Insert(o, m)
    PROVE  EntryPointsInv'
  <1>e. PICK e, r : e = entry[o] /\ r = [e EXCEPT !.module = m]
    OBVIOUS
  <1> DEFINE marked == e.kind = "vertex" /\ named[m]
  <1>1. /\ o \in Live /\ e.module = Null /\ entry' = [entry EXCEPT ![o] = r]
        /\ registered' = Registered(o, e.function) /\ shared' = SharedBy(e.function)
        /\ operands' = IF e.kind = "kernel" \/ ~named[m] THEN operands
                       ELSE [operands EXCEPT ![m]["vertex"][e.node] = @ + 1]
        /\ UNCHANGED <<describes, named, open, stale>>
    BY <1>e DEF Insert
  <1>2. Types
    BY DEF EntryPointsInv
  <1>3. e \in EntryRecord
    BY <1>e, <1>1, <1>2, LiveRecords
  <1>4. /\ r \in EntryRecord /\ r.module = m /\ r.function = e.function /\ r.kind = e.kind /\ r.node = e.node
        /\ m # Null /\ e.function \in Functions \cup {Null} /\ e.node \in Nodes
        /\ e.kind \in Kinds
    BY <1>e, <1>3, NullAssumption DEF EntryRecord
  <1>m. ASSUME marked
        PROVE  /\ operands' \in Numbers
               /\ \A m1 \in Modules, n1 \in Nodes :
                     operands'[m1]["vertex"][n1] = IF m1 = m /\ n1 = e.node THEN operands[m1]["vertex"][n1] + 1
                                                   ELSE operands[m1]["vertex"][n1]
    <2>1. PICK ops \in Numbers, n \in Nodes : ops = operands /\ n = e.node
      BY <1>2, <1>4 DEF Types
    <2> DEFINE row == [ops[m]["vertex"] EXCEPT ![n] = @ + 1]
    <2>2. ops[m]["vertex"] \in [Nodes \cup {Null} -> Nat]
      BY DEF Numbers, RowNumbers, Kinds
    <2>3. row \in RowNumbers /\ \A n1 \in Nodes : row[n1] = IF n1 = n THEN ops[m]["vertex"][n1] + 1
                                                          ELSE ops[m]["vertex"][n1]
      BY <2>2 DEF RowNumbers
    <2>4. operands' = With(ops, m, row)
      BY <1>1, <1>m, <2>1 DEF With
    <2> HIDE DEF row
    <2>5. /\ With(ops, m, row) \in Numbers
          /\ \A m1 \in Modules :
                With(ops, m, row)[m1]["vertex"] = IF m1 = m THEN row ELSE ops[m1]["vertex"]
      BY <2>3, OperandsChanged
    <2> QED  BY <2>1, <2>3, <2>4, <2>5
  <1>5. Types'
    <2>1. entry' \in [Objects -> EntryRecord \cup {NoEntryPoint}]
      BY <1>1, <1>2, <1>4 DEF Types
    <2>2. registered' \in [Functions -> Objects \cup {Null}]
      BY <1>1, <1>2 DEF Types, Registered
    <2>3. operands' \in Numbers
      <3>1. CASE ~marked
        BY <1>1, <1>2, <1>4, <3>1 DEF Types, Kinds, Numbers, RowNumbers
      <3>2. CASE marked
        BY <1>m, <3>2
      <3> QED  BY <3>1, <3>2
    <2> QED  BY <1>1, <1>2, <2>1, <2>2, <2>3 DEF Types
  <1>6. /\ \A g, p : p \in EntryPointsOf(g)' <=>
              \/ p # o /\ p \in EntryPointsOf(g)
              \/ p = o /\ r \in EntryRecord /\ r.module # Null /\ r.function = g
        /\ \A m1, k1, n1, p : p \in Row(m1, k1, n1)' <=>
              \/ p # o /\ p \in Row(m1, k1, n1)
              \/ p = o /\ r \in EntryRecord /\ r.module = m1 /\ r.kind = k1 /\ r.node = n1
    <2>1. Becomes(o, r) /\ r \in EntryRecord \cup {NoEntryPoint}
      BY <1>1, <1>2, <1>4 DEF Becomes, Types
    <2> QED  BY <2>1, SetsChanged
  <1>7. MapInv'
    <2>1. \A g : o \notin EntryPointsOf(g)
      BY <1>e, <1>1, MembersOf
    <2>2. \A g \in Functions \ {e.function} : EntryPointsOf(g)' = EntryPointsOf(g)
      <3> SUFFICES ASSUME NEW g \in Functions \ {e.function}
                   PROVE  EntryPointsOf(g)' = EntryPointsOf(g)
        OBVIOUS
      <3>1. r.function # g
        BY <1>4
      <3>2. \A p : p \in EntryPointsOf(g)' <=> p \in EntryPointsOf(g)
        BY <1>6, <2>1, <3>1
      <3> QED  BY <3>2
    <2>3. EntryPointsOf(e.function)' = EntryPointsOf(e.function) \cup {o}
      <3>1. r \in EntryRecord /\ r.module # Null /\ r.function = e.function
        BY <1>4
      <3>2. \A p : p \in EntryPointsOf(e.function)' <=> p \in EntryPointsOf(e.function) \/ p = o
        BY <1>6, <2>1, <3>1, Zenon
      <3> QED  BY <3>2
    <2>4. PICK f \in Functions \cup {Null} : f = e.function
      BY <1>4
    <2> QED  BY <1>1, <1>2, <2>2, <2>3, <2>4, MapJoined DEF EntryPointsInv
  <1>8. \A m1 \in Modules : \A k1, n1 : o \notin Row(m1, k1, n1)
    BY <1>e, <1>1, NullAssumption DEF Row, Listed
  <1>9. CASE ~marked
    <2>1. UNCHANGED <<operands, named>>
      BY <1>1, <1>4, <1>9 DEF Kinds
    <2>2. \A m1 \in Modules, n1 \in Nodes : Row(m1, "vertex", n1) \subseteq Row(m1, "vertex", n1)'
      BY <1>6, <1>8
    <2>3. \A m1 \in Modules, n1 \in Nodes : operands[m1]["vertex"][n1] \in Nat
      BY <1>2 DEF Types, Kinds, Numbers, RowNumbers
    <2> QED  BY <1>5, <1>7, <2>1, <2>2, <2>3, OperandsStay DEF EntryPointsInv
  <1>10. CASE marked
    <2>1. UNCHANGED named
      BY <1>1
    <2>2. \A m1 \in Modules, n1 \in Nodes :
             /\ operands[m1]["vertex"][n1] \in Nat
             /\ operands'[m1]["vertex"][n1] = IF m1 = m /\ n1 = e.node THEN operands[m1]["vertex"][n1] + 1
                                              ELSE operands[m1]["vertex"][n1]
      <3>1. \A m1 \in Modules, n1 \in Nodes : operands[m1]["vertex"][n1] \in Nat
        BY <1>2 DEF Types, Kinds, Numbers, RowNumbers
      <3> QED  BY <1>m, <1>10, <3>1
    <2>3. UnnamedAreEmpty'
      BY <1>10, <2>1, <2>2 DEF UnnamedAreEmpty, EntryPointsInv, OperandsInv
    <2>4. ASSUME NEW m1 \in Modules, NEW n1 \in Nodes
          PROVE  operands'[m1]["vertex"][n1] <= Count(m1, "vertex", n1)'
      <3> DEFINE R == Row(m1, "vertex", n1)
                 S == Row(m1, "vertex", n1)'
      <3>1. Count(m1, "vertex", n1)' = Cardinality(S)
        BY DEF Row, Count
      <3>2. IsFiniteSet(R) /\ Cardinality(R) \in Nat /\ operands[m1]["vertex"][n1] <= Cardinality(R)
        BY RowIsFinite DEF EntryPointsInv, OperandsInv, OperandsHaveEntryPoints
      <3>3. CASE m1 = m /\ n1 = e.node
        <4>1. S = R \cup {o} /\ o \notin R
          BY <1>4, <1>6, <1>8, <1>10, <3>3
        <4>2. Cardinality(S) = Cardinality(R) + 1
          BY <3>2, <4>1, FS_AddElement
        <4> QED  BY <2>2, <3>1, <3>2, <3>3, <4>2
      <3>4. CASE ~(m1 = m /\ n1 = e.node)
        <4>1. \A p : p \in S <=> p \in R
          BY <1>4, <1>6, <1>8, <3>4
        <4>2. S = R
          BY <4>1
        <4>3. operands'[m1]["vertex"][n1] = operands[m1]["vertex"][n1]
          BY <2>2, <3>4
        <4> QED  BY <3>1, <3>2, <4>2, <4>3
      <3> QED  BY <3>3, <3>4
    <2>5. OperandsHaveEntryPoints'
      BY <2>4 DEF OperandsHaveEntryPoints
    <2> QED  BY <1>5, <1>7, <2>3, <2>5 DEF EntryPointsInv, OperandsInv
  <1> QED  BY <1>9, <1>10

LEMMA TakeOutStep ==
    ASSUME EntryPointsInv, NEW o \in Objects, NEW after, TakeOut(o, after),
           after \in EntryRecord \cup {NoEntryPoint}, after \in EntryRecord => after.module = Null
    PROVE  EntryPointsInv'
  <1> DEFINE e == entry[o]
             m == e.module
             n == e.node
  <1>1. /\ o \in Live /\ m # Null /\ entry' = [entry EXCEPT ![o] = after]
        /\ registered' = Unregistered(o) /\ stale' = {f \in stale : registered'[f] # Null}
        /\ operands' = Struck(o)
        /\ UNCHANGED <<describes, named, open, shared>>
    BY DEF TakeOut
  <1>2. Types
    BY DEF EntryPointsInv
  <1>3. e \in EntryRecord /\ m \in Modules /\ n \in Nodes /\ e.kind \in Kinds
        /\ e.function \in Functions \cup {Null}
    BY <1>1, <1>2, LiveRecords DEF EntryRecord
  <1>4. ASSUME e.kind = "vertex", named[m], operands[m]["vertex"][n] # 0
        PROVE  /\ operands' \in Numbers
               /\ \A m1 \in Modules, n1 \in Nodes :
                     operands'[m1]["vertex"][n1] = IF m1 = m /\ n1 = n THEN operands[m1]["vertex"][n1] - 1
                                                   ELSE operands[m1]["vertex"][n1]
    <2>1. PICK ops \in Numbers, n2 \in Nodes, m2 \in Modules : ops = operands /\ n2 = n /\ m2 = m
      BY <1>2, <1>3 DEF Types
    <2> DEFINE old == ops[m2]["vertex"]
               row == [old EXCEPT ![n2] = @ - 1, ![Null] = @ + 1]
    <2>2. old \in [Nodes \cup {Null} -> Nat] /\ n2 # Null /\ Null \notin Nodes
      BY NullAssumption DEF Numbers, RowNumbers, Kinds
    <2>3. old[n2] # 0
      BY <1>4, <2>1
    <2>4. operands' = [operands EXCEPT ![m]["vertex"] =
                          [operands[m]["vertex"] EXCEPT ![n] = @ - 1, ![Null] = @ + 1]]
      BY <1>1, <1>4 DEF Struck
    <2> HIDE DEF e, m, n
    <2>5. operands' = With(ops, m2, row)
      BY <2>1, <2>4 DEF With
    <2> HIDE DEF old
    <2>6. row \in RowNumbers /\ \A n1 \in Nodes : row[n1] = IF n1 = n2 THEN old[n1] - 1 ELSE old[n1]
      BY <2>2, <2>3 DEF RowNumbers
    <2> HIDE DEF row
    <2>7. /\ With(ops, m2, row) \in Numbers
          /\ \A m1 \in Modules :
                With(ops, m2, row)[m1]["vertex"] = IF m1 = m2 THEN row ELSE ops[m1]["vertex"]
      BY <2>6, OperandsChanged
    <2> QED  BY <2>1, <2>5, <2>6, <2>7 DEF old
  <1>t. operands' \in Numbers
    <2>1. CASE e.kind = "vertex" /\ named[m] /\ operands[m]["vertex"][n] # 0
      BY <1>4, <2>1
    <2>2. CASE ~(e.kind = "vertex" /\ named[m] /\ operands[m]["vertex"][n] # 0)
      BY <1>1, <1>2, <1>3, <2>2 DEF Types, Struck, Kinds
    <2> QED  BY <2>1, <2>2
  <1>5. Types'
    <2>1. entry' \in [Objects -> EntryRecord \cup {NoEntryPoint}]
      BY <1>1, <1>2 DEF Types
    <2>2. registered' \in [Functions -> Objects \cup {Null}]
      BY <1>1, <1>2 DEF Types, Unregistered
    <2> QED  BY <1>1, <1>2, <1>t, <2>1, <2>2 DEF Types
  <1>6. /\ \A g, p : p \in EntryPointsOf(g)' <=>
              \/ p # o /\ p \in EntryPointsOf(g)
              \/ p = o /\ after \in EntryRecord /\ after.module # Null /\ after.function = g
        /\ \A m1, k1, n1, p : p \in Row(m1, k1, n1)' <=>
              \/ p # o /\ p \in Row(m1, k1, n1)
              \/ p = o /\ after \in EntryRecord /\ after.module = m1 /\ after.kind = k1 /\ after.node = n1
    <2>1. Becomes(o, after)
      BY <1>1, <1>2 DEF Becomes, Types
    <2> HIDE DEF e, m, n
    <2> QED  BY <2>1, SetsChanged
  <1>7. \A g : EntryPointsOf(g)' = EntryPointsOf(g) \ {o}
    BY <1>6
  <1>8. MapInv'
    BY <1>1, <1>2, <1>7, MapLeft DEF EntryPointsInv
  <1>9. \A m1 \in Modules : \A k1, n1 : Row(m1, k1, n1)' = Row(m1, k1, n1) \ {o}
    BY <1>6, NullAssumption
  <1>10. \A m1, k1, n1 : o \in Row(m1, k1, n1) <=> m1 = m /\ k1 = e.kind /\ n1 = n
    BY <1>1 DEF Row, Listed
  <1> HIDE DEF m, n, e
  <1>11. ASSUME NEW m1 \in Modules, NEW n1 \in Nodes
         PROVE  /\ operands[m1]["vertex"][n1] \in Nat
                /\ operands'[m1]["vertex"][n1] \in {operands[m1]["vertex"][n1], operands[m1]["vertex"][n1] - 1}
                /\ operands[m1]["vertex"][n1] = 0 => operands'[m1]["vertex"][n1] = 0
                /\ m1 = m /\ n1 = n /\ e.kind = "vertex" /\ operands[m1]["vertex"][n1] # 0 =>
                      operands'[m1]["vertex"][n1] = operands[m1]["vertex"][n1] - 1
    <2>1. operands[m1]["vertex"][n1] \in Nat
      BY <1>2 DEF Types, Kinds, Numbers, RowNumbers
    <2>2. operands[m]["vertex"][n] # 0 => named[m]
      BY <1>3 DEF EntryPointsInv, OperandsInv, UnnamedAreEmpty
    <2>3. CASE e.kind = "kernel" \/ operands[m]["vertex"][n] = 0
      <3>1. operands' = operands
        BY <1>1, <2>3 DEF Struck, e, m, n
      <3> QED  BY <2>1, <2>3, <3>1
    <2>4. CASE e.kind = "vertex" /\ operands[m]["vertex"][n] # 0
      BY <1>4, <2>1, <2>2, <2>4
    <2> QED  BY <1>3, <2>3, <2>4 DEF Kinds
  <1>12. UnnamedAreEmpty'
    BY <1>1, <1>11 DEF UnnamedAreEmpty, EntryPointsInv, OperandsInv
  <1>13. ASSUME NEW m1 \in Modules, NEW n1 \in Nodes
         PROVE  operands'[m1]["vertex"][n1] <= Count(m1, "vertex", n1)'
    <2> DEFINE R == Row(m1, "vertex", n1)
               S == Row(m1, "vertex", n1)'
    <2>1. Count(m1, "vertex", n1)' = Cardinality(S)
      BY DEF Row, Count
    <2>2. IsFiniteSet(R) /\ Cardinality(R) \in Nat /\ operands[m1]["vertex"][n1] <= Cardinality(R)
      BY RowIsFinite DEF EntryPointsInv, OperandsInv, OperandsHaveEntryPoints
    <2>3. CASE o \in R
      <3>1. Cardinality(S) = Cardinality(R) - 1 /\ Cardinality(S) \in Nat
        <4>1. S = R \ {o}
          BY <1>9
        <4> QED  BY <2>2, <2>3, <4>1, FS_RemoveElement, FS_CardinalityType
      <3>2. m1 = m /\ n1 = n /\ e.kind = "vertex"
        BY <1>10, <2>3
      <3> QED  BY <1>11, <2>1, <2>2, <3>1, <3>2
    <2>4. CASE o \notin R
      <3>1. S = R
        BY <1>9, <2>4
      <3> QED  BY <1>11, <2>1, <2>2, <3>1
    <2> QED  BY <2>3, <2>4
  <1>14. OperandsHaveEntryPoints'
    BY <1>13 DEF OperandsHaveEntryPoints
  <1> QED  BY <1>5, <1>8, <1>12, <1>14 DEF EntryPointsInv, OperandsInv

LEMMA RemoveStep ==
    ASSUME EntryPointsInv, NEW o \in Objects, Remove(o)
    PROVE  EntryPointsInv'
  <1>1. PICK after : after = [entry[o] EXCEPT !.module = Null]
    OBVIOUS
  <1>2. o \in Live /\ TakeOut(o, after)
    BY <1>1 DEF Remove
  <1>3. entry[o] \in EntryRecord
    BY <1>2, LiveRecords DEF EntryPointsInv
  <1>4. after \in EntryRecord /\ after.module = Null
    BY <1>1, <1>3 DEF EntryRecord
  <1> QED  BY <1>2, <1>4, TakeOutStep

LEMMA EraseStep ==
    ASSUME EntryPointsInv, NEW o \in Objects, Erase(o)
    PROVE  EntryPointsInv'
  <1>1. PICK after : after = NoEntryPoint
    OBVIOUS
  <1>2. TakeOut(o, after) /\ after \notin EntryRecord
    BY <1>1, Kindness DEF Erase
  <1> QED  BY <1>1, <1>2, TakeOutStep

LEMMA OthersStep ==
    ASSUME EntryPointsInv, NEW m \in Modules,
           OpenEmpty(m) \/ \E f \in Functions : AddFunction(f, m)
    PROVE  EntryPointsInv'
  <1>1. /\ UNCHANGED <<describes, entry, registered, operands, named, stale, shared>>
        /\ open' \subseteq open \cup {m}
    BY DEF OpenEmpty, AddFunction
  <1>2. Types'
    BY <1>1 DEF EntryPointsInv, Types
  <1>3. MapInv'
    BY <1>1 DEF EntryPointsInv, MapInv, StaleAreKeys, OnePerFunction, LookupsAreLive,
                EntryPointsAreFound, EntryPointsOf, Live
  <1>4. OperandsInv'
    BY <1>1 DEF EntryPointsInv, OperandsInv, UnnamedAreEmpty, OperandsHaveEntryPoints, Count,
                Listed, Live
  <1> QED  BY <1>2, <1>3, <1>4 DEF EntryPointsInv

----------------------------------------------------------------------------
(* Functions vanish.                                                       *)

\* The entry points in gone are no longer counted.
RowsWithout(gone) == \A m, k, n, p : p \in Row(m, k, n)' <=> p \in Row(m, k, n) /\ p \notin gone

LEMMA Vanished ==
    ASSUME Types, MapInv, NEW gone \in SUBSET Live, \A o \in gone : entry[o].module # Null,
           NEW fs \in SUBSET Functions,
           NEW reg \in [Functions -> Objects \cup {Null}],
           \A f \in Functions :
              reg[f] = IF \E o \in gone : entry[o].function = f THEN Null ELSE registered[f],
           NEW es, \A o \in Objects : es[o] = IF o \in gone THEN NoEntryPoint ELSE entry[o],
           Vanish(fs, es, reg)
    PROVE  /\ MapInv'
           /\ describes' \in [Nodes -> Functions \cup {Null}]
           /\ entry' \in [Objects -> EntryRecord \cup {NoEntryPoint}]
           /\ registered' \in [Functions -> Objects \cup {Null}]
           /\ RowsWithout(gone)
  <1>1. /\ entry' = [o \in Objects |->
             IF es[o].live /\ es[o].function \in fs THEN [es[o] EXCEPT !.function = Null] ELSE es[o]]
        /\ describes' = [n \in Nodes |-> IF describes[n] \in fs THEN Null ELSE describes[n]]
        /\ registered' = reg /\ stale' = {f \in stale \cup fs : reg[f] # Null}
        /\ shared' = shared \ fs
    BY DEF Vanish
  <1>2. Live \subseteq Objects /\ Live' \subseteq Objects
    BY DEF Live
  <1>3. \A o \in Objects : o \in Live' <=> entry'[o].live
    BY DEF Live
  <1>4. ASSUME NEW o \in Objects, o \notin Live \/ o \in gone
        PROVE  entry'[o] = NoEntryPoint /\ o \notin Live'
    <2>1. es[o] = NoEntryPoint
      BY <1>4, LiveRecords
    <2>2. ~es[o].live
      BY <2>1, Kindness, Zenon
    <2>3. entry'[o] = es[o]
      BY <1>1, <2>2
    <2> QED  BY <1>3, <2>1, <2>2, <2>3, Zenon
  <1>5. ASSUME NEW o \in Live, o \notin gone
        PROVE  /\ entry'[o] \in EntryRecord /\ o \in Live'
               /\ entry'[o].module = entry[o].module /\ entry'[o].kind = entry[o].kind
               /\ entry'[o].node = entry[o].node
               /\ entry'[o].function = IF entry[o].function \in fs THEN Null ELSE entry[o].function
    <2>1. PICK e \in EntryRecord : e = entry[o] /\ e = es[o] /\ e.live
      BY <1>2, <1>5, LiveRecords
    <2>2. entry'[o] = IF e.function \in fs THEN [e EXCEPT !.function = Null] ELSE e
      BY <1>1, <1>2, <2>1
    <2>3. /\ entry'[o] \in EntryRecord
          /\ entry'[o].module = e.module /\ entry'[o].kind = e.kind /\ entry'[o].node = e.node
          /\ entry'[o].function = IF e.function \in fs THEN Null ELSE e.function
      BY <2>2 DEF EntryRecord
    <2>4. entry'[o].live
      BY <2>3, Kindness
    <2>5. o \in Live'
      BY <1>2, <1>3, <2>4
    <2> QED  BY <2>1, <2>3, <2>5
  <1>6. \A p : p \in Live' <=> p \in Live /\ p \notin gone
    BY <1>2, <1>4, <1>5
  <1>7. ASSUME NEW g \in Functions, NEW p
        PROVE  p \in EntryPointsOf(g)' <=> g \notin fs /\ p \in EntryPointsOf(g) /\ p \notin gone
    <2>1. g # Null
      BY NullAssumption
    <2> QED  BY <1>5, <1>6, <2>1 DEF EntryPointsOf
  <1>8. MapInv'
    <2>1. \A g \in fs : EntryPointsOf(g)' = {}
      BY <1>7
    <2>2. \A g \in Functions \ fs : EntryPointsOf(g)' = EntryPointsOf(g) \ gone
      BY <1>7
    <2>3. registered' \in [Functions -> Objects \cup {Null}]
      BY <1>1
    <2>4. \A f \in Functions :
             registered'[f] = IF \E o \in gone : entry[o].function = f THEN Null ELSE registered[f]
      BY <1>1
    <2>5. stale' = {f \in stale \cup fs : registered'[f] # Null} /\ shared' = shared \ fs
      BY <1>1
    <2> QED  BY <2>1, <2>2, <2>3, <2>4, <2>5, MapVanished
  <1>9. ASSUME NEW m, NEW k, NEW n, NEW p
        PROVE  p \in Row(m, k, n)' <=> p \in Row(m, k, n) /\ p \notin gone
    BY <1>5, <1>6 DEF Row, Listed
  <1>12. RowsWithout(gone)
    BY <1>9, Zenon DEF RowsWithout
  <1>10. describes' \in [Nodes -> Functions \cup {Null}]
    BY <1>1 DEF Types
  <1>11. entry' \in [Objects -> EntryRecord \cup {NoEntryPoint}]
    <2>1. \A o \in Objects : entry'[o] \in EntryRecord \cup {NoEntryPoint}
      BY <1>2, <1>4, <1>5
    <2> QED  BY <1>1, <2>1
  <1> QED  BY <1>1, <1>8, <1>12, <1>10, <1>11

LEMMA EraseFunctionStep ==
    ASSUME EntryPointsInv, NEW f \in Functions, EraseFunction(f)
    PROVE  EntryPointsInv'
  <1>1. Types /\ MapInv /\ OperandsInv
    BY DEF EntryPointsInv
  <1>g. PICK gone \in SUBSET Live : gone = {}
    OBVIOUS
  <1>f. PICK fs \in SUBSET Functions : fs = {f}
    OBVIOUS
  <1>e. PICK es : es = entry
    OBVIOUS
  <1>r. PICK reg \in [Functions -> Objects \cup {Null}] : reg = registered
    BY <1>1 DEF Types
  <1>2. gone = {} /\ fs = {f} /\ es = entry /\ reg = registered
    BY <1>g, <1>f, <1>e, <1>r
  <1>3. UNCHANGED <<operands, named, open>> /\ Vanish(fs, es, reg)
    BY <1>2 DEF EraseFunction
  <1>4. /\ MapInv'
        /\ describes' \in [Nodes -> Functions \cup {Null}]
        /\ entry' \in [Objects -> EntryRecord \cup {NoEntryPoint}]
        /\ registered' \in [Functions -> Objects \cup {Null}]
        /\ RowsWithout(gone)
    <2>1. \A o \in gone : entry[o].module # Null
      BY <1>2
    <2>2. \A g \in Functions :
             reg[g] = IF \E o \in gone : entry[o].function = g THEN Null ELSE registered[g]
      BY <1>2
    <2>3. \A o \in Objects : es[o] = IF o \in gone THEN NoEntryPoint ELSE entry[o]
      BY <1>2
    <2> QED  BY <1>1, <1>3, <2>1, <2>2, <2>3, Vanished
  <1>5. Types'
    BY <1>1, <1>3, <1>4 DEF Types
  <1>6. OperandsInv'
    <2>1. \A m \in Modules, n \in Nodes : Row(m, "vertex", n) \subseteq Row(m, "vertex", n)'
      BY <1>2, <1>4 DEF RowsWithout
    <2>2. \A m \in Modules, n \in Nodes : operands[m]["vertex"][n] \in Nat
      BY <1>1 DEF Types, Kinds, Numbers, RowNumbers
    <2> QED  BY <1>1, <1>3, <2>1, <2>2, OperandsStay
  <1> QED  BY <1>4, <1>5, <1>6 DEF EntryPointsInv

LEMMA CloseStep ==
    ASSUME EntryPointsInv, NEW m \in Modules, Close(m)
    PROVE  EntryPointsInv'
  <1>1. Types /\ MapInv /\ OperandsInv /\ m # Null
    BY NullAssumption DEF EntryPointsInv
  <1>g. PICK gone \in SUBSET Live : gone = Listed(m)
    BY DEF Listed
  <1>f. PICK fs \in SUBSET Functions : fs = {f \in Functions : home[f] = m}
    OBVIOUS
  <1>e. PICK es : es = [o \in Objects |-> IF o \in Listed(m) THEN NoEntryPoint ELSE entry[o]]
    OBVIOUS
  <1>r. PICK reg \in [Functions -> Objects \cup {Null}] :
           reg = [f \in Functions |-> IF f \in {entry[o].function : o \in Listed(m)} THEN Null
                                     ELSE registered[f]]
    <2>1. [f \in Functions |-> IF f \in {entry[o].function : o \in Listed(m)} THEN Null
                               ELSE registered[f]] \in [Functions -> Objects \cup {Null}]
      BY <1>1 DEF Types
    <2> QED  BY <2>1
  <1>2. /\ gone = Listed(m)
        /\ \A o \in Objects : es[o] = IF o \in Listed(m) THEN NoEntryPoint ELSE entry[o]
        /\ \A f \in Functions : reg[f] = IF f \in {entry[o].function : o \in Listed(m)} THEN Null
                                          ELSE registered[f]
    BY <1>g, <1>e, <1>r
  <1>3. /\ Vanish(fs, es, reg) /\ open' = open \ {m}
        /\ operands' = [operands EXCEPT ![m] = NoOperands]
        /\ named' = [named EXCEPT ![m] = FALSE]
    BY <1>g, <1>f, <1>e, <1>r DEF Close
  <1>4. /\ MapInv'
        /\ describes' \in [Nodes -> Functions \cup {Null}]
        /\ entry' \in [Objects -> EntryRecord \cup {NoEntryPoint}]
        /\ registered' \in [Functions -> Objects \cup {Null}]
        /\ RowsWithout(gone)
    <2>1. \A o \in gone : entry[o].module # Null
      BY <1>1, <1>2 DEF Listed
    <2>2. \A g \in Functions :
             reg[g] = IF \E o \in gone : entry[o].function = g THEN Null ELSE registered[g]
      BY <1>2
    <2>3. \A o \in Objects : es[o] = IF o \in gone THEN NoEntryPoint ELSE entry[o]
      BY <1>2
    <2> QED  BY <1>1, <1>3, <2>1, <2>2, <2>3, Vanished
  <1>5. NoOperands \in [Kinds -> RowNumbers] /\ \A n \in Nodes : NoOperands["vertex"][n] = 0
    BY DEF NoOperands, Kinds, RowNumbers
  <1>6. Types'
    <2>1. operands' \in Numbers
      BY <1>1, <1>3, <1>5 DEF Types, Numbers
    <2> QED  BY <1>1, <1>3, <1>4, <2>1 DEF Types
  <1>7. ASSUME NEW m1 \in Modules, NEW n \in Nodes
        PROVE  /\ operands'[m1]["vertex"][n] <= Count(m1, "vertex", n)'
               /\ ~named'[m1] => operands'[m1]["vertex"][n] = 0
    <2>1. CASE m1 = m
      <3>1. operands'[m1]["vertex"][n] = 0
        BY <1>1, <1>3, <1>5, <2>1 DEF Types, Numbers
      <3>2. Row(m1, "vertex", n)' \in SUBSET Objects
        BY DEF Row, Listed, Live
      <3>3. Cardinality(Row(m1, "vertex", n)') \in Nat
        BY <3>2, FiniteAssumption, FS_Subset, FS_CardinalityType
      <3>4. Count(m1, "vertex", n)' = Cardinality(Row(m1, "vertex", n)')
        BY DEF Row, Count
      <3> QED  BY <3>1, <3>3, <3>4
    <2>2. CASE m1 # m
      <3>1. operands'[m1] = operands[m1] /\ named'[m1] = named[m1]
        BY <1>1, <1>3, <2>2 DEF Types, Numbers
      <3>2. \A p : p \in Row(m1, "vertex", n) => p \notin gone
        BY <1>2, <2>2 DEF Row, Listed
      <3>3. Row(m1, "vertex", n)' = Row(m1, "vertex", n)
        <4>1. \A p : p \in Row(m1, "vertex", n)' <=> p \in Row(m1, "vertex", n)
          BY <1>4, <3>2, Zenon DEF RowsWithout
        <4> QED  BY <4>1
      <3>4. Count(m1, "vertex", n)' = Count(m1, "vertex", n)
        BY <3>3 DEF Row, Count
      <3> QED  BY <1>1, <3>1, <3>4 DEF OperandsInv, UnnamedAreEmpty, OperandsHaveEntryPoints
    <2> QED  BY <2>1, <2>2
  <1>8. OperandsInv'
    BY <1>7 DEF OperandsInv, UnnamedAreEmpty, OperandsHaveEntryPoints
  <1> QED  BY <1>4, <1>6, <1>8 DEF EntryPointsInv

----------------------------------------------------------------------------
(* A sync.                                                                 *)

LEMMA ExtraMembers ==
    ASSUME NEW m, NEW ops
    PROVE  \A x : x \in Extra(m, ops) <=>
              \E k \in Kinds, n \in Nodes : \E i \in 1 .. Missing(m, ops, k, n) : x = <<k, n, i>>
  <1>1. ASSUME NEW x \in Extra(m, ops)
        PROVE  \E k \in Kinds, n \in Nodes : \E i \in 1 .. Missing(m, ops, k, n) : x = <<k, n, i>>
    <2>1. PICK A \in {{<<k, n, i>> : i \in 1 .. Missing(m, ops, k, n)} : k \in Kinds, n \in Nodes} :
             x \in A
      BY DEF Extra
    <2>2. PICK k \in Kinds, n \in Nodes : A = {<<k, n, i>> : i \in 1 .. Missing(m, ops, k, n)}
      OBVIOUS
    <2> QED  BY <2>1, <2>2
  <1>2. ASSUME NEW k \in Kinds, NEW n \in Nodes, NEW i \in 1 .. Missing(m, ops, k, n)
        PROVE  <<k, n, i>> \in Extra(m, ops)
    <2>1. PICK A : A = {<<k, n, j>> : j \in 1 .. Missing(m, ops, k, n)}
      OBVIOUS
    <2>2. A \in {{<<k1, n1, j>> : j \in 1 .. Missing(m, ops, k1, n1)} : k1 \in Kinds, n1 \in Nodes}
      BY <2>1
    <2>3. <<k, n, i>> \in A
      BY <2>1
    <2> QED  BY <2>2, <2>3 DEF Extra
  <1> QED  BY <1>1, <1>2

\* The new entry points of m, one for each element of extra, and no other change.
Entered(m, naming, extra, new) ==
    /\ entry' \in [Objects -> EntryRecord \cup {NoEntryPoint}]
    /\ \A x \in extra : /\ entry'[new[x]] \in EntryRecord
                        /\ entry'[new[x]].kind = x[1] /\ entry'[new[x]].node = x[2]
                        /\ entry'[new[x]].function = naming[x[2]] /\ entry'[new[x]].module = m
    /\ \A o \in Objects : (\A x \in extra : new[x] # o) => entry'[o] = entry[o]

LEMMA SyncSets ==
    ASSUME Types, NEW m \in Modules, NEW naming, NEW extra, NEW new \in [extra -> Objects \ Live],
           Entered(m, naming, extra, new)
    PROVE  /\ \A g, p : p \in EntryPointsOf(g)' <=>
                 p \in EntryPointsOf(g) \/ \E x \in extra : new[x] = p /\ naming[x[2]] = g
           /\ \A m1, k, n, p : p \in Row(m1, k, n)' <=>
                 \/ p \in Row(m1, k, n)
                 \/ m1 = m /\ \E x \in extra : new[x] = p /\ x[1] = k /\ x[2] = n
  <1>1. Live \subseteq Objects /\ Live' \subseteq Objects /\ m # Null
    BY NullAssumption DEF Live
  <1>2. \A o \in Objects : o \in Live' <=> entry'[o].live
    BY DEF Live
  <1>3. ASSUME NEW x \in extra
        PROVE  new[x] \in Live' /\ new[x] \notin Live
    <2>1. new[x] \in Objects \ Live
      OBVIOUS
    <2>2. entry'[new[x]].live
      BY Kindness DEF Entered
    <2> QED  BY <1>2, <2>1, <2>2
  <1>4. ASSUME NEW o \in Objects, \A x \in extra : new[x] # o
        PROVE  entry'[o] = entry[o] /\ (o \in Live' <=> o \in Live)
    <2>1. entry'[o] = entry[o]
      BY <1>4 DEF Entered
    <2> QED  BY <2>1, Zenon DEF Live
  <1>5. ASSUME NEW g, NEW p
        PROVE  p \in EntryPointsOf(g)' <=>
                 p \in EntryPointsOf(g) \/ \E x \in extra : new[x] = p /\ naming[x[2]] = g
    <2>1. CASE \E x \in extra : new[x] = p
      <3>1. PICK x \in extra : new[x] = p
        BY <2>1
      <3>2. /\ p \in Live' /\ p \notin Live
            /\ entry'[p].function = naming[x[2]] /\ entry'[p].module # Null
        BY <1>1, <1>3, <3>1 DEF Entered
      <3>3. \A y \in extra : new[y] = p => entry'[p].function = naming[y[2]]
        BY DEF Entered
      <3> QED  BY <3>1, <3>2, <3>3 DEF EntryPointsOf
    <2>2. CASE \A x \in extra : new[x] # p
      BY <1>1, <1>4, <2>2 DEF EntryPointsOf
    <2> QED  BY <2>1, <2>2
  <1>6. ASSUME NEW m1, NEW k, NEW n, NEW p
        PROVE  p \in Row(m1, k, n)' <=>
                 \/ p \in Row(m1, k, n)
                 \/ m1 = m /\ \E x \in extra : new[x] = p /\ x[1] = k /\ x[2] = n
    <2>1. CASE \E x \in extra : new[x] = p
      <3>1. PICK x \in extra : new[x] = p
        BY <2>1
      <3>2. /\ p \in Live' /\ p \notin Live
            /\ entry'[p].kind = x[1] /\ entry'[p].node = x[2] /\ entry'[p].module = m
        BY <1>3, <3>1 DEF Entered
      <3>3. \A y \in extra : new[y] = p => entry'[p].kind = y[1] /\ entry'[p].node = y[2]
        BY DEF Entered
      <3> QED  BY <3>1, <3>2, <3>3 DEF Row, Listed
    <2>2. CASE \A x \in extra : new[x] # p
      BY <1>1, <1>4, <2>2 DEF Row, Listed
    <2> QED  BY <2>1, <2>2
  <1> QED  BY <1>5, <1>6, Zenon

\* There are as many as there are operands more than entry points.
LEMMA SyncCounts ==
    ASSUME Types, NEW m \in Modules, NEW ops \in [Kinds -> RowNumbers], NEW naming,
           NEW extra, extra = Extra(m, ops),
           NEW new \in [extra -> Objects \ Live], \A x, y \in extra : new[x] = new[y] => x = y,
           Entered(m, naming, extra, new), NEW k \in Kinds, NEW n \in Nodes
    PROVE  /\ Count(m, k, n)' = Count(m, k, n) + Missing(m, ops, k, n)
           /\ Count(m, k, n) \in Nat /\ Missing(m, ops, k, n) \in Nat
  <1> DEFINE R == Row(m, k, n)
             S == Row(m, k, n)'
  <1>1. Missing(m, ops, k, n) \in Nat
    BY RowIsFinite DEF Missing, RowNumbers
  <1>2. PICK q \in Nat : q = Missing(m, ops, k, n)
    BY <1>1
  <1>3. \A x : x \in extra /\ x[1] = k /\ x[2] = n <=> \E i \in 1 .. q : x = <<k, n, i>>
    <2>1. ASSUME NEW x \in extra, x[1] = k, x[2] = n
          PROVE  \E i \in 1 .. q : x = <<k, n, i>>
      <3>0. PICK k1 \in Kinds, n1 \in Nodes : \E i \in 1 .. Missing(m, ops, k1, n1) : x = <<k1, n1, i>>
        BY ExtraMembers
      <3>1. PICK i \in 1 .. Missing(m, ops, k1, n1) : x = <<k1, n1, i>>
        BY <3>0
      <3>2. k1 = k /\ n1 = n
        BY <2>1, <3>1
      <3> QED  BY <1>2, <3>1, <3>2
    <2>2. ASSUME NEW i \in 1 .. q
          PROVE  <<k, n, i>> \in extra
      BY <1>2, ExtraMembers
    <2> QED  BY <2>1, <2>2
  <1>4. PICK T : T = {new[<<k, n, i>>] : i \in 1 .. q}
    OBVIOUS
  <1>5. IsFiniteSet(T) /\ Cardinality(T) = q
    <2>1. PICK b : b = [i \in 1 .. q |-> new[<<k, n, i>>]]
      OBVIOUS
    <2>2. b \in Bijection(1 .. q, T)
      <3>1. b \in Surjection(1 .. q, T)
        BY <1>4, <2>1 DEF Surjection
      <3>2. \A i, j \in 1 .. q : b[i] = b[j] => i = j
        BY <1>3, <2>1
      <3> QED  BY <3>1, <3>2 DEF Bijection, Injection, IsInjective, Surjection
    <2>3. ExistsBijection(1 .. q, T)
      BY <2>2 DEF ExistsBijection
    <2>4. IsFiniteSet(1 .. q) /\ Cardinality(1 .. q) = q
      BY FS_Interval
    <2> QED  BY <2>3, <2>4, FS_Bijection
  <1>6. \A p : p \in S <=> p \in R \/ \E x \in extra : new[x] = p /\ x[1] = k /\ x[2] = n
    BY SyncSets
  <1>t. \A p : p \in T <=> \E x \in extra : new[x] = p /\ x[1] = k /\ x[2] = n
    <2>1. ASSUME NEW i \in 1 .. q
          PROVE  \E x \in extra : new[x] = new[<<k, n, i>>] /\ x[1] = k /\ x[2] = n
      BY <1>3
    <2>2. ASSUME NEW x \in extra, x[1] = k, x[2] = n
          PROVE  new[x] \in T
      BY <1>3, <1>4, <2>2
    <2>3. \A p : p \in T <=> \E i \in 1 .. q : p = new[<<k, n, i>>]
      BY <1>4
    <2>4. ASSUME NEW p \in T
          PROVE  \E x \in extra : new[x] = p /\ x[1] = k /\ x[2] = n
      <3>1. PICK i \in 1 .. q : p = new[<<k, n, i>>]
        BY <2>3
      <3> QED  BY <2>1, <3>1
    <2>5. ASSUME NEW p, NEW x \in extra, new[x] = p, x[1] = k, x[2] = n
          PROVE  p \in T
      BY <2>2, <2>5
    <2> QED  BY <2>4, <2>5, Zenon
  <1>7. S = R \cup T
    <2>1. \A p : p \in S <=> p \in R \/ p \in T
      BY <1>6, <1>t, Zenon
    <2> QED  BY <2>1
  <1>8. R \cap T = {}
    <2>1. R \subseteq Live
      BY DEF Row, Listed
    <2>2. \A p \in T : p \notin Live
      BY <1>t
    <2> QED  BY <2>1, <2>2
  <1>9. /\ IsFiniteSet(R) /\ Count(m, k, n) = Cardinality(R) /\ Count(m, k, n) \in Nat
        /\ Count(m, k, n)' = Cardinality(S)
    <2>1. Count(m, k, n)' = Cardinality(S)
      BY DEF Row, Count
    <2> QED  BY <2>1, RowIsFinite
  <1> HIDE DEF R, S
  <1>10. Cardinality(S) = Cardinality(R) + q
    BY <1>5, <1>7, <1>8, <1>9, FS_Union, FS_EmptySet
  <1> QED  BY <1>1, <1>2, <1>9, <1>10

\* Entering the list and the map, in the form the lemmas above use.
LEMMA EnterEntered ==
    ASSUME Types, NEW m \in Modules, NEW extra, NEW new \in [extra -> Objects \ Live],
           NEW naming \in [Nodes -> Functions \cup {Null}],
           \A x \in extra : x[1] \in Kinds /\ x[2] \in Nodes /\ naming[x[2]] # Null,
           \A x, y \in extra : new[x] = new[y] => x = y,
           Enter(m, extra, new, naming)
    PROVE  Entered(m, naming, extra, new)
  <1> DEFINE given(o) == CHOOSE x \in extra : new[x] = o
             record(x) == [live |-> TRUE, kind |-> x[1], node |-> x[2],
                           function |-> naming[x[2]], module |-> m]
  <1>1. entry' = [o \in Objects |->
                    IF \E x \in extra : new[x] = o THEN record(given(o)) ELSE entry[o]]
    BY DEF Enter
  <1>2. \A x \in extra : record(x) \in EntryRecord
    BY DEF EntryRecord
  <1>8. \A x \in extra : /\ record(x).kind = x[1] /\ record(x).node = x[2]
                          /\ record(x).function = naming[x[2]] /\ record(x).module = m
    OBVIOUS
  <1> HIDE DEF record
  <1>3. \A x \in extra : new[x] \in Objects /\ given(new[x]) = x
    OBVIOUS
  <1> HIDE DEF given
  <1>4. \A x \in extra : entry'[new[x]] = record(x)
    BY <1>1, <1>3
  <1>5. \A o \in Objects : (\A x \in extra : new[x] # o) => entry'[o] = entry[o]
    BY <1>1
  <1>6. entry' \in [Objects -> EntryRecord \cup {NoEntryPoint}]
    <2>1. \A o \in Objects : entry'[o] \in EntryRecord \cup {NoEntryPoint}
      <3> SUFFICES ASSUME NEW o \in Objects
                   PROVE  entry'[o] \in EntryRecord \cup {NoEntryPoint}
        OBVIOUS
      <3>1. CASE \E x \in extra : new[x] = o
        BY <1>2, <1>4, <3>1
      <3>2. CASE \A x \in extra : new[x] # o
        BY <1>5, <3>2 DEF Types
      <3> QED  BY <3>1, <3>2
    <2> QED  BY <1>1, <2>1
  <1>7. ASSUME NEW x \in extra
        PROVE  /\ entry'[new[x]] \in EntryRecord
               /\ entry'[new[x]].kind = x[1] /\ entry'[new[x]].node = x[2]
               /\ entry'[new[x]].function = naming[x[2]] /\ entry'[new[x]].module = m
    BY <1>2, <1>4, <1>8
  <1> QED  BY <1>5, <1>6, <1>7 DEF Entered

\* A sync that does not abort.
Synced(m, ops, naming, extra, new) ==
    /\ extra = Extra(m, ops) /\ new \in [extra -> Objects \ Live]
    /\ \A x, y \in extra : new[x] = new[y] => x = y
    /\ Enter(m, extra, new, naming) /\ Entered(m, naming, extra, new)
    /\ operands' = [operands EXCEPT ![m] = ops]
    /\ UNCHANGED stale

LEMMA SyncEnters ==
    ASSUME Types, NEW m \in Modules, NEW ops \in [Kinds -> RowNumbers],
           NEW naming \in [Nodes -> Functions \cup {Null}], SyncWith(m, ops, naming), ~aborted'
    PROVE  \E extra, new : Synced(m, ops, naming, extra, new)
  <1>1. ~CastsNull(m, ops, naming)
    BY DEF SyncWith
  <1>2. PICK extra : extra = Extra(m, ops)
    OBVIOUS
  <1>3. PICK new \in [extra -> Objects \ Live] :
           /\ \A x, y \in extra : new[x] = new[y] => x = y
           /\ Enter(m, extra, new, naming)
           /\ operands' = [operands EXCEPT ![m] = ops]
           /\ UNCHANGED stale
    BY <1>1, <1>2 DEF SyncWith
  <1>4. \A x \in extra : x[1] \in Kinds /\ x[2] \in Nodes /\ naming[x[2]] # Null
    <2>1. \A x \in extra : x[1] \in Kinds /\ x[2] \in Nodes
      BY <1>2, ExtraMembers
    <2>2. \A x \in extra : naming[x[2]] # Null
      BY <1>1, <1>2 DEF CastsNull
    <2> QED  BY <2>1, <2>2
  <1>5. Entered(m, naming, extra, new)
    BY <1>3, <1>4, EnterEntered
  <1>6. Synced(m, ops, naming, extra, new)
    BY <1>2, <1>3, <1>5 DEF Synced
  <1> QED  BY <1>6

\* The map after the new entry points have been entered.
LEMMA EnterMap ==
    ASSUME Types, MapInv, NEW m \in Modules, NEW extra, NEW new \in [extra -> Objects \ Live],
           NEW naming \in [Nodes -> Functions \cup {Null}],
           Enter(m, extra, new, naming), Entered(m, naming, extra, new), UNCHANGED stale
    PROVE  MapInv' /\ registered' \in [Functions -> Objects \cup {Null}]
  <1>1. PICK added : added = [f \in Functions |-> NewOf(f, extra, new, naming)]
    OBVIOUS
  <1>2. /\ registered' \in [Functions -> Objects \cup {Null}]
        /\ \A f \in Functions : IF registered[f] # Null \/ added[f] = {} THEN registered'[f] = registered[f]
                                 ELSE registered'[f] \in added[f]
        /\ shared' = shared \cup {f \in Functions : added[f] # {}
                                      /\ \E o, p \in added[f] \cup EntryPointsOf(f) : o # p}
    BY <1>1 DEF Enter
  <1>3. \A f : NewOf(f, extra, new, naming) \subseteq Objects \ Live
    BY DEF NewOf
  <1>4. added \in [Functions -> SUBSET (Objects \ Live)]
    BY <1>1, <1>3
  <1>5. \A g, p : p \in EntryPointsOf(g)' <=>
           p \in EntryPointsOf(g) \/ \E x \in extra : new[x] = p /\ naming[x[2]] = g
    BY SyncSets
  <1>6. ASSUME NEW g \in Functions
        PROVE  EntryPointsOf(g)' = EntryPointsOf(g) \cup added[g]
    <2>1. \A p : p \in added[g] <=> \E x \in extra : new[x] = p /\ naming[x[2]] = g
      BY <1>1 DEF NewOf
    <2>2. \A p : p \in EntryPointsOf(g)' <=> p \in EntryPointsOf(g) \/ p \in added[g]
      BY <1>5, <2>1
    <2> QED  BY <2>2
  <1>7. MapInv'
    BY <1>2, <1>4, <1>6, MapSynced
  <1> QED  BY <1>2, <1>7

LEMMA SyncWithStep ==
    ASSUME EntryPointsInv, ~aborted, NEW m \in Modules, NEW ops \in [Kinds -> RowNumbers],
           NEW naming \in [Nodes -> Functions \cup {Null}], SyncWith(m, ops, naming),
           describes' = naming, named' \in [Modules -> BOOLEAN], open' \subseteq Modules,
           \A m1 \in Modules : named[m1] => named'[m1],
           ~named'[m] => \A n \in Nodes : ops["vertex"][n] = 0
    PROVE  EntryPointsInv'
  <1>1. Types /\ MapInv /\ OperandsInv
    BY DEF EntryPointsInv
  <1>2. CASE aborted'
    <2>1. UNCHANGED <<entry, registered, operands, stale, shared>>
      BY <1>2 DEF SyncWith
    <2>2. Types'
      BY <1>1, <2>1 DEF Types
    <2>3. MapInv'
      BY <1>1, <2>1 DEF MapInv, StaleAreKeys, OnePerFunction, LookupsAreLive,
                        EntryPointsAreFound, EntryPointsOf, Live
    <2>4. OperandsInv'
      BY <1>1, <2>1 DEF OperandsInv, UnnamedAreEmpty, OperandsHaveEntryPoints, Count, Listed, Live
    <2> QED  BY <2>2, <2>3, <2>4 DEF EntryPointsInv
  <1>3. CASE ~aborted'
    <2>1. PICK extra, new : Synced(m, ops, naming, extra, new)
      BY <1>1, <1>3, SyncEnters
    <2>2. /\ extra = Extra(m, ops) /\ new \in [extra -> Objects \ Live]
          /\ \A x, y \in extra : new[x] = new[y] => x = y
          /\ Enter(m, extra, new, naming) /\ Entered(m, naming, extra, new)
          /\ operands' = [operands EXCEPT ![m] = ops]
          /\ UNCHANGED stale
      BY <2>1 DEF Synced
    <2>3. MapInv' /\ registered' \in [Functions -> Objects \cup {Null}]
      BY <1>1, <2>2, EnterMap
    <2>4. Types'
      <3>1. entry' \in [Objects -> EntryRecord \cup {NoEntryPoint}]
        BY <2>2 DEF Entered
      <3>2. operands' \in Numbers
        BY <1>1, <2>2 DEF Types, Numbers
      <3> QED  BY <2>3, <3>1, <3>2 DEF Types
    <2>5. ASSUME NEW m1 \in Modules, NEW n \in Nodes
          PROVE  /\ operands'[m1]["vertex"][n] <= Count(m1, "vertex", n)'
                 /\ ~named'[m1] => operands'[m1]["vertex"][n] = 0
      <3>1. CASE m1 = m
        <4>1. operands'[m1] = ops
          BY <1>1, <2>2, <3>1 DEF Types, Numbers
        <4>2. /\ Count(m, "vertex", n)' = Count(m, "vertex", n) + Missing(m, ops, "vertex", n)
              /\ Count(m, "vertex", n) \in Nat
          BY <1>1, <2>2, "vertex" \in Kinds, SyncCounts DEF Kinds
        <4>3. ops["vertex"][n] <= Count(m, "vertex", n) + Missing(m, ops, "vertex", n)
          <5>1. ops["vertex"][n] \in Nat
            BY DEF Kinds, RowNumbers
          <5> QED  BY <4>2, <5>1 DEF Missing
        <4> QED  BY <3>1, <4>1, <4>2, <4>3
      <3>2. CASE m1 # m
        <4>1. operands'[m1] = operands[m1]
          BY <1>1, <2>2, <3>2 DEF Types, Numbers
        <4>2. \A m2, k, n1, p : p \in Row(m2, k, n1)' <=>
                 \/ p \in Row(m2, k, n1)
                 \/ m2 = m /\ \E x \in extra : new[x] = p /\ x[1] = k /\ x[2] = n1
          BY <1>1, <2>2, SyncSets
        <4>3. \A p : p \in Row(m1, "vertex", n)' <=> p \in Row(m1, "vertex", n)
          BY <3>2, <4>2
        <4>4. Row(m1, "vertex", n)' = Row(m1, "vertex", n)
          BY <4>3
        <4>5. Count(m1, "vertex", n)' = Count(m1, "vertex", n)
          BY <4>4 DEF Row, Count
        <4> QED  BY <1>1, <4>1, <4>5 DEF OperandsInv, UnnamedAreEmpty, OperandsHaveEntryPoints
      <3> QED  BY <3>1, <3>2
    <2>6. OperandsInv'
      BY <2>5 DEF OperandsInv, UnnamedAreEmpty, OperandsHaveEntryPoints
    <2> QED  BY <2>3, <2>4, <2>6 DEF EntryPointsInv
  <1> QED  BY <1>2, <1>3

LEMMA SyncStep ==
    ASSUME EntryPointsInv, ~aborted, NEW m \in Modules, Sync(m)
    PROVE  EntryPointsInv'
  <1>1. PICK ops \in [Kinds -> RowNumbers], naming \in [Nodes -> Functions \cup {Null}] :
           ops = operands[m] /\ naming = describes
    BY DEF EntryPointsInv, Types, Numbers
  <1>2. SyncWith(m, ops, naming) /\ describes' = naming /\ UNCHANGED <<named, open>>
    BY <1>1 DEF Sync, llvm
  <1>3. ~named'[m] => \A n \in Nodes : ops["vertex"][n] = 0
    BY <1>1, <1>2 DEF EntryPointsInv, OperandsInv, UnnamedAreEmpty
  <1>4. named' \in [Modules -> BOOLEAN] /\ open' \subseteq Modules
    BY <1>2 DEF EntryPointsInv, Types
  <1>5. \A m1 \in Modules : named[m1] => named'[m1]
    BY <1>2
  <1> QED  BY <1>2, <1>3, <1>4, <1>5, SyncWithStep

LEMMA ArriveStep ==
    ASSUME EntryPointsInv, ~aborted, NEW m \in Modules, Arrive(m), open' \subseteq Modules
    PROVE  EntryPointsInv'
  <1> DEFINE naming0(fs, node) == [n \in Nodes |->
                         IF \E f \in fs : node[f] = n
                         THEN CHOOSE f \in fs : node[f] = n ELSE describes[n]]
             some(fs, node, kind, n, k) == {f \in fs : node[f] = n /\ kind[f] = k}
             ops0(fs, node, kind) == [k \in Kinds |-> [n \in Nodes \cup {Null} |->
                      operands[m][k][n] + Cardinality(some(fs, node, kind, n, k))]]
  <1>0. PICK fs \in SUBSET FreeFunctions \ {{}} :
           \E node \in [fs -> Nodes \ Used], kind \in [fs -> Kinds] : Bring(m, fs, node, kind)
    BY DEF Arrive
  <1>a. PICK node \in [fs -> Nodes \ Used], kind \in [fs -> Kinds] : Bring(m, fs, node, kind)
    BY <1>0
  <1>1. /\ named' = [named EXCEPT ![m] = @ \/ \E f \in fs : kind[f] = "vertex"]
        /\ describes' = naming0(fs, node)
        /\ SyncWith(m, ops0(fs, node, kind), naming0(fs, node))
    BY <1>a DEF Bring
  <1>2. Types
    BY DEF EntryPointsInv
  <1>3. fs \subseteq Functions
    BY DEF FreeFunctions
  <1>4. \A k, n : some(fs, node, kind, n, k) \in SUBSET Functions
    BY <1>3
  <1>5. \A k, n : Cardinality(some(fs, node, kind, n, k)) \in Nat
    BY <1>4, FiniteAssumption, FS_Subset, FS_CardinalityType
  <1> HIDE DEF some
  <1>6. ops0(fs, node, kind) \in [Kinds -> RowNumbers]
    <2>1. \A k \in Kinds, n \in Nodes \cup {Null} : operands[m][k][n] \in Nat
      BY <1>2 DEF Types, Numbers, RowNumbers
    <2> QED  BY <1>5, <2>1 DEF RowNumbers
  <1>7. naming0(fs, node) \in [Nodes -> Functions \cup {Null}]
    BY <1>2, <1>3 DEF Types
  <1>8. named' \in [Modules -> BOOLEAN] /\ \A m1 \in Modules : named[m1] => named'[m1]
    BY <1>1, <1>2 DEF Types
  <1>9. ASSUME ~named'[m], NEW n \in Nodes
        PROVE  ops0(fs, node, kind)["vertex"][n] = 0
    <2>1. ~named[m] /\ \A f \in fs : kind[f] # "vertex"
      BY <1>1, <1>2, <1>9 DEF Types
    <2>2. operands[m]["vertex"][n] = 0
      BY <2>1 DEF EntryPointsInv, OperandsInv, UnnamedAreEmpty
    <2>3. some(fs, node, kind, n, "vertex") = {}
      BY <2>1 DEF some
    <2>4. Cardinality(some(fs, node, kind, n, "vertex")) = 0
      BY <2>3, FS_EmptySet
    <2> QED  BY <2>2, <2>4 DEF Kinds
  <1> HIDE DEF ops0, naming0
  <1>10. PICK ops \in [Kinds -> RowNumbers], naming \in [Nodes -> Functions \cup {Null}] :
            ops = ops0(fs, node, kind) /\ naming = naming0(fs, node)
    BY <1>6, <1>7
  <1>11. SyncWith(m, ops, naming) /\ describes' = naming
    BY <1>1, <1>10
  <1>12. ~named'[m] => \A n \in Nodes : ops["vertex"][n] = 0
    BY <1>9, <1>10
  <1> QED  BY <1>8, <1>11, <1>12, SyncWithStep

----------------------------------------------------------------------------
(* The theorems.                                                           *)

LEMMA EntryPointsInit == Init => EntryPointsInv
  <1> SUFFICES ASSUME Init
               PROVE  EntryPointsInv
    OBVIOUS
  <1>1. \A o \in Objects : entry[o] = NoEntryPoint
    BY DEF Init
  <1>2. Live = {}
    BY <1>1, Kindness DEF Live
  <1>3. \A f : EntryPointsOf(f) = {}
    BY <1>2 DEF EntryPointsOf
  <1>4. \A m \in Modules, n \in Nodes : operands[m]["vertex"][n] = 0
    BY DEF Init, NoOperands, Kinds
  <1>5. Types
    BY DEF Init, Types, Numbers, RowNumbers, NoOperands
  <1>6. MapInv
    BY <1>3 DEF Init, MapInv, StaleAreKeys, OnePerFunction, LookupsAreLive, EntryPointsAreFound
  <1>7. OperandsInv
    BY <1>4, RowIsFinite DEF OperandsInv, UnnamedAreEmpty, OperandsHaveEntryPoints
  <1> QED  BY <1>5, <1>6, <1>7 DEF EntryPointsInv

LEMMA EntryPointsNext ==
    ASSUME EntryPointsInv, Next
    PROVE  EntryPointsInv'
  <1>0. ~aborted /\ open \subseteq Modules
    BY DEF Next, EntryPointsInv, Types
  <1>1. ASSUME NEW m \in Modules, OpenEmpty(m)
        PROVE  EntryPointsInv'
    BY <1>1, OthersStep
  <1>2. ASSUME NEW m \in Modules, OpenLoaded(m)
        PROVE  EntryPointsInv'
    <2>1. Arrive(m) /\ open' \subseteq Modules
      BY <1>0, <1>2 DEF OpenLoaded
    <2> QED  BY <1>0, <2>1, ArriveStep
  <1>3. ASSUME NEW m \in Modules, LinkInto(m)
        PROVE  EntryPointsInv'
    <2>1. Arrive(m) /\ open' \subseteq Modules
      BY <1>0, <1>3 DEF LinkInto
    <2> QED  BY <1>0, <2>1, ArriveStep
  <1>4. ASSUME NEW m \in Modules, Sync(m)
        PROVE  EntryPointsInv'
    BY <1>0, <1>4, SyncStep
  <1>5. ASSUME NEW m \in Modules, Close(m)
        PROVE  EntryPointsInv'
    BY <1>5, CloseStep
  <1>6. ASSUME NEW m \in Modules, NEW f \in Functions, AddFunction(f, m)
        PROVE  EntryPointsInv'
    BY <1>6, OthersStep
  <1>7. ASSUME NEW m \in Modules, NEW o \in Objects, Insert(o, m)
        PROVE  EntryPointsInv'
    BY <1>7, InsertStep
  <1>8. ASSUME NEW m \in Modules, NEW o \in Objects, NEW k \in Kinds, NEW f \in Functions,
               NEW n \in Nodes, Create(o, k, f, n, m)
        PROVE  EntryPointsInv'
    BY <1>8, CreateStep
  <1>9. ASSUME NEW o \in Objects, Remove(o) \/ Erase(o) \/ Delete(o)
        PROVE  EntryPointsInv'
    BY <1>9, RemoveStep, EraseStep, DeleteStep
  <1>10. ASSUME NEW f \in Functions, EraseFunction(f)
         PROVE  EntryPointsInv'
    BY <1>10, EraseFunctionStep
  <1> QED  BY <1>1, <1>2, <1>3, <1>4, <1>5, <1>6, <1>7, <1>8, <1>9, <1>10, Zenon DEF Next

LEMMA EntryPointsStutter ==
    ASSUME EntryPointsInv, UNCHANGED vars
    PROVE  EntryPointsInv'
  BY DEF vars, EntryPointsInv, Types, MapInv, OperandsInv, StaleAreKeys, OnePerFunction,
         LookupsAreLive, EntryPointsAreFound, UnnamedAreEmpty, OperandsHaveEntryPoints,
         EntryPointsOf, Count, Listed, Live

\* The types of the state, and what the map and the named metadata say of the entry
\* points: the inductive invariant of EntryPoint::setModule, syncMetadata and ~Module.
THEOREM EntryPointsInvariant == Spec => []EntryPointsInv
  <1>1. Init => EntryPointsInv
    BY EntryPointsInit
  <1>2. EntryPointsInv /\ [Next]_vars => EntryPointsInv'
    BY EntryPointsNext, EntryPointsStutter
  <1> QED  BY <1>1, <1>2, PTL DEF Spec

\* EntryPoint::Get finds only listed entry points, and of the function asked for,
\* unless the address was that of a function erased under its entry point.
THEOREM LookupsLive == Spec => []LookupsAreLive
  <1>1. EntryPointsInv => LookupsAreLive
    BY DEF EntryPointsInv, MapInv
  <1> QED  BY EntryPointsInvariant, <1>1, PTL

\* And finds every listed entry point that never shared its function.
THEOREM EntryPointsFound == Spec => []EntryPointsAreFound
  <1>1. EntryPointsInv => EntryPointsAreFound
    BY DEF EntryPointsInv, MapInv
  <1> QED  BY EntryPointsInvariant, <1>1, PTL

\* No operand of "air.vertex" outlives its entry points.
THEOREM OperandsListed == Spec => []OperandsHaveEntryPoints
  <1>1. EntryPointsInv => OperandsHaveEntryPoints
    BY DEF EntryPointsInv, OperandsInv
  <1> QED  BY EntryPointsInvariant, <1>1, PTL

LEMMA SyncAdds ==
    ASSUME EntryPointsInv, NEW m \in Modules, Sync(m), ~aborted', NEW k \in Kinds, NEW n \in Nodes
    PROVE  /\ Count(m, k, n)' >= operands[m][k][n]
           /\ Count(m, k, n)' > Count(m, k, n) => Count(m, k, n)' = operands[m][k][n]
  <1>1. Types
    BY DEF EntryPointsInv
  <1>2. PICK ops \in [Kinds -> RowNumbers], naming \in [Nodes -> Functions \cup {Null}] :
           ops = operands[m] /\ naming = describes
    BY <1>1 DEF Types, Numbers
  <1>3. SyncWith(m, ops, naming)
    BY <1>2 DEF Sync
  <1>4. PICK extra, new : Synced(m, ops, naming, extra, new)
    BY <1>1, <1>3, SyncEnters
  <1>5. /\ Count(m, k, n)' = Count(m, k, n) + Missing(m, ops, k, n)
        /\ Count(m, k, n) \in Nat /\ Missing(m, ops, k, n) \in Nat
    <2>1. /\ extra = Extra(m, ops) /\ new \in [extra -> Objects \ Live]
          /\ \A x, y \in extra : new[x] = new[y] => x = y
          /\ Entered(m, naming, extra, new)
      BY <1>4 DEF Synced
    <2> QED  BY <1>1, <2>1, SyncCounts
  <1>6. ops[k][n] \in Nat
    BY DEF RowNumbers
  <1>7. Missing(m, ops, k, n) = IF ops[k][n] > Count(m, k, n) THEN ops[k][n] - Count(m, k, n) ELSE 0
    BY DEF Missing
  <1> QED  BY <1>2, <1>5, <1>6, <1>7

\* After a sync each node has at least as many entry points as operands, and those
\* that were added are just the missing ones, so that a second sync adds none.
THEOREM SyncsAddOnlyMissing == Spec => SyncAddsOnlyMissing
  <1>1. EntryPointsInv /\ [Next]_vars =>
           [\A m \in Modules : (Sync(m) /\ ~aborted') =>
              \A k \in Kinds, n \in Nodes :
                 /\ Count(m, k, n)' >= operands[m][k][n]
                 /\ Count(m, k, n)' > Count(m, k, n) => Count(m, k, n)' = operands[m][k][n]]_vars
    BY SyncAdds
  <1> QED  BY EntryPointsInvariant, <1>1, PTL DEF Spec, SyncAddsOnlyMissing

=============================================================================
