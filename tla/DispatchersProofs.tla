------------------------- MODULE DispatchersProofs -------------------------
(***************************************************************************)
(* Proofs about Dispatchers, for every set of modules, llvm::Modules,      *)
(* dispatchers and nodes. Lookups, keys and functions depend on one        *)
(* another through a module's llvm::Module, so one invariant has them all. *)
(***************************************************************************)
EXTENDS Dispatchers, FiniteSetTheorems, FunctionTheorems, WellFoundedInduction, TLAPS

\* The types of the variables that the proofs look into.
Types ==
    /\ open \subseteq Modules
    /\ llmodule \in [Modules -> LLModules \cup {None}]
    /\ known \subseteq LLModules \X Modules
    /\ DOMAIN operands \subseteq LLModules
    /\ \A x \in DOMAIN operands : operands[x] \in Seq(Addresses \cup {None})
    /\ \A x \in DOMAIN operands : \A k \in DOMAIN operands[x] :
          operands[x][k] \in DOMAIN nodes \cup {None}
    /\ DOMAIN interfaces \subseteq Interfaces
    /\ DOMAIN dispatchers \subseteq Objects
    /\ \A d \in DOMAIN dispatchers :
          dispatchers[d] \in [interface : Interfaces, node : DOMAIN nodes, module : open \cup {None}]
    /\ entries \in [Modules -> SUBSET ((Interfaces \cup {None}) \X Objects)]
    /\ DOMAIN nodes \subseteq Addresses
    /\ DOMAIN home = DOMAIN nodes

\* An open module has an llvm::Module of its own, or has released it.
Wrapped ==
    /\ \A m \in open : llmodule[m] # None => llmodule[m] \in DOMAIN operands
    /\ \A m, k \in open : llmodule[m] # None /\ llmodule[m] = llmodule[k] => m = k

\* An llvm::Module that no module has was released or read by a caller.
LooseAreReleased == Loose \subseteq released

\* The entries of every module, open or not, lead to its dispatchers.
EntriesLead ==
    /\ \A m \in Modules, i \in Interfaces, d \in Objects :
          <<i, d>> \in entries[m] =>
             d \in DOMAIN dispatchers /\ dispatchers[d].module = m /\ dispatchers[d].interface = i
    /\ \A d \in DOMAIN dispatchers :
          dispatchers[d].module # None =>
             \/ <<dispatchers[d].interface, d>> \in entries[dispatchers[d].module]
             \/ <<None, d>> \in entries[dispatchers[d].module]

\* Two dispatchers have one node only if that is on record.
NodesApart ==
    \A d, e \in DOMAIN dispatchers :
       d # e /\ dispatchers[d].node = dispatchers[e].node => dispatchers[d].node \in shared

\* A node that is an operand occurs once and its functions are in that llvm::Module.
OperandsPlaced ==
    \A x \in DOMAIN operands : \A k \in DOMAIN operands[x] :
       LET n == operands[x][k]
       IN  n # None /\ n \notin shared =>
              /\ home[n] = x
              /\ \A l \in DOMAIN operands[x] : operands[x][l] = n => l = k

\* The functions of a dispatcher in no list are in no llvm::Module.
DetachedAreHomeless ==
    \A d \in DOMAIN dispatchers :
       dispatchers[d].module = None /\ dispatchers[d].node \notin shared => home[dispatchers[d].node] = None

Keys == Wrapped /\ LooseAreReleased /\ NeverReleasedAreKnown

Places == NodesApart /\ OperandsPlaced /\ DetachedAreHomeless /\ FunctionsFollow

DispatchersInv == Types /\ Keys /\ EntriesLead /\ Places

----------------------------------------------------------------------------
\* Lists of operands: appending, and the least place of a node.
LEMMA LeastPlace ==
    ASSUME NEW T \in SUBSET Nat, T # {}
    PROVE  \E k \in T : \A j \in T : k <= j
  <1>1. PICK k \in T : \A j \in T : ~(<<j, k>> \in OpToRel(<, Nat))
    BY WFMin, NatLessThanWellFounded, Zenon
  <1>2. \A j \in T : j \in Nat /\ k \in Nat
    OBVIOUS
  <1>3. \A j \in T : ~(j < k)
    BY <1>1, <1>2, Zenon DEF OpToRel
  <1> QED  BY <1>2, <1>3

LEMMA OverrideEffect ==
    ASSUME NEW f, NEW g
    PROVE  /\ DOMAIN Override(f, g) = DOMAIN f \cup DOMAIN g
           /\ \A x \in DOMAIN g : Override(f, g)[x] = g[x]
           /\ \A x \in DOMAIN f \ DOMAIN g : Override(f, g)[x] = f[x]
  BY DEF Override

LEMMA AppendEffect ==
    ASSUME NEW S, NEW s \in Seq(S), NEW n \in S
    PROVE  /\ Append(s, n) \in Seq(S)
           /\ DOMAIN Append(s, n) = DOMAIN s \cup {Len(s) + 1}
           /\ Len(s) + 1 \notin DOMAIN s
           /\ \A k \in DOMAIN s : Append(s, n)[k] = s[k]
           /\ Append(s, n)[Len(s) + 1] = n
  OBVIOUS

\* Punched makes one occurrence of the node null and leaves other operands alone.
LEMMA PunchedEffect ==
    ASSUME NEW S, None \in S, NEW s \in Seq(S), NEW n \in S
    PROVE  /\ Punched(s, n) \in Seq(S)
           /\ DOMAIN Punched(s, n) = DOMAIN s
           /\ \A k \in DOMAIN s : Punched(s, n)[k] \in {s[k], None}
           /\ \A k \in DOMAIN s : s[k] # n => Punched(s, n)[k] = s[k]
           /\ \A k \in DOMAIN s :
                 (\A j, l \in DOMAIN s : s[j] = n /\ s[l] = n => j = l) /\ n # None => Punched(s, n)[k] # n
  <1> DEFINE places == {k \in 1 .. Len(s) : s[k] = n}
  <1>1. CASE places = {}
    BY <1>1 DEF Punched
  <1>2. CASE places # {}
    <2>0. places \in SUBSET Nat
      OBVIOUS
    <2>1. PICK k \in places : \A j \in places : k <= j
      BY <1>2, <2>0, LeastPlace, Zenon
    <2> DEFINE first == CHOOSE i \in 1 .. Len(s) : s[i] = n /\ \A j \in 1 .. i - 1 : s[j] # n
    <2>2. k \in 1 .. Len(s) /\ s[k] = n /\ \A j \in 1 .. k - 1 : s[j] # n
      <3>1. ASSUME NEW j \in 1 .. k - 1, s[j] = n PROVE FALSE
        <4>1. j \in places
          BY <3>1
        <4> QED  BY <2>1, <4>1
      <3> QED  BY <3>1
    <2>3. first \in 1 .. Len(s) /\ s[first] = n
      BY <2>2
    <2>4. Punched(s, n) = [s EXCEPT ![first] = None]
      BY <2>3, Zenon DEF Punched
    <2> HIDE DEF first
    <2> QED  BY <2>3, <2>4
  <1> QED  BY <1>1, <1>2

----------------------------------------------------------------------------
\* Keys and modules stay as they are.
LEMMA KeysStay ==
    ASSUME Keys, UNCHANGED <<open, llmodule, known, released>>, DOMAIN operands' = DOMAIN operands
    PROVE  Keys'
  BY DEF Keys, Wrapped, LooseAreReleased, Loose, NeverReleasedAreKnown

LEMMA CreateDetachedStep ==
    ASSUME DispatchersInv, NEW i \in Interfaces, NEW d \in Objects, NEW n \in Addresses,
           CreateDetached(i, d, n)
    PROVE  DispatchersInv'
  <1> USE DEF DispatchersInv, CreateDetached, CanCreate, Create
  <1>1. /\ DOMAIN nodes' = DOMAIN nodes \cup {n} /\ DOMAIN home' = DOMAIN home \cup {n}
        /\ home'[n] = None
        /\ \A a \in DOMAIN home : a # n => home'[a] = home[a]
    BY DEF Override
  <1>2. /\ DOMAIN dispatchers' = DOMAIN dispatchers \cup {d}
        /\ dispatchers'[d] = [interface |-> i, node |-> n, module |-> None]
        /\ \A e \in DOMAIN dispatchers : dispatchers'[e] = dispatchers[e]
    BY DEF Made, Override
  <1>3. \A e \in DOMAIN dispatchers' :
           dispatchers'[e] \in [interface : Interfaces, node : DOMAIN nodes', module : open' \cup {None}]
    BY <1>1, <1>2 DEF Types
  <1>4. Types'
    BY <1>1, <1>2, <1>3 DEF Types
  <1>5. Keys'
    BY KeysStay
  <1>6. EntriesLead'
    BY <1>2 DEF EntriesLead
  <1>7. \A e \in DOMAIN dispatchers : dispatchers[e].node # n
    BY DEF Types
  <1>8. NodesApart' /\ DetachedAreHomeless'
    BY <1>1, <1>2, <1>7 DEF Types, Places, NodesApart, DetachedAreHomeless
  <1>9. OperandsPlaced'
    <2> SUFFICES ASSUME NEW x \in DOMAIN operands, NEW k \in DOMAIN operands[x],
                        operands[x][k] # None, operands[x][k] \notin shared
                 PROVE  /\ home'[operands[x][k]] = x
                        /\ \A l \in DOMAIN operands[x] : operands[x][l] = operands[x][k] => l = k
      BY DEF OperandsPlaced
    <2>1. operands[x][k] # n /\ operands[x][k] \in DOMAIN home
      BY DEF Types
    <2> QED  BY <1>1, <2>1 DEF Places, OperandsPlaced
  <1>10. FunctionsFollow'
    <2> SUFFICES ASSUME NEW e \in DOMAIN dispatchers', dispatchers'[e].module # None,
                        llmodule[dispatchers'[e].module] # None, dispatchers'[e].node \notin shared
                 PROVE  LET x == llmodule[dispatchers'[e].module]
                            a == dispatchers'[e].node
                        IN  home'[a] = x /\ \E k \in DOMAIN operands[x] : operands[x][k] = a
      BY DEF FunctionsFollow
    <2>1. e \in DOMAIN dispatchers /\ dispatchers'[e] = dispatchers[e]
      BY <1>2
    <2>2. dispatchers[e].node \in DOMAIN home /\ dispatchers[e].node # n
      BY <1>7, <2>1 DEF Types
    <2> QED  BY <1>1, <2>1, <2>2 DEF Places, FunctionsFollow
  <1> QED  BY <1>4, <1>5, <1>6, <1>8, <1>9, <1>10 DEF Places

\* What Join makes of operands and dispatchers.
LEMMA JoinTypes ==
    ASSUME Types, NEW objects, NEW where, NEW d \in Objects, NEW m \in open, NEW bound,
           bound \subseteq Addresses, DOMAIN nodes \subseteq bound,
           DOMAIN objects \subseteq Objects, d \in DOMAIN objects,
           \A e \in DOMAIN objects :
              objects[e] \in [interface : Interfaces, node : bound, module : open \cup {None}],
           DOMAIN where = bound, llmodule[m] \in DOMAIN operands,
           Join(objects, d, m, where)
    PROVE  /\ DOMAIN dispatchers' = DOMAIN objects
           /\ dispatchers'[d] = [objects[d] EXCEPT !.module = m]
           /\ \A e \in DOMAIN objects \ {d} : dispatchers'[e] = objects[e]
           /\ \A e \in DOMAIN dispatchers' :
                 dispatchers'[e] \in [interface : Interfaces, node : bound, module : open \cup {None}]
           /\ entries' \in [Modules -> SUBSET ((Interfaces \cup {None}) \X Objects)]
           /\ DOMAIN home' = bound
           /\ DOMAIN operands' = DOMAIN operands
           /\ \A x \in DOMAIN operands : operands'[x] \in Seq(Addresses \cup {None})
           /\ \A x \in DOMAIN operands : \A k \in DOMAIN operands'[x] :
                 operands'[x][k] \in bound \cup {None}
           /\ \A x \in DOMAIN operands \ {llmodule[m]} : operands'[x] = operands[x]
           /\ operands'[llmodule[m]] = Append(operands[llmodule[m]], objects[d].node)
  <1> USE DEF Join
  <1> DEFINE x0 == llmodule[m]
             n0 == objects[d].node
             S == Addresses \cup {None}
  <1>1. DOMAIN dispatchers' = DOMAIN objects /\ dispatchers'[d] = [objects[d] EXCEPT !.module = m]
        /\ \A e \in DOMAIN objects \ {d} : dispatchers'[e] = objects[e]
    OBVIOUS
  <1>2. dispatchers'[d] \in [interface : Interfaces, node : bound, module : open \cup {None}]
    BY <1>1
  <1>3. entries' \in [Modules -> SUBSET ((Interfaces \cup {None}) \X Objects)]
    <2>1. <<objects[d].interface, d>> \in (Interfaces \cup {None}) \X Objects
      OBVIOUS
    <2> QED  BY <2>1 DEF Types
  <1>4. n0 \in S /\ operands[x0] \in Seq(S)
    BY DEF Types
  <1>5. /\ Append(operands[x0], n0) \in Seq(S)
        /\ DOMAIN Append(operands[x0], n0) = DOMAIN operands[x0] \cup {Len(operands[x0]) + 1}
        /\ \A k \in DOMAIN operands[x0] : Append(operands[x0], n0)[k] = operands[x0][k]
        /\ Append(operands[x0], n0)[Len(operands[x0]) + 1] = n0
    BY <1>4, AppendEffect
  <1>6. DOMAIN operands' = DOMAIN operands /\ operands'[x0] = Append(operands[x0], n0)
        /\ \A x \in DOMAIN operands \ {x0} : operands'[x] = operands[x]
    OBVIOUS
  <1>7. \A x \in DOMAIN operands : operands'[x] \in Seq(S)
    BY <1>5, <1>6 DEF Types
  <1>8. \A x \in DOMAIN operands : \A k \in DOMAIN operands'[x] : operands'[x][k] \in bound \cup {None}
    <2>1. n0 \in bound
      OBVIOUS
    <2> QED  BY <1>5, <1>6, <2>1 DEF Types
  <1>9. DOMAIN home' = bound
    OBVIOUS
  <1> QED  BY <1>1, <1>2, <1>3, <1>6, <1>7, <1>8, <1>9

\* Joining a list keeps the invariant, for a dispatcher that was there (Insert)
\* and for a new one (CreateListed).
LEMMA JoinStep ==
    ASSUME DispatchersInv, NEW objects, NEW where, NEW d \in Objects, NEW m \in open,
           DOMAIN nodes \subseteq DOMAIN nodes', DOMAIN nodes' \subseteq Addresses,
           DOMAIN objects = DOMAIN dispatchers \cup {d}, llmodule[m] # None,
           \A e \in DOMAIN dispatchers : objects[e] = dispatchers[e],
           objects[d] \in [interface : Interfaces, node : DOMAIN nodes', module : {None}],
           d \in DOMAIN dispatchers \/ objects[d].node \notin DOMAIN nodes,
           DOMAIN where = DOMAIN nodes', where[objects[d].node] = None,
           \A a \in DOMAIN nodes : where[a] = home[a],
           Join(objects, d, m, where),
           UNCHANGED <<open, llmodule, known, interfaces, released, shared>>
    PROVE  DispatchersInv'
  <1> DEFINE x0 == llmodule[m]
             n0 == objects[d].node
             last == Len(operands[x0]) + 1
  <1>1. x0 \in DOMAIN operands /\ x0 \in LLModules /\ None \notin LLModules /\ None \notin Modules
    BY NoneAssumption DEF DispatchersInv, Keys, Wrapped, Types
  <1>2. \A e \in DOMAIN objects :
           objects[e] \in [interface : Interfaces, node : DOMAIN nodes', module : open \cup {None}]
    BY DEF DispatchersInv, Types
  <1>3. DOMAIN objects \subseteq Objects
    BY DEF DispatchersInv, Types
  <1>4. /\ DOMAIN dispatchers' = DOMAIN objects
        /\ dispatchers'[d] = [objects[d] EXCEPT !.module = m]
        /\ \A e \in DOMAIN objects \ {d} : dispatchers'[e] = objects[e]
        /\ \A e \in DOMAIN dispatchers' :
              dispatchers'[e] \in [interface : Interfaces, node : DOMAIN nodes', module : open \cup {None}]
        /\ entries' \in [Modules -> SUBSET ((Interfaces \cup {None}) \X Objects)]
        /\ DOMAIN home' = DOMAIN nodes'
        /\ DOMAIN operands' = DOMAIN operands
        /\ \A x \in DOMAIN operands : operands'[x] \in Seq(Addresses \cup {None})
        /\ \A x \in DOMAIN operands : \A k \in DOMAIN operands'[x] :
              operands'[x][k] \in DOMAIN nodes' \cup {None}
        /\ \A x \in DOMAIN operands \ {x0} : operands'[x] = operands[x]
        /\ operands'[x0] = Append(operands[x0], n0)
    BY <1>1, <1>2, <1>3, JoinTypes DEF DispatchersInv
  <1>5. /\ home'[n0] = x0
        /\ \A a \in DOMAIN nodes : a # n0 => home'[a] = home[a]
    BY DEF Join, DispatchersInv, Types
  <1>6. /\ DOMAIN operands'[x0] = DOMAIN operands[x0] \cup {last} /\ last \notin DOMAIN operands[x0]
        /\ \A k \in DOMAIN operands[x0] : operands'[x0][k] = operands[x0][k]
        /\ operands'[x0][last] = n0
    <2>1. operands[x0] \in Seq(Addresses \cup {None}) /\ n0 \in Addresses \cup {None}
      BY <1>1 DEF DispatchersInv, Types
    <2> QED  BY <1>4, <2>1, AppendEffect
  <1>7. \A e \in DOMAIN dispatchers : e # d /\ dispatchers[e].node = n0 => n0 \in shared
    BY DEF DispatchersInv, Types, Places, NodesApart
  <1>8. \A x \in DOMAIN operands : \A k \in DOMAIN operands[x] : operands[x][k] = n0 => n0 \in shared
    <2> SUFFICES ASSUME NEW x \in DOMAIN operands, NEW k \in DOMAIN operands[x],
                        operands[x][k] = n0, n0 \notin shared
                 PROVE  FALSE
      OBVIOUS
    <2>1. n0 # None /\ n0 \in DOMAIN nodes
      BY NoneAssumption DEF DispatchersInv, Types
    <2>2. home[n0] = x /\ home[n0] = None
      BY <2>1 DEF DispatchersInv, Places, OperandsPlaced
    <2> QED  BY <1>1, <2>2 DEF DispatchersInv, Types
  <1>9. Types'
    BY <1>3, <1>4 DEF DispatchersInv, Types
  <1>10. Keys'
    BY <1>4, KeysStay DEF DispatchersInv
  <1>11. EntriesLead'
    <2>1. entries' = [entries EXCEPT ![m] = @ \cup {<<objects[d].interface, d>>}]
      BY DEF Join
    <2>2. \A k \in Modules, i \in Interfaces : <<i, d>> \notin entries[k]
      BY <1>1 DEF DispatchersInv, EntriesLead
    <2>3. entries'[m] = entries[m] \cup {<<objects[d].interface, d>>}
          /\ \A k \in Modules \ {m} : entries'[k] = entries[k]
      BY <2>1 DEF DispatchersInv, Types
    <2>4. m \in Modules
      BY DEF DispatchersInv, Types
    <2>5. ASSUME NEW k \in Modules, NEW i \in Interfaces, NEW e \in Objects, <<i, e>> \in entries'[k]
          PROVE  e \in DOMAIN dispatchers' /\ dispatchers'[e].module = k /\ dispatchers'[e].interface = i
      <3>1. CASE e = d
        BY <1>4, <2>2, <2>3, <2>5, <3>1
      <3>2. CASE e # d
        <4>1. <<i, e>> \in entries[k]
          BY <2>3, <2>5, <3>2
        <4> QED  BY <1>4, <3>2, <4>1 DEF DispatchersInv, EntriesLead
      <3> QED  BY <3>1, <3>2
    <2>6. ASSUME NEW e \in DOMAIN dispatchers', dispatchers'[e].module # None
          PROVE  \/ <<dispatchers'[e].interface, e>> \in entries'[dispatchers'[e].module]
                 \/ <<None, e>> \in entries'[dispatchers'[e].module]
      <3>1. CASE e = d
        BY <1>4, <2>3, <3>1
      <3>2. CASE e # d
        <4>1. e \in DOMAIN dispatchers /\ dispatchers'[e] = dispatchers[e] /\ dispatchers[e].module \in Modules
          BY <1>4, <2>6, <3>2 DEF DispatchersInv, Types
        <4> QED  BY <2>3, <2>6, <4>1 DEF DispatchersInv, EntriesLead
      <3> QED  BY <3>1, <3>2
    <2> QED  BY <2>5, <2>6 DEF EntriesLead
  <1>12. NodesApart'
    BY <1>4, <1>7 DEF DispatchersInv, Places, NodesApart
  <1>13. OperandsPlaced'
    <2> SUFFICES ASSUME NEW x \in DOMAIN operands, NEW k \in DOMAIN operands'[x],
                        operands'[x][k] # None, operands'[x][k] \notin shared
                 PROVE  /\ home'[operands'[x][k]] = x
                        /\ \A l \in DOMAIN operands'[x] : operands'[x][l] = operands'[x][k] => l = k
      BY <1>4 DEF OperandsPlaced
    <2>1. CASE x # x0
      <3>1. operands'[x] = operands[x] /\ operands[x][k] \in DOMAIN nodes /\ operands[x][k] # n0
        BY <1>4, <1>8, <2>1 DEF DispatchersInv, Types
      <3> QED  BY <1>5, <3>1 DEF DispatchersInv, Places, OperandsPlaced
    <2>2. CASE x = x0 /\ k # last
      <3>1. k \in DOMAIN operands[x] /\ operands'[x][k] = operands[x][k]
            /\ operands[x][k] \in DOMAIN nodes /\ operands[x][k] # n0
        BY <1>6, <1>8, <2>2 DEF DispatchersInv, Types
      <3> QED  BY <1>5, <1>6, <2>2, <3>1 DEF DispatchersInv, Places, OperandsPlaced
    <2>3. CASE x = x0 /\ k = last
      BY <1>1, <1>5, <1>6, <1>8, <2>3
    <2> QED  BY <2>1, <2>2, <2>3
  <1>14. ASSUME NEW e \in DOMAIN dispatchers', e # d
         PROVE  /\ e \in DOMAIN dispatchers /\ dispatchers'[e] = dispatchers[e]
                /\ dispatchers[e].node \in DOMAIN nodes
                /\ dispatchers[e].node \notin shared => home'[dispatchers[e].node] = home[dispatchers[e].node]
    BY <1>4, <1>5, <1>7, <1>14 DEF DispatchersInv, Types
  <1>15. DetachedAreHomeless'
    <2>1. m # None
      BY <1>1 DEF DispatchersInv, Types
    <2> QED  BY <1>4, <1>14, <2>1 DEF DispatchersInv, Places, DetachedAreHomeless
  <1>16. FunctionsFollow'
    <2> SUFFICES ASSUME NEW e \in DOMAIN dispatchers', dispatchers'[e].module # None,
                        llmodule[dispatchers'[e].module] # None, dispatchers'[e].node \notin shared
                 PROVE  LET x == llmodule[dispatchers'[e].module]
                            a == dispatchers'[e].node
                        IN  home'[a] = x /\ \E k \in DOMAIN operands'[x] : operands'[x][k] = a
      BY DEF FunctionsFollow
    <2>1. CASE e = d
      <3>1. dispatchers'[e].module = m /\ dispatchers'[e].node = n0
        BY <1>4, <2>1
      <3> QED  BY <1>5, <1>6, <3>1
    <2>2. CASE e # d
      <3> DEFINE y == llmodule[dispatchers[e].module]
      <3>1. /\ home[dispatchers[e].node] = y
            /\ \E k \in DOMAIN operands[y] : operands[y][k] = dispatchers[e].node
        BY <1>14, <2>2 DEF DispatchersInv, Places, FunctionsFollow
      <3>2. y \in DOMAIN operands
        BY <1>14, <2>2 DEF DispatchersInv, Types, Keys, Wrapped
      <3>3. PICK k \in DOMAIN operands[y] : operands[y][k] = dispatchers[e].node
        BY <3>1
      <3>4. k \in DOMAIN operands'[y] /\ operands'[y][k] = operands[y][k]
        <4>1. CASE y = x0
          BY <1>6, <4>1
        <4>2. CASE y # x0
          BY <1>4, <3>2, <4>2
        <4> QED  BY <4>1, <4>2
      <3> QED  BY <1>14, <2>2, <3>1, <3>3, <3>4
    <2> QED  BY <2>1, <2>2
  <1> QED  BY <1>9, <1>10, <1>11, <1>12, <1>13, <1>15, <1>16 DEF DispatchersInv, Places


LEMMA InsertStep ==
    ASSUME DispatchersInv, NEW d \in Objects, NEW m \in Modules, Insert(d, m), ~Stop
    PROVE  DispatchersInv'
  <1>1. /\ d \in DOMAIN dispatchers /\ dispatchers[d].module = None /\ m \in open
        /\ llmodule[m] # None /\ home[dispatchers[d].node] = None
        /\ Join(dispatchers, d, m, home)
        /\ UNCHANGED <<open, llmodule, known, interfaces, nodes, released, shared>>
    BY DEF Insert, CanMove
  <1>2. /\ DOMAIN dispatchers = DOMAIN dispatchers \cup {d}
        /\ DOMAIN nodes \subseteq DOMAIN nodes' /\ DOMAIN nodes' \subseteq Addresses
        /\ DOMAIN home = DOMAIN nodes'
        /\ dispatchers[d] \in [interface : Interfaces, node : DOMAIN nodes', module : {None}]
    BY <1>1 DEF DispatchersInv, Types
  <1> QED  BY <1>1, <1>2, JoinStep

LEMMA CreateListedStep ==
    ASSUME DispatchersInv, NEW i \in Interfaces, NEW m \in Modules, NEW d \in Objects,
           NEW n \in Addresses, CreateListed(i, m, d, n), ~Stop
    PROVE  DispatchersInv'
  <1> DEFINE objects == Made(i, d, n)
             where == Override(home, [a \in {n} |-> None])
  <1>1. /\ d \notin DOMAIN dispatchers /\ m \in open /\ n \notin DOMAIN nodes
        /\ llmodule[m] # None /\ Create(i, n) /\ Join(objects, d, m, where)
        /\ UNCHANGED <<open, llmodule, known, interfaces, released, shared>>
    BY DEF CreateListed, CanCreate
  <1>2. /\ DOMAIN objects = DOMAIN dispatchers \cup {d}
        /\ objects[d] = [interface |-> i, node |-> n, module |-> None]
        /\ \A e \in DOMAIN dispatchers : objects[e] = dispatchers[e]
    BY <1>1 DEF Made, Override
  <1>3. DOMAIN nodes' = DOMAIN nodes \cup {n}
    BY <1>1 DEF Create, Override
  <1>4. /\ DOMAIN where = DOMAIN nodes' /\ where[n] = None
        /\ \A a \in DOMAIN nodes : where[a] = home[a]
    BY <1>1, <1>3 DEF Override, DispatchersInv, Types
  <1>5. DOMAIN nodes' \subseteq Addresses
    BY <1>3 DEF DispatchersInv, Types
  <1>6. objects[d] \in [interface : Interfaces, node : DOMAIN nodes', module : {None}] /\ objects[d].node = n
    BY <1>2, <1>3
  <1> HIDE DEF objects, where
  <1> QED  BY <1>1, <1>2, <1>3, <1>4, <1>5, <1>6, JoinStep

LEMMA RemoveStep ==
    ASSUME DispatchersInv, NEW d \in Objects, Remove(d), ~Stop
    PROVE  DispatchersInv'
  <1> DEFINE m == dispatchers[d].module
             n == dispatchers[d].node
             x0 == llmodule[m]
  <1>1. /\ d \in DOMAIN dispatchers /\ m # None /\ x0 # None /\ home[n] = x0
        /\ dispatchers' = [dispatchers EXCEPT ![d].module = None]
        /\ entries' = [entries EXCEPT ![m] = @ \ {<<dispatchers[d].interface, d>>}]
        /\ home' = [home EXCEPT ![n] = None]
        /\ operands' = [operands EXCEPT ![x0] = Punched(@, n)]
        /\ UNCHANGED <<open, llmodule, known, interfaces, nodes, released, shared>>
    BY DEF Remove, CanMove, EntriesWithout, HomeWithout
  <1>2. /\ m \in open /\ m \in Modules /\ n \in DOMAIN nodes /\ n \in Addresses
        /\ x0 \in DOMAIN operands /\ None \notin LLModules /\ None \notin Modules /\ None \notin Addresses
        /\ x0 \in LLModules
    BY <1>1, NoneAssumption DEF DispatchersInv, Types, Keys, Wrapped
  <1>3. /\ DOMAIN dispatchers' = DOMAIN dispatchers
        /\ dispatchers'[d].module = None /\ dispatchers'[d].node = n
        /\ dispatchers'[d].interface = dispatchers[d].interface
        /\ dispatchers'[d] \in [interface : Interfaces, node : DOMAIN nodes, module : {None}]
        /\ \A e \in DOMAIN dispatchers \ {d} : dispatchers'[e] = dispatchers[e]
        /\ DOMAIN home' = DOMAIN home /\ home'[n] = None
        /\ \A a \in DOMAIN home \ {n} : home'[a] = home[a]
    BY <1>1, <1>2 DEF DispatchersInv, Types
  <1>4. operands[x0] \in Seq(Addresses \cup {None})
    BY <1>2 DEF DispatchersInv, Types
  <1>5. /\ Punched(operands[x0], n) \in Seq(Addresses \cup {None})
        /\ DOMAIN Punched(operands[x0], n) = DOMAIN operands[x0]
        /\ \A k \in DOMAIN operands[x0] : Punched(operands[x0], n)[k] \in {operands[x0][k], None}
        /\ \A k \in DOMAIN operands[x0] : operands[x0][k] # n => Punched(operands[x0], n)[k] = operands[x0][k]
        /\ \A k \in DOMAIN operands[x0] :
              (\A j, l \in DOMAIN operands[x0] : operands[x0][j] = n /\ operands[x0][l] = n => j = l)
                 /\ n # None => Punched(operands[x0], n)[k] # n
    <2> DEFINE S == Addresses \cup {None}
    <2> DEFINE s == operands[x0]
    <2>1. None \in S /\ s \in Seq(S) /\ n \in S
      BY <1>2, <1>4
    <2> HIDE DEF S, n, x0, s
    <2>2. /\ Punched(s, n) \in Seq(S)
          /\ DOMAIN Punched(s, n) = DOMAIN s
          /\ \A k \in DOMAIN s : Punched(s, n)[k] \in {s[k], None}
          /\ \A k \in DOMAIN s : s[k] # n => Punched(s, n)[k] = s[k]
          /\ \A k \in DOMAIN s :
                (\A j, l \in DOMAIN s : s[j] = n /\ s[l] = n => j = l) /\ n # None => Punched(s, n)[k] # n
      BY <2>1, PunchedEffect
    <2> QED  BY <2>1, <2>2, Zenon DEF S, s
  <1>6. /\ DOMAIN operands' = DOMAIN operands /\ operands'[x0] = Punched(operands[x0], n)
        /\ \A x \in DOMAIN operands \ {x0} : operands'[x] = operands[x]
    BY <1>1, <1>2
  <1>7. \A x \in DOMAIN operands : DOMAIN operands'[x] = DOMAIN operands[x]
           /\ \A k \in DOMAIN operands[x] : operands'[x][k] \in {operands[x][k], None}
    BY <1>5, <1>6
  <1>8. \A x \in DOMAIN operands : \A k \in DOMAIN operands[x] :
           operands[x][k] # n => operands'[x][k] = operands[x][k]
    BY <1>5, <1>6
  <1>9. \A e \in DOMAIN dispatchers : e # d /\ dispatchers[e].node = n => n \in shared
    BY <1>1 DEF DispatchersInv, Places, NodesApart
  <1>10. Types'
    <2>1. entries' \in [Modules -> SUBSET ((Interfaces \cup {None}) \X Objects)]
      BY <1>1, <1>2 DEF DispatchersInv, Types
    <2>2. \A x \in DOMAIN operands : operands'[x] \in Seq(Addresses \cup {None})
      BY <1>5, <1>6 DEF DispatchersInv, Types
    <2>3. \A x \in DOMAIN operands : \A k \in DOMAIN operands'[x] : operands'[x][k] \in DOMAIN nodes \cup {None}
      BY <1>7 DEF DispatchersInv, Types
    <2>4. \A e \in DOMAIN dispatchers :
             dispatchers'[e] \in [interface : Interfaces, node : DOMAIN nodes, module : open \cup {None}]
      BY <1>1, <1>3 DEF DispatchersInv, Types
    <2> QED  BY <1>1, <1>3, <1>6, <2>1, <2>2, <2>3, <2>4 DEF DispatchersInv, Types
  <1>11. Keys'
    BY <1>1, <1>6, KeysStay DEF DispatchersInv
  <1>12. EntriesLead'
    <2>1. entries'[m] = entries[m] \ {<<dispatchers[d].interface, d>>}
          /\ \A k \in Modules \ {m} : entries'[k] = entries[k]
      BY <1>1, <1>2 DEF DispatchersInv, Types
    <2>2. ASSUME NEW k \in Modules, NEW i \in Interfaces, NEW e \in Objects, <<i, e>> \in entries'[k]
          PROVE  e \in DOMAIN dispatchers' /\ dispatchers'[e].module = k /\ dispatchers'[e].interface = i
      <3>1. <<i, e>> \in entries[k]
        BY <2>1, <2>2
      <3>2. e \in DOMAIN dispatchers /\ dispatchers[e].module = k /\ dispatchers[e].interface = i
        BY <3>1 DEF DispatchersInv, EntriesLead
      <3>3. e # d
        BY <2>1, <2>2, <3>2
      <3> QED  BY <1>3, <3>2, <3>3
    <2>3. ASSUME NEW e \in DOMAIN dispatchers', dispatchers'[e].module # None
          PROVE  \/ <<dispatchers'[e].interface, e>> \in entries'[dispatchers'[e].module]
                 \/ <<None, e>> \in entries'[dispatchers'[e].module]
      <3>1. e # d
        BY <1>3, <2>3
      <3>2. e \in DOMAIN dispatchers /\ dispatchers'[e] = dispatchers[e] /\ dispatchers[e].module \in Modules
        BY <1>3, <2>3, <3>1 DEF DispatchersInv, Types
      <3> QED  BY <2>1, <2>3, <3>1, <3>2 DEF DispatchersInv, EntriesLead
    <2> QED  BY <2>2, <2>3 DEF EntriesLead
  <1>13. NodesApart'
    BY <1>1, <1>3 DEF DispatchersInv, Places, NodesApart
  <1>14. OperandsPlaced'
    <2> SUFFICES ASSUME NEW x \in DOMAIN operands, NEW k \in DOMAIN operands[x],
                        operands'[x][k] # None, operands'[x][k] \notin shared
                 PROVE  /\ home'[operands'[x][k]] = x
                        /\ \A l \in DOMAIN operands[x] : operands'[x][l] = operands'[x][k] => l = k
      BY <1>1, <1>6, <1>7 DEF OperandsPlaced
    <2>1. operands'[x][k] = operands[x][k] /\ operands[x][k] \in DOMAIN home
      BY <1>7 DEF DispatchersInv, Types
    <2>2. /\ home[operands[x][k]] = x
          /\ \A l \in DOMAIN operands[x] : operands[x][l] = operands[x][k] => l = k
      BY <2>1 DEF DispatchersInv, Places, OperandsPlaced
    <2>3. operands[x][k] # n
      <3> SUFFICES ASSUME operands[x][k] = n PROVE FALSE
        OBVIOUS
      <3>1. x = x0
        BY <1>1, <2>2
      <3>2. \A j, l \in DOMAIN operands[x0] : operands[x0][j] = n /\ operands[x0][l] = n => j = l
        BY <2>2, <3>1
      <3>3. n # None
        BY <1>2
      <3> QED  BY <1>5, <1>6, <2>1, <3>1, <3>2, <3>3
    <2>4. \A l \in DOMAIN operands[x] : operands'[x][l] = operands'[x][k] => operands[x][l] = operands[x][k]
      BY <1>7, <2>1
    <2> QED  BY <1>3, <2>1, <2>2, <2>3, <2>4
  <1>15. ASSUME NEW e \in DOMAIN dispatchers', e # d
         PROVE  /\ e \in DOMAIN dispatchers /\ dispatchers'[e] = dispatchers[e]
                /\ dispatchers[e].node \in DOMAIN nodes
                /\ dispatchers[e].node \notin shared =>
                      home'[dispatchers[e].node] = home[dispatchers[e].node] /\ dispatchers[e].node # n
    BY <1>3, <1>9, <1>15 DEF DispatchersInv, Types
  <1>16. DetachedAreHomeless'
    <2> SUFFICES ASSUME NEW e \in DOMAIN dispatchers', dispatchers'[e].module = None,
                        dispatchers'[e].node \notin shared
                 PROVE  home'[dispatchers'[e].node] = None
      BY <1>1 DEF DetachedAreHomeless
    <2>1. CASE e = d
      BY <1>3, <2>1
    <2>2. CASE e # d
      BY <1>15, <2>2 DEF DispatchersInv, Places, DetachedAreHomeless
    <2> QED  BY <2>1, <2>2
  <1>17. FunctionsFollow'
    <2> SUFFICES ASSUME NEW e \in DOMAIN dispatchers', dispatchers'[e].module # None,
                        llmodule[dispatchers'[e].module] # None, dispatchers'[e].node \notin shared
                 PROVE  LET x == llmodule[dispatchers'[e].module]
                            a == dispatchers'[e].node
                        IN  home'[a] = x /\ \E k \in DOMAIN operands'[x] : operands'[x][k] = a
      BY <1>1 DEF FunctionsFollow
    <2>1. e # d
      BY <1>3
    <2> DEFINE y == llmodule[dispatchers[e].module]
    <2>2. /\ home[dispatchers[e].node] = y
          /\ \E k \in DOMAIN operands[y] : operands[y][k] = dispatchers[e].node
      BY <1>15, <2>1 DEF DispatchersInv, Places, FunctionsFollow
    <2>3. y \in DOMAIN operands
      BY <1>15, <2>1 DEF DispatchersInv, Types, Keys, Wrapped
    <2>4. PICK k \in DOMAIN operands[y] : operands[y][k] = dispatchers[e].node
      BY <2>2
    <2>5. k \in DOMAIN operands'[y] /\ operands'[y][k] = dispatchers[e].node
      BY <1>7, <1>8, <1>15, <2>1, <2>3, <2>4
    <2> QED  BY <1>15, <2>1, <2>2, <2>5
  <1> QED  BY <1>10, <1>11, <1>12, <1>13, <1>14, <1>16, <1>17 DEF DispatchersInv, Places


LEMMA DeleteStep ==
    ASSUME DispatchersInv, NEW d \in Objects, Delete(d), ~Stop
    PROVE  DispatchersInv'
  <1> DEFINE n == dispatchers[d].node
  <1>1. /\ d \in DOMAIN dispatchers /\ dispatchers[d].module = None /\ home[n] = None
        /\ dispatchers' = Without(dispatchers, {d})
        /\ home' = [home EXCEPT ![n] = Gone]
        /\ UNCHANGED <<open, llmodule, known, operands, interfaces, entries, nodes, released, shared>>
    BY DEF Delete
  <1>2. /\ None \notin LLModules /\ None \notin Modules
        /\ DOMAIN dispatchers' = DOMAIN dispatchers \ {d}
        /\ \A e \in DOMAIN dispatchers' : dispatchers'[e] = dispatchers[e]
        /\ DOMAIN home' = DOMAIN home
        /\ \A a \in DOMAIN home : a # n => home'[a] = home[a]
    BY <1>1, NoneAssumption DEF Without, DispatchersInv, Types
  <1>3. \A e \in DOMAIN dispatchers' : dispatchers[e].node = n => n \in shared
    BY <1>1, <1>2 DEF DispatchersInv, Places, NodesApart
  <1>4. Types'
    BY <1>1, <1>2 DEF DispatchersInv, Types
  <1>5. Keys'
    BY <1>1, KeysStay DEF DispatchersInv
  <1>6. EntriesLead'
    BY <1>1, <1>2 DEF DispatchersInv, EntriesLead
  <1>7. NodesApart'
    BY <1>1, <1>2 DEF DispatchersInv, Places, NodesApart
  <1>8. OperandsPlaced'
    <2> SUFFICES ASSUME NEW x \in DOMAIN operands, NEW k \in DOMAIN operands[x],
                        operands[x][k] # None, operands[x][k] \notin shared
                 PROVE  /\ home'[operands[x][k]] = x
                        /\ \A l \in DOMAIN operands[x] : operands[x][l] = operands[x][k] => l = k
      BY <1>1 DEF OperandsPlaced
    <2>1. /\ home[operands[x][k]] = x /\ operands[x][k] \in DOMAIN home
          /\ \A l \in DOMAIN operands[x] : operands[x][l] = operands[x][k] => l = k
      BY DEF DispatchersInv, Types, Places, OperandsPlaced
    <2>2. operands[x][k] # n
      BY <1>1, <1>2, <2>1 DEF DispatchersInv, Types
    <2> QED  BY <1>2, <2>1, <2>2
  <1>9. \A e \in DOMAIN dispatchers' : dispatchers[e].node \notin shared =>
           home'[dispatchers[e].node] = home[dispatchers[e].node]
    BY <1>2, <1>3 DEF DispatchersInv, Types
  <1>10. DetachedAreHomeless'
    <2> SUFFICES ASSUME NEW e \in DOMAIN dispatchers', dispatchers'[e].module = None,
                        dispatchers'[e].node \notin shared
                 PROVE  home'[dispatchers'[e].node] = None
      BY <1>1 DEF DetachedAreHomeless
    <2>1. e \in DOMAIN dispatchers /\ dispatchers'[e] = dispatchers[e]
      BY <1>2
    <2> QED  BY <1>9, <2>1 DEF DispatchersInv, Places, DetachedAreHomeless
  <1>11. FunctionsFollow'
    <2> SUFFICES ASSUME NEW e \in DOMAIN dispatchers', dispatchers'[e].module # None,
                        llmodule[dispatchers'[e].module] # None, dispatchers'[e].node \notin shared
                 PROVE  LET x == llmodule[dispatchers'[e].module]
                            a == dispatchers'[e].node
                        IN  home'[a] = x /\ \E k \in DOMAIN operands[x] : operands[x][k] = a
      BY <1>1 DEF FunctionsFollow
    <2>1. e \in DOMAIN dispatchers /\ dispatchers'[e] = dispatchers[e]
      BY <1>2
    <2> QED  BY <1>9, <2>1 DEF DispatchersInv, Places, FunctionsFollow
  <1> QED  BY <1>4, <1>5, <1>6, <1>7, <1>8, <1>10, <1>11 DEF DispatchersInv, Places

LEMMA GetInterfaceStep ==
    ASSUME DispatchersInv, NEW c \in Contents, NEW i \in Interfaces, GetInterface(c, i)
    PROVE  DispatchersInv'
  <1>1. DOMAIN interfaces' \subseteq Interfaces
        /\ UNCHANGED <<open, llmodule, known, operands, dispatchers, entries, nodes, home,
                       released, shared>>
    BY DEF GetInterface, Override, DispatchersInv, Types
  <1>2. Types'
    BY <1>1 DEF DispatchersInv, Types
  <1>3. Keys' /\ EntriesLead'
    BY <1>1, KeysStay DEF DispatchersInv, EntriesLead
  <1>4. Places'
    BY <1>1 DEF DispatchersInv, Places, NodesApart, OperandsPlaced, DetachedAreHomeless, FunctionsFollow
  <1> QED  BY <1>2, <1>3, <1>4 DEF DispatchersInv

\* The entries that a removal leaves under no interface do no harm, nor do those
\* that loading makes.
LEMMA LoadEffect ==
    ASSUME DispatchersInv, NEW m \in Modules, NEW loaded,
           \A k \in DOMAIN loaded : loaded[k] \in DOMAIN nodes, Load(m, loaded)
    PROVE  /\ DOMAIN interfaces' \subseteq Interfaces
           /\ DOMAIN dispatchers' \subseteq Objects /\ DOMAIN dispatchers \subseteq DOMAIN dispatchers'
           /\ \A e \in DOMAIN dispatchers : dispatchers'[e] = dispatchers[e]
           /\ \A e \in DOMAIN dispatchers' \ DOMAIN dispatchers :
                 dispatchers'[e] \in [interface : Interfaces, node : {loaded[k] : k \in DOMAIN loaded},
                                      module : {m}]
           /\ entries' \in [Modules -> SUBSET ((Interfaces \cup {None}) \X Objects)]
           /\ shared \subseteq shared'
           /\ EntriesLead' /\ NodesApart'
  <1>1. PICK f \in Injections(DOMAIN loaded, Objects \ DOMAIN dispatchers),
             g \in [DOMAIN loaded -> Interfaces] :
          /\ interfaces' = [i \in DOMAIN interfaces \cup {g[k] : k \in DOMAIN g} |->
                              IF i \in DOMAIN interfaces THEN interfaces[i]
                              ELSE nodes[loaded[CHOOSE k \in DOMAIN g : g[k] = i]]]
          /\ dispatchers' = Override(dispatchers,
                              [d \in {f[k] : k \in DOMAIN f} |->
                                 LET k == CHOOSE j \in DOMAIN f : f[j] = d
                                 IN  [interface |-> g[k], node |-> loaded[k], module |-> m]])
          /\ entries' = [entries EXCEPT ![m] = @ \cup LoadedEntries({f[k] : k \in DOMAIN f})]
          /\ shared' = shared \cup {loaded[k] : k \in {j \in DOMAIN loaded :
                           \/ \E d \in DOMAIN dispatchers : dispatchers[d].node = loaded[j]
                           \/ \E l \in DOMAIN loaded : l # j /\ loaded[l] = loaded[j]}}
    BY Zenon DEF Load
  <1> DEFINE New == {f[k] : k \in DOMAIN f}
             At(d) == CHOOSE j \in DOMAIN f : f[j] = d
  <1>2. /\ f \in [DOMAIN loaded -> Objects \ DOMAIN dispatchers]
        /\ \A a, b \in DOMAIN loaded : f[a] = f[b] => a = b
    BY DEF Injections
  <1>3. \A d \in New : At(d) \in DOMAIN loaded /\ f[At(d)] = d
    BY <1>2
  <1>4. New \subseteq Objects \ DOMAIN dispatchers
    BY <1>2
  <1>5. DOMAIN interfaces' \subseteq Interfaces
    BY <1>1 DEF DispatchersInv, Types
  <1>6. /\ DOMAIN dispatchers' = DOMAIN dispatchers \cup New
        /\ \A d \in New : dispatchers'[d] = [interface |-> g[At(d)], node |-> loaded[At(d)], module |-> m]
        /\ \A e \in DOMAIN dispatchers : dispatchers'[e] = dispatchers[e]
    BY <1>1, <1>4 DEF Override
  <1>7. entries'[m] = entries[m] \cup {<<None, d>> : d \in New}
        /\ \A k \in Modules \ {m} : entries'[k] = entries[k]
        /\ DOMAIN entries' = Modules
    BY <1>1 DEF LoadedEntries, DispatchersInv, Types
  <1> HIDE DEF New, At
  <1>8. \A d \in New : dispatchers'[d] \in [interface : Interfaces, node : {loaded[k] : k \in DOMAIN loaded},
                                            module : {m}]
    BY <1>3, <1>6
  <1>9. entries' \in [Modules -> SUBSET ((Interfaces \cup {None}) \X Objects)]
    <2>1. {<<None, d>> : d \in New} \in SUBSET ((Interfaces \cup {None}) \X Objects)
      BY <1>4
    <2>2. entries[m] \cup {<<None, d>> : d \in New} \in SUBSET ((Interfaces \cup {None}) \X Objects)
      BY <2>1 DEF DispatchersInv, Types
    <2>3. entries' = [entries EXCEPT ![m] = entries[m] \cup {<<None, d>> : d \in New}]
      BY <1>1 DEF LoadedEntries, New
    <2> QED  BY <2>2, <2>3 DEF DispatchersInv, Types
  <1>10. None \notin Interfaces /\ None \notin Modules
    BY NoneAssumption
  <1>11. EntriesLead'
    <2>1. ASSUME NEW k \in Modules, NEW i \in Interfaces, NEW e \in Objects, <<i, e>> \in entries'[k]
          PROVE  e \in DOMAIN dispatchers' /\ dispatchers'[e].module = k /\ dispatchers'[e].interface = i
      <3>1. <<i, e>> \in entries[k]
        BY <1>7, <1>10, <2>1
      <3> QED  BY <1>6, <3>1 DEF DispatchersInv, EntriesLead
    <2>2. ASSUME NEW e \in DOMAIN dispatchers', dispatchers'[e].module # None
          PROVE  \/ <<dispatchers'[e].interface, e>> \in entries'[dispatchers'[e].module]
                 \/ <<None, e>> \in entries'[dispatchers'[e].module]
      <3>1. CASE e \in New
        BY <1>6, <1>7, <3>1
      <3>2. CASE e \in DOMAIN dispatchers
        <4>1. dispatchers'[e] = dispatchers[e] /\ dispatchers[e].module \in Modules
          BY <1>6, <2>2, <3>2 DEF DispatchersInv, Types
        <4> QED  BY <1>7, <2>2, <3>2, <4>1 DEF DispatchersInv, EntriesLead
      <3> QED  BY <1>6, <3>1, <3>2
    <2> QED  BY <2>1, <2>2 DEF EntriesLead
  <1>12. NodesApart'
    <2> SUFFICES ASSUME NEW d \in DOMAIN dispatchers', NEW e \in DOMAIN dispatchers', d # e,
                        dispatchers'[d].node = dispatchers'[e].node
                 PROVE  dispatchers'[d].node \in shared'
      BY DEF NodesApart
    <2>1. CASE d \in DOMAIN dispatchers /\ e \in DOMAIN dispatchers
      BY <1>1, <1>6, <2>1 DEF DispatchersInv, Places, NodesApart
    <2>2. CASE d \in DOMAIN dispatchers /\ e \in New
      <3>1. At(e) \in DOMAIN loaded /\ dispatchers[d].node = loaded[At(e)] /\ dispatchers'[d] = dispatchers[d]
        BY <1>3, <1>6, <2>2
      <3> QED  BY <1>1, <2>2, <3>1
    <2>3. CASE d \in New /\ e \in DOMAIN dispatchers
      <3>1. At(d) \in DOMAIN loaded /\ dispatchers[e].node = loaded[At(d)] /\ dispatchers'[d].node = loaded[At(d)]
        BY <1>3, <1>6, <2>3
      <3> QED  BY <1>1, <2>3, <3>1
    <2>4. CASE d \in New /\ e \in New
      <3>1. /\ At(d) \in DOMAIN loaded /\ At(e) \in DOMAIN loaded /\ At(d) # At(e)
            /\ loaded[At(d)] = loaded[At(e)] /\ dispatchers'[d].node = loaded[At(d)]
        BY <1>3, <1>6, <2>4
      <3> QED  BY <1>1, <3>1
    <2> QED  BY <1>6, <2>1, <2>2, <2>3, <2>4
  <1>13. shared \subseteq shared'
    BY <1>1
  <1>14. DOMAIN dispatchers' \subseteq Objects /\ DOMAIN dispatchers \subseteq DOMAIN dispatchers'
    BY <1>4, <1>6 DEF DispatchersInv, Types
  <1>15. \A e \in DOMAIN dispatchers' \ DOMAIN dispatchers : e \in New
    BY <1>6
  <1> QED  BY <1>5, <1>6, <1>8, <1>9, <1>11, <1>12, <1>13, <1>14, <1>15


\* Reading dispatchers from some of the operands of the module's llvm::Module, which
\* WrapModule gives it in the same step.
LEMMA SyncStep ==
    ASSUME DispatchersInv, NEW m \in Modules, NEW loaded, Sync(m, loaded),
           m \in open', open \subseteq open', open' \subseteq Modules,
           llmodule' \in [Modules -> LLModules \cup {None}], known' \subseteq LLModules \X Modules,
           \A k \in open : llmodule'[k] = llmodule[k], llmodule'[m] \in DOMAIN operands,
           \A k \in DOMAIN loaded : \E l \in DOMAIN operands[llmodule'[m]] :
              loaded[k] = operands[llmodule'[m]][l],
           UNCHANGED <<operands, nodes, home>>, Keys'
    PROVE  DispatchersInv'
  <1> DEFINE x0 == llmodule'[m]
             met == {operands[x0][l] : l \in DOMAIN operands[x0]} \ {None}
  <1>1. x0 \in DOMAIN operands /\ \A n \in met : n \in DOMAIN nodes
    BY DEF DispatchersInv, Types
  <1> HIDE DEF met
  <1>2. /\ DOMAIN interfaces' \subseteq Interfaces
        /\ DOMAIN dispatchers' \subseteq Objects /\ DOMAIN dispatchers \subseteq DOMAIN dispatchers'
        /\ \A e \in DOMAIN dispatchers : dispatchers'[e] = dispatchers[e]
        /\ \A e \in DOMAIN dispatchers' \ DOMAIN dispatchers :
              dispatchers'[e] \in [interface : Interfaces, node : met, module : {m}]
        /\ entries' \in [Modules -> SUBSET ((Interfaces \cup {None}) \X Objects)]
        /\ shared \subseteq shared'
        /\ EntriesLead' /\ NodesApart'
    <2>1. CASE \E k \in DOMAIN loaded : loaded[k] = None \/ home[loaded[k]] = Gone
      <3>1. UNCHANGED <<interfaces, dispatchers, entries, shared>>
        BY <2>1 DEF Sync
      <3>2. DOMAIN interfaces' \subseteq Interfaces /\ DOMAIN dispatchers' \subseteq Objects
            /\ entries' \in [Modules -> SUBSET ((Interfaces \cup {None}) \X Objects)]
        BY <3>1 DEF DispatchersInv, Types
      <3>3. EntriesLead' /\ NodesApart'
        BY <3>1 DEF DispatchersInv, Places, EntriesLead, NodesApart
      <3> QED  BY <3>1, <3>2, <3>3
    <2>2. CASE \A k \in DOMAIN loaded : loaded[k] # None /\ home[loaded[k]] # Gone
      <3>1. Load(m, loaded)
        BY <2>2 DEF Sync
      <3>2. \A k \in DOMAIN loaded : loaded[k] \in met
        BY <2>2 DEF met
      <3> HIDE DEF x0
      <3>3. \A k \in DOMAIN loaded : loaded[k] \in DOMAIN nodes
        BY <1>1, <3>2
      <3>4. /\ DOMAIN interfaces' \subseteq Interfaces
            /\ DOMAIN dispatchers' \subseteq Objects /\ DOMAIN dispatchers \subseteq DOMAIN dispatchers'
            /\ \A e \in DOMAIN dispatchers : dispatchers'[e] = dispatchers[e]
            /\ \A e \in DOMAIN dispatchers' \ DOMAIN dispatchers :
                  dispatchers'[e] \in [interface : Interfaces, node : {loaded[k] : k \in DOMAIN loaded},
                                       module : {m}]
            /\ entries' \in [Modules -> SUBSET ((Interfaces \cup {None}) \X Objects)]
            /\ shared \subseteq shared'
            /\ EntriesLead' /\ NodesApart'
        BY <3>1, <3>3, LoadEffect
      <3>5. \A e \in DOMAIN dispatchers' \ DOMAIN dispatchers :
               dispatchers'[e] \in [interface : Interfaces, node : met, module : {m}]
        BY <3>2, <3>4
      <3> QED  BY <3>4, <3>5
    <2> QED  BY <2>1, <2>2
  <1>3. None \notin Modules /\ None \notin LLModules
    BY NoneAssumption
  <1>4. Types'
    <2>1. \A e \in DOMAIN dispatchers' :
             dispatchers'[e] \in [interface : Interfaces, node : DOMAIN nodes, module : open' \cup {None}]
      <3>1. ASSUME NEW e \in DOMAIN dispatchers' \ DOMAIN dispatchers
            PROVE  dispatchers'[e] \in [interface : Interfaces, node : DOMAIN nodes, module : open' \cup {None}]
        BY <1>1, <1>2
      <3>2. ASSUME NEW e \in DOMAIN dispatchers
            PROVE  dispatchers'[e] \in [interface : Interfaces, node : DOMAIN nodes, module : open' \cup {None}]
        BY <1>2 DEF DispatchersInv, Types
      <3> QED  BY <3>1, <3>2
    <2> QED  BY <1>2, <2>1 DEF DispatchersInv, Types
  <1>5. OperandsPlaced'
    BY <1>2 DEF DispatchersInv, Places, OperandsPlaced
  <1>6. DetachedAreHomeless'
    <2> SUFFICES ASSUME NEW e \in DOMAIN dispatchers', dispatchers'[e].module = None,
                        dispatchers'[e].node \notin shared'
                 PROVE  home[dispatchers'[e].node] = None
      BY DEF DetachedAreHomeless
    <2>1. e \in DOMAIN dispatchers /\ dispatchers'[e] = dispatchers[e]
      BY <1>2, <1>3
    <2> QED  BY <1>2, <2>1 DEF DispatchersInv, Places, DetachedAreHomeless
  <1>7. FunctionsFollow'
    <2> SUFFICES ASSUME NEW e \in DOMAIN dispatchers', dispatchers'[e].module # None,
                        llmodule'[dispatchers'[e].module] # None, dispatchers'[e].node \notin shared'
                 PROVE  LET x == llmodule'[dispatchers'[e].module]
                            a == dispatchers'[e].node
                        IN  home[a] = x /\ \E k \in DOMAIN operands[x] : operands[x][k] = a
      BY DEF FunctionsFollow
    <2>1. CASE e \in DOMAIN dispatchers
      <3>1. dispatchers'[e] = dispatchers[e] /\ dispatchers[e].module \in open
        BY <1>2, <2>1 DEF DispatchersInv, Types
      <3>2. llmodule'[dispatchers[e].module] = llmodule[dispatchers[e].module]
        BY <3>1
      <3> QED  BY <1>2, <2>1, <3>1, <3>2 DEF DispatchersInv, Places, FunctionsFollow
    <2>2. CASE e \notin DOMAIN dispatchers
      <3>1. dispatchers'[e].module = m /\ dispatchers'[e].node \in met
        BY <1>2, <2>2
      <3>2. PICK l \in DOMAIN operands[x0] : dispatchers'[e].node = operands[x0][l]
        BY <3>1 DEF met
      <3>3. operands[x0][l] # None /\ operands[x0][l] \notin shared
        BY <1>2, <3>1, <3>2 DEF met
      <3>4. home[operands[x0][l]] = x0
        BY <1>1, <3>3 DEF DispatchersInv, Places, OperandsPlaced
      <3> QED  BY <3>1, <3>2, <3>4
    <2> QED  BY <2>1, <2>2
  <1> QED  BY <1>2, <1>4, <1>5, <1>6, <1>7 DEF DispatchersInv, Places

LEMMA syncMetadataStep ==
    ASSUME DispatchersInv, NEW m \in Modules, syncMetadata(m)
    PROVE  DispatchersInv'
  <1> DEFINE x == llmodule[m]
             loaded == [i \in Missed(m) |-> operands[x][i]]
  <1>1. /\ m \in open /\ x # None /\ Sync(m, loaded)
        /\ UNCHANGED <<open, llmodule, known, operands, nodes, home, released>>
    BY DEF syncMetadata
  <1>2. x \in DOMAIN operands
    BY <1>1 DEF DispatchersInv, Keys, Wrapped
  <1>3. Missed(m) \subseteq DOMAIN operands[x]
    BY DEF Missed
  <1>4. \A k \in DOMAIN loaded : \E l \in DOMAIN operands[x] : loaded[k] = operands[x][l]
    BY <1>3
  <1>5. Keys'
    BY <1>1, KeysStay DEF DispatchersInv
  <1>6. /\ open \subseteq Modules /\ llmodule \in [Modules -> LLModules \cup {None}]
        /\ known \subseteq LLModules \X Modules
    BY DEF DispatchersInv, Types
  <1> HIDE DEF loaded
  <1> QED  BY <1>1, <1>2, <1>4, <1>5, <1>6, SyncStep


LEMMA WrapModuleStep ==
    ASSUME DispatchersInv, NEW m \in Modules, NEW x \in LLModules, WrapModule(m, x)
    PROVE  DispatchersInv'
  <1>1. /\ m \notin open /\ x \in DOMAIN operands /\ x \in released
        /\ \A k \in open : llmodule[k] # x
        /\ open' = open \cup {m} /\ llmodule' = [llmodule EXCEPT ![m] = x] /\ known' = Known(x, m)
        /\ Sync(m, operands[x])
        /\ UNCHANGED <<operands, nodes, home, released>>
    BY DEF WrapModule, Loose, DispatchersInv, Keys, LooseAreReleased
  <1>2. /\ open' \subseteq Modules /\ llmodule' \in [Modules -> LLModules \cup {None}]
        /\ known' \subseteq LLModules \X Modules
        /\ llmodule'[m] = x /\ \A k \in Modules \ {m} : llmodule'[k] = llmodule[k]
        /\ \A p \in known' : p \in known \/ p[1] = x
        /\ known \subseteq known'
    BY <1>1 DEF DispatchersInv, Types, Known
  <1>3. open \subseteq Modules
    BY DEF DispatchersInv, Types
  <1>4. Keys'
    <2>1. Wrapped'
      BY <1>1, <1>2, <1>3 DEF DispatchersInv, Keys, Wrapped
    <2>2. LooseAreReleased'
      BY <1>1, <1>2, <1>3 DEF DispatchersInv, Keys, LooseAreReleased, Loose
    <2>3. NeverReleasedAreKnown'
      <3> SUFFICES ASSUME NEW y \in LLModules \ released, NEW k \in Modules
                   PROVE  <<y, k>> \in known' <=> k \in open' /\ llmodule'[k] = y
        BY <1>1 DEF NeverReleasedAreKnown
      <3>1. y # x
        BY <1>1
      <3>2. <<y, k>> \in known' <=> <<y, k>> \in known
        BY <1>2, <3>1
      <3>3. <<y, k>> \in known <=> k \in open /\ llmodule[k] = y
        BY DEF DispatchersInv, Keys, NeverReleasedAreKnown
      <3> QED  BY <1>1, <1>2, <3>1, <3>2, <3>3
    <2> QED  BY <2>1, <2>2, <2>3 DEF Keys
  <1>5. /\ m \in open' /\ open \subseteq open' /\ \A k \in open : llmodule'[k] = llmodule[k]
        /\ llmodule'[m] \in DOMAIN operands
        /\ \A k \in DOMAIN operands[x] : \E l \in DOMAIN operands[llmodule'[m]] :
              operands[x][k] = operands[llmodule'[m]][l]
    BY <1>1, <1>2, <1>3
  <1> QED  BY <1>1, <1>2, <1>4, <1>5, SyncStep

\* An operand list that is added to the others, with nodes of its own.
LEMMA NewModuleStep ==
    ASSUME DispatchersInv, NEW m \in Modules, NEW x \in LLModules, NewModule(m, x)
    PROVE  DispatchersInv'
  <1>1. /\ m \notin open /\ x \notin DOMAIN operands
        /\ open' = open \cup {m} /\ llmodule' = [llmodule EXCEPT ![m] = x] /\ known' = Known(x, m)
        /\ entries' = [entries EXCEPT ![m] = {}]
        /\ UNCHANGED <<interfaces, dispatchers, nodes, home, released, shared>>
    BY DEF NewModule
  <1>2. /\ DOMAIN operands' = DOMAIN operands \cup {x} /\ operands'[x] = <<>>
        /\ \A y \in DOMAIN operands : operands'[y] = operands[y]
    BY <1>1 DEF NewModule, Override
  <1>3. /\ open' \subseteq Modules /\ llmodule' \in [Modules -> LLModules \cup {None}]
        /\ known' \subseteq LLModules \X Modules
        /\ llmodule'[m] = x /\ \A k \in Modules \ {m} : llmodule'[k] = llmodule[k]
        /\ \A p \in known' : p \in known \/ p = <<x, m>>
        /\ known \subseteq known'
    BY <1>1 DEF DispatchersInv, Types, Known
  <1>4. open \subseteq Modules /\ None \notin Modules /\ None \notin LLModules
    BY NoneAssumption DEF DispatchersInv, Types
  <1>5. \A d \in DOMAIN dispatchers : dispatchers[d].module \in open \cup {None} /\ dispatchers[d].module # m
    BY <1>1, <1>4 DEF DispatchersInv, Types
  <1>6. Types'
    <2>1. entries' \in [Modules -> SUBSET ((Interfaces \cup {None}) \X Objects)]
      BY <1>1 DEF DispatchersInv, Types
    <2>2. \A y \in DOMAIN operands' : /\ operands'[y] \in Seq(Addresses \cup {None})
                                      /\ \A k \in DOMAIN operands'[y] : operands'[y][k] \in DOMAIN nodes \cup {None}
      <3>1. <<>> \in Seq(Addresses \cup {None}) /\ DOMAIN <<>> = {}
        OBVIOUS
      <3> QED  BY <1>2, <3>1 DEF DispatchersInv, Types
    <2>3. \A d \in DOMAIN dispatchers :
             dispatchers[d] \in [interface : Interfaces, node : DOMAIN nodes, module : open' \cup {None}]
      BY <1>1 DEF DispatchersInv, Types
    <2> QED  BY <1>1, <1>2, <1>3, <2>1, <2>2, <2>3 DEF DispatchersInv, Types
  <1>7. Keys'
    <2>1. Wrapped'
      BY <1>1, <1>2, <1>3, <1>4 DEF DispatchersInv, Keys, Wrapped
    <2>2. LooseAreReleased'
      BY <1>1, <1>2, <1>3, <1>4 DEF DispatchersInv, Keys, LooseAreReleased, Loose
    <2>3. NeverReleasedAreKnown'
      <3> SUFFICES ASSUME NEW y \in LLModules \ released, NEW k \in Modules
                   PROVE  <<y, k>> \in known' <=> k \in open' /\ llmodule'[k] = y
        BY <1>1 DEF NeverReleasedAreKnown
      <3>1. <<y, k>> \in known <=> k \in open /\ llmodule[k] = y
        BY DEF DispatchersInv, Keys, NeverReleasedAreKnown
      <3>2. CASE y # x
        BY <1>1, <1>3, <3>1, <3>2
      <3>3. CASE y = x
        <4>1. \A j \in open : llmodule[j] # x
          BY <1>1, <1>4 DEF DispatchersInv, Types, Keys, Wrapped
        <4>2. \A p \in known : p[1] # x
          <5>1. \A j \in Modules : <<x, j>> \notin known
            BY <3>3, <4>1 DEF DispatchersInv, Keys, NeverReleasedAreKnown
          <5> QED  BY <5>1 DEF DispatchersInv, Types
        <4>3. known' = known \cup {<<x, m>>}
          BY <1>1, <4>2, Zenon DEF Known
        <4> QED  BY <1>1, <1>3, <3>1, <3>3, <4>1, <4>3
      <3> QED  BY <3>2, <3>3
    <2> QED  BY <2>1, <2>2, <2>3 DEF Keys
  <1>8. EntriesLead'
    <2>1. entries'[m] = {} /\ \A k \in Modules \ {m} : entries'[k] = entries[k]
      BY <1>1 DEF DispatchersInv, Types
    <2> QED  BY <1>1, <1>4, <1>5, <2>1 DEF DispatchersInv, EntriesLead
  <1>9. NodesApart' /\ DetachedAreHomeless'
    BY <1>1 DEF DispatchersInv, Places, NodesApart, DetachedAreHomeless
  <1>10. OperandsPlaced'
    BY <1>1, <1>2 DEF DispatchersInv, Places, OperandsPlaced
  <1>11. FunctionsFollow'
    <2> SUFFICES ASSUME NEW e \in DOMAIN dispatchers, dispatchers[e].module # None,
                        llmodule'[dispatchers[e].module] # None, dispatchers[e].node \notin shared
                 PROVE  LET z == llmodule'[dispatchers[e].module]
                            a == dispatchers[e].node
                        IN  home[a] = z /\ \E k \in DOMAIN operands'[z] : operands'[z][k] = a
      BY <1>1 DEF FunctionsFollow
    <2>1. llmodule'[dispatchers[e].module] = llmodule[dispatchers[e].module] /\ dispatchers[e].module \in open
      BY <1>3, <1>4, <1>5
    <2>2. llmodule[dispatchers[e].module] \in DOMAIN operands
      BY <2>1 DEF DispatchersInv, Keys, Wrapped
    <2> QED  BY <1>2, <2>1, <2>2 DEF DispatchersInv, Places, FunctionsFollow
  <1> QED  BY <1>6, <1>7, <1>8, <1>9, <1>10, <1>11 DEF DispatchersInv, Places


LEMMA ReadLLModuleStep ==
    ASSUME DispatchersInv, NEW x \in LLModules, NEW c \in Contents, NEW ops \in FreshOperands,
           ReadLLModule(x, ops, c)
    PROVE  DispatchersInv'
  <1> DEFINE fresh == {ops[k] : k \in DOMAIN ops}
  <1>1. /\ x \notin DOMAIN operands /\ \A k \in DOMAIN ops : ops[k] \notin DOMAIN nodes
        /\ released' = released \cup {x}
        /\ UNCHANGED <<open, llmodule, known, interfaces, dispatchers, entries, shared>>
    BY DEF ReadLLModule
  <1>0. PICK n \in 0 .. MaxOperands : ops \in Injections(1 .. n, Addresses)
    BY DEF FreshOperands
  <1>2. /\ ops \in [1 .. n -> Addresses] /\ n \in Nat
        /\ \A a, b \in 1 .. n : ops[a] = ops[b] => a = b
    BY <1>0, AddressAssumption DEF Injections
  <1>3. ops \in Seq(Addresses \cup {None}) /\ DOMAIN ops = 1 .. n
    BY <1>2
  <1>4. /\ DOMAIN nodes' = DOMAIN nodes \cup fresh
        /\ DOMAIN home' = DOMAIN home \cup fresh
        /\ \A a \in fresh : home'[a] = x
        /\ \A a \in DOMAIN home : home'[a] = home[a]
    BY <1>1 DEF ReadLLModule, Override, DispatchersInv, Types
  <1>5. /\ DOMAIN operands' = DOMAIN operands \cup {x} /\ operands'[x] = ops
        /\ \A y \in DOMAIN operands : operands'[y] = operands[y]
    BY <1>1 DEF ReadLLModule, Override
  <1>6. None \notin LLModules /\ None \notin Modules /\ fresh \subseteq Addresses
    BY <1>2, NoneAssumption
  <1>7. Types'
    <2>1. \A y \in DOMAIN operands' : /\ operands'[y] \in Seq(Addresses \cup {None})
                                      /\ \A k \in DOMAIN operands'[y] : operands'[y][k] \in DOMAIN nodes' \cup {None}
      <3>1. ASSUME NEW y \in DOMAIN operands
            PROVE  /\ operands'[y] \in Seq(Addresses \cup {None})
                   /\ \A k \in DOMAIN operands'[y] : operands'[y][k] \in DOMAIN nodes' \cup {None}
        BY <1>4, <1>5 DEF DispatchersInv, Types
      <3>2. /\ operands'[x] \in Seq(Addresses \cup {None})
            /\ \A k \in DOMAIN operands'[x] : operands'[x][k] \in DOMAIN nodes' \cup {None}
        BY <1>3, <1>4, <1>5
      <3> QED  BY <1>5, <3>1, <3>2
    <2>2. \A d \in DOMAIN dispatchers :
             dispatchers[d] \in [interface : Interfaces, node : DOMAIN nodes', module : open \cup {None}]
      BY <1>4 DEF DispatchersInv, Types
    <2>3. DOMAIN nodes' \subseteq Addresses /\ DOMAIN home' = DOMAIN nodes'
      BY <1>4, <1>6 DEF DispatchersInv, Types
    <2> QED  BY <1>1, <1>5, <2>1, <2>2, <2>3 DEF DispatchersInv, Types
  <1>8. Keys'
    <2>1. Wrapped'
      BY <1>1, <1>5 DEF DispatchersInv, Keys, Wrapped
    <2>2. LooseAreReleased'
      BY <1>1, <1>5 DEF DispatchersInv, Keys, LooseAreReleased, Loose
    <2>3. NeverReleasedAreKnown'
      BY <1>1 DEF DispatchersInv, Keys, NeverReleasedAreKnown
    <2> QED  BY <2>1, <2>2, <2>3 DEF Keys
  <1>9. EntriesLead' /\ NodesApart'
    BY <1>1 DEF DispatchersInv, Places, EntriesLead, NodesApart
  <1>10. DetachedAreHomeless'
    BY <1>1, <1>4 DEF DispatchersInv, Types, Places, DetachedAreHomeless
  <1>11. OperandsPlaced'
    <2> SUFFICES ASSUME NEW y \in DOMAIN operands', NEW k \in DOMAIN operands'[y],
                        operands'[y][k] # None, operands'[y][k] \notin shared
                 PROVE  /\ home'[operands'[y][k]] = y
                        /\ \A l \in DOMAIN operands'[y] : operands'[y][l] = operands'[y][k] => l = k
      BY <1>1 DEF OperandsPlaced
    <2>1. CASE y \in DOMAIN operands
      <3>1. operands'[y] = operands[y] /\ operands[y][k] \in DOMAIN home
        BY <1>5, <2>1 DEF DispatchersInv, Types
      <3> QED  BY <1>4, <2>1, <3>1 DEF DispatchersInv, Places, OperandsPlaced
    <2>2. CASE y = x
      BY <1>2, <1>3, <1>4, <1>5, <2>2
    <2> QED  BY <1>5, <2>1, <2>2
  <1>12. FunctionsFollow'
    <2> SUFFICES ASSUME NEW e \in DOMAIN dispatchers, dispatchers[e].module # None,
                        llmodule[dispatchers[e].module] # None, dispatchers[e].node \notin shared
                 PROVE  LET z == llmodule[dispatchers[e].module]
                            a == dispatchers[e].node
                        IN  home'[a] = z /\ \E k \in DOMAIN operands'[z] : operands'[z][k] = a
      BY <1>1 DEF FunctionsFollow
    <2>1. llmodule[dispatchers[e].module] \in DOMAIN operands /\ dispatchers[e].node \in DOMAIN home
      BY DEF DispatchersInv, Types, Keys, Wrapped
    <2> QED  BY <1>4, <1>5, <2>1 DEF DispatchersInv, Places, FunctionsFollow
  <1> QED  BY <1>7, <1>8, <1>9, <1>10, <1>11, <1>12 DEF DispatchersInv, Places

LEMMA releaseLLModuleStep ==
    ASSUME DispatchersInv, NEW m \in Modules, releaseLLModule(m)
    PROVE  DispatchersInv'
  <1>1. /\ m \in open /\ llmodule[m] # None
        /\ llmodule' = [llmodule EXCEPT ![m] = None] /\ released' = released \cup {llmodule[m]}
        /\ UNCHANGED <<open, known, operands, interfaces, dispatchers, entries, nodes, home, shared>>
    BY DEF releaseLLModule
  <1>2. /\ llmodule'[m] = None /\ \A k \in Modules \ {m} : llmodule'[k] = llmodule[k]
        /\ open \subseteq Modules /\ None \notin LLModules
    BY <1>1, NoneAssumption DEF DispatchersInv, Types
  <1>3. Types'
    BY <1>1 DEF DispatchersInv, Types
  <1>4. Wrapped'
    BY <1>1, <1>2 DEF DispatchersInv, Keys, Wrapped
  <1>5. LooseAreReleased'
    <2> SUFFICES ASSUME NEW y \in DOMAIN operands, \A k \in open : llmodule'[k] # y, y # llmodule[m]
                 PROVE  y \in released
      BY <1>1 DEF LooseAreReleased, Loose
    <2>1. \A k \in open : llmodule[k] # y
      BY <1>2
    <2> QED  BY <2>1 DEF DispatchersInv, Keys, LooseAreReleased, Loose
  <1>6. NeverReleasedAreKnown'
    <2> SUFFICES ASSUME NEW y \in LLModules \ released', NEW k \in Modules
                 PROVE  <<y, k>> \in known <=> k \in open /\ llmodule'[k] = y
      BY <1>1 DEF NeverReleasedAreKnown
    <2>1. y \notin released /\ y # llmodule[m] /\ y # None
      BY <1>1, <1>2
    <2>2. llmodule'[k] = y <=> llmodule[k] = y
      BY <1>2, <2>1
    <2> QED  BY <2>1, <2>2 DEF DispatchersInv, Keys, NeverReleasedAreKnown
  <1>7. EntriesLead' /\ NodesApart' /\ OperandsPlaced' /\ DetachedAreHomeless'
    BY <1>1 DEF DispatchersInv, Places, EntriesLead, NodesApart, OperandsPlaced, DetachedAreHomeless
  <1>8. \A d \in DOMAIN dispatchers :
           dispatchers[d].module # None /\ llmodule'[dispatchers[d].module] # None =>
              llmodule'[dispatchers[d].module] = llmodule[dispatchers[d].module]
    BY <1>2 DEF DispatchersInv, Types
  <1>9. FunctionsFollow'
    BY <1>1, <1>8 DEF DispatchersInv, Places, FunctionsFollow
  <1> QED  BY <1>3, <1>4, <1>5, <1>6, <1>7, <1>9 DEF DispatchersInv, Keys, Places

\* An llvm::Module x goes, and the functions of the nodes in gone with it.
LEMMA OperandsGo ==
    ASSUME DispatchersInv, NEW x, NEW gone,
           operands' = Without(operands, {x}), nodes' = nodes, shared' = shared,
           DOMAIN home' = DOMAIN home, \A n \in gone : home[n] = x,
           \A n \in DOMAIN home \ gone : home[n] # x => home'[n] = home[n]
    PROVE  /\ OperandsPlaced'
           /\ DOMAIN operands' = DOMAIN operands \ {x}
           /\ \A y \in DOMAIN operands' : operands'[y] = operands[y]
  <1>1. /\ DOMAIN operands' = DOMAIN operands \ {x}
        /\ \A y \in DOMAIN operands' : operands'[y] = operands[y]
    BY DEF Without
  <1>2. OperandsPlaced'
    <2> SUFFICES ASSUME NEW y \in DOMAIN operands', NEW k \in DOMAIN operands[y],
                        operands[y][k] # None, operands[y][k] \notin shared
                 PROVE  /\ home'[operands[y][k]] = y
                        /\ \A l \in DOMAIN operands[y] : operands[y][l] = operands[y][k] => l = k
      BY <1>1 DEF OperandsPlaced
    <2>1. /\ home[operands[y][k]] = y /\ operands[y][k] \in DOMAIN home /\ y # x
          /\ \A l \in DOMAIN operands[y] : operands[y][l] = operands[y][k] => l = k
      BY <1>1 DEF DispatchersInv, Types, Places, OperandsPlaced
    <2> QED  BY <2>1
  <1> QED  BY <1>1, <1>2

LEMMA DropLLModuleStep ==
    ASSUME DispatchersInv, NEW x \in LLModules, DropLLModule(x)
    PROVE  DispatchersInv'
  <1>1. /\ x \in DOMAIN operands /\ \A m \in open : llmodule[m] # x
        /\ operands' = Without(operands, {x}) /\ home' = HomeAfter({x}, home)
        /\ UNCHANGED <<open, llmodule, known, interfaces, dispatchers, entries, nodes, released, shared>>
    BY DEF DropLLModule, Loose
  <1>2. DOMAIN home' = DOMAIN home /\ \A n \in DOMAIN home : home[n] # x => home'[n] = home[n]
    BY <1>1 DEF HomeAfter
  <1>3. None \notin LLModules /\ None \notin Modules
    BY NoneAssumption
  <1>4. /\ OperandsPlaced'
        /\ DOMAIN operands' = DOMAIN operands \ {x}
        /\ \A y \in DOMAIN operands' : operands'[y] = operands[y]
    <2> DEFINE gone == {}
    <2>1. (\A n \in gone : home[n] = x) /\ \A n \in DOMAIN home \ gone : home[n] # x => home'[n] = home[n]
      BY <1>2
    <2> HIDE DEF gone
    <2> QED  BY <1>1, <1>2, <2>1, OperandsGo
  <1>5. Types'
    BY <1>1, <1>2, <1>4 DEF DispatchersInv, Types
  <1>6. Keys'
    <2>1. Wrapped'
      BY <1>1, <1>4 DEF DispatchersInv, Keys, Wrapped
    <2>2. LooseAreReleased'
      BY <1>1, <1>4 DEF DispatchersInv, Keys, LooseAreReleased, Loose
    <2>3. NeverReleasedAreKnown'
      BY <1>1 DEF DispatchersInv, Keys, NeverReleasedAreKnown
    <2> QED  BY <2>1, <2>2, <2>3 DEF Keys
  <1>7. EntriesLead' /\ NodesApart'
    BY <1>1 DEF DispatchersInv, Places, EntriesLead, NodesApart
  <1>8. DetachedAreHomeless'
    <2> SUFFICES ASSUME NEW e \in DOMAIN dispatchers, dispatchers[e].module = None,
                        dispatchers[e].node \notin shared
                 PROVE  home'[dispatchers[e].node] = None
      BY <1>1 DEF DetachedAreHomeless
    <2>1. home[dispatchers[e].node] = None /\ dispatchers[e].node \in DOMAIN home
      BY DEF DispatchersInv, Types, Places, DetachedAreHomeless
    <2> QED  BY <1>2, <1>3, <2>1
  <1>9. FunctionsFollow'
    <2> SUFFICES ASSUME NEW e \in DOMAIN dispatchers, dispatchers[e].module # None,
                        llmodule[dispatchers[e].module] # None, dispatchers[e].node \notin shared
                 PROVE  LET z == llmodule[dispatchers[e].module]
                            a == dispatchers[e].node
                        IN  home'[a] = z /\ \E k \in DOMAIN operands'[z] : operands'[z][k] = a
      BY <1>1 DEF FunctionsFollow
    <2>1. /\ dispatchers[e].module \in open /\ dispatchers[e].node \in DOMAIN home
          /\ llmodule[dispatchers[e].module] \in DOMAIN operands'
      BY <1>1, <1>4 DEF DispatchersInv, Types, Keys, Wrapped
    <2>2. llmodule[dispatchers[e].module] # x
      BY <1>1, <2>1
    <2> QED  BY <1>2, <1>4, <2>1, <2>2 DEF DispatchersInv, Places, FunctionsFollow
  <1> QED  BY <1>4, <1>5, <1>6, <1>7, <1>8, <1>9 DEF DispatchersInv, Places


LEMMA DestroyModuleStep ==
    ASSUME DispatchersInv, NEW m \in Modules, DestroyModule(m), ~Stop
    PROVE  DispatchersInv'
  <1> DEFINE x == llmodule[m]
             cleared == {dispatchers[d].node : d \in Listed(m)}
             where == [n \in DOMAIN home |-> IF n \in cleared THEN Gone ELSE home[n]]
  <1>1. /\ m \in open /\ CanClear(m)
        /\ open' = open \ {m} /\ llmodule' = [llmodule EXCEPT ![m] = None]
        /\ known' = {p \in known : p[1] # x}
        /\ operands' = Without(operands, {x})
        /\ dispatchers' = Without(dispatchers, Listed(m))
        /\ entries' = [entries EXCEPT ![m] = {}]
        /\ home' = HomeAfter({x} \ {None}, where)
        /\ UNCHANGED <<interfaces, nodes, released, shared>>
    BY DEF DestroyModule, KnownWithout
  <1>2. \A n \in cleared : home[n] = x /\ x # None
    BY <1>1 DEF CanClear, CanMove
  <1>3. /\ DOMAIN home' = DOMAIN home
        /\ \A n \in DOMAIN home \ cleared : home[n] # x \/ x = None => home'[n] = home[n]
    BY <1>1 DEF HomeAfter
  <1>4. /\ None \notin LLModules /\ None \notin Modules
        /\ llmodule'[m] = None /\ \A k \in Modules \ {m} : llmodule'[k] = llmodule[k]
        /\ open \subseteq Modules
    BY <1>1, NoneAssumption DEF DispatchersInv, Types
  <1>5. /\ DOMAIN dispatchers' = DOMAIN dispatchers \ Listed(m)
        /\ \A e \in DOMAIN dispatchers' : dispatchers'[e] = dispatchers[e] /\ dispatchers[e].module # m
    BY <1>1 DEF Without, Listed
  <1>6. \A e \in DOMAIN dispatchers' : dispatchers[e].node \notin shared => dispatchers[e].node \notin cleared
    BY <1>5 DEF Listed, DispatchersInv, Places, NodesApart
  <1> HIDE DEF cleared, where
  <1>7. /\ OperandsPlaced'
        /\ DOMAIN operands' = DOMAIN operands \ {x}
        /\ \A y \in DOMAIN operands' : operands'[y] = operands[y]
    <2>1. /\ \A n \in cleared : home[n] = x
          /\ \A n \in DOMAIN home \ cleared : home[n] # x => home'[n] = home[n]
      BY <1>2, <1>3
    <2> QED  BY <1>1, <1>3, <2>1, OperandsGo
  <1>8. Types'
    <2>1. entries' \in [Modules -> SUBSET ((Interfaces \cup {None}) \X Objects)]
      BY <1>1 DEF DispatchersInv, Types
    <2>2. \A e \in DOMAIN dispatchers' :
             dispatchers'[e] \in [interface : Interfaces, node : DOMAIN nodes, module : open' \cup {None}]
      BY <1>1, <1>5 DEF DispatchersInv, Types
    <2>3. open' \subseteq Modules /\ llmodule' \in [Modules -> LLModules \cup {None}]
          /\ known' \subseteq LLModules \X Modules
      BY <1>1 DEF DispatchersInv, Types
    <2> QED  BY <1>1, <1>3, <1>5, <1>7, <2>1, <2>2, <2>3 DEF DispatchersInv, Types
  <1>9. \A k \in open : k # m => llmodule[k] # x \/ x = None
    BY <1>1 DEF DispatchersInv, Keys, Wrapped
  <1>10. Keys'
    <2>1. Wrapped'
      BY <1>1, <1>4, <1>7, <1>9 DEF DispatchersInv, Keys, Wrapped
    <2>2. LooseAreReleased'
      <3> SUFFICES ASSUME NEW y \in DOMAIN operands', \A k \in open' : llmodule'[k] # y
                   PROVE  y \in released
        BY <1>1 DEF LooseAreReleased, Loose
      <3>1. \A k \in open : llmodule[k] # y
        BY <1>1, <1>4, <1>7
      <3> QED  BY <1>7, <3>1 DEF DispatchersInv, Keys, LooseAreReleased, Loose
    <2>3. NeverReleasedAreKnown'
      <3> SUFFICES ASSUME NEW y \in LLModules \ released, NEW k \in Modules
                   PROVE  <<y, k>> \in known' <=> k \in open' /\ llmodule'[k] = y
        BY <1>1 DEF NeverReleasedAreKnown
      <3>1. <<y, k>> \in known <=> k \in open /\ llmodule[k] = y
        BY DEF DispatchersInv, Keys, NeverReleasedAreKnown
      <3>2. <<y, k>> \in known' <=> <<y, k>> \in known /\ y # x
        BY <1>1
      <3>3. CASE k = m
        BY <1>1, <3>1, <3>2, <3>3
      <3>4. CASE k # m
        BY <1>1, <1>4, <1>9, <3>1, <3>2, <3>4
      <3> QED  BY <3>3, <3>4
    <2> QED  BY <2>1, <2>2, <2>3 DEF Keys
  <1>11. EntriesLead'
    <2>1. entries'[m] = {} /\ \A k \in Modules \ {m} : entries'[k] = entries[k]
      BY <1>1, <1>4 DEF DispatchersInv, Types
    <2>2. ASSUME NEW k \in Modules, NEW i \in Interfaces, NEW e \in Objects, <<i, e>> \in entries'[k]
          PROVE  e \in DOMAIN dispatchers' /\ dispatchers'[e].module = k /\ dispatchers'[e].interface = i
      <3>1. k # m /\ <<i, e>> \in entries[k]
        BY <2>1, <2>2
      <3>2. e \in DOMAIN dispatchers /\ dispatchers[e].module = k /\ dispatchers[e].interface = i
        BY <3>1 DEF DispatchersInv, EntriesLead
      <3> QED  BY <1>5, <3>1, <3>2 DEF Listed
    <2>3. ASSUME NEW e \in DOMAIN dispatchers', dispatchers'[e].module # None
          PROVE  \/ <<dispatchers'[e].interface, e>> \in entries'[dispatchers'[e].module]
                 \/ <<None, e>> \in entries'[dispatchers'[e].module]
      <3>1. /\ e \in DOMAIN dispatchers /\ dispatchers'[e] = dispatchers[e]
            /\ dispatchers[e].module \in Modules \ {m}
        BY <1>4, <1>5, <2>3 DEF DispatchersInv, Types
      <3> QED  BY <2>1, <2>3, <3>1 DEF DispatchersInv, EntriesLead
    <2> QED  BY <2>2, <2>3 DEF EntriesLead
  <1>12. NodesApart'
    BY <1>1, <1>5 DEF DispatchersInv, Places, NodesApart
  <1>13. DetachedAreHomeless'
    <2> SUFFICES ASSUME NEW e \in DOMAIN dispatchers', dispatchers[e].module = None,
                        dispatchers[e].node \notin shared
                 PROVE  home'[dispatchers[e].node] = None
      BY <1>1, <1>5 DEF DetachedAreHomeless
    <2>1. home[dispatchers[e].node] = None /\ dispatchers[e].node \in DOMAIN home
      BY <1>5 DEF DispatchersInv, Types, Places, DetachedAreHomeless
    <2> QED  BY <1>3, <1>6, <2>1
  <1>14. FunctionsFollow'
    <2> SUFFICES ASSUME NEW e \in DOMAIN dispatchers', dispatchers'[e].module # None,
                        llmodule'[dispatchers'[e].module] # None, dispatchers'[e].node \notin shared
                 PROVE  LET y == llmodule'[dispatchers'[e].module]
                            n == dispatchers'[e].node
                        IN  home'[n] = y /\ \E k \in DOMAIN operands'[y] : operands'[y][k] = n
      BY <1>1 DEF FunctionsFollow
    <2> DEFINE z == llmodule[dispatchers[e].module]
               a == dispatchers[e].node
    <2>1. /\ dispatchers[e].module \in open /\ dispatchers[e].module # m /\ a \in DOMAIN home
          /\ llmodule'[dispatchers[e].module] = z /\ z # None
      BY <1>4, <1>5 DEF DispatchersInv, Types
    <2>2. home[a] = z /\ \E k \in DOMAIN operands[z] : operands[z][k] = a
      BY <1>5, <2>1 DEF DispatchersInv, Places, FunctionsFollow
    <2>3. z # x /\ z \in DOMAIN operands
      BY <1>9, <2>1 DEF DispatchersInv, Keys, Wrapped
    <2> QED  BY <1>3, <1>5, <1>6, <1>7, <2>1, <2>2, <2>3
  <1> QED  BY <1>7, <1>8, <1>10, <1>11, <1>12, <1>13, <1>14 DEF DispatchersInv, Places


----------------------------------------------------------------------------
LEMMA InitialState == Init => DispatchersInv
  <1> SUFFICES ASSUME Init PROVE DispatchersInv
    OBVIOUS
  <1>1. Types
    BY DEF Init, Types
  <1>2. Keys
    BY DEF Init, Keys, Wrapped, LooseAreReleased, Loose, NeverReleasedAreKnown
  <1>3. EntriesLead /\ Places
    BY DEF Init, EntriesLead, Places, NodesApart, OperandsPlaced, DetachedAreHomeless, FunctionsFollow
  <1> QED  BY <1>1, <1>2, <1>3 DEF DispatchersInv

\* Nothing changes: the invariant stays.
LEMMA SameStep ==
    ASSUME DispatchersInv,
           UNCHANGED <<open, llmodule, known, operands, interfaces, dispatchers, entries, nodes,
                       home, released, shared>>
    PROVE  DispatchersInv'
  <1>1. Types' /\ Keys' /\ EntriesLead'
    BY DEF DispatchersInv, Types, Keys, Wrapped, LooseAreReleased, Loose, NeverReleasedAreKnown,
           EntriesLead
  <1>2. Places'
    BY DEF DispatchersInv, Places, NodesApart, OperandsPlaced, DetachedAreHomeless, FunctionsFollow
  <1> QED  BY <1>1, <1>2 DEF DispatchersInv

LEMMA NextStep ==
    ASSUME DispatchersInv, Next PROVE DispatchersInv'
  <1>1. CASE Stop
    BY <1>1, SameStep DEF Stop
  <1>2. CASE ~Stop
    <2>1. ASSUME NEW c \in Contents, NEW i \in Interfaces, GetInterface(c, i) PROVE DispatchersInv'
      BY <2>1, GetInterfaceStep
    <2>2. ASSUME NEW i \in Interfaces, NEW d \in Objects, NEW n \in Addresses, CreateDetached(i, d, n)
          PROVE  DispatchersInv'
      BY <2>2, CreateDetachedStep
    <2>3. ASSUME NEW i \in Interfaces, NEW m \in Modules, NEW d \in Objects, NEW n \in Addresses,
                 CreateListed(i, m, d, n)
          PROVE  DispatchersInv'
      BY <1>2, <2>3, CreateListedStep
    <2>4. ASSUME NEW i \in Interfaces, NEW m \in Modules, NEW d \in Objects, NEW n \in Addresses,
                 getOrInsertDispatchers(i, m, d, n)
          PROVE  DispatchersInv'
      <3>1. CreateListed(i, m, d, n)
        BY <2>4 DEF getOrInsertDispatchers
      <3> QED  BY <1>2, <3>1, CreateListedStep
    <2>5. ASSUME NEW d \in Objects, NEW m \in Modules, Insert(d, m) PROVE DispatchersInv'
      BY <1>2, <2>5, InsertStep
    <2>6. ASSUME NEW d \in Objects, Remove(d) PROVE DispatchersInv'
      BY <1>2, <2>6, RemoveStep
    <2>7. ASSUME NEW d \in Objects, Delete(d) PROVE DispatchersInv'
      BY <1>2, <2>7, DeleteStep
    <2>8. ASSUME NEW m \in Modules, syncMetadata(m) PROVE DispatchersInv'
      BY <2>8, syncMetadataStep
    <2>9. ASSUME NEW m \in Modules, NEW x \in LLModules, NewModule(m, x) PROVE DispatchersInv'
      BY <2>9, NewModuleStep
    <2>10. ASSUME NEW x \in LLModules, NEW c \in Contents, NEW ops \in FreshOperands,
                  ReadLLModule(x, ops, c)
           PROVE  DispatchersInv'
      BY <2>10, ReadLLModuleStep
    <2>11. ASSUME NEW m \in Modules, NEW x \in LLModules, WrapModule(m, x) PROVE DispatchersInv'
      BY <2>11, WrapModuleStep
    <2>12. ASSUME NEW m \in Modules, releaseLLModule(m) PROVE DispatchersInv'
      BY <2>12, releaseLLModuleStep
    <2>13. ASSUME NEW x \in LLModules, DropLLModule(x) PROVE DispatchersInv'
      BY <2>13, DropLLModuleStep
    <2>14. ASSUME NEW m \in Modules, DestroyModule(m) PROVE DispatchersInv'
      BY <1>2, <2>14, DestroyModuleStep
    <2> QED  BY <2>1, <2>2, <2>3, <2>4, <2>5, <2>6, <2>7, <2>8, <2>9, <2>10, <2>11, <2>12, <2>13, <2>14
             DEF Next
  <1> QED  BY <1>1, <1>2

\* Modules, keys, lists, tables and functions fit each other in every state.
THEOREM DispatchersInvariant == Spec => []DispatchersInv
  <1>1. DispatchersInv /\ UNCHANGED vars => DispatchersInv'
    BY SameStep DEF vars
  <1>2. DispatchersInv /\ [Next]_vars => DispatchersInv'
    BY <1>1, NextStep
  <1> QED  BY InitialState, <1>2, PTL DEF Spec

\* Module::getDispatchers yields dispatchers of the interface in the module's list.
THEOREM LookupsExact == Spec => []LookupsAreExact
  <1>1. DispatchersInv => LookupsAreExact
    <2> SUFFICES ASSUME DispatchersInv, NEW m \in open
                 PROVE  /\ \A i \in Interfaces : getDispatchers(i, m)
                              \subseteq {d \in Listed(m) : dispatchers[d].interface = i}
                        /\ \A d \in Listed(m) : \/ <<dispatchers[d].interface, d>> \in entries[m]
                                                \/ <<None, d>> \in entries[m]
      BY DEF LookupsAreExact
    <2>1. m \in Modules /\ m # None
      BY NoneAssumption DEF DispatchersInv, Types
    <2> QED  BY <2>1 DEF getDispatchers, Listed, DispatchersInv, EntriesLead
  <1> QED  BY DispatchersInvariant, <1>1, PTL

\* Module::Get finds the module of an llvm::Module that was never released.
THEOREM KeysOfUnreleased == Spec => []NeverReleasedAreKnown
  <1>1. DispatchersInv => NeverReleasedAreKnown
    BY DEF DispatchersInv, Keys
  <1> QED  BY DispatchersInvariant, <1>1, PTL

\* The functions of a listed dispatcher are in the llvm::Module of its module.
THEOREM FunctionsStay == Spec => []FunctionsFollow
  <1>1. DispatchersInv => FunctionsFollow
    BY DEF DispatchersInv, Places
  <1> QED  BY DispatchersInvariant, <1>1, PTL

----------------------------------------------------------------------------
(* What a call that stops had met.                                         *)

Explained == \/ \E m \in open : llmodule[m] = None
             \/ \E x \in DOMAIN operands : \E k \in DOMAIN operands[x] : operands[x][k] = None
             \/ shared # {}

\* The functions of a listed dispatcher that are elsewhere.
LEMMA StrayFunctions ==
    ASSUME DispatchersInv, NEW d \in DOMAIN dispatchers,
           dispatchers[d].module # None,
           ~CanMove(dispatchers[d].node, llmodule[dispatchers[d].module], llmodule[dispatchers[d].module])
    PROVE  Explained
  <1>1. dispatchers[d].module \in open
    BY DEF DispatchersInv, Types
  <1>2. CASE llmodule[dispatchers[d].module] = None
    BY <1>1, <1>2 DEF Explained
  <1>3. CASE llmodule[dispatchers[d].module] # None
    <2>1. home[dispatchers[d].node] # llmodule[dispatchers[d].module]
      BY <1>3 DEF CanMove
    <2>2. dispatchers[d].node \in shared
      BY <1>3, <2>1 DEF DispatchersInv, Places, FunctionsFollow
    <2> QED  BY <2>2 DEF Explained
  <1> QED  BY <1>2, <1>3

\* A dispatcher in no list whose functions are in one.
LEMMA HomelessFunctions ==
    ASSUME DispatchersInv, NEW d \in DOMAIN dispatchers,
           dispatchers[d].module = None, home[dispatchers[d].node] # None
    PROVE  Explained
  BY DEF DispatchersInv, Places, DetachedAreHomeless, Explained

\* An operand that cannot be read.
LEMMA UnreadableOperands ==
    ASSUME DispatchersInv, NEW m, NEW x \in DOMAIN operands, NEW loaded, ~stopped, stopped',
           \A k \in DOMAIN loaded : \E l \in DOMAIN operands[x] : loaded[k] = operands[x][l],
           Sync(m, loaded)
    PROVE  Explained
  <1>1. PICK k \in DOMAIN loaded : loaded[k] = None \/ home[loaded[k]] = Gone
    BY Zenon DEF Sync
  <1>2. PICK l \in DOMAIN operands[x] : loaded[k] = operands[x][l]
    OBVIOUS
  <1>3. CASE operands[x][l] = None
    BY <1>3 DEF Explained
  <1>4. CASE operands[x][l] # None
    <2>1. home[operands[x][l]] # x
      BY <1>1, <1>2, <1>4, NoneAssumption DEF DispatchersInv, Types
    <2>2. operands[x][l] \in shared
      BY <1>4, <2>1 DEF DispatchersInv, Places, OperandsPlaced
    <2> QED  BY <2>2 DEF Explained
  <1> QED  BY <1>3, <1>4

\* A call meets a null pointer or a foreign function only for one of three reasons.
THEOREM CrashesExplained == Spec => CrashesAreExplained
  <1>1. ASSUME DispatchersInv, Next, stopped' PROVE Explained
    <2>0. ~stopped
      BY <1>1 DEF Next
    <2>1. ASSUME NEW i \in Interfaces, NEW m \in Modules, NEW d \in Objects, NEW n \in Addresses,
                 CreateListed(i, m, d, n)
          PROVE  Explained
      <3>1. llmodule[m] = None /\ m \in open
        BY <1>1, <2>0, <2>1, Zenon DEF CreateListed
      <3> QED  BY <3>1 DEF Explained
    <2>2. ASSUME NEW i \in Interfaces, NEW m \in Modules, NEW d \in Objects, NEW n \in Addresses,
                 getOrInsertDispatchers(i, m, d, n)
          PROVE  Explained
      BY <2>1, <2>2 DEF getOrInsertDispatchers
    <2>3. ASSUME NEW d \in Objects, NEW m \in Modules, Insert(d, m) PROVE Explained
      <3>1. d \in DOMAIN dispatchers /\ dispatchers[d].module = None /\ m \in open
            /\ ~CanMove(dispatchers[d].node, None, llmodule[m])
        BY <1>1, <2>0, <2>3, Zenon DEF Insert
      <3>2. CASE llmodule[m] = None
        BY <3>1, <3>2 DEF Explained
      <3>3. CASE llmodule[m] # None
        BY <1>1, <3>1, <3>3, HomelessFunctions DEF CanMove
      <3> QED  BY <3>2, <3>3
    <2>4. ASSUME NEW d \in Objects, Remove(d) PROVE Explained
      <3>1. d \in DOMAIN dispatchers /\ dispatchers[d].module # None
            /\ ~CanMove(dispatchers[d].node, llmodule[dispatchers[d].module], llmodule[dispatchers[d].module])
        BY <1>1, <2>0, <2>4, Zenon DEF Remove
      <3> QED  BY <1>1, <3>1, StrayFunctions
    <2>5. ASSUME NEW d \in Objects, Delete(d) PROVE Explained
      <3>1. d \in DOMAIN dispatchers /\ dispatchers[d].module = None /\ home[dispatchers[d].node] # None
        BY <1>1, <2>0, <2>5, Zenon DEF Delete
      <3> QED  BY <1>1, <3>1, HomelessFunctions
    <2>6. ASSUME NEW m \in Modules, syncMetadata(m) PROVE Explained
      <3> DEFINE x == llmodule[m]
                 loaded == [i \in Missed(m) |-> operands[x][i]]
      <3>1. m \in open /\ x # None /\ Sync(m, loaded)
        BY <2>6 DEF syncMetadata
      <3>2. x \in DOMAIN operands
        BY <1>1, <3>1 DEF DispatchersInv, Keys, Wrapped
      <3>3. \A k \in DOMAIN loaded : \E l \in DOMAIN operands[x] : loaded[k] = operands[x][l]
        BY DEF Missed
      <3> HIDE DEF loaded, x
      <3> QED  BY <1>1, <2>0, <3>1, <3>2, <3>3, UnreadableOperands
    <2>7. ASSUME NEW m \in Modules, NEW x \in LLModules, WrapModule(m, x) PROVE Explained
      <3>1. x \in DOMAIN operands /\ Sync(m, operands[x])
        BY <2>7 DEF WrapModule, Loose
      <3>2. \A k \in DOMAIN operands[x] : \E l \in DOMAIN operands[x] : operands[x][k] = operands[x][l]
        OBVIOUS
      <3> QED  BY <1>1, <2>0, <3>1, <3>2, UnreadableOperands
    <2>8. ASSUME NEW m \in Modules, DestroyModule(m) PROVE Explained
      <3>1. m \in open /\ ~CanClear(m)
        BY <1>1, <2>0, <2>8, Zenon DEF DestroyModule
      <3>2. m # None
        BY <1>1, <3>1, NoneAssumption DEF DispatchersInv, Types
      <3>3. \A d \in Listed(m) : d \in DOMAIN dispatchers /\ dispatchers[d].module = m
        BY DEF Listed
      <3>4. ASSUME NEW d \in Listed(m), ~CanMove(dispatchers[d].node, llmodule[m], llmodule[m])
            PROVE  Explained
        BY <1>1, <3>2, <3>3, <3>4, StrayFunctions
      <3>5. ASSUME NEW d \in Listed(m), NEW e \in Listed(m), d # e,
                   dispatchers[d].node = dispatchers[e].node
            PROVE  Explained
        BY <1>1, <3>3, <3>5 DEF DispatchersInv, Places, NodesApart, Explained
      <3> QED  BY <3>1, <3>4, <3>5 DEF CanClear
    <2>9. ASSUME \/ \E c \in Contents, i \in Interfaces : GetInterface(c, i)
                 \/ \E i \in Interfaces, d \in Objects, n \in Addresses : CreateDetached(i, d, n)
                 \/ \E m \in Modules, x \in LLModules : NewModule(m, x)
                 \/ \E x \in LLModules, ops \in FreshOperands, c \in Contents : ReadLLModule(x, ops, c)
                 \/ \E m \in Modules : releaseLLModule(m)
                 \/ \E x \in LLModules : DropLLModule(x)
          PROVE  FALSE
      BY <1>1, <2>0, <2>9, Zenon DEF GetInterface, CreateDetached, NewModule, ReadLLModule,
                                     releaseLLModule, DropLLModule
    <2> QED  BY <1>1, <2>1, <2>2, <2>3, <2>4, <2>5, <2>6, <2>7, <2>8, <2>9, Zenon DEF Next
  <1>2. DispatchersInv /\ [Next]_vars => [stopped' => Explained]_vars
    BY <1>1
  <1>3. CrashesAreExplained <=> [][stopped' => Explained]_vars
    BY PTL DEF CrashesAreExplained, Explained
  <1> QED  BY DispatchersInvariant, <1>2, <1>3, PTL DEF Spec

----------------------------------------------------------------------------
(* The merge of syncMetadata over operands in no order: what FirstOnly     *)
(* finds is what Missed says.                                              *)

Pointers == Addresses \cup {None}

LEMMA LessOrders ==
    /\ \A a, b \in Pointers : Less(a, b) \/ a = b \/ Less(b, a)
    /\ \A a, b \in Pointers : Less(a, b) => a # b /\ ~Less(b, a)
    /\ \A a, b, c \in Pointers : Less(a, b) /\ ~Less(c, b) => Less(a, c)
    /\ \A a, b, c \in Pointers : ~Less(b, a) /\ Less(b, c) => Less(a, c)
  <1>1. \A a \in Addresses : a \in Nat /\ a # None
    BY AddressAssumption, NoneAssumption
  <1> QED  BY <1>1 DEF Less, Pointers

\* A range in ascending order.
Rising(sorted) ==
    \A b, c \in 1 .. Len(sorted) : b <= c => ~Less(sorted[c], sorted[b])

Positions(s, n, x) == {p \in 1 .. n : s[p] = x}

Among(s, n, x) == Cardinality(Positions(s, n, x))

LEMMA PositionsFinite ==
    ASSUME NEW s, NEW n \in Nat, NEW x
    PROVE  IsFiniteSet(Positions(s, n, x)) /\ Among(s, n, x) \in Nat
  <1>1. IsFiniteSet(1 .. n)
    BY FS_Interval
  <1>2. Positions(s, n, x) \in SUBSET (1 .. n)
    BY DEF Positions
  <1>3. IsFiniteSet(Positions(s, n, x))
    BY <1>1, <1>2, FS_Subset
  <1> QED  BY <1>3, FS_CardinalityType DEF Among

LEMMA AmongNone ==
    ASSUME NEW s, NEW x
    PROVE  Among(s, 0, x) = 0
  <1>1. Positions(s, 0, x) = {}
    BY DEF Positions
  <1> QED  BY <1>1, FS_EmptySet DEF Among

LEMMA AmongNext ==
    ASSUME NEW s, NEW n \in Nat, NEW x
    PROVE  Among(s, n + 1, x) = Among(s, n, x) + (IF s[n + 1] = x THEN 1 ELSE 0)
  <1>1. n + 1 \notin Positions(s, n, x)
    BY DEF Positions
  <1>2. Positions(s, n + 1, x)
           = IF s[n + 1] = x THEN Positions(s, n, x) \cup {n + 1} ELSE Positions(s, n, x)
    <2>1. \A p \in 1 .. n + 1 : p \in 1 .. n \/ p = n + 1
      OBVIOUS
    <2>2. n + 1 \in 1 .. n + 1 /\ \A p \in 1 .. n : p \in 1 .. n + 1
      OBVIOUS
    <2> QED  BY <2>1, <2>2 DEF Positions
  <1>3. Cardinality(Positions(s, n, x) \cup {n + 1}) = Cardinality(Positions(s, n, x)) + 1
    BY <1>1, PositionsFinite, FS_AddElement
  <1> QED  BY <1>2, <1>3, PositionsFinite DEF Among

LEMMA AmongMore ==
    ASSUME NEW s, NEW k \in Nat, NEW n \in Nat, k <= n, NEW x
    PROVE  /\ Among(s, k, x) <= Among(s, n, x)
           /\ (\A p \in k + 1 .. n : s[p] # x) => Among(s, k, x) = Among(s, n, x)
  <1>1. Positions(s, k, x) \in SUBSET Positions(s, n, x)
    BY DEF Positions
  <1>2. (\A p \in k + 1 .. n : s[p] # x) => Positions(s, k, x) = Positions(s, n, x)
    BY DEF Positions
  <1>3. Among(s, k, x) <= Among(s, n, x)
    BY <1>1, PositionsFinite, FS_Subset DEF Among
  <1> QED  BY <1>2, <1>3 DEF Among

----------------------------------------------------------------------------
\* An operand is missed after a greater one, or if it came more often than there are
\* nodes of dispatchers to meet it.
Turned(ops, k) == \E l \in 1 .. k - 1 : Less(ops[k], ops[l])

MissedAt(ops, sorted, k) ==
    Turned(ops, k) \/ Among(ops, k, ops[k]) > Among(sorted, Len(sorted), ops[k])

\* What holds when the merge stands at places i and j. No node that is still to come is
\* below an operand that was passed. A node still to come was there for each operand
\* equal to it; and nodes that were passed without a pair are below some operand.
Ahead(ops, sorted, i, j) ==
    \A k \in 1 .. i - 1, b \in j .. Len(sorted) : ~Less(sorted[b], ops[k])

Supplied(ops, sorted, i, j) ==
    \A v \in Pointers : (\E b \in j .. Len(sorted) : sorted[b] = v) =>
        Among(ops, i - 1, v) <= Among(sorted, j - 1, v)

Used(ops, sorted, i, j) ==
    \A v \in Pointers : (\A k \in 1 .. Len(ops) : k <= i => ~Less(v, ops[k])) =>
        Among(ops, i - 1, v) >= Among(sorted, j - 1, v)

Merging(ops, sorted, i, j) ==
    /\ i \in 1 .. Len(ops) + 1 /\ j \in 1 .. Len(sorted) + 1
    /\ Ahead(ops, sorted, i, j) /\ Supplied(ops, sorted, i, j) /\ Used(ops, sorted, i, j)

Ranges(ops, sorted) ==
    /\ Len(ops) \in Nat /\ Len(sorted) \in Nat
    /\ \A k \in 1 .. Len(ops) : ops[k] \in Pointers
    /\ \A b \in 1 .. Len(sorted) : sorted[b] \in Pointers
    /\ Rising(sorted)

\* The node at j is greater than the operand at i, or there is none: so are those that
\* come after it.
Lacking(ops, sorted, i, j) == j > Len(sorted) \/ Less(ops[i], sorted[j])

LEMMA LackingAhead ==
    ASSUME NEW ops, NEW sorted, Ranges(ops, sorted), NEW i \in 1 .. Len(ops),
           NEW j \in 1 .. Len(sorted) + 1, Lacking(ops, sorted, i, j)
    PROVE  \A b \in j .. Len(sorted) : Less(ops[i], sorted[b])
  <1> SUFFICES ASSUME NEW b \in j .. Len(sorted) PROVE Less(ops[i], sorted[b])
    OBVIOUS
  <1>1. Len(ops) \in Nat /\ Len(sorted) \in Nat
    BY DEF Ranges
  <1>2. b \in 1 .. Len(sorted) /\ j \in 1 .. Len(sorted) /\ j <= b /\ ~(j > Len(sorted))
    BY <1>1
  <1>3. ops[i] \in Pointers /\ sorted[b] \in Pointers /\ sorted[j] \in Pointers
    BY <1>2 DEF Ranges
  <1>4. Less(ops[i], sorted[j]) /\ ~Less(sorted[b], sorted[j])
    BY <1>2 DEF Lacking, Ranges, Rising
  <1> QED  BY <1>3, <1>4, LessOrders

\* What the merge decides about the operand at i.
LEMMA Decision ==
    ASSUME NEW ops, NEW sorted, Ranges(ops, sorted), NEW i \in 1 .. Len(ops),
           NEW j, Merging(ops, sorted, i, j)
    PROVE  /\ Lacking(ops, sorted, i, j) => MissedAt(ops, sorted, i)
           /\ j \in 1 .. Len(sorted) /\ sorted[j] = ops[i] => ~MissedAt(ops, sorted, i)
  <1> DEFINE v == ops[i]
             q == Len(sorted)
  <1>1. /\ Len(ops) \in Nat /\ q \in Nat /\ i \in Nat /\ i >= 1 /\ j \in 1 .. q + 1
        /\ v \in Pointers
    BY DEF Ranges, Merging
  <1>2. /\ Among(ops, i, v) = Among(ops, i - 1, v) + 1
        /\ Among(ops, i, v) \in Nat /\ Among(ops, i - 1, v) \in Nat
        /\ Among(sorted, j - 1, v) \in Nat /\ Among(sorted, q, v) \in Nat
    <2>1. i - 1 \in Nat /\ (i - 1) + 1 = i /\ j - 1 \in Nat
      BY <1>1
    <2>2. Among(ops, (i - 1) + 1, v) = Among(ops, i - 1, v) + (IF ops[(i - 1) + 1] = v THEN 1 ELSE 0)
      BY <2>1, AmongNext
    <2>3. Among(ops, i, v) = Among(ops, i - 1, v) + 1
      BY <2>1, <2>2
    <2> QED  BY <1>1, <2>1, <2>3, PositionsFinite
  <1>3. ASSUME Lacking(ops, sorted, i, j) PROVE MissedAt(ops, sorted, i)
    <2>1. CASE Turned(ops, i)
      BY <2>1 DEF MissedAt
    <2>2. CASE ~Turned(ops, i)
      <3>1. \A b \in j .. q : sorted[b] # v
        <4>1. \A b \in j .. q : Less(v, sorted[b]) /\ sorted[b] \in Pointers
          BY <1>1, <1>3, LackingAhead DEF Ranges
        <4> QED  BY <1>1, <4>1, LessOrders
      <3>2. Among(sorted, j - 1, v) = Among(sorted, q, v)
        <4>1. j - 1 \in Nat /\ j - 1 <= q /\ (j - 1) + 1 = j
          BY <1>1
        <4>2. (\A b \in (j - 1) + 1 .. q : sorted[b] # v) => Among(sorted, j - 1, v) = Among(sorted, q, v)
          BY <1>1, <4>1, AmongMore
        <4> QED  BY <3>1, <4>1, <4>2
      <3>3. \A k \in 1 .. Len(ops) : k <= i => ~Less(v, ops[k])
        <4> SUFFICES ASSUME NEW k \in 1 .. Len(ops), k <= i PROVE ~Less(v, ops[k])
          OBVIOUS
        <4>1. CASE k = i
          BY <1>1, <4>1, LessOrders
        <4>2. CASE k # i
          <5>1. k \in 1 .. i - 1
            BY <1>1, <4>2
          <5> QED  BY <2>2, <5>1 DEF Turned
        <4> QED  BY <4>1, <4>2
      <3>4. Among(ops, i - 1, v) >= Among(sorted, j - 1, v)
        BY <1>1, <3>3 DEF Merging, Used
      <3>5. Among(ops, i, v) > Among(sorted, q, v)
        BY <1>2, <3>2, <3>4
      <3> QED  BY <3>5 DEF MissedAt
    <2> QED  BY <2>1, <2>2
  <1>4. ASSUME j \in 1 .. q, sorted[j] = v PROVE ~MissedAt(ops, sorted, i)
    <2>1. ~Turned(ops, i)
      <3>1. j \in j .. q
        BY <1>1, <1>4
      <3> QED  BY <1>4, <3>1 DEF Turned, Merging, Ahead
    <2>2. Among(ops, i - 1, v) <= Among(sorted, j - 1, v)
      <3>1. j \in j .. q
        BY <1>1, <1>4
      <3> QED  BY <1>1, <1>4, <3>1 DEF Merging, Supplied
    <2>3. Among(sorted, j - 1, v) + 1 <= Among(sorted, q, v)
      <3>1. j - 1 \in Nat /\ (j - 1) + 1 = j /\ j \in Nat /\ j <= q
        BY <1>1, <1>4
      <3>2. Among(sorted, (j - 1) + 1, v) = Among(sorted, j - 1, v) + (IF sorted[(j - 1) + 1] = v THEN 1 ELSE 0)
        BY <3>1, AmongNext
      <3>3. Among(sorted, j, v) = Among(sorted, j - 1, v) + 1
        BY <1>4, <3>1, <3>2
      <3>4. Among(sorted, j, v) <= Among(sorted, q, v)
        BY <1>1, <3>1, AmongMore
      <3> QED  BY <3>3, <3>4
    <2>4. ~(Among(ops, i, v) > Among(sorted, q, v))
      BY <1>2, <2>2, <2>3
    <2> QED  BY <2>1, <2>4 DEF MissedAt
  <1> QED  BY <1>3, <1>4

----------------------------------------------------------------------------
(* The three turns of the loop: it keeps an operand, it passes over a node,*)
(* or it goes on in both ranges.                                           *)

\* How a turn changes the numbers of operands and of nodes equal to v.
LEMMA NumbersAfter ==
    ASSUME NEW s, NEW i \in Nat \ {0}, NEW v
    PROVE  /\ Among(s, i, v) = Among(s, i - 1, v) + (IF s[i] = v THEN 1 ELSE 0)
           /\ Among(s, i, v) \in Nat /\ Among(s, i - 1, v) \in Nat
  <1>1. i - 1 \in Nat /\ (i - 1) + 1 = i /\ i \in Nat
    OBVIOUS
  <1>2. Among(s, (i - 1) + 1, v) = Among(s, i - 1, v) + (IF s[(i - 1) + 1] = v THEN 1 ELSE 0)
    BY <1>1, AmongNext
  <1> QED  BY <1>1, <1>2, PositionsFinite

LEMMA KeepingMerges ==
    ASSUME NEW ops, NEW sorted, Ranges(ops, sorted), NEW i \in 1 .. Len(ops),
           NEW j, Merging(ops, sorted, i, j), Lacking(ops, sorted, i, j)
    PROVE  Merging(ops, sorted, i + 1, j)
  <1>1. /\ Len(ops) \in Nat /\ Len(sorted) \in Nat /\ i \in Nat \ {0} /\ j \in 1 .. Len(sorted) + 1
        /\ ops[i] \in Pointers /\ i + 1 \in 1 .. Len(ops) + 1 /\ (i + 1) - 1 = i
    BY DEF Ranges, Merging
  <1>2. \A b \in j .. Len(sorted) : Less(ops[i], sorted[b]) /\ sorted[b] \in Pointers
    BY <1>1, LackingAhead DEF Ranges
  <1>3. Ahead(ops, sorted, i + 1, j)
    <2> SUFFICES ASSUME NEW k \in 1 .. i, NEW b \in j .. Len(sorted) PROVE ~Less(sorted[b], ops[k])
      BY <1>1 DEF Ahead
    <2>1. CASE k = i
      BY <1>1, <1>2, <2>1, LessOrders
    <2>2. CASE k # i
      <3>1. k \in 1 .. i - 1
        BY <1>1, <2>2
      <3> QED  BY <3>1 DEF Merging, Ahead
    <2> QED  BY <2>1, <2>2
  <1>4. Supplied(ops, sorted, i + 1, j)
    <2> SUFFICES ASSUME NEW v \in Pointers, NEW b \in j .. Len(sorted), sorted[b] = v
                 PROVE  Among(ops, i, v) <= Among(sorted, j - 1, v)
      BY <1>1 DEF Supplied
    <2>1. ops[i] # v
      BY <1>1, <1>2, LessOrders
    <2>2. Among(ops, i - 1, v) <= Among(sorted, j - 1, v)
      BY DEF Merging, Supplied
    <2>3. /\ Among(ops, i, v) = Among(ops, i - 1, v) + (IF ops[i] = v THEN 1 ELSE 0)
          /\ Among(ops, i - 1, v) \in Nat
      <3>1. i \in Nat \ {0}
        BY <1>1
      <3> QED  BY <3>1, NumbersAfter
    <2> QED  BY <2>1, <2>2, <2>3
  <1>5. Used(ops, sorted, i + 1, j)
    <2> SUFFICES ASSUME NEW v \in Pointers, \A k \in 1 .. Len(ops) : k <= i + 1 => ~Less(v, ops[k])
                 PROVE  Among(ops, i, v) >= Among(sorted, j - 1, v)
      BY <1>1 DEF Used
    <2>1. Among(ops, i - 1, v) >= Among(sorted, j - 1, v)
      <3>1. \A k \in 1 .. Len(ops) : k <= i => ~Less(v, ops[k])
        BY <1>1
      <3> QED  BY <3>1 DEF Merging, Used
    <2>2. /\ Among(ops, i, v) = Among(ops, i - 1, v) + (IF ops[i] = v THEN 1 ELSE 0)
          /\ Among(ops, i, v) \in Nat /\ Among(ops, i - 1, v) \in Nat
      BY <1>1, NumbersAfter
    <2>3. Among(sorted, j - 1, v) \in Nat
      <3>1. j - 1 \in Nat
        BY <1>1
      <3> QED  BY <3>1, PositionsFinite
    <2> QED  BY <2>1, <2>2, <2>3
  <1> QED  BY <1>1, <1>3, <1>4, <1>5 DEF Merging

LEMMA PassingMerges ==
    ASSUME NEW ops, NEW sorted, Ranges(ops, sorted), NEW i \in 1 .. Len(ops),
           NEW j \in 1 .. Len(sorted), Merging(ops, sorted, i, j), Less(sorted[j], ops[i])
    PROVE  Merging(ops, sorted, i, j + 1)
  <1>1. /\ Len(ops) \in Nat /\ Len(sorted) \in Nat /\ i \in Nat \ {0} /\ j \in Nat \ {0}
        /\ ops[i] \in Pointers /\ sorted[j] \in Pointers
        /\ j + 1 \in 1 .. Len(sorted) + 1 /\ (j + 1) - 1 = j
        /\ \A b \in j + 1 .. Len(sorted) : b \in j .. Len(sorted)
    BY DEF Ranges
  <1>2. Ahead(ops, sorted, i, j + 1)
    BY <1>1 DEF Merging, Ahead
  <1>3. \A v : /\ Among(sorted, j, v) = Among(sorted, j - 1, v) + (IF sorted[j] = v THEN 1 ELSE 0)
               /\ Among(sorted, j, v) \in Nat /\ Among(sorted, j - 1, v) \in Nat
               /\ Among(ops, i - 1, v) \in Nat
    BY <1>1, NumbersAfter
  <1>4. Supplied(ops, sorted, i, j + 1)
    <2> SUFFICES ASSUME NEW v \in Pointers, NEW b \in j + 1 .. Len(sorted), sorted[b] = v
                 PROVE  Among(ops, i - 1, v) <= Among(sorted, j, v)
      BY <1>1 DEF Supplied
    <2>1. Among(ops, i - 1, v) <= Among(sorted, j - 1, v)
      BY <1>1 DEF Merging, Supplied
    <2> QED  BY <1>3, <2>1
  <1>5. Used(ops, sorted, i, j + 1)
    <2> SUFFICES ASSUME NEW v \in Pointers, \A k \in 1 .. Len(ops) : k <= i => ~Less(v, ops[k])
                 PROVE  Among(ops, i - 1, v) >= Among(sorted, j, v)
      BY <1>1 DEF Used
    <2>1. Among(ops, i - 1, v) >= Among(sorted, j - 1, v)
      BY DEF Merging, Used
    <2>2. sorted[j] # v
      BY <1>1
    <2> QED  BY <1>3, <2>1, <2>2
  <1>6. i \in 1 .. Len(ops) + 1
    BY <1>1
  <1> QED  BY <1>1, <1>2, <1>4, <1>5, <1>6 DEF Merging

LEMMA PairingMerges ==
    ASSUME NEW ops, NEW sorted, Ranges(ops, sorted), NEW i \in 1 .. Len(ops),
           NEW j \in 1 .. Len(sorted), Merging(ops, sorted, i, j), sorted[j] = ops[i]
    PROVE  Merging(ops, sorted, i + 1, j + 1)
  <1>1. /\ Len(ops) \in Nat /\ Len(sorted) \in Nat /\ i \in Nat \ {0} /\ j \in Nat \ {0}
        /\ ops[i] \in Pointers /\ sorted[j] \in Pointers
        /\ i + 1 \in 1 .. Len(ops) + 1 /\ (i + 1) - 1 = i
        /\ j + 1 \in 1 .. Len(sorted) + 1 /\ (j + 1) - 1 = j
        /\ \A b \in j + 1 .. Len(sorted) : b \in j .. Len(sorted)
    BY DEF Ranges
  <1>2. Ahead(ops, sorted, i + 1, j + 1)
    <2> SUFFICES ASSUME NEW k \in 1 .. i, NEW b \in j + 1 .. Len(sorted) PROVE ~Less(sorted[b], ops[k])
      BY <1>1 DEF Ahead
    <2>1. CASE k = i
      <3>1. b \in 1 .. Len(sorted) /\ j <= b
        BY <1>1
      <3> QED  BY <2>1, <3>1 DEF Ranges, Rising
    <2>2. CASE k # i
      <3>1. k \in 1 .. i - 1
        BY <1>1, <2>2
      <3> QED  BY <1>1, <3>1 DEF Merging, Ahead
    <2> QED  BY <2>1, <2>2
  <1>3. \A v : /\ Among(sorted, j, v) = Among(sorted, j - 1, v) + (IF sorted[j] = v THEN 1 ELSE 0)
               /\ Among(sorted, j - 1, v) \in Nat /\ Among(ops, i - 1, v) \in Nat
               /\ Among(ops, i, v) = Among(ops, i - 1, v) + (IF ops[i] = v THEN 1 ELSE 0)
    BY <1>1, NumbersAfter
  <1>4. Supplied(ops, sorted, i + 1, j + 1)
    <2> SUFFICES ASSUME NEW v \in Pointers, NEW b \in j + 1 .. Len(sorted), sorted[b] = v
                 PROVE  Among(ops, i, v) <= Among(sorted, j, v)
      BY <1>1 DEF Supplied
    <2>1. Among(ops, i - 1, v) <= Among(sorted, j - 1, v)
      BY <1>1 DEF Merging, Supplied
    <2> QED  BY <1>3, <2>1
  <1>5. Used(ops, sorted, i + 1, j + 1)
    <2> SUFFICES ASSUME NEW v \in Pointers, \A k \in 1 .. Len(ops) : k <= i + 1 => ~Less(v, ops[k])
                 PROVE  Among(ops, i, v) >= Among(sorted, j, v)
      BY <1>1 DEF Used
    <2>1. Among(ops, i - 1, v) >= Among(sorted, j - 1, v)
      <3>1. \A k \in 1 .. Len(ops) : k <= i => ~Less(v, ops[k])
        BY <1>1
      <3> QED  BY <3>1 DEF Merging, Used
    <2> QED  BY <1>3, <2>1
  <1> QED  BY <1>1, <1>2, <1>4, <1>5 DEF Merging

----------------------------------------------------------------------------
(* The loop, as a function of the number of its turns.                     *)

Induced(T) == T \subseteq Nat /\ 0 \in T /\ \A k \in T : k + 1 \in T

LEMMA Induction ==
    ASSUME NEW T, Induced(T)
    PROVE  T = Nat
  <1> DEFINE R == Nat \ T
  <1> SUFFICES ASSUME R # {} PROVE FALSE
    BY DEF Induced
  <1>1. PICK k \in R : \A j \in R : k <= j
    BY LeastPlace
  <1>2. k \in Nat /\ k # 0 /\ k - 1 \in Nat /\ ~(k <= k - 1) /\ (k - 1) + 1 = k
    BY DEF Induced
  <1>3. k - 1 \in T
    BY <1>1, <1>2
  <1> QED  BY <1>2, <1>3 DEF Induced

FirstTurn == [i |-> 1, j |-> 1, only |-> {}]

Turns(f, n, ops, sorted) ==
    f = [k \in 0 .. n |-> IF k = 0 THEN FirstTurn ELSE Turn(ops, sorted, f[k - 1])]

LEMMA TurnsExist ==
    ASSUME NEW ops, NEW sorted, NEW n \in Nat
    PROVE  \E f : Turns(f, n, ops, sorted)
  <1> DEFINE T == {m \in Nat : \E f : Turns(f, m, ops, sorted)}
  <1>1. 0 \in T
    <2> DEFINE f == [k \in 0 .. 0 |-> FirstTurn]
    <2>1. Turns(f, 0, ops, sorted)
      BY DEF Turns
    <2> HIDE DEF f
    <2> QED  BY <2>1
  <1>2. ASSUME NEW q \in T PROVE q + 1 \in T
    <2>1. PICK f : Turns(f, q, ops, sorted)
      OBVIOUS
    <2> DEFINE g == [k \in 0 .. q + 1 |-> IF k = q + 1 THEN Turn(ops, sorted, f[q]) ELSE f[k]]
    <2>2. ASSUME NEW k \in 0 .. q + 1
          PROVE  g[k] = IF k = 0 THEN FirstTurn ELSE Turn(ops, sorted, g[k - 1])
      <3>1. CASE k = 0
        BY <2>1, <3>1 DEF Turns
      <3>2. CASE k \in 1 .. q
        <4>1. k \in 0 .. q /\ k # 0 /\ k # q + 1 /\ k - 1 \in 0 .. q + 1 /\ k - 1 # q + 1
          BY <3>2
        <4>2. f[k] = Turn(ops, sorted, f[k - 1])
          BY <2>1, <4>1 DEF Turns
        <4> QED  BY <4>1, <4>2
      <3>3. CASE k = q + 1
        <4>1. (q + 1) - 1 = q /\ q # q + 1 /\ q \in 0 .. q + 1 /\ q + 1 # 0
          OBVIOUS
        <4> QED  BY <3>3, <4>1
      <3> QED  BY <3>1, <3>2, <3>3
    <2>3. g = [k \in 0 .. q + 1 |-> g[k]]
      OBVIOUS
    <2> HIDE DEF g
    <2>4. g = [k \in 0 .. q + 1 |-> IF k = 0 THEN FirstTurn ELSE Turn(ops, sorted, g[k - 1])]
      BY <2>2, <2>3
    <2> QED  BY <2>4 DEF Turns
  <1> HIDE DEF T
  <1>3. T = Nat
    <2>1. T \subseteq Nat
      BY DEF T
    <2> QED  BY <1>1, <1>2, <2>1, Induction DEF Induced
  <1> QED  BY <1>3 DEF T

\* Where the loop stands.
At(ops, sorted, s) ==
    /\ s \in [i : Nat, j : Nat, only : SUBSET Nat]
    /\ Merging(ops, sorted, s.i, s.j)
    /\ s.only = {k \in 1 .. s.i - 1 : MissedAt(ops, sorted, k)}

Kept(s, r)   == r.i = s.i + 1 /\ r.j = s.j /\ r.only = s.only \cup {s.i}
Passed(s, r) == r.i = s.i /\ r.j = s.j + 1 /\ r.only = s.only
Paired(s, r) == r.i = s.i + 1 /\ r.j = s.j + 1 /\ r.only = s.only

\* The two assignments of a turn.
LEMMA KeepingTurn ==
    ASSUME NEW s \in [i : Nat, j : Nat, only : SUBSET Nat],
           NEW r, r = [s EXCEPT !.i = @ + 1, !.only = @ \cup {s.i}]
    PROVE  r \in [i : Nat, j : Nat, only : SUBSET Nat] /\ Kept(s, r)
  <1> DEFINE t == [s EXCEPT !.i = @ + 1]
  <1>1. /\ t \in [i : Nat, j : Nat, only : SUBSET Nat]
        /\ t.i = s.i + 1 /\ t.j = s.j /\ t.only = s.only
    OBVIOUS
  <1>2. r = [t EXCEPT !.only = s.only \cup {s.i}]
    BY <1>1
  <1>3. s.only \cup {s.i} \in SUBSET Nat
    OBVIOUS
  <1> HIDE DEF t
  <1> QED  BY <1>1, <1>2, <1>3 DEF Kept

LEMMA PassingTurn ==
    ASSUME NEW s \in [i : Nat, j : Nat, only : SUBSET Nat], NEW r, r = [s EXCEPT !.j = @ + 1]
    PROVE  r \in [i : Nat, j : Nat, only : SUBSET Nat] /\ Passed(s, r)
  BY DEF Passed

LEMMA PairingTurn ==
    ASSUME NEW s \in [i : Nat, j : Nat, only : SUBSET Nat],
           NEW r, r = [s EXCEPT !.i = @ + 1, !.j = @ + 1]
    PROVE  r \in [i : Nat, j : Nat, only : SUBSET Nat] /\ Paired(s, r)
  <1> DEFINE t == [s EXCEPT !.i = @ + 1]
  <1>1. /\ t \in [i : Nat, j : Nat, only : SUBSET Nat]
        /\ t.i = s.i + 1 /\ t.j = s.j /\ t.only = s.only
    OBVIOUS
  <1>2. r = [t EXCEPT !.j = @ + 1]
    BY <1>1
  <1> HIDE DEF t
  <1> QED  BY <1>1, <1>2 DEF Paired

\* What a turn adds to the missed operands.
LEMMA MissedNext ==
    ASSUME NEW i \in Nat \ {0}, NEW ops, NEW sorted
    PROVE  {k \in 1 .. (i + 1) - 1 : MissedAt(ops, sorted, k)}
              = {k \in 1 .. i - 1 : MissedAt(ops, sorted, k)}
                    \cup (IF MissedAt(ops, sorted, i) THEN {i} ELSE {})
  <1>1. \A k : k \in 1 .. (i + 1) - 1 <=> k \in 1 .. i - 1 \/ k = i
    OBVIOUS
  <1> QED  BY <1>1

\* The loop goes on: it ends when the operands are used up, for their number and
\* that of the nodes are the turns there can be.
LEMMA TurnMerges ==
    ASSUME NEW ops, NEW sorted, Ranges(ops, sorted), NEW s, At(ops, sorted, s),
           NEW r, r = Turn(ops, sorted, s)
    PROVE  /\ At(ops, sorted, r)
           /\ s.i = Len(ops) + 1 => r.i = Len(ops) + 1
           /\ s.i \in 1 .. Len(ops) => r.i + r.j >= s.i + s.j + 1
  <1>1. /\ s \in [i : Nat, j : Nat, only : SUBSET Nat] /\ Merging(ops, sorted, s.i, s.j)
        /\ s.i \in 1 .. Len(ops) + 1 /\ s.j \in 1 .. Len(sorted) + 1
        /\ s.i \in Nat \ {0} /\ s.j \in Nat \ {0}
        /\ Len(ops) \in Nat /\ Len(sorted) \in Nat
    BY DEF At, Merging, Ranges
  <1>2. CASE s.i = Len(ops) + 1
    <2>1. s.i > Len(ops) /\ s.i \notin 1 .. Len(ops)
      BY <1>1, <1>2
    <2>2. r = s
      BY <2>1 DEF Turn
    <2> QED  BY <1>2, <2>1, <2>2
  <1>3. CASE s.i \in 1 .. Len(ops)
    <2>1. ~(s.i > Len(ops)) /\ s.i # Len(ops) + 1
      BY <1>1, <1>3
    <2>2. CASE Lacking(ops, sorted, s.i, s.j)
      <3>1. r = [s EXCEPT !.i = @ + 1, !.only = @ \cup {s.i}]
        BY <2>1, <2>2 DEF Turn, Lacking
      <3>2. r \in [i : Nat, j : Nat, only : SUBSET Nat] /\ Kept(s, r)
        BY <1>1, <3>1, KeepingTurn
      <3>3. Merging(ops, sorted, s.i + 1, s.j)
        BY <1>1, <1>3, <2>2, KeepingMerges
      <3>4. MissedAt(ops, sorted, s.i)
        BY <1>1, <1>3, <2>2, Decision
      <3>5. r.only = {k \in 1 .. (s.i + 1) - 1 : MissedAt(ops, sorted, k)}
        <4>1. s.only = {k \in 1 .. s.i - 1 : MissedAt(ops, sorted, k)}
          BY DEF At
        <4> QED  BY <1>1, <3>2, <3>4, <4>1, MissedNext DEF Kept
      <3>6. r.i = s.i + 1 /\ r.j = s.j
        BY <3>2 DEF Kept
      <3>7. At(ops, sorted, r)
        BY <3>2, <3>3, <3>5, <3>6, Zenon DEF At
      <3> QED  BY <1>1, <2>1, <3>6, <3>7
    <2>3. CASE ~Lacking(ops, sorted, s.i, s.j)
      <3>1. /\ s.j \in 1 .. Len(sorted) /\ ~(s.j > Len(sorted)) /\ ~Less(ops[s.i], sorted[s.j])
        BY <1>1, <2>3 DEF Lacking
      <3>2. CASE Less(sorted[s.j], ops[s.i])
        <4>1. r = [s EXCEPT !.j = @ + 1]
          BY <2>1, <3>1, <3>2 DEF Turn
        <4>2. r \in [i : Nat, j : Nat, only : SUBSET Nat] /\ Passed(s, r)
          BY <1>1, <4>1, PassingTurn
        <4>3. Merging(ops, sorted, s.i, s.j + 1)
          BY <1>1, <1>3, <3>1, <3>2, PassingMerges
        <4>4. r.i = s.i /\ r.j = s.j + 1 /\ r.only = s.only
          BY <4>2 DEF Passed
        <4>5. At(ops, sorted, r)
          BY <4>2, <4>3, <4>4, Zenon DEF At
        <4> QED  BY <1>1, <2>1, <4>4, <4>5
      <3>3. CASE ~Less(sorted[s.j], ops[s.i])
        <4>1. r = [s EXCEPT !.i = @ + 1, !.j = @ + 1]
          BY <2>1, <3>1, <3>3 DEF Turn
        <4>2. r \in [i : Nat, j : Nat, only : SUBSET Nat] /\ Paired(s, r)
          BY <1>1, <4>1, PairingTurn
        <4>3. sorted[s.j] = ops[s.i]
          <5>1. sorted[s.j] \in Pointers /\ ops[s.i] \in Pointers
            BY <1>3, <3>1 DEF Ranges
          <5> QED  BY <3>1, <3>3, <5>1, LessOrders
        <4>4. Merging(ops, sorted, s.i + 1, s.j + 1)
          BY <1>1, <1>3, <3>1, <4>3, PairingMerges
        <4>5. ~MissedAt(ops, sorted, s.i)
          BY <1>1, <1>3, <3>1, <4>3, Decision
        <4>6. r.i = s.i + 1 /\ r.j = s.j + 1 /\ r.only = s.only
          BY <4>2 DEF Paired
        <4>7. r.only = {k \in 1 .. (s.i + 1) - 1 : MissedAt(ops, sorted, k)}
          <5>1. s.only = {k \in 1 .. s.i - 1 : MissedAt(ops, sorted, k)}
            BY DEF At
          <5> QED  BY <1>1, <4>5, <4>6, <5>1, MissedNext
        <4>8. At(ops, sorted, r)
          BY <4>2, <4>4, <4>6, <4>7, Zenon DEF At
        <4> QED  BY <1>1, <2>1, <4>6, <4>8
      <3> QED  BY <3>2, <3>3
    <2> QED  BY <2>2, <2>3
  <1>4. s.i \in 1 .. Len(ops) \/ s.i = Len(ops) + 1
    BY <1>1
  <1> QED  BY <1>2, <1>3, <1>4

LEMMA MergeBegins ==
    ASSUME NEW ops, NEW sorted, Ranges(ops, sorted)
    PROVE  At(ops, sorted, FirstTurn)
  <1>1. /\ FirstTurn \in [i : Nat, j : Nat, only : SUBSET Nat]
        /\ FirstTurn.i = 1 /\ FirstTurn.j = 1 /\ FirstTurn.only = {}
    BY DEF FirstTurn
  <1>2. 1 - 1 = 0 /\ 1 .. 1 - 1 = {} /\ 1 \in 1 .. Len(ops) + 1 /\ 1 \in 1 .. Len(sorted) + 1
    BY DEF Ranges
  <1>3. Ahead(ops, sorted, 1, 1)
    BY <1>2 DEF Ahead
  <1>4. \A v : Among(ops, 1 - 1, v) = 0 /\ Among(sorted, 1 - 1, v) = 0
    BY <1>2, AmongNone
  <1>5. Supplied(ops, sorted, 1, 1) /\ Used(ops, sorted, 1, 1)
    BY <1>4 DEF Supplied, Used
  <1>6. Merging(ops, sorted, 1, 1)
    BY <1>2, <1>3, <1>5 DEF Merging
  <1>7. {} = {k \in 1 .. 1 - 1 : MissedAt(ops, sorted, k)}
    BY <1>2
  <1> QED  BY <1>1, <1>6, <1>7, Zenon DEF At

\* What the merge finds, for every two ranges of which the second ascends.
LEMMA MergeFinds ==
    ASSUME NEW ops, NEW sorted, Ranges(ops, sorted)
    PROVE  FirstOnly(ops, sorted) = {k \in 1 .. Len(ops) : MissedAt(ops, sorted, k)}
  <1> DEFINE n == Len(ops) + Len(sorted)
             after == CHOOSE f : Turns(f, n, ops, sorted)
  <1>1. n \in Nat /\ Len(ops) \in Nat /\ Len(sorted) \in Nat
    BY DEF Ranges
  <1>2. FirstOnly(ops, sorted) = after[n].only
    BY Zenon DEF FirstOnly, Turns, FirstTurn
  <1>3. Turns(after, n, ops, sorted)
    <2> HIDE DEF n
    <2>1. \E f : Turns(f, n, ops, sorted)
      BY <1>1, TurnsExist
    <2> QED  BY <2>1, Zenon
  <1> HIDE DEF after, n
  <1> DEFINE Done(s, q) == At(ops, sorted, s) /\ (s.i = Len(ops) + 1 \/ s.i + s.j >= q + 2)
             T == {q \in Nat : q <= n => Done(after[q], q)}
  <1>4. 0 \in T
    <2>1. after[0] = FirstTurn
      BY <1>1, <1>3 DEF Turns
    <2>2. At(ops, sorted, FirstTurn) /\ FirstTurn.i + FirstTurn.j >= 0 + 2
      BY MergeBegins DEF FirstTurn
    <2> QED  BY <2>1, <2>2
  <1>5. ASSUME NEW q \in T PROVE q + 1 \in T
    <2> SUFFICES ASSUME q + 1 <= n PROVE Done(after[q + 1], q + 1)
      OBVIOUS
    <2> DEFINE s == after[q]
               r == after[q + 1]
    <2>1. q \in Nat /\ Done(s, q)
      BY <1>1
    <2>2. r = Turn(ops, sorted, s)
      <3>1. q + 1 \in 0 .. n /\ q + 1 # 0 /\ (q + 1) - 1 = q
        BY <1>1, <2>1
      <3> QED  BY <1>3, <3>1 DEF Turns
    <2> HIDE DEF T, s, r
    <2>3. /\ At(ops, sorted, s)
          /\ s.i = Len(ops) + 1 \/ s.i + s.j >= q + 2
      BY <2>1
    <2> HIDE DEF Done
    <2>4. /\ At(ops, sorted, r)
          /\ s.i = Len(ops) + 1 => r.i = Len(ops) + 1
          /\ s.i \in 1 .. Len(ops) => r.i + r.j >= s.i + s.j + 1
      BY <2>2, <2>3, TurnMerges
    <2>5. /\ s.i \in 1 .. Len(ops) + 1 /\ s.j \in 1 .. Len(sorted) + 1
          /\ r.i \in 1 .. Len(ops) + 1 /\ r.j \in 1 .. Len(sorted) + 1
      BY <2>3, <2>4 DEF At, Merging
    <2>6. r.i = Len(ops) + 1 \/ r.i + r.j >= (q + 1) + 2
      <3>1. s.i \in 1 .. Len(ops) \/ s.i = Len(ops) + 1
        BY <1>1, <2>5
      <3> QED  BY <1>1, <2>1, <2>3, <2>4, <2>5, <3>1
    <2>7. Done(r, q + 1)
      BY <2>4, <2>6 DEF Done
    <2> QED  BY <2>7 DEF r
  <1> HIDE DEF Done
  <1>6. T = Nat
    <2>1. T \subseteq Nat
      OBVIOUS
    <2> HIDE DEF T
    <2> QED  BY <1>4, <1>5, <2>1, Induction DEF Induced
  <1>7. Done(after[n], n)
    BY <1>1, <1>6
  <1> DEFINE s == after[n]
  <1>8. /\ At(ops, sorted, s)
        /\ s.i = Len(ops) + 1 \/ s.i + s.j >= n + 2
    BY <1>7 DEF Done
  <1> HIDE DEF T, s
  <1>9. s.i = Len(ops) + 1 /\ s.i - 1 = Len(ops)
    <2>1. s.i \in 1 .. Len(ops) + 1 /\ s.j \in 1 .. Len(sorted) + 1
      BY <1>8 DEF At, Merging
    <2> QED  BY <1>1, <1>8, <2>1 DEF n
  <1>10. s.only = {k \in 1 .. s.i - 1 : MissedAt(ops, sorted, k)}
    BY <1>8 DEF At
  <1> QED  BY <1>2, <1>9, <1>10 DEF s

----------------------------------------------------------------------------
(* SortedNodes: the CHOOSE has an enumeration to find.                     *)

\* Dispatchers that have nodes, in ascending order, each once.
Enumerates(s, n, L) ==
    /\ s \in [1 .. n -> L]
    /\ \A j, k \in 1 .. n :
          j < k => s[j] # s[k] /\ ~(dispatchers[s[k]].node < dispatchers[s[j]].node)

\* One that comes before all others extends an enumeration of them at its front.
LEMMA FrontEnumerates ==
    ASSUME NEW L, \A d \in L : dispatchers[d].node \in Nat,
           NEW first \in L, \A d \in L : dispatchers[first].node <= dispatchers[d].node,
           NEW q \in Nat, NEW r, Enumerates(r, q, L \ {first})
    PROVE  \E s : Enumerates(s, q + 1, L)
  <1> DEFINE s == [k \in 1 .. q + 1 |-> IF k = 1 THEN first ELSE r[k - 1]]
  <1>0. \A k \in 1 .. q : r[k] \in L /\ r[k] # first
    BY DEF Enumerates
  <1>1. \A k \in 1 .. q + 1 : k = 1 \/ k - 1 \in 1 .. q
    OBVIOUS
  <1>2. /\ \A k \in 1 .. q + 1 : k = 1 => s[k] = first
        /\ \A k \in 1 .. q + 1 : k # 1 => s[k] = r[k - 1]
        /\ s \in [1 .. q + 1 -> L]
    BY <1>0, <1>1
  <1> HIDE DEF s
  <1>3. ASSUME NEW j \in 1 .. q + 1, NEW k \in 1 .. q + 1, j < k
        PROVE  s[j] # s[k] /\ ~(dispatchers[s[k]].node < dispatchers[s[j]].node)
    <2>1. k # 1 /\ k - 1 \in 1 .. q /\ s[k] = r[k - 1]
      BY <1>1, <1>2, <1>3
    <2>2. CASE j = 1
      <3>1. s[j] = first /\ r[k - 1] \in L /\ r[k - 1] # first
        BY <1>0, <1>2, <2>1, <2>2
      <3>2. dispatchers[first].node <= dispatchers[r[k - 1]].node
            /\ dispatchers[first].node \in Nat /\ dispatchers[r[k - 1]].node \in Nat
        BY <3>1
      <3> QED  BY <2>1, <3>1, <3>2
    <2>3. CASE j # 1
      <3>1. j - 1 \in 1 .. q /\ s[j] = r[j - 1] /\ j - 1 < k - 1
        BY <1>1, <1>2, <1>3, <2>3
      <3> QED  BY <2>1, <3>1 DEF Enumerates
    <2> QED  BY <2>2, <2>3
  <1>4. Enumerates(s, q + 1, L)
    BY <1>2, <1>3 DEF Enumerates
  <1> QED  BY <1>4

LEMMA EnumerationsExist ==
    ASSUME NEW D, \A d \in D : dispatchers[d].node \in Nat, IsFiniteSet(D)
    PROVE  \E s : Enumerates(s, Cardinality(D), D)
  <1> DEFINE Able(q) == \A L \in SUBSET D :
                           IsFiniteSet(L) /\ Cardinality(L) = q => \E s : Enumerates(s, q, L)
             T == {q \in Nat : Able(q)}
  <1>1. Able(0)
    <2> SUFFICES ASSUME NEW L PROVE \E s : Enumerates(s, 0, L)
      OBVIOUS
    <2> DEFINE s == [k \in 1 .. 0 |-> CHOOSE d \in L : TRUE]
    <2>1. s \in [1 .. 0 -> L] /\ 1 .. 0 = {}
      OBVIOUS
    <2> HIDE DEF s
    <2>2. Enumerates(s, 0, L)
      BY <2>1 DEF Enumerates
    <2> QED  BY <2>2
  <1>2. ASSUME NEW q \in Nat, Able(q) PROVE Able(q + 1)
    <2> SUFFICES ASSUME NEW L \in SUBSET D, IsFiniteSet(L), Cardinality(L) = q + 1
                 PROVE  \E s : Enumerates(s, q + 1, L)
      OBVIOUS
    <2> DEFINE keys == {dispatchers[d].node : d \in L}
    <2>1. keys \in SUBSET Nat
      OBVIOUS
    <2>2. L # {}
      <3>1. q + 1 # 0
        OBVIOUS
      <3> QED  BY <3>1, FS_EmptySet
    <2>3. keys # {}
      BY <2>2
    <2>4. PICK least \in keys : \A j \in keys : least <= j
      <3> HIDE DEF keys
      <3> QED  BY <2>1, <2>3, LeastPlace
    <2>5. PICK first \in L : dispatchers[first].node = least
      BY <2>4
    <2>6. \A d \in L : dispatchers[first].node <= dispatchers[d].node
      BY <2>4, <2>5
    <2> DEFINE rest == L \ {first}
    <2>7. rest \in SUBSET D /\ IsFiniteSet(rest) /\ Cardinality(rest) = q
      <3>1. IsFiniteSet(rest) /\ Cardinality(rest) = Cardinality(L) - 1
        BY <2>5, FS_RemoveElement
      <3> QED  BY <3>1
    <2>8. PICK r : Enumerates(r, q, rest)
      <3> HIDE DEF rest
      <3> QED  BY <1>2, <2>7
    <2> HIDE DEF keys
    <2> QED  BY <2>5, <2>6, <2>8, FrontEnumerates
  <1> HIDE DEF Able
  <1>3. T = Nat
    <2>1. T \subseteq Nat /\ 0 \in T /\ \A q \in T : q + 1 \in T
      BY <1>1, <1>2
    <2> HIDE DEF T
    <2> QED  BY <2>1, Induction DEF Induced
  <1>4. Able(Cardinality(D))
    BY <1>3, FS_CardinalityType
  <1> QED  BY <1>4 DEF Able

PlacesOf(order, n, v) == {k \in 1 .. n : dispatchers[order[k]].node = v}

WithNode(D, v) == {d \in D : dispatchers[d].node = v}

\* An enumeration meets every dispatcher: as often as a node occurs in it, dispatchers
\* have that node.
LEMMA EnumerationCounts ==
    ASSUME NEW D, IsFiniteSet(D), NEW order, Enumerates(order, Cardinality(D), D),
           \A d \in D : dispatchers[d].node \in Nat, NEW v
    PROVE  Cardinality(PlacesOf(order, Cardinality(D), v)) = Cardinality(WithNode(D, v))
  <1> DEFINE n == Cardinality(D)
             P == {k \in 1 .. n : dispatchers[order[k]].node = v}
             Q == {d \in D : dispatchers[d].node = v}
             f == [k \in P |-> order[k]]
  <1>1. n \in Nat /\ IsFiniteSet(1 .. n) /\ Cardinality(1 .. n) = n
    <2>1. n \in Nat
      BY FS_CardinalityType
    <2> QED  BY <2>1, FS_Interval
  <1>2. order \in [1 .. n -> D] /\ \A j, k \in 1 .. n : order[j] = order[k] => j = k
    <2>1. \A j, k \in 1 .. n : j < k => order[j] # order[k]
      BY DEF Enumerates
    <2>2. order \in [1 .. n -> D]
      BY DEF Enumerates
    <2>3. \A j, k \in 1 .. n : j < k \/ k < j \/ j = k
      OBVIOUS
    <2> HIDE DEF n
    <2> QED  BY <2>1, <2>2, <2>3
  <1>3. order \in Injection(1 .. n, D)
    <2> HIDE DEF n
    <2> QED  BY <1>2 DEF Injection, IsInjective
  <1>4. order \in Surjection(1 .. n, D)
    BY <1>1, <1>3, FS_Injection
  <1>5. \A d \in D : \E k \in 1 .. n : order[k] = d
    BY <1>4 DEF Surjection
  <1>6. P \in SUBSET (1 .. n) /\ IsFiniteSet(P)
    <2>1. P \in SUBSET (1 .. n)
      OBVIOUS
    <2> HIDE DEF P
    <2> QED  BY <1>1, <2>1, FS_Subset
  <1> HIDE DEF n
  <1>7. f \in [P -> Q]
    BY <1>2
  <1>8. \A j, k \in P : f[j] = f[k] => j = k
    BY <1>2
  <1>9. \A d \in Q : \E k \in P : f[k] = d
    BY <1>5
  <1> HIDE DEF f, P, Q
  <1>10. f \in Bijection(P, Q)
    BY <1>7, <1>8, <1>9 DEF Bijection, Injection, IsInjective, Surjection
  <1>11. ExistsBijection(P, Q)
    BY <1>10 DEF ExistsBijection
  <1> QED  BY <1>6, <1>11, FS_Bijection DEF P, Q, n, PlacesOf, WithNode

\* What SortedNodes is, for a module whose dispatchers are finitely many.
Ascends(s) ==
    \A j, k \in DOMAIN s :
       j < k => s[j] # s[k] /\ ~(dispatchers[s[k]].node < dispatchers[s[j]].node)

SortedBy(m) == CHOOSE s \in [1 .. Cardinality(Listed(m)) -> Listed(m)] : Ascends(s)

LEMMA SortedByEnumerates ==
    ASSUME NEW m, IsFiniteSet(Listed(m)), \A d \in Listed(m) : dispatchers[d].node \in Nat
    PROVE  Enumerates(SortedBy(m), Cardinality(Listed(m)), Listed(m))
  <1> DEFINE S == [1 .. Cardinality(Listed(m)) -> Listed(m)]
  <1>1. PICK s : Enumerates(s, Cardinality(Listed(m)), Listed(m))
    BY EnumerationsExist
  <1>2. s \in S /\ Ascends(s)
    BY <1>1 DEF Enumerates, Ascends
  <1>3. SortedBy(m) \in S /\ Ascends(SortedBy(m))
    <2> HIDE DEF S
    <2>1. SortedBy(m) = CHOOSE t \in S : Ascends(t)
      BY Zenon DEF SortedBy, S
    <2> QED  BY <1>2, <2>1, Zenon
  <1> QED  BY <1>3 DEF Enumerates, Ascends

LEMMA SortedNodesAscend ==
    ASSUME NEW m, IsFiniteSet(Listed(m)), \A d \in Listed(m) : dispatchers[d].node \in Addresses
    PROVE  /\ Len(SortedNodes(m)) \in Nat
           /\ \A b \in 1 .. Len(SortedNodes(m)) : SortedNodes(m)[b] \in Addresses
           /\ Rising(SortedNodes(m))
           /\ \A v : Among(SortedNodes(m), Len(SortedNodes(m)), v)
                        = Cardinality(WithNode(Listed(m), v))
  <1> DEFINE n == Cardinality(Listed(m))
             order == SortedBy(m)
             found == SortedNodes(m)
  <1>1. \A a \in Addresses : a \in Nat /\ a # None
    BY AddressAssumption, NoneAssumption
  <1>2. Enumerates(order, n, Listed(m))
    BY <1>1, SortedByEnumerates
  <1>3. n \in Nat
    BY FS_CardinalityType
  <1>4. \A v : Cardinality(PlacesOf(order, n, v)) = Cardinality(WithNode(Listed(m), v))
    <2>1. \A d \in Listed(m) : dispatchers[d].node \in Nat
      BY <1>1
    <2> HIDE DEF order
    <2> SUFFICES ASSUME NEW v
                 PROVE  Cardinality(PlacesOf(order, n, v)) = Cardinality(WithNode(Listed(m), v))
      OBVIOUS
    <2> QED  BY <1>2, <2>1, EnumerationCounts
  <1>5. found = [k \in DOMAIN order |-> dispatchers[order[k]].node]
    BY Zenon DEF SortedNodes, SortedBy, Ascends
  <1> HIDE DEF n, order, found
  <1>6. order \in [1 .. n -> Listed(m)] /\ DOMAIN order = 1 .. n
    BY <1>2 DEF Enumerates
  <1>7. /\ found = [k \in 1 .. n |-> dispatchers[order[k]].node]
        /\ DOMAIN found = 1 .. n
        /\ \A k \in 1 .. n : found[k] = dispatchers[order[k]].node
        /\ \A k \in 1 .. n : found[k] \in Addresses
    BY <1>5, <1>6
  <1>8. Len(found) = n
    BY <1>3, <1>7
  <1>9. Rising(found)
    <2> SUFFICES ASSUME NEW b \in 1 .. n, NEW c \in 1 .. n, b <= c PROVE ~Less(found[c], found[b])
      BY <1>8 DEF Rising
    <2>1. found[b] \in Nat /\ found[c] \in Nat /\ found[b] # None /\ found[c] # None
      BY <1>1, <1>7
    <2>2. CASE b = c
      BY <2>1, <2>2 DEF Less
    <2>3. CASE b # c
      <3>1. b < c
        BY <2>3
      <3>2. ~(found[c] < found[b])
        BY <1>2, <1>7, <3>1 DEF Enumerates
      <3> QED  BY <2>1, <3>2 DEF Less
    <2> QED  BY <2>2, <2>3
  <1>10. ASSUME NEW v
         PROVE  Among(found, n, v) = Cardinality(WithNode(Listed(m), v))
    <2>1. Positions(found, n, v) = PlacesOf(order, n, v)
      BY <1>7 DEF Positions, PlacesOf
    <2> QED  BY <1>4, <2>1 DEF Among
  <1> QED  BY <1>3, <1>7, <1>8, <1>9, <1>10 DEF found

----------------------------------------------------------------------------
\* syncMetadata walks the operands of a named metadata node in their own order and the
\* nodes of the dispatchers sorted: the operands it reads are those that Missed tells
\* from the operands and the dispatchers alone, whatever the order.
THEOREM MergeExact == Spec => []MergeFindsTheMissed
  <1>1. ASSUME DispatchersInv PROVE MergeFindsTheMissed
    <2> SUFFICES ASSUME NEW m \in open, llmodule[m] # None
                 PROVE  FirstOnly(operands[llmodule[m]], SortedNodes(m)) = Missed(m)
      BY DEF MergeFindsTheMissed
    <2> DEFINE ops == operands[llmodule[m]]
               found == SortedNodes(m)
    <2>1. ops \in Seq(Pointers)
      BY <1>1 DEF DispatchersInv, Types, Keys, Wrapped, Pointers
    <2>2. IsFiniteSet(Listed(m))
      <3>1. Listed(m) \in SUBSET Objects
        BY <1>1 DEF DispatchersInv, Types, Listed
      <3> QED  BY <3>1, FiniteAssumption, FS_Subset
    <2>3. \A d \in Listed(m) : dispatchers[d].node \in Addresses
      BY <1>1 DEF DispatchersInv, Types, Listed
    <2>4. /\ Len(found) \in Nat
          /\ \A b \in 1 .. Len(found) : found[b] \in Addresses
          /\ Rising(found)
          /\ \A v : Among(found, Len(found), v) = Cardinality(WithNode(Listed(m), v))
      BY <2>2, <2>3, SortedNodesAscend
    <2>5. Missed(m) = {i \in DOMAIN ops :
              \/ \E j \in 1 .. i - 1 : Less(ops[i], ops[j])
              \/ Cardinality({j \in 1 .. i : ops[j] = ops[i]}) >
                    Cardinality({d \in Listed(m) : dispatchers[d].node = ops[i]})}
      BY Zenon DEF Missed
    <2> HIDE DEF ops, found
    <2>6. Ranges(ops, found)
      BY <2>1, <2>4 DEF Ranges, Pointers
    <2>7. FirstOnly(ops, found) = {k \in 1 .. Len(ops) : MissedAt(ops, found, k)}
      BY <2>6, MergeFinds
    <2>8. DOMAIN ops = 1 .. Len(ops)
      BY <2>1
    <2>9. ASSUME NEW k
          PROVE  MissedAt(ops, found, k) <=>
                    \/ \E j \in 1 .. k - 1 : Less(ops[k], ops[j])
                    \/ Cardinality({j \in 1 .. k : ops[j] = ops[k]}) >
                          Cardinality({d \in Listed(m) : dispatchers[d].node = ops[k]})
      BY <2>4, Zenon DEF MissedAt, Turned, Among, Positions, WithNode
    <2> QED  BY <2>5, <2>7, <2>8, <2>9, Zenon DEF ops, found
  <1> QED  BY DispatchersInvariant, <1>1, PTL

=============================================================================
