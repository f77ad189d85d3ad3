--------------------------- MODULE DispatchProofs ---------------------------
(***************************************************************************)
(* Proofs about Dispatch, for every number of classes, interfaces and      *)
(* methods. First the merge: what it finds in two sorted lists. Then the   *)
(* state: calls and implementations of a dispatcher, and kinds of classes, *)
(* determine each other. At the end, where the classes and the interfaces  *)
(* come from (ClassesFromABI).                                             *)
(***************************************************************************)
EXTENDS Dispatch, ClassesFromABI, FiniteSetTheorems, FunctionTheorems, WellFoundedInduction, TLAPS

----------------------------------------------------------------------------
\* Induction over numbers, for a set of numbers.
LEMMA Induction ==
    ASSUME NEW T \in SUBSET Nat, 0 \in T, \A k \in T : k + 1 \in T
    PROVE  T = Nat
  <1> DEFINE R == Nat \ T
  <1> SUFFICES ASSUME R # {} PROVE FALSE
    OBVIOUS
  <1>1. PICK k \in R : \A j \in R : ~(<<j, k>> \in OpToRel(<, Nat))
    BY WFMin, NatLessThanWellFounded, Zenon
  <1>2. k \in Nat /\ k # 0 /\ k - 1 \in Nat /\ k - 1 < k
    OBVIOUS
  <1>3. k - 1 \notin R
    BY <1>1, <1>2 DEF OpToRel
  <1>4. k = (k - 1) + 1
    BY <1>2
  <1> QED  BY <1>2, <1>3, <1>4

\* A loop that starts in a and does step[k] in its k-th turn has a history.
History(f, n, S, a, step) ==
    f \in [0 .. n -> S] /\ f[0] = a /\ \A k \in 1 .. n : f[k] = step[k][f[k - 1]]

LEMMA LoopExists ==
    ASSUME NEW n \in Nat, NEW S, NEW a \in S, NEW step \in [Nat -> [S -> S]]
    PROVE  \E f : History(f, n, S, a, step)
  <1> DEFINE T == {m \in Nat : \E f : History(f, m, S, a, step)}
  <1>1. 0 \in T
    <2> DEFINE z == [k \in 0 .. 0 |-> a]
    <2>1. z \in [0 .. 0 -> S] /\ z[0] = a /\ \A k \in 1 .. 0 : z[k] = step[k][z[k - 1]]
      OBVIOUS
    <2> HIDE DEF z
    <2> QED  BY <2>1 DEF History
  <1>2. ASSUME NEW m \in T PROVE m + 1 \in T
    <2>1. PICK f \in [0 .. m -> S] :
             f[0] = a /\ \A k \in 1 .. m : f[k] = step[k][f[k - 1]]
      BY DEF History
    <2> DEFINE g == [k \in 0 .. m + 1 |-> IF k = m + 1 THEN step[k][f[m]] ELSE f[k]]
    <2>2. g \in [0 .. m + 1 -> S]
      <3>1. step[m + 1] \in [S -> S] /\ f[m] \in S
        OBVIOUS
      <3>2. step[m + 1][f[m]] \in S
        BY <3>1
      <3> QED  BY <3>2
    <2>3. g[0] = a
      BY <2>1
    <2>4. ASSUME NEW k \in 1 .. m + 1 PROVE g[k] = step[k][g[k - 1]]
      BY <2>1
    <2> HIDE DEF g
    <2>5. m + 1 \in Nat
      OBVIOUS
    <2> QED  BY <2>2, <2>3, <2>4, <2>5 DEF History
  <1> HIDE DEF T
  <1>3. T = Nat
    BY <1>1, <1>2, Induction DEF T
  <1> QED  BY <1>3 DEF T

----------------------------------------------------------------------------
(* What the merge finds. The methods of one name stand together in a sorted*)
(* list; the merge pairs the first with the first, the second with the     *)
(* second and so on, until either list has no more of them.                *)

StartOf(s, a) == CHOOSE f \in 1 .. Len(s) : s[f] = s[a] /\ \A c \in 1 .. f - 1 : s[c] # s[a]

Partner(is, ms, a, b) ==
    /\ a \in 1 .. Len(is) /\ b \in 1 .. Len(ms)
    /\ is[a] = ms[b]
    /\ a - StartOf(is, a) = b - StartOf(ms, b)

Sorted(s) ==
    /\ Len(s) \in Nat
    /\ DOMAIN s = 1 .. Len(s)
    /\ \A a \in 1 .. Len(s) : s[a] \in Nat
    /\ \A a, b \in 1 .. Len(s) : a < b => s[a] <= s[b]

LEMMA ListsAreSorted ==
    ASSUME NEW s \in MethodLists
    PROVE  Sorted(s)
  <1>1. PICK n \in 0 .. MaxMethods : s \in [1 .. n -> MethodNames]
    BY DEF MethodLists
  <1>2. n \in Nat
    BY MethodAssumption
  <1>3. \A a \in 1 .. n : s[a] \in Nat
    BY <1>1, MethodAssumption
  <1>4. Len(s) = n /\ DOMAIN s = 1 .. n
    BY <1>1, <1>2
  <1>5. \A a, b \in 1 .. n : a < b => s[a] <= s[b]
    BY <1>4 DEF MethodLists, Ascending
  <1> QED  BY <1>2, <1>3, <1>4, <1>5 DEF Sorted

LEMMA StartOfRun ==
    ASSUME NEW s, Sorted(s), NEW a \in 1 .. Len(s)
    PROVE  /\ StartOf(s, a) \in 1 .. a
           /\ s[StartOf(s, a)] = s[a]
           /\ \A c \in 1 .. StartOf(s, a) - 1 : s[c] # s[a]
           /\ \A c \in StartOf(s, a) .. a : s[c] = s[a]
  <1> DEFINE T == {c \in 1 .. Len(s) : s[c] = s[a]}
  <1>1. T \in SUBSET Nat /\ a \in T /\ Len(s) \in Nat
    BY DEF Sorted
  <1>2. PICK f \in T : \A c \in T : ~(<<c, f>> \in OpToRel(<, Nat))
    BY <1>1, WFMin, NatLessThanWellFounded, Zenon
  <1>3. \A c \in 1 .. f - 1 : s[c] # s[a]
    <2> SUFFICES ASSUME NEW c \in 1 .. f - 1, s[c] = s[a] PROVE FALSE
      OBVIOUS
    <2>1. c \in T /\ c \in Nat /\ f \in Nat /\ c < f
      BY <1>1
    <2> QED  BY <1>2, <2>1 DEF OpToRel
  <1>4. \E g \in 1 .. Len(s) : s[g] = s[a] /\ \A c \in 1 .. g - 1 : s[c] # s[a]
    BY <1>3
  <1> DEFINE g == StartOf(s, a)
  <1>5. g \in 1 .. Len(s) /\ s[g] = s[a] /\ \A c \in 1 .. g - 1 : s[c] # s[a]
    BY <1>4, Zenon DEF StartOf
  <1> HIDE DEF g
  <1>6. g \in 1 .. a
    BY <1>1, <1>5
  <1>7. ASSUME NEW c \in g .. a PROVE s[c] = s[a]
    <2>1. c \in 1 .. Len(s) /\ g <= c /\ c <= a
      BY <1>1, <1>6
    <2>2. s[g] <= s[c] /\ s[c] <= s[a] /\ s[c] \in Nat /\ s[a] \in Nat
      BY <2>1, <1>5 DEF Sorted
    <2> QED  BY <2>2, <1>5
  <1> QED  BY <1>5, <1>6, <1>7 DEF g

\* In a list the methods of one name have one start.
LEMMA StartsAreOne ==
    ASSUME NEW s, NEW a, NEW b, s[a] = s[b]
    PROVE  StartOf(s, a) = StartOf(s, b)
  BY DEF StartOf

\* Where the list has no name twice every method is the first of its name.
LEMMA DistinctStarts ==
    ASSUME NEW s, Sorted(s), Distinct(s), NEW a \in 1 .. Len(s)
    PROVE  StartOf(s, a) = a
  <1>1. StartOf(s, a) \in 1 .. Len(s) /\ s[StartOf(s, a)] = s[a]
    <2>1. Len(s) \in Nat
      BY DEF Sorted
    <2> QED  BY <2>1, StartOfRun
  <1> QED  BY <1>1 DEF Distinct, Sorted

\* Every method has one partner at most.
LEMMA PartnersAreSingle ==
    ASSUME NEW is, Sorted(is), NEW ms, Sorted(ms),
           NEW a, NEW b, NEW c, NEW d, Partner(is, ms, a, b), Partner(is, ms, c, d)
    PROVE  a = c <=> b = d
  <1>1. /\ is[a] = is[c] => StartOf(is, a) = StartOf(is, c)
        /\ ms[b] = ms[d] => StartOf(ms, b) = StartOf(ms, d)
    BY StartsAreOne
  <1>2. /\ {a, c} \subseteq 1 .. Len(is) /\ {b, d} \subseteq 1 .. Len(ms)
        /\ Len(is) \in Nat /\ Len(ms) \in Nat
    BY DEF Partner, Sorted
  <1>3. /\ StartOf(is, a) \in 1 .. a /\ StartOf(is, c) \in 1 .. c
        /\ StartOf(ms, b) \in 1 .. b /\ StartOf(ms, d) \in 1 .. d
    BY <1>2, StartOfRun
  <1>4. /\ is[a] = ms[b] /\ a - StartOf(is, a) = b - StartOf(ms, b)
        /\ is[c] = ms[d] /\ c - StartOf(is, c) = d - StartOf(ms, d)
    BY DEF Partner
  <1>5. CASE a = c
    BY <1>1, <1>2, <1>3, <1>4, <1>5
  <1>6. CASE b = d
    BY <1>1, <1>2, <1>3, <1>4, <1>6
  <1> QED  BY <1>5, <1>6

----------------------------------------------------------------------------
\* The invariant of the merge: what stands before the positions is paired.
Positions(is, ms) == [i : 1 .. Len(is) + 1, j : 1 .. Len(ms) + 1,
                      pairs : SUBSET ((1 .. Len(is)) \X (1 .. Len(ms)))]

Merging(is, ms, s) ==
    /\ s \in Positions(is, ms)
    /\ \A a \in 1 .. Len(is), b \in 1 .. Len(ms) :
          /\ <<a, b>> \in s.pairs <=> Partner(is, ms, a, b) /\ a < s.i
          /\ Partner(is, ms, a, b) => (a < s.i <=> b < s.j)

Ended(is, ms, s) == s.i = Len(is) + 1 \/ s.j = Len(ms) + 1

\* Equal names that the merge meets are partners: were one further from the start
\* of its run than the other, then it or one before it would be the partner of a
\* method that the merge has passed, or is still to come to.
LEMMA EqualsArePartners ==
    ASSUME NEW is, Sorted(is), NEW ms, Sorted(ms), NEW s, Merging(is, ms, s),
           s.i <= Len(is), s.j <= Len(ms), is[s.i] = ms[s.j]
    PROVE  Partner(is, ms, s.i, s.j)
  <1> DEFINE i == s.i
             j == s.j
             f == StartOf(is, i)
             g == StartOf(ms, j)
  <1>1. /\ i \in 1 .. Len(is) /\ j \in 1 .. Len(ms) /\ Len(is) \in Nat /\ Len(ms) \in Nat
        /\ is[i] = ms[j]
    BY DEF Merging, Positions, Sorted
  <1>2. \A a \in 1 .. Len(is), b \in 1 .. Len(ms) : Partner(is, ms, a, b) => (a < i <=> b < j)
    BY DEF Merging
  <1> HIDE DEF i, j
  <1>3. /\ f \in 1 .. i /\ \A c \in f .. i : is[c] = is[i]
        /\ g \in 1 .. j /\ \A c \in g .. j : ms[c] = ms[j]
    BY <1>1, StartOfRun
  <1>4. \A c \in f .. i : c \in 1 .. Len(is) /\ StartOf(is, c) = f
    BY <1>1, <1>3, StartsAreOne
  <1>5. \A c \in g .. j : c \in 1 .. Len(ms) /\ StartOf(ms, c) = g
    BY <1>1, <1>3, StartsAreOne
  <1> HIDE DEF f, g
  <1>6. CASE i - f > j - g
    <2> DEFINE a == f + (j - g)
    <2>1. a \in f .. i /\ a < i /\ a - f = j - g
      BY <1>1, <1>3, <1>6
    <2>2. Partner(is, ms, a, j)
      <3>1. StartOf(is, a) = f /\ StartOf(ms, j) = g /\ is[a] = ms[j]
        BY <1>1, <1>3, <1>4, <2>1 DEF g
      <3>2. a \in 1 .. Len(is)
        BY <2>1, <1>4
      <3> HIDE DEF a
      <3> QED  BY <1>1, <2>1, <3>1, <3>2 DEF Partner
    <2> QED  BY <1>1, <1>2, <1>4, <2>1, <2>2
  <1>7. CASE j - g > i - f
    <2> DEFINE b == g + (i - f)
    <2>1. b \in g .. j /\ b < j /\ b - g = i - f
      BY <1>1, <1>3, <1>7
    <2>2. Partner(is, ms, i, b)
      <3>1. StartOf(ms, b) = g /\ StartOf(is, i) = f /\ ms[b] = is[i]
        BY <1>1, <1>3, <1>5, <2>1 DEF f
      <3>2. b \in 1 .. Len(ms)
        BY <2>1, <1>5
      <3> HIDE DEF b
      <3> QED  BY <1>1, <2>1, <3>1, <3>2 DEF Partner
    <2> QED  BY <1>1, <1>2, <1>5, <2>1, <2>2
  <1>8. CASE i - f = j - g
    BY <1>1, <1>8 DEF Partner, f, g, i, j
  <1>9. i - f \in Int /\ j - g \in Int
    BY <1>1, <1>3
  <1> QED  BY <1>6, <1>7, <1>8, <1>9

\* A turn keeps the invariant, and brings the positions on until the merge ends.
LEMMA TurnMerges ==
    ASSUME NEW is, Sorted(is), NEW ms, Sorted(ms), NEW s, Merging(is, ms, s)
    PROVE  /\ Merging(is, ms, Turn(is, ms, s))
           /\ Ended(is, ms, s) => Turn(is, ms, s) = s
           /\ ~Ended(is, ms, s) => Turn(is, ms, s).i + Turn(is, ms, s).j > s.i + s.j
  <1> DEFINE t == Turn(is, ms, s)
  <1>1. /\ s.i \in 1 .. Len(is) + 1 /\ s.j \in 1 .. Len(ms) + 1
        /\ s.pairs \subseteq (1 .. Len(is)) \X (1 .. Len(ms))
        /\ s = [i |-> s.i, j |-> s.j, pairs |-> s.pairs]
        /\ Len(is) \in Nat /\ Len(ms) \in Nat
    BY DEF Merging, Positions, Sorted
  <1>2. \A a \in 1 .. Len(is), b \in 1 .. Len(ms) :
           /\ <<a, b>> \in s.pairs <=> Partner(is, ms, a, b) /\ a < s.i
           /\ Partner(is, ms, a, b) => (a < s.i <=> b < s.j)
    BY DEF Merging
  <1>3. CASE Ended(is, ms, s)
    BY <1>1, <1>3 DEF Ended, Turn
  <1>4. CASE ~Ended(is, ms, s)
    <2>1. s.i \in 1 .. Len(is) /\ s.j \in 1 .. Len(ms) /\ ~(s.i > Len(is)) /\ ~(s.j > Len(ms))
      BY <1>1, <1>4 DEF Ended
    <2>2. is[s.i] \in Nat /\ ms[s.j] \in Nat
      BY <2>1 DEF Sorted
    <2>3. CASE is[s.i] < ms[s.j]
      <3>1. t = [i |-> s.i + 1, j |-> s.j, pairs |-> s.pairs]
        BY <1>1, <2>1, <2>3 DEF Turn
      <3>2. ASSUME NEW b \in 1 .. Len(ms), Partner(is, ms, s.i, b) PROVE FALSE
        <4>0. ~(s.i < s.i)
          BY <1>1
        <4>1. ~(b < s.j)
          BY <1>2, <2>1, <3>2, <4>0
        <4>2. ms[s.j] <= ms[b] /\ is[s.i] = ms[b] /\ ms[b] \in Nat
          <5>1. b = s.j \/ s.j < b
            BY <4>1, <1>1
          <5> QED  BY <5>1, <2>1, <3>2 DEF Sorted, Partner
        <4> QED  BY <4>2, <2>2, <2>3
      <3>3. t \in Positions(is, ms)
        BY <1>1, <2>1, <3>1 DEF Positions
      <3>4. t.i = s.i + 1 /\ t.j = s.j /\ t.pairs = s.pairs
        BY <3>1
      <3> HIDE DEF t
      <3>5. ASSUME NEW a \in 1 .. Len(is), NEW b \in 1 .. Len(ms)
            PROVE  /\ <<a, b>> \in t.pairs <=> Partner(is, ms, a, b) /\ a < t.i
                   /\ Partner(is, ms, a, b) => (a < t.i <=> b < t.j)
        <4>1. a < t.i <=> a < s.i \/ a = s.i
          BY <3>4, <1>1
        <4> QED  BY <4>1, <1>2, <3>2, <3>4
      <3>6. t.i + t.j > s.i + s.j
        BY <3>4, <1>1
      <3> QED  BY <1>4, <3>3, <3>5, <3>6 DEF Merging, t
    <2>4. CASE ms[s.j] < is[s.i]
      <3>1. t = [i |-> s.i, j |-> s.j + 1, pairs |-> s.pairs]
        BY <1>1, <2>1, <2>2, <2>4 DEF Turn
      <3>2. ASSUME NEW a \in 1 .. Len(is), Partner(is, ms, a, s.j) PROVE FALSE
        <4>0. ~(s.j < s.j)
          BY <1>1
        <4>1. ~(a < s.i)
          BY <1>2, <2>1, <3>2, <4>0
        <4>2. is[s.i] <= is[a] /\ is[a] = ms[s.j] /\ is[a] \in Nat
          <5>1. a = s.i \/ s.i < a
            BY <4>1, <1>1
          <5> QED  BY <5>1, <2>1, <3>2 DEF Sorted, Partner
        <4> QED  BY <4>2, <2>2, <2>4
      <3>3. t \in Positions(is, ms)
        BY <1>1, <2>1, <3>1 DEF Positions
      <3>4. t.i = s.i /\ t.j = s.j + 1 /\ t.pairs = s.pairs
        BY <3>1
      <3> HIDE DEF t
      <3>5. ASSUME NEW a \in 1 .. Len(is), NEW b \in 1 .. Len(ms)
            PROVE  /\ <<a, b>> \in t.pairs <=> Partner(is, ms, a, b) /\ a < t.i
                   /\ Partner(is, ms, a, b) => (a < t.i <=> b < t.j)
        <4>1. b < t.j <=> b < s.j \/ b = s.j
          BY <3>4, <1>1
        <4> QED  BY <4>1, <1>2, <3>2, <3>4
      <3>6. t.i + t.j > s.i + s.j
        BY <3>4, <1>1
      <3> QED  BY <1>4, <3>3, <3>5, <3>6 DEF Merging, t
    <2>5. CASE is[s.i] = ms[s.j]
      <3>1. t = [i |-> s.i + 1, j |-> s.j + 1, pairs |-> s.pairs \cup {<<s.i, s.j>>}]
        BY <1>1, <2>1, <2>2, <2>5 DEF Turn
      <3>2. Partner(is, ms, s.i, s.j)
        BY <1>1, <2>1, <2>5, EqualsArePartners
      <3>3. t \in Positions(is, ms)
        BY <1>1, <2>1, <3>1 DEF Positions
      <3>4. t.i = s.i + 1 /\ t.j = s.j + 1 /\ t.pairs = s.pairs \cup {<<s.i, s.j>>}
        BY <3>1
      <3> HIDE DEF t
      <3>5. ASSUME NEW a \in 1 .. Len(is), NEW b \in 1 .. Len(ms)
            PROVE  /\ <<a, b>> \in t.pairs <=> Partner(is, ms, a, b) /\ a < t.i
                   /\ Partner(is, ms, a, b) => (a < t.i <=> b < t.j)
        <4>1. /\ a < t.i <=> a < s.i \/ a = s.i
              /\ b < t.j <=> b < s.j \/ b = s.j
          BY <3>4, <1>1
        <4>2. Partner(is, ms, a, b) => (a = s.i <=> b = s.j)
          BY <3>2, PartnersAreSingle
        <4>3. <<a, b>> \in t.pairs <=> <<a, b>> \in s.pairs \/ (a = s.i /\ b = s.j)
          BY <3>4
        <4> QED  BY <4>1, <4>2, <4>3, <1>2, <3>2
      <3>6. t.i + t.j > s.i + s.j
        BY <3>4, <1>1
      <3> QED  BY <1>4, <3>3, <3>5, <3>6 DEF Merging, t
    <2> QED  BY <2>2, <2>3, <2>4, <2>5
  <1> QED  BY <1>3, <1>4

\* What the merge of insertImplementation and doesImplement finds.
LEMMA PairsArePartners ==
    ASSUME NEW is, Sorted(is), NEW ms, Sorted(ms)
    PROVE  /\ Pairs(is, ms) \subseteq (1 .. Len(is)) \X (1 .. Len(ms))
           /\ \A a, b : <<a, b>> \in Pairs(is, ms) <=> Partner(is, ms, a, b)
  <1> DEFINE n == Len(is) + Len(ms)
             start == [i |-> 1, j |-> 1, pairs |-> {}]
             S == {s \in Positions(is, ms) : Merging(is, ms, s)}
             step == [k \in Nat |-> [s \in S |-> Turn(is, ms, s)]]
             after == CHOOSE f : f = [k \in 0 .. n |->
                                        IF k = 0 THEN start ELSE Turn(is, ms, f[k - 1])]
  <1>1. Len(is) \in Nat /\ Len(ms) \in Nat /\ n \in Nat
    BY DEF Sorted
  <1>2. start \in S
    <2>1. start \in Positions(is, ms)
      BY <1>1 DEF Positions
    <2>2. \A a \in 1 .. Len(is), b \in 1 .. Len(ms) : ~(a < 1) /\ ~(b < 1)
      BY <1>1
    <2> QED  BY <2>1, <2>2 DEF Merging
  <1>3. step \in [Nat -> [S -> S]]
    <2>1. \A s \in S : Turn(is, ms, s) \in S
      BY TurnMerges DEF Merging
    <2> QED  BY <2>1
  <1>4. PICK g : g \in [0 .. n -> S] /\ g[0] = start
                 /\ \A k \in 1 .. n : g[k] = step[k][g[k - 1]]
    <2> HIDE DEF S, start, step, n, after
    <2>1. \E g : History(g, n, S, start, step)
      BY <1>1, <1>2, <1>3, LoopExists
    <2> QED  BY <2>1 DEF History
  <1>5. g = [k \in 0 .. n |-> IF k = 0 THEN start ELSE Turn(is, ms, g[k - 1])]
    <2>1. ASSUME NEW k \in 0 .. n, k # 0
          PROVE  g[k] = Turn(is, ms, g[k - 1])
      <3>1. k \in 1 .. n /\ k \in Nat /\ k - 1 \in 0 .. n
        BY <1>1, <2>1
      <3>2. g[k - 1] \in S
        <4> HIDE DEF S, start, step, n, after
        <4> QED  BY <1>4, <3>1
      <3> QED  BY <1>4, <3>1, <3>2
    <2> HIDE DEF S, start, step, n, after
    <2> QED  BY <1>4, <2>1
  <1>6. after = [k \in 0 .. n |-> IF k = 0 THEN start ELSE Turn(is, ms, after[k - 1])]
    BY <1>5, Zenon
  <1>7. Pairs(is, ms) = after[n].pairs
    BY DEF Pairs
  <1> HIDE DEF after
  <1> DEFINE T == {k \in Nat : k <= n =>
                      /\ after[k] \in S
                      /\ Ended(is, ms, after[k]) \/ after[k].i + after[k].j >= k + 2}
  <1>8. 0 \in T
    <2>1. after[0] = start
      BY <1>1, <1>6
    <2> QED  BY <1>2, <2>1
  <1>9. ASSUME NEW k \in T PROVE k + 1 \in T
    <2> SUFFICES ASSUME k + 1 <= n
                 PROVE  /\ after[k + 1] \in S
                        /\ \/ Ended(is, ms, after[k + 1])
                           \/ after[k + 1].i + after[k + 1].j >= (k + 1) + 2
      OBVIOUS
    <2>1. /\ after[k] \in S /\ k \in Nat
          /\ Ended(is, ms, after[k]) \/ after[k].i + after[k].j >= k + 2
      BY <1>1
    <2>2. after[k + 1] = Turn(is, ms, after[k])
      <3>1. k + 1 \in 0 .. n /\ k + 1 # 0 /\ (k + 1) - 1 = k
        BY <1>1
      <3> QED  BY <1>6, <3>1
    <2>3. /\ Merging(is, ms, after[k + 1])
          /\ Ended(is, ms, after[k]) => after[k + 1] = after[k]
          /\ ~Ended(is, ms, after[k]) =>
                after[k + 1].i + after[k + 1].j > after[k].i + after[k].j
      BY <2>1, <2>2, TurnMerges
    <2>4. after[k + 1] \in S
      BY <2>3 DEF Merging
    <2>5. /\ after[k].i \in Nat /\ after[k].j \in Nat
          /\ after[k + 1].i \in Nat /\ after[k + 1].j \in Nat
      BY <2>1, <2>4 DEF Positions
    <2> HIDE DEF n, S
    <2>6. CASE Ended(is, ms, after[k])
      BY <2>3, <2>4, <2>6
    <2>7. CASE ~Ended(is, ms, after[k])
      <3>1. after[k].i + after[k].j >= k + 2
        BY <2>1, <2>7
      <3>2. after[k + 1].i + after[k + 1].j > after[k].i + after[k].j
        BY <2>3, <2>7
      <3>3. after[k + 1].i + after[k + 1].j >= (k + 1) + 2
        BY <2>1, <2>5, <3>1, <3>2
      <3> QED  BY <2>4, <3>3
    <2> QED  BY <2>6, <2>7
  <1>10. T = Nat
    <2> HIDE DEF T
    <2>1. T \in SUBSET Nat
      BY DEF T
    <2> QED  BY <1>8, <1>9, <2>1, Induction
  <1>11. after[n] \in S /\ Ended(is, ms, after[n])
    <2>1. n \in T
      BY <1>1, <1>10
    <2>2. after[n] \in S /\ (Ended(is, ms, after[n]) \/ after[n].i + after[n].j >= n + 2)
      BY <2>1, <1>1
    <2>3. after[n].i \in 1 .. Len(is) + 1 /\ after[n].j \in 1 .. Len(ms) + 1
      BY <2>2 DEF Positions
    <2> QED  BY <1>1, <2>2, <2>3 DEF Ended
  <1>12. Pairs(is, ms) \subseteq (1 .. Len(is)) \X (1 .. Len(ms))
    BY <1>7, <1>11 DEF Positions
  <1>13. ASSUME NEW a \in 1 .. Len(is), NEW b \in 1 .. Len(ms)
         PROVE  <<a, b>> \in Pairs(is, ms) <=> Partner(is, ms, a, b)
    <2>1. /\ <<a, b>> \in after[n].pairs <=> Partner(is, ms, a, b) /\ a < after[n].i
          /\ Partner(is, ms, a, b) => (a < after[n].i <=> b < after[n].j)
      BY <1>11 DEF Merging
    <2>2. a < after[n].i \/ b < after[n].j
      BY <1>1, <1>11 DEF Ended
    <2> QED  BY <1>7, <2>1, <2>2
  <1> QED  BY <1>12, <1>13 DEF Partner

\* What the merge of the lists of two components of the state finds.
LEMMA PairsOfLists ==
    ASSUME NEW is \in MethodLists, NEW ms \in MethodLists
    PROVE  /\ Sorted(is) /\ Sorted(ms)
           /\ Pairs(is, ms) \subseteq (1 .. Len(is)) \X (1 .. Len(ms))
           /\ \A a, b : <<a, b>> \in Pairs(is, ms) <=> Partner(is, ms, a, b)
  BY ListsAreSorted, PairsArePartners

----------------------------------------------------------------------------
(* Counting. A pair for every method that has a partner, in either list; and*)
(* a method has a partner when the other list has its name often enough.   *)

LEMMA SameCount ==
    ASSUME NEW S, NEW T, IsFiniteSet(S), NEW f \in [S -> T],
           \A a, b \in S : f[a] = f[b] => a = b, \A t \in T : \E a \in S : f[a] = t
    PROVE  IsFiniteSet(T) /\ Cardinality(T) = Cardinality(S)
  <1>1. f \in Surjection(S, T) /\ f \in Injection(S, T)
    BY DEF Surjection, Injection, IsInjective
  <1> QED  BY <1>1, FS_Surjection, Zenon

Paired(is, ms)   == {a \in 1 .. Len(is) : \E b : Partner(is, ms, a, b)}
PairedTo(is, ms) == {b \in 1 .. Len(ms) : \E a : Partner(is, ms, a, b)}

LEMMA PairsAreCounted ==
    ASSUME NEW is \in MethodLists, NEW ms \in MethodLists
    PROVE  /\ IsFiniteSet(Pairs(is, ms))
           /\ IsFiniteSet(Paired(is, ms)) /\ IsFiniteSet(PairedTo(is, ms))
           /\ Cardinality(Pairs(is, ms)) = Cardinality(Paired(is, ms))
           /\ Cardinality(Pairs(is, ms)) = Cardinality(PairedTo(is, ms))
  <1> DEFINE P == Pairs(is, ms)
             A == Paired(is, ms)
             B == PairedTo(is, ms)
             f == [p \in P |-> p[1]]
             g == [p \in P |-> p[2]]
  <1>1. /\ Sorted(is) /\ Sorted(ms)
        /\ P \subseteq (1 .. Len(is)) \X (1 .. Len(ms))
        /\ \A a, b : <<a, b>> \in P <=> Partner(is, ms, a, b)
    BY PairsOfLists
  <1> HIDE DEF P
  <1>2. \A p \in P : /\ p = <<p[1], p[2]>> /\ Partner(is, ms, p[1], p[2])
                     /\ p[1] \in A /\ p[2] \in B
    <2> SUFFICES ASSUME NEW p \in P
                 PROVE  /\ p = <<p[1], p[2]>> /\ Partner(is, ms, p[1], p[2])
                        /\ p[1] \in A /\ p[2] \in B
      OBVIOUS
    <2>1. p = <<p[1], p[2]>> /\ p[1] \in 1 .. Len(is) /\ p[2] \in 1 .. Len(ms)
      BY <1>1
    <2>2. Partner(is, ms, p[1], p[2])
      BY <1>1, <2>1, Zenon
    <2> QED  BY <2>1, <2>2 DEF Paired, PairedTo
  <1>3. IsFiniteSet(P)
    <2>1. Len(is) \in Nat /\ Len(ms) \in Nat
      BY <1>1 DEF Sorted
    <2>2. IsFiniteSet(1 .. Len(is)) /\ IsFiniteSet(1 .. Len(ms))
      BY <2>1, FS_Interval
    <2>3. IsFiniteSet((1 .. Len(is)) \X (1 .. Len(ms)))
      BY <2>2, FS_Product
    <2> QED  BY <1>1, <2>3, FS_Subset
  <1>4. f \in [P -> A] /\ g \in [P -> B]
    BY <1>2
  <1>5. \A p, q \in P : (f[p] = f[q] => p = q) /\ (g[p] = g[q] => p = q)
    <2> SUFFICES ASSUME NEW p \in P, NEW q \in P
                 PROVE  (p[1] = q[1] => p = q) /\ (p[2] = q[2] => p = q)
      OBVIOUS
    <2>1. p[1] = q[1] <=> p[2] = q[2]
      BY <1>1, <1>2, PartnersAreSingle
    <2> QED  BY <1>2, <2>1
  <1>6. /\ \A a \in A : \E p \in P : f[p] = a
        /\ \A b \in B : \E p \in P : g[p] = b
    <2>1. ASSUME NEW a \in A PROVE \E p \in P : f[p] = a
      <3>1. PICK b : Partner(is, ms, a, b)
        BY DEF Paired
      <3>2. <<a, b>> \in P /\ f[<<a, b>>] = a
        BY <1>1, <3>1
      <3> QED  BY <3>2
    <2>2. ASSUME NEW b \in B PROVE \E p \in P : g[p] = b
      <3>1. PICK a : Partner(is, ms, a, b)
        BY DEF PairedTo
      <3>2. <<a, b>> \in P /\ g[<<a, b>>] = b
        BY <1>1, <3>1
      <3> QED  BY <3>2
    <2> QED  BY <2>1, <2>2
  <1> HIDE DEF f, g, A, B
  <1>7. IsFiniteSet(A) /\ Cardinality(A) = Cardinality(P)
    BY <1>3, <1>4, <1>5, <1>6, SameCount
  <1>8. IsFiniteSet(B) /\ Cardinality(B) = Cardinality(P)
    BY <1>3, <1>4, <1>5, <1>6, SameCount
  <1> QED  BY <1>3, <1>7, <1>8 DEF A, B, P

\* Every method of the interface is paired when there are as many pairs.
LEMMA AllPaired ==
    ASSUME NEW is \in MethodLists, NEW ms \in MethodLists
    PROVE  Cardinality(Pairs(is, ms)) = Len(is) <=> Paired(is, ms) = 1 .. Len(is)
  <1>1. Len(is) \in Nat
    BY ListsAreSorted DEF Sorted
  <1>2. IsFiniteSet(1 .. Len(is)) /\ Cardinality(1 .. Len(is)) = Len(is)
    <2> DEFINE n == Len(is)
    <2> HIDE DEF n
    <2>1. n \in Nat /\ 1 \in Int /\ n \in Int
      BY <1>1 DEF n
    <2>2. IsFiniteSet(1 .. n) /\ Cardinality(1 .. n) = IF 1 > n THEN 0 ELSE n - 1 + 1
      BY <2>1, FS_Interval, Zenon
    <2>3. Cardinality(1 .. n) = n
      BY <2>1, <2>2
    <2> QED  BY <2>2, <2>3 DEF n
  <1>3. Paired(is, ms) \in SUBSET (1 .. Len(is))
    BY DEF Paired
  <1>4. Cardinality(1 .. Len(is)) = Cardinality(Paired(is, ms)) => 1 .. Len(is) = Paired(is, ms)
    BY <1>2, <1>3, FS_Subset
  <1> QED  BY <1>2, <1>4, PairsAreCounted

\* The methods of one name stand together, from the start of their run.
LEMMA RunIsInterval ==
    ASSUME NEW s, Sorted(s), NEW a \in 1 .. Len(s)
    PROVE  \E l \in a .. Len(s) :
              /\ Occurrences(s, s[a]) = StartOf(s, a) .. l
              /\ IsFiniteSet(Occurrences(s, s[a]))
              /\ Cardinality(Occurrences(s, s[a])) = l - StartOf(s, a) + 1
              /\ \A c \in StartOf(s, a) .. l : StartOf(s, c) = StartOf(s, a)
  <1> DEFINE n == Len(s)
             O == Occurrences(s, s[a])
             f == StartOf(s, a)
             T == {n - c : c \in O}
  <1>1. n \in Nat /\ a \in Nat /\ O = {c \in 1 .. n : s[c] = s[a]} /\ a \in O
    BY DEF Sorted, Occurrences
  <1>2. T \in SUBSET Nat /\ n - a \in T
    BY <1>1
  <1>3. PICK d \in T : \A c \in T : ~(<<c, d>> \in OpToRel(<, Nat))
    BY <1>2, WFMin, NatLessThanWellFounded, Zenon
  <1>4. PICK l \in O : d = n - l
    OBVIOUS
  <1>5. \A c \in O : c <= l
    <2> SUFFICES ASSUME NEW c \in O, ~(c <= l) PROVE FALSE
      OBVIOUS
    <2>1. n - c \in T /\ n - c \in Nat /\ d \in Nat /\ n - c < d
      BY <1>1, <1>4
    <2> QED  BY <1>3, <2>1 DEF OpToRel
  <1>6. f \in 1 .. a /\ s[f] = s[a] /\ \A c \in 1 .. f - 1 : s[c] # s[a]
    BY StartOfRun
  <1> HIDE DEF f, T
  <1>7. l \in a .. n /\ s[l] = s[a]
    BY <1>1, <1>5
  <1>8. O = f .. l
    <2>1. ASSUME NEW c \in f .. l PROVE c \in O
      <3>1. c \in 1 .. n /\ f <= c /\ c <= l /\ f \in 1 .. n /\ l \in 1 .. n
        BY <1>1, <1>6, <1>7
      <3>2. s[f] <= s[c] /\ s[c] <= s[l]
        BY <3>1 DEF Sorted
      <3>3. s[c] \in Nat /\ s[a] \in Nat
        BY <3>1, <1>1 DEF Sorted
      <3> QED  BY <1>1, <1>6, <1>7, <3>1, <3>2, <3>3
    <2>2. ASSUME NEW c \in O PROVE c \in f .. l
      BY <1>1, <1>5, <1>6, <1>7
    <2> QED  BY <2>1, <2>2
  <1>9. IsFiniteSet(f .. l) /\ Cardinality(f .. l) = l - f + 1
    <2>1. f \in Int /\ l \in Int /\ ~(f > l)
      BY <1>1, <1>6, <1>7
    <2>2. IsFiniteSet(f .. l) /\ Cardinality(f .. l) = IF f > l THEN 0 ELSE l - f + 1
      BY <2>1, FS_Interval, Zenon
    <2> QED  BY <2>1, <2>2
  <1>10. \A c \in f .. l : StartOf(s, c) = f
    <2> SUFFICES ASSUME NEW c \in f .. l PROVE StartOf(s, c) = f
      OBVIOUS
    <2>1. s[c] = s[a]
      BY <1>1, <1>8
    <2> QED  BY <2>1, StartsAreOne DEF f
  <1> QED  BY <1>7, <1>8, <1>9, <1>10 DEF f

\* A method has a partner when the other list has more of its name than there
\* are before it in its own.
LEMMA PartnerIfEnough ==
    ASSUME NEW is \in MethodLists, NEW ms \in MethodLists, NEW a \in 1 .. Len(is)
    PROVE  a \in Paired(is, ms) <=>
              Cardinality(Occurrences(ms, is[a])) > a - StartOf(is, a)
  <1>1. Sorted(is) /\ Sorted(ms)
    BY ListsAreSorted
  <1>2. Len(is) \in Nat /\ Len(ms) \in Nat /\ StartOf(is, a) \in 1 .. a /\ a \in Nat
    <2>1. StartOf(is, a) \in 1 .. a
      BY <1>1, StartOfRun
    <2> QED  BY <1>1, <2>1 DEF Sorted
  <1>3. ASSUME NEW b, Partner(is, ms, a, b)
        PROVE  Cardinality(Occurrences(ms, is[a])) > a - StartOf(is, a)
    <2>1. b \in 1 .. Len(ms) /\ ms[b] = is[a] /\ a - StartOf(is, a) = b - StartOf(ms, b)
      BY <1>3 DEF Partner
    <2>2. PICK l \in b .. Len(ms) : Cardinality(Occurrences(ms, ms[b])) = l - StartOf(ms, b) + 1
      BY <1>1, <2>1, RunIsInterval
    <2>3. StartOf(ms, b) \in 1 .. b
      BY <1>1, <2>1, StartOfRun
    <2> QED  BY <1>2, <2>1, <2>2, <2>3
  <1>4. ASSUME Cardinality(Occurrences(ms, is[a])) > a - StartOf(is, a)
        PROVE  \E b : Partner(is, ms, a, b)
    <2>1. PICK c \in 1 .. Len(ms) : ms[c] = is[a]
      <3>1. Occurrences(ms, is[a]) # {}
        <4>1. Cardinality(Occurrences(ms, is[a])) # 0
          BY <1>2, <1>4
        <4> QED  BY <4>1, FS_EmptySet
      <3> QED  BY <1>1, <3>1 DEF Occurrences, Sorted
    <2> DEFINE g == StartOf(ms, c)
               b == g + (a - StartOf(is, a))
    <2>2. PICK l \in c .. Len(ms) :
             /\ Occurrences(ms, ms[c]) = g .. l
             /\ Cardinality(Occurrences(ms, ms[c])) = l - g + 1
             /\ \A d \in g .. l : StartOf(ms, d) = g
      BY <1>1, <2>1, RunIsInterval
    <2>3. g \in 1 .. c
      BY <1>1, <2>1, StartOfRun
    <2> HIDE DEF g
    <2>4. b \in g .. l /\ b - g = a - StartOf(is, a)
      BY <1>2, <1>4, <2>1, <2>2, <2>3
    <2> HIDE DEF b
    <2>5. b \in 1 .. Len(ms) /\ ms[b] = is[a] /\ StartOf(ms, b) = g
      BY <1>1, <2>1, <2>2, <2>4 DEF Occurrences, Sorted
    <2> QED  BY <2>4, <2>5 DEF Partner
  <1> QED  BY <1>3, <1>4 DEF Paired

\* doesImplement, a merge of two sorted lists, is inclusion with multiplicity.
LEMMA MergeIsInclusion ==
    ASSUME NEW is \in MethodLists, NEW ms \in MethodLists
    PROVE  Cardinality(Pairs(is, ms)) = Len(is) <=>
              \A m \in MethodNames :
                 Cardinality(Occurrences(is, m)) <= Cardinality(Occurrences(ms, m))
  <1>1. Sorted(is) /\ Sorted(ms) /\ Len(is) \in Nat /\ Len(ms) \in Nat
    BY ListsAreSorted DEF Sorted
  <1>2. \A m : Cardinality(Occurrences(ms, m)) \in Nat
    <2> SUFFICES ASSUME NEW m PROVE Cardinality(Occurrences(ms, m)) \in Nat
      OBVIOUS
    <2>1. IsFiniteSet(1 .. Len(ms))
      BY <1>1, FS_Interval
    <2>2. Occurrences(ms, m) \in SUBSET (1 .. Len(ms))
      BY <1>1 DEF Sorted, Occurrences
    <2> QED  BY <2>1, <2>2, FS_Subset, FS_CardinalityType
  <1>3. ASSUME Paired(is, ms) = 1 .. Len(is), NEW m \in MethodNames
        PROVE  Cardinality(Occurrences(is, m)) <= Cardinality(Occurrences(ms, m))
    <2>1. CASE Occurrences(is, m) = {}
      BY <1>2, <2>1, FS_EmptySet
    <2>2. CASE Occurrences(is, m) # {}
      <3>1. PICK a \in 1 .. Len(is) : is[a] = m
        BY <1>1, <2>2 DEF Occurrences, Sorted
      <3>2. PICK l \in a .. Len(is) :
               /\ Occurrences(is, m) = StartOf(is, a) .. l
               /\ Cardinality(Occurrences(is, m)) = l - StartOf(is, a) + 1
               /\ \A c \in StartOf(is, a) .. l : StartOf(is, c) = StartOf(is, a)
        BY <1>1, <3>1, RunIsInterval
      <3>3. StartOf(is, a) \in 1 .. a
        BY <1>1, StartOfRun
      <3>4. l \in StartOf(is, a) .. l /\ l \in 1 .. Len(is) /\ StartOf(is, a) \in Nat /\ l \in Nat
        BY <1>1, <3>3
      <3>5. is[l] = m /\ StartOf(is, l) = StartOf(is, a)
        BY <3>2, <3>4 DEF Occurrences
      <3>6. Cardinality(Occurrences(ms, is[l])) > l - StartOf(is, l)
        BY <1>3, <3>4, PartnerIfEnough
      <3> QED  BY <1>2, <3>2, <3>4, <3>5, <3>6
    <2> QED  BY <2>1, <2>2
  <1>4. ASSUME \A m \in MethodNames :
                  Cardinality(Occurrences(is, m)) <= Cardinality(Occurrences(ms, m)),
               NEW a \in 1 .. Len(is)
        PROVE  a \in Paired(is, ms)
    <2>1. is[a] \in MethodNames
      BY DEF MethodLists
    <2>2. PICK l \in a .. Len(is) :
             Cardinality(Occurrences(is, is[a])) = l - StartOf(is, a) + 1
      BY <1>1, RunIsInterval
    <2>3. StartOf(is, a) \in 1 .. a
      BY <1>1, StartOfRun
    <2>4. Cardinality(Occurrences(ms, is[a])) > a - StartOf(is, a)
      BY <1>1, <1>2, <1>4, <2>1, <2>2, <2>3
    <2> QED  BY <2>4, PartnerIfEnough
  <1>5. Paired(is, ms) \subseteq 1 .. Len(is)
    BY DEF Paired
  <1> QED  BY <1>3, <1>4, <1>5, AllPaired

\* Counting decides too, where neither list has a name twice.
LEMMA CountIsInclusion ==
    ASSUME NEW is \in MethodLists, NEW ms \in MethodLists, Distinct(is), Distinct(ms)
    PROVE  Cardinality({j \in DOMAIN ms : Occurrences(is, ms[j]) # {}}) = Len(is) <=>
              \A i \in DOMAIN is : Occurrences(ms, is[i]) # {}
  <1>1. /\ Sorted(is) /\ Sorted(ms)
        /\ DOMAIN is = 1 .. Len(is) /\ DOMAIN ms = 1 .. Len(ms)
        /\ Len(is) \in Nat /\ Len(ms) \in Nat
    BY ListsAreSorted DEF Sorted
  <1>2. \A a \in 1 .. Len(is), b \in 1 .. Len(ms) : Partner(is, ms, a, b) <=> is[a] = ms[b]
    <2> SUFFICES ASSUME NEW a \in 1 .. Len(is), NEW b \in 1 .. Len(ms)
                 PROVE  Partner(is, ms, a, b) <=> is[a] = ms[b]
      OBVIOUS
    <2>1. StartOf(is, a) = a /\ StartOf(ms, b) = b
      BY <1>1, DistinctStarts
    <2>2. a - StartOf(is, a) = 0 /\ b - StartOf(ms, b) = 0
      BY <2>1, <1>1
    <2> QED  BY <2>2 DEF Partner
  <1>3. {j \in DOMAIN ms : Occurrences(is, ms[j]) # {}} = PairedTo(is, ms)
    BY <1>1, <1>2 DEF Occurrences, PairedTo, Partner
  <1>4. Paired(is, ms) = 1 .. Len(is) <=> \A i \in DOMAIN is : Occurrences(ms, is[i]) # {}
    BY <1>1, <1>2 DEF Occurrences, Paired, Partner
  <1> QED  BY <1>3, <1>4, PairsAreCounted, AllPaired

----------------------------------------------------------------------------
(* The state. A class is inserted for an interface once the loop over the  *)
(* count map has handled the interface in the class's turn; the calls, the *)
(* implementations and the kinds are then those of the inserted classes.   *)

Inserted(c, I) == I \in Matched(c) /\ (c < current \/ (c = current /\ I \notin pending))

Calls  == Classes \X Nat
Blocks == [default : SUBSET Calls, cases : SUBSET (Nat \X Calls)]

CallsOf(I, c, i) == {<<c, j>> : j \in {k \in 1 .. Len(methods[c]) :
                                         <<i, k>> \in Pairs(declared[I], methods[c])}}

Lists ==
    /\ name \in [Classes -> Names] /\ \A c \in Classes : name[c] \in {c, Unnamed}
    /\ methods \in [Classes -> MethodLists]
    /\ declared \in [Interfaces -> MethodLists \ {<<>>}]

Turns ==
    /\ current \in 0 .. ClassCount /\ pending \subseteq Interfaces
    /\ pending # {} => current \in Classes /\ pending \subseteq Matched(current)
    /\ failed \subseteq pending

KindsTellNames ==
    /\ kinds \subseteq Names \X Nat /\ IsFiniteSet(kinds)
    /\ \A e \in kinds : e[2] < Cardinality(kinds)
    /\ \A e, f \in kinds : e[1] = f[1] <=> e[2] = f[2]

\* A switch calls the methods of inserted classes, each class's under the kind
\* of its name unless it is the default, and all of them.
Switched(I, d, i) ==
    /\ \A x, y \in d.switch[i].default : x = y
    /\ \A x \in d.switch[i].default : Inserted(x[1], I) /\ x \in CallsOf(I, x[1], i)
    /\ \A e \in d.switch[i].cases :
          /\ Inserted(e[2][1], I) /\ e[2] \in CallsOf(I, e[2][1], i)
          /\ <<name[e[2][1]], e[1]>> \in kinds
    /\ \A c \in Classes : Inserted(c, I) =>
          \A x \in CallsOf(I, c, i) :
             x \in d.switch[i].default \/ \E k \in Nat : <<k, x>> \in d.switch[i].cases

Listed(I, d) ==
    /\ d.implementations \subseteq Nat \X Names
    /\ \A e \in d.implementations :
          <<e[2], e[1]>> \in kinds /\ \E c \in Classes : Inserted(c, I) /\ name[c] = e[2]
    /\ \A c \in Classes : Inserted(c, I) =>
          \E k \in Nat : <<k, name[c]>> \in d.implementations

Dispatches(I, d) ==
    /\ d.switch \in [1 .. Len(declared[I]) -> Blocks]
    /\ \A i \in 1 .. Len(declared[I]) : Switched(I, d, i)
    /\ Listed(I, d)

DispatchersComplete ==
    /\ DOMAIN dispatchers = Interfaces
    /\ \A I \in Interfaces :
          IF Exists(I) THEN Dispatches(I, dispatchers[I])
          ELSE dispatchers[I].implementations = {} /\ \A c \in Classes : ~Inserted(c, I)

\* An inserted class implements the interface and shares its name, hence its kind,
\* with no other inserted class.
InsertedApart ==
    \A I \in Interfaces, c \in Classes :
        Inserted(c, I) =>
            /\ DoesImplement(c, I)
            /\ \A d \in Classes : Inserted(d, I) /\ name[d] = name[c] => d = c

DispatchInv ==
    /\ Lists /\ Turns /\ KindsTellNames
    /\ DispatchersComplete /\ InsertedApart
    /\ AssertionsAreExplained

----------------------------------------------------------------------------
\* A class has one method at most for a method of an interface.
LEMMA OneCall ==
    ASSUME Lists, NEW I \in Interfaces, NEW c \in Classes, NEW i
    PROVE  /\ CallsOf(I, c, i) \subseteq Calls
           /\ \A x, y \in CallsOf(I, c, i) : x = y
           /\ \A x \in CallsOf(I, c, i) : x[1] = c
  <1>1. declared[I] \in MethodLists /\ methods[c] \in MethodLists
    BY DEF Lists
  <1>2. /\ Sorted(declared[I]) /\ Sorted(methods[c])
        /\ \A a, b : <<a, b>> \in Pairs(declared[I], methods[c]) <=>
                        Partner(declared[I], methods[c], a, b)
    BY <1>1, PairsOfLists
  <1>3. \A x \in CallsOf(I, c, i) :
           x[1] = c /\ x = <<c, x[2]>> /\ x[2] \in Nat /\ Partner(declared[I], methods[c], i, x[2])
    <2> SUFFICES ASSUME NEW x \in CallsOf(I, c, i)
                 PROVE  /\ x[1] = c /\ x = <<c, x[2]>> /\ x[2] \in Nat
                        /\ Partner(declared[I], methods[c], i, x[2])
      OBVIOUS
    <2>1. PICK k \in 1 .. Len(methods[c]) :
             x = <<c, k>> /\ <<i, k>> \in Pairs(declared[I], methods[c])
      BY DEF CallsOf
    <2>2. k \in Nat /\ Partner(declared[I], methods[c], i, k)
      BY <1>2, <2>1 DEF Sorted
    <2> QED  BY <2>1, <2>2
  <1>4. ASSUME NEW x \in CallsOf(I, c, i), NEW y \in CallsOf(I, c, i) PROVE x = y
    <2>1. x[2] = y[2]
      BY <1>2, <1>3, PartnersAreSingle
    <2> QED  BY <1>3, <2>1
  <1> QED  BY <1>3, <1>4 DEF Calls

\* What insertImplementation does to the switch of a method.
LEMMA InsertedCall ==
    ASSUME Lists, NEW I \in Interfaces, NEW c \in Classes, NEW kind, NEW d,
           DOMAIN d.switch = 1 .. Len(declared[I]), NEW i \in 1 .. Len(declared[I])
    PROVE  LET w == WithImplementation(d, I, kind, c).switch
           IN  /\ DOMAIN w = 1 .. Len(declared[I])
               /\ CallsOf(I, c, i) = {} => w[i] = d.switch[i]
               /\ \A x \in CallsOf(I, c, i) : w[i] = WithCall(d.switch[i], kind, x)
  <1> DEFINE w == WithImplementation(d, I, kind, c).switch
             P == Pairs(declared[I], methods[c])
             J == {j \in DOMAIN methods[c] : <<i, j>> \in P}
             j0 == CHOOSE j \in DOMAIN methods[c] : <<i, j>> \in P
  <1>1. declared[I] \in MethodLists /\ methods[c] \in MethodLists
    BY DEF Lists
  <1>2. DOMAIN methods[c] = 1 .. Len(methods[c])
    BY <1>1, ListsAreSorted DEF Sorted
  <1>3. /\ DOMAIN w = 1 .. Len(declared[I])
        /\ w[i] = IF \E j \in DOMAIN methods[c] : <<i, j>> \in P
                  THEN WithCall(d.switch[i], kind, <<c, j0>>) ELSE d.switch[i]
    BY DEF WithImplementation
  <1> HIDE DEF w, P
  <1>4. CallsOf(I, c, i) = {<<c, j>> : j \in J}
    BY <1>2 DEF CallsOf, P
  <1>5. ASSUME NEW x \in CallsOf(I, c, i) PROVE w[i] = WithCall(d.switch[i], kind, x)
    <2>1. \E j \in DOMAIN methods[c] : <<i, j>> \in P
      BY <1>4
    <2>2. j0 \in DOMAIN methods[c] /\ <<i, j0>> \in P
      BY <2>1, Zenon
    <2> HIDE DEF j0
    <2>3. <<c, j0>> \in CallsOf(I, c, i)
      BY <1>4, <2>2
    <2>4. x = <<c, j0>>
      BY <2>3, OneCall
    <2> QED  BY <1>3, <2>1, <2>4
  <1>6. CallsOf(I, c, i) = {} => w[i] = d.switch[i]
    BY <1>3, <1>4
  <1> QED  BY <1>3, <1>5, <1>6 DEF w

\* A new name gets a new kind, and an old name keeps its kind.
LEMMA KindOfName ==
    ASSUME DispatchInv, NEW c \in Classes,
           kinds' = kinds \cup {<<name[c], KindOf(c)>>}
    PROVE  KindsTellNames' /\ KindOf(c) \in Nat /\ name[c] \in Names
  <1>1. name[c] \in Names /\ KindsTellNames
    BY DEF DispatchInv, Lists
  <1>2. CASE \E e \in kinds : e[1] = name[c]
    <2> DEFINE e == CHOOSE f \in kinds : f[1] = name[c]
    <2>1. e \in kinds /\ e[1] = name[c]
      BY <1>2, Zenon
    <2>2. KindOf(c) = e[2]
      BY <1>2 DEF KindOf
    <2> HIDE DEF e
    <2>3. <<name[c], KindOf(c)>> = e /\ KindOf(c) \in Nat
      BY <1>1, <2>1, <2>2 DEF KindsTellNames
    <2>4. kinds' = kinds
      BY <2>1, <2>3
    <2> QED  BY <1>1, <2>3, <2>4 DEF KindsTellNames
  <1>3. CASE ~ \E e \in kinds : e[1] = name[c]
    <2> DEFINE n == Cardinality(kinds)
               x == <<name[c], n>>
    <2>1. KindOf(c) = n
      BY <1>3 DEF KindOf
    <2>2. IsFiniteSet(kinds) /\ n \in Nat /\ x \notin kinds
      BY <1>1, <1>3, FS_CardinalityType DEF KindsTellNames
    <2>3. IsFiniteSet(kinds \cup {x}) /\ Cardinality(kinds \cup {x}) = n + 1
      BY <2>2, FS_AddElement
    <2> HIDE DEF n
    <2>4. kinds' = kinds \cup {x}
      BY <2>1
    <2>5. \A e \in kinds : e[2] \in Nat /\ e[2] < n /\ e[1] # name[c]
      BY <1>1, <1>3 DEF KindsTellNames, n
    <2>6. \A e \in kinds' : e[2] < n + 1
      BY <2>2, <2>4, <2>5
    <2>7. \A e, f \in kinds' : e[1] = f[1] <=> e[2] = f[2]
      <3> SUFFICES ASSUME NEW e \in kinds', NEW f \in kinds' PROVE e[1] = f[1] <=> e[2] = f[2]
        OBVIOUS
      <3>1. CASE e \in kinds /\ f \in kinds
        BY <1>1, <3>1 DEF KindsTellNames
      <3>2. CASE e = x /\ f \in kinds
        BY <2>2, <2>5, <3>2
      <3>3. CASE f = x /\ e \in kinds
        BY <2>2, <2>5, <3>3
      <3>4. CASE e = x /\ f = x
        BY <3>4
      <3> QED  BY <2>4, <3>1, <3>2, <3>3, <3>4
    <2>8. kinds' \subseteq Names \X Nat
      BY <1>1, <2>2, <2>4 DEF KindsTellNames
    <2> QED  BY <1>1, <2>1, <2>2, <2>3, <2>4, <2>6, <2>7, <2>8 DEF KindsTellNames
  <1> QED  BY <1>2, <1>3

\* The dispatcher that insertImplementation is called on has no other calls than
\* those of the inserted classes, also where it is a new one.
LEMMA FoundDispatches ==
    ASSUME DispatchInv, NEW I \in Interfaces
    PROVE  Dispatches(I, Found(I)) /\ Found(I).implementations = dispatchers[I].implementations
  <1>1. CASE Exists(I)
    BY <1>1 DEF DispatchInv, DispatchersComplete, Found
  <1>2. CASE ~Exists(I)
    <2> DEFINE d == Found(I)
    <2>1. /\ d = NewDispatcher(I) /\ \A k \in Classes : ~Inserted(k, I)
          /\ dispatchers[I].implementations = {}
      BY <1>2 DEF DispatchInv, DispatchersComplete, Found
    <2>2. DOMAIN declared[I] = 1 .. Len(declared[I])
      BY ListsAreSorted DEF DispatchInv, Lists, Sorted
    <2> DEFINE none == [default |-> {}, cases |-> {}]
    <2> HIDE DEF d
    <2>3. d.implementations = {} /\ d.switch = [i \in 1 .. Len(declared[I]) |-> none]
      <3>1. d = [implementations |-> {}, switch |-> [i \in DOMAIN declared[I] |-> none]]
        BY <2>1 DEF NewDispatcher
      <3> HIDE DEF none
      <3> QED  BY <2>2, <3>1
    <2>4. none \in Blocks
      BY DEF Blocks
    <2>5. d.switch \in [1 .. Len(declared[I]) -> Blocks]
      BY <2>3, <2>4
    <2>6. ASSUME NEW i \in 1 .. Len(declared[I]) PROVE Switched(I, d, i)
      <3>1. d.switch[i].default = {} /\ d.switch[i].cases = {}
        BY <2>3
      <3> QED  BY <2>1, <3>1 DEF Switched
    <2>7. Dispatches(I, d) /\ d.implementations = dispatchers[I].implementations
      BY <2>1, <2>3, <2>5, <2>6 DEF Dispatches, Listed
    <2> QED  BY <2>7 DEF d
  <1> QED  BY <1>1, <1>2

\* What a dispatcher has stays what the invariant says while no class is inserted
\* into it and kinds are only added.
LEMMA DispatchesKept ==
    ASSUME DispatchInv, NEW J \in Interfaces, UNCHANGED <<name, methods, declared>>,
           kinds \subseteq kinds', \A c \in Classes : Inserted(c, J)' <=> Inserted(c, J),
           NEW d, Dispatches(J, d), dispatchers'[J] = d
    PROVE  Dispatches(J, dispatchers[J])'
  <1>1. Listed(J, dispatchers[J])'
    BY DEF Dispatches, Listed
  <1>2. ASSUME NEW i \in 1 .. Len(declared[J]) PROVE Switched(J, dispatchers[J], i)'
    <2> DEFINE b == d.switch[i]
    <2>1. b \in Blocks /\ Switched(J, d, i)
      BY DEF Dispatches
    <2>2. /\ \A x \in b.default : x[1] \in Classes
          /\ \A e \in b.cases : e[2][1] \in Classes
      BY <2>1 DEF Blocks, Calls
    <2>3. \A c : CallsOf(J, c, i)' = CallsOf(J, c, i)
      BY DEF CallsOf
    <2> QED  BY <2>1, <2>2, <2>3 DEF Switched
  <1> QED  BY <1>1, <1>2 DEF Dispatches

\* The step keeps the invariant: the class becomes inserted, and its calls, its
\* name and its kind come in together.
LEMMA InsertStep ==
    ASSUME DispatchInv, NEW I \in Interfaces, InsertImplementation(I)
    PROVE  DispatchInv'
  <1> DEFINE c == current
             kind == KindOf(c)
             d == Found(I)
             w == WithImplementation(d, I, kind, c)
  <1>1. /\ c \in Classes /\ I \in Matched(c) /\ I \in pending /\ c \in Nat
        /\ pending' = pending \ {I} /\ kinds' = kinds \cup {<<name[c], kind>>}
        /\ DoesImplement(c, I)
        /\ UNCHANGED <<name, methods, declared, current>>
        /\ failed = {} /\ failed' = {}
    BY ClassAssumption DEF DispatchInv, Turns, InsertImplementation, Classes, Insertable
  <1>2. DOMAIN dispatchers' = Interfaces /\ dispatchers'[I] = w
        /\ \A J \in Interfaces \ {I} : dispatchers'[J] = dispatchers[J]
    BY DEF DispatchInv, DispatchersComplete, InsertImplementation
  <1>3. /\ \A k \in Classes, J \in Interfaces :
              Inserted(k, J)' <=> Inserted(k, J) \/ (k = c /\ J = I)
        /\ ~Inserted(c, I)
    <2>1. \A k \in Classes : Matched(k)' = Matched(k)
      BY <1>1 DEF Matched, ImplementedCount
    <2> QED  BY <1>1, <2>1, ClassAssumption DEF Inserted, Classes
  <1>4. \A i : \A J \in Interfaces, k \in Classes : CallsOf(J, k, i)' = CallsOf(J, k, i)
    BY <1>1 DEF CallsOf
  <1>5. Lists' /\ Turns'
    <2>1. Matched(c)' = Matched(c)
      BY <1>1 DEF Matched, ImplementedCount
    <2> QED  BY <1>1, <2>1 DEF DispatchInv, Lists, Turns
  <1>6. /\ KindsTellNames' /\ kind \in Nat /\ name[c] \in Names
        /\ kinds \subseteq kinds' /\ <<name[c], kind>> \in kinds'
    BY <1>1, KindOfName
  <1>7. Dispatches(I, d) /\ \A e \in d.implementations : e[1] # kind
    BY FoundDispatches DEF InsertImplementation, Insertable
  <1> DEFINE n == Len(declared[I])
  <1> HIDE DEF d, kind
  <1>8. \A i \in 1 .. n :
           /\ CallsOf(I, c, i) = {} => w.switch[i] = d.switch[i]
           /\ \A x \in CallsOf(I, c, i) : w.switch[i] = WithCall(d.switch[i], kind, x)
    BY <1>1, <1>7, InsertedCall DEF DispatchInv, Dispatches
  <1>9. w.switch \in [1 .. n -> Blocks]
    <2>1. DOMAIN w.switch = 1 .. n /\ w.switch = [i \in 1 .. n |-> w.switch[i]]
      BY <1>7 DEF WithImplementation, Dispatches
    <2>2. ASSUME NEW i \in 1 .. n PROVE w.switch[i] \in Blocks
      <3> HIDE DEF w
      <3>1. d.switch[i] \in Blocks
        BY <1>7 DEF Dispatches
      <3>2. ASSUME NEW x \in CallsOf(I, c, i) PROVE WithCall(d.switch[i], kind, x) \in Blocks
        <4>1. x \in Calls
          BY <1>1, <3>2, OneCall DEF DispatchInv
        <4> QED  BY <3>1, <4>1, <1>6 DEF WithCall, Blocks
      <3> QED  BY <1>8, <3>1, <3>2
    <2> QED  BY <2>1, <2>2
  <1>10. w.implementations = d.implementations \cup {<<kind, name[c]>>}
    BY DEF WithImplementation
  <1> HIDE DEF w
  <1>11. Listed(I, dispatchers[I])'
    <2>1. /\ d.implementations \subseteq Nat \X Names
          /\ \A e \in d.implementations :
                <<e[2], e[1]>> \in kinds /\ \E k \in Classes : Inserted(k, I) /\ name[k] = e[2]
          /\ \A k \in Classes : Inserted(k, I) => \E l \in Nat : <<l, name[k]>> \in d.implementations
      BY <1>7 DEF Dispatches, Listed
    <2>2. w.implementations \subseteq Nat \X Names
      BY <2>1, <1>6, <1>10
    <2>3. ASSUME NEW e \in w.implementations
          PROVE  <<e[2], e[1]>> \in kinds' /\ \E k \in Classes : Inserted(k, I)' /\ name[k] = e[2]
      BY <2>1, <1>1, <1>3, <1>6, <1>10
    <2>4. \A k \in Classes : Inserted(k, I)' => \E l \in Nat : <<l, name[k]>> \in w.implementations
      BY <1>3, <1>6, <1>10, <2>1
    <2> QED  BY <1>1, <1>2, <2>2, <2>3, <2>4 DEF Listed
  <1>12. ASSUME NEW i \in 1 .. n PROVE Switched(I, dispatchers[I], i)'
    <2> DEFINE b == d.switch[i]
               v == w.switch[i]
    <2>1. b \in Blocks /\ v \in Blocks
      BY <1>7, <1>9 DEF Dispatches
    <2>2. /\ \A x, y \in b.default : x = y
          /\ \A x \in b.default : Inserted(x[1], I) /\ x \in CallsOf(I, x[1], i)
          /\ \A e \in b.cases : /\ Inserted(e[2][1], I) /\ e[2] \in CallsOf(I, e[2][1], i)
                                /\ <<name[e[2][1]], e[1]>> \in kinds
          /\ \A k \in Classes : Inserted(k, I) =>
                \A x \in CallsOf(I, k, i) :
                   x \in b.default \/ \E l \in Nat : <<l, x>> \in b.cases
      BY <1>7 DEF Dispatches, Switched
    <2>3. /\ b.default \subseteq v.default /\ b.cases \subseteq v.cases
          /\ \A x, y \in v.default : x = y
          /\ \A x \in v.default : x \in b.default \/ x \in CallsOf(I, c, i)
          /\ \A e \in v.cases : e \in b.cases \/ (e[1] = kind /\ e[2] \in CallsOf(I, c, i))
          /\ \A x \in CallsOf(I, c, i) : x \in v.default \/ <<kind, x>> \in v.cases
      <3>1. CASE CallsOf(I, c, i) = {}
        BY <3>1, <1>8, <2>2
      <3>2. ASSUME NEW x \in CallsOf(I, c, i), CallsOf(I, c, i) = {x}
            PROVE  /\ b.default \subseteq v.default /\ b.cases \subseteq v.cases
                   /\ \A y, z \in v.default : y = z
                   /\ \A y \in v.default : y \in b.default \/ y = x
                   /\ \A e \in v.cases : e \in b.cases \/ e = <<kind, x>>
                   /\ x \in v.default \/ <<kind, x>> \in v.cases
        <4>1. v = WithCall(b, kind, x)
          BY <1>8
        <4> HIDE DEF b, v
        <4>2. CASE b.default = {}
          <5>1. v.default = {x} /\ v.cases = b.cases
            BY <2>1, <4>1, <4>2 DEF WithCall, Blocks
          <5> QED  BY <3>2, <4>2, <5>1
        <4>3. CASE b.default # {}
          <5>1. v.default = b.default /\ v.cases = b.cases \cup {<<kind, x>>}
            BY <2>1, <4>1, <4>3 DEF WithCall, Blocks
          <5> QED  BY <2>2, <3>2, <5>1
        <4> QED  BY <4>2, <4>3
      <3>3. CASE CallsOf(I, c, i) # {}
        <4>1. PICK x \in CallsOf(I, c, i) : CallsOf(I, c, i) = {x}
          <5>1. \A x, y \in CallsOf(I, c, i) : x = y
            BY <1>1, OneCall DEF DispatchInv
          <5> QED  BY <5>1, <3>3
        <4> HIDE DEF b, v
        <4> QED  BY <4>1, <3>2
      <3> QED  BY <3>1, <3>3
    <2>4. \A x \in CallsOf(I, c, i) : x[1] = c
      BY <1>1, OneCall DEF DispatchInv
    <2> HIDE DEF b, v
    <2>5. \A x \in v.default : x[1] \in Classes /\ Inserted(x[1], I)' /\ x \in CallsOf(I, x[1], i)
      <3>1. \A x \in v.default : x[1] \in Classes
        BY <2>1 DEF Blocks, Calls
      <3> QED  BY <3>1, <2>2, <2>3, <2>4, <1>1, <1>3
    <2>6. \A e \in v.cases :
             /\ e[2][1] \in Classes /\ Inserted(e[2][1], I)' /\ e[2] \in CallsOf(I, e[2][1], i)
             /\ <<name[e[2][1]], e[1]>> \in kinds'
      <3>1. \A e \in v.cases : e[2][1] \in Classes
        BY <2>1 DEF Blocks, Calls
      <3> QED  BY <3>1, <2>2, <2>3, <2>4, <1>1, <1>3, <1>6
    <2>7. \A k \in Classes : Inserted(k, I)' =>
             \A x \in CallsOf(I, k, i) : x \in v.default \/ \E l \in Nat : <<l, x>> \in v.cases
      BY <2>2, <2>3, <1>1, <1>3, <1>6
    <2>8. dispatchers'[I].switch[i] = v /\ name' = name
      BY <1>1, <1>2 DEF v
    <2>9. \A x \in v.default : Inserted(x[1], I)' /\ x \in CallsOf(I, x[1], i)'
      BY <2>5, <1>4
    <2>10. \A e \in v.cases :
              /\ Inserted(e[2][1], I)' /\ e[2] \in CallsOf(I, e[2][1], i)'
              /\ <<name'[e[2][1]], e[1]>> \in kinds'
      BY <2>6, <2>8, <1>4
    <2>11. \A k \in Classes : Inserted(k, I)' =>
             \A x \in CallsOf(I, k, i)' : x \in v.default \/ \E l \in Nat : <<l, x>> \in v.cases
      BY <2>7, <1>4
    <2> QED  BY <2>3, <2>8, <2>9, <2>10, <2>11 DEF Switched
  <1>13. Exists(I)' /\ Dispatches(I, dispatchers[I])'
    <2>1. n \in Nat /\ n # 0
      <3>1. declared[I] \in MethodLists /\ declared[I] # <<>> /\ Sorted(declared[I])
        BY ListsAreSorted DEF DispatchInv, Lists
      <3>2. PICK m \in 0 .. MaxMethods : declared[I] \in [1 .. m -> MethodNames]
        BY <3>1 DEF MethodLists
      <3> QED  BY <3>1, <3>2, MethodAssumption DEF Sorted
    <2>2. Exists(I)'
      BY <1>2, <1>9, <2>1 DEF Exists
    <2> QED  BY <1>1, <1>2, <1>9, <1>11, <1>12, <2>2 DEF Dispatches
  <1>14. ASSUME NEW J \in Interfaces, J # I
         PROVE  IF Exists(J)' THEN Dispatches(J, dispatchers[J])'
                ELSE dispatchers'[J].implementations = {} /\ \A k \in Classes : ~Inserted(k, J)'
    <2>1. dispatchers'[J] = dispatchers[J] /\ \A k \in Classes : Inserted(k, J)' <=> Inserted(k, J)
      BY <1>2, <1>3, <1>14
    <2>2. CASE Exists(J)
      <3>1. Dispatches(J, dispatchers[J])
        BY <2>2 DEF DispatchInv, DispatchersComplete
      <3> QED  BY <2>1, <2>2, <3>1, <1>1, <1>6, DispatchesKept DEF Exists
    <2>3. CASE ~Exists(J)
      BY <2>1, <2>3 DEF DispatchInv, DispatchersComplete, Exists
    <2> QED  BY <2>2, <2>3
  <1>15. DispatchersComplete'
    BY <1>2, <1>13, <1>14 DEF DispatchersComplete
  <1>16. ASSUME NEW k \in Classes, Inserted(k, I), name[k] = name[c] PROVE FALSE
    <2>1. PICK l \in Nat : <<l, name[k]>> \in d.implementations
      BY <1>7, <1>16 DEF Dispatches, Listed
    <2>2. <<name[c], l>> \in kinds'
      BY <1>6, <1>7, <1>16, <2>1 DEF Dispatches, Listed
    <2>3. l = kind
      BY <1>6, <2>2 DEF KindsTellNames
    <2> QED  BY <1>7, <2>1, <2>3
  <1>17. InsertedApart'
    <2>1. \A J \in Interfaces, k \in Classes : DoesImplement(k, J)' <=> DoesImplement(k, J)
      BY <1>1 DEF DoesImplement
    <2>2. InsertedApart
      BY DEF DispatchInv
    <2> QED  BY <1>1, <1>3, <1>16, <2>1, <2>2 DEF InsertedApart
  <1>18. AssertionsAreExplained'
    BY <1>1 DEF AssertionsAreExplained
  <1> QED  BY <1>5, <1>6, <1>15, <1>17, <1>18 DEF DispatchInv

----------------------------------------------------------------------------
(* Where an assertion of insertImplementation fails.                       *)

\* Counting finds the interfaces that a class implements where neither list
\* repeats a name.
LEMMA CountDecides ==
    ASSUME Lists, NEW c \in Classes, NEW I \in Interfaces,
           Distinct(methods[c]), Distinct(declared[I])
    PROVE  I \in Matched(c) <=> Implements(c, I)
  <1>1. methods[c] \in MethodLists /\ declared[I] \in MethodLists /\ declared[I] # <<>>
    BY DEF Lists
  <1>2. ImplementedCount(c, I) = Len(declared[I]) <=> Implements(c, I)
    BY <1>1, CountIsInclusion DEF ImplementedCount, Implements
  <1>3. Len(declared[I]) > 0
    <2>1. PICK m \in 0 .. MaxMethods : declared[I] \in [1 .. m -> MethodNames]
      BY <1>1 DEF MethodLists
    <2> QED  BY <1>1, <2>1, MethodAssumption
  <1> QED  BY <1>2, <1>3 DEF Matched

\* The class then implements the interface by doesImplement too.
LEMMA DistinctImplement ==
    ASSUME Lists, NEW c \in Classes, NEW I \in Matched(c),
           Distinct(methods[c]), Distinct(declared[I])
    PROVE  DoesImplement(c, I)
  <1> DEFINE is == declared[I]
             ms == methods[c]
  <1>1. I \in Interfaces
    BY DEF Matched
  <1>2. is \in MethodLists /\ ms \in MethodLists
    BY <1>1 DEF Lists
  <1>3. \A i \in DOMAIN is : Occurrences(ms, is[i]) # {}
    BY <1>1, CountDecides DEF Implements
  <1>4. Sorted(is) /\ Sorted(ms)
    BY <1>2, ListsAreSorted
  <1>5. Paired(is, ms) = 1 .. Len(is)
    <2> SUFFICES ASSUME NEW a \in 1 .. Len(is) PROVE a \in Paired(is, ms)
      BY DEF Paired
    <2>1. PICK j \in 1 .. Len(ms) : ms[j] = is[a]
      BY <1>3, <1>4 DEF Sorted, Occurrences
    <2>2. StartOf(is, a) = a /\ StartOf(ms, j) = j
      BY <1>4, DistinctStarts
    <2>3. a - a = 0 /\ j - j = 0
      BY <1>4 DEF Sorted
    <2> QED  BY <2>1, <2>2, <2>3 DEF Paired, Partner
  <1> QED  BY <1>2, <1>5, AllPaired DEF DoesImplement

\* A failed assertion is explained: the class before that has the kind is inserted,
\* so it implements the interface and has the same name, that is, none.
LEMMA FailureIsExplained ==
    ASSUME DispatchInv, NEW I \in Interfaces, FailAssertion(I)
    PROVE  AssertionsAreExplained'
  <1> DEFINE c == current
             kind == KindOf(c)
  <1>1. /\ c \in Classes /\ I \in Matched(c) /\ I \in pending
        /\ kinds' = kinds \cup {<<name[c], kind>>}
        /\ UNCHANGED <<name, methods, declared, current>>
        /\ failed' = {I}
    BY DEF DispatchInv, Turns, FailAssertion
  <1>2. Lists /\ KindsTellNames'
    BY <1>1, KindOfName DEF DispatchInv
  <1>3. \A k : DoesImplement(k, I)' <=> DoesImplement(k, I)
    BY <1>1 DEF DoesImplement
  <1>4. CASE ~DoesImplement(c, I)
    <2>1. ~Distinct(methods[c]) \/ ~Distinct(declared[I])
      BY <1>1, <1>2, <1>4, DistinctImplement
    <2> QED  BY <1>1, <1>3, <1>4, <2>1 DEF AssertionsAreExplained
  <1>5. CASE DoesImplement(c, I)
    <2>1. PICK e \in dispatchers[I].implementations : e[1] = kind
      BY <1>5 DEF FailAssertion, Insertable
    <2>2. Dispatches(I, dispatchers[I])
      BY <2>1 DEF DispatchInv, DispatchersComplete
    <2>3. PICK k \in Classes : Inserted(k, I) /\ name[k] = e[2] /\ <<e[2], e[1]>> \in kinds
      BY <2>2 DEF Dispatches, Listed
    <2>4. <<name[k], kind>> \in kinds' /\ <<name[c], kind>> \in kinds'
      BY <1>1, <2>1, <2>3
    <2>5. name[k] = name[c]
      BY <1>2, <2>4 DEF KindsTellNames
    <2>6. k # c /\ k < c
      BY <1>1, <2>3, ClassAssumption DEF Inserted, Classes
    <2>7. name[c] = Unnamed /\ name[k] = Unnamed
      BY <1>1, <1>2, <2>5, <2>6 DEF Lists
    <2>8. DoesImplement(k, I)
      BY <2>3 DEF DispatchInv, InsertedApart
    <2>9. k \in 1 .. c - 1
      BY <1>1, <2>6, ClassAssumption DEF Classes
    <2> QED  BY <1>1, <1>3, <1>5, <2>7, <2>8, <2>9 DEF AssertionsAreExplained, Named
  <1> QED  BY <1>4, <1>5

LEMMA FailStep ==
    ASSUME DispatchInv, NEW I \in Interfaces, FailAssertion(I)
    PROVE  DispatchInv'
  <1>1. /\ current \in Classes /\ failed' = {I} /\ I \in pending
        /\ kinds' = kinds \cup {<<name[current], KindOf(current)>>}
        /\ UNCHANGED <<name, methods, declared, current, pending>>
    BY DEF DispatchInv, Turns, FailAssertion
  <1>2. /\ DOMAIN dispatchers' = Interfaces /\ dispatchers'[I] = Found(I)
        /\ \A J \in Interfaces \ {I} : dispatchers'[J] = dispatchers[J]
    BY DEF DispatchInv, DispatchersComplete, FailAssertion
  <1>3. \A k : Matched(k)' = Matched(k)
    BY <1>1 DEF Matched, ImplementedCount
  <1>4. \A J \in Interfaces, k \in Classes : Inserted(k, J)' <=> Inserted(k, J)
    BY <1>1, <1>3 DEF Inserted
  <1>5. KindsTellNames' /\ kinds \subseteq kinds'
    BY <1>1, KindOfName
  <1>6. Lists' /\ Turns'
    BY <1>1, <1>3 DEF DispatchInv, Lists, Turns
  <1>7. Dispatches(I, dispatchers[I])' /\ Exists(I)'
    <2>1. Dispatches(I, Found(I))
      BY FoundDispatches
    <2>2. Found(I).switch # <<>>
      <3>1. declared[I] # <<>> /\ DOMAIN declared[I] = 1 .. Len(declared[I]) /\ Len(declared[I]) \in Nat
        BY ListsAreSorted DEF DispatchInv, Lists, Sorted
      <3>2. declared[I] \in MethodLists
        BY DEF DispatchInv, Lists
      <3>3. PICK m \in 0 .. MaxMethods : declared[I] \in [1 .. m -> MethodNames]
        BY <3>2 DEF MethodLists
      <3>4. Len(declared[I]) # 0
        BY <3>1, <3>3, MethodAssumption
      <3> QED  BY <2>1, <3>1, <3>4 DEF Dispatches
    <2> QED  BY <1>1, <1>2, <1>4, <1>5, <2>1, <2>2, DispatchesKept DEF Exists
  <1>8. ASSUME NEW J \in Interfaces, J # I
        PROVE  IF Exists(J)' THEN Dispatches(J, dispatchers[J])'
               ELSE dispatchers'[J].implementations = {} /\ \A k \in Classes : ~Inserted(k, J)'
    <2>1. dispatchers'[J] = dispatchers[J] /\ \A k \in Classes : Inserted(k, J)' <=> Inserted(k, J)
      BY <1>2, <1>4, <1>8
    <2>2. CASE Exists(J)
      <3>1. Dispatches(J, dispatchers[J])
        BY <2>2 DEF DispatchInv, DispatchersComplete
      <3> QED  BY <2>1, <2>2, <3>1, <1>1, <1>5, DispatchesKept DEF Exists
    <2>3. CASE ~Exists(J)
      BY <2>1, <2>3 DEF DispatchInv, DispatchersComplete, Exists
    <2> QED  BY <2>2, <2>3
  <1>9. DispatchersComplete'
    BY <1>2, <1>7, <1>8 DEF DispatchersComplete
  <1>10. InsertedApart'
    BY <1>1, <1>4 DEF DispatchInv, InsertedApart, DoesImplement
  <1> QED  BY <1>5, <1>6, <1>9, <1>10, FailureIsExplained DEF DispatchInv

----------------------------------------------------------------------------
LEMMA InitDispatch ==
    ASSUME Init PROVE DispatchInv
  <1>1. Lists
    <2>1. \A c \in Classes : name[c] \in {c, Unnamed}
      BY DEF Init
    <2> QED  BY <2>1 DEF Init, Lists
  <1>2. Turns
    BY ClassAssumption DEF Init, Turns
  <1>3. KindsTellNames
    BY FS_EmptySet DEF Init, KindsTellNames
  <1>4. DispatchersComplete
    <2>1. \A I \in Interfaces : ~Exists(I)
      BY DEF Init, Exists, NoDispatcher
    <2>2. \A c \in Classes : ~(c < current) /\ c # current
      BY ClassAssumption DEF Init, Classes
    <2> QED  BY <2>1, <2>2 DEF Init, DispatchersComplete, Inserted, NoDispatcher
  <1>5. InsertedApart
    <2>1. \A c \in Classes : ~(c < current) /\ c # current
      BY ClassAssumption DEF Init, Classes
    <2> QED  BY <2>1 DEF InsertedApart, Inserted
  <1>6. AssertionsAreExplained
    BY DEF Init, AssertionsAreExplained
  <1> QED  BY <1>1, <1>2, <1>3, <1>4, <1>5, <1>6 DEF DispatchInv

\* Nothing the invariant speaks of depends on more than this.
LEMMA DispatchersUnchanged ==
    ASSUME DispatchInv, UNCHANGED <<name, methods, declared, kinds, dispatchers>>,
           \A I \in Interfaces, c \in Classes : Inserted(c, I)' <=> Inserted(c, I)
    PROVE  Lists' /\ KindsTellNames' /\ DispatchersComplete' /\ InsertedApart'
  <1>1. Lists' /\ KindsTellNames'
    BY DEF DispatchInv, Lists, KindsTellNames
  <1>2. ASSUME NEW I \in Interfaces, Dispatches(I, dispatchers[I])
        PROVE  Dispatches(I, dispatchers[I])'
    BY <1>2, DispatchesKept
  <1>3. DispatchersComplete'
    BY <1>2 DEF DispatchInv, DispatchersComplete, Exists
  <1>4. InsertedApart'
    BY DEF DispatchInv, InsertedApart, DoesImplement
  <1> QED  BY <1>1, <1>3, <1>4

LEMMA VisitStep ==
    ASSUME DispatchInv, VisitClass PROVE DispatchInv'
  <1>1. /\ pending = {} /\ current < ClassCount /\ current \in Nat
        /\ current' = current + 1 /\ current' \in Classes
        /\ pending' = Matched(current')
        /\ failed = {} /\ failed' = {}
        /\ UNCHANGED <<name, methods, declared, kinds, dispatchers>>
    BY ClassAssumption DEF DispatchInv, Turns, VisitClass, Classes
  <1>2. \A c : Matched(c)' = Matched(c)
    BY <1>1 DEF Matched, ImplementedCount
  <1>3. \A I \in Interfaces, c \in Classes : Inserted(c, I)' <=> Inserted(c, I)
    <2> SUFFICES ASSUME NEW I \in Interfaces, NEW c \in Classes
                 PROVE  Inserted(c, I)' <=> Inserted(c, I)
      OBVIOUS
    <2>1. Inserted(c, I)' <=> I \in Matched(c) /\ (c < current' \/ (c = current' /\ I \notin Matched(current')))
      BY <1>1, <1>2 DEF Inserted
    <2>2. Inserted(c, I) <=> I \in Matched(c) /\ (c < current \/ c = current)
      BY <1>1 DEF Inserted
    <2>3. c \in Nat
      BY ClassAssumption DEF Classes
    <2> QED  BY <1>1, <2>1, <2>2, <2>3
  <1>4. Turns'
    <2>1. Matched(current') \subseteq Interfaces /\ Matched(current)' = Matched(current')
      BY <1>1 DEF Matched, ImplementedCount
    <2>2. current' \in 0 .. ClassCount
      BY <1>1, ClassAssumption DEF Classes
    <2> QED  BY <1>1, <1>2, <2>1, <2>2 DEF Turns
  <1>5. AssertionsAreExplained'
    BY <1>1 DEF AssertionsAreExplained
  <1> QED  BY <1>1, <1>3, <1>4, <1>5, DispatchersUnchanged DEF DispatchInv

LEMMA OtherStep ==
    ASSUME DispatchInv,
           UNCHANGED <<name, methods, declared, current, pending, kinds, dispatchers, failed>>
    PROVE  DispatchInv'
  <1>1. \A c : Matched(c)' = Matched(c)
    BY DEF Matched, ImplementedCount
  <1>2. Turns'
    BY <1>1 DEF DispatchInv, Turns
  <1>3. \A I \in Interfaces, c \in Classes : Inserted(c, I)' <=> Inserted(c, I)
    BY <1>1 DEF Inserted
  <1>4. AssertionsAreExplained'
    BY DEF DispatchInv, AssertionsAreExplained, DoesImplement, Named
  <1> QED  BY <1>2, <1>3, <1>4, DispatchersUnchanged DEF DispatchInv

\* Calls, implementations and kinds are those of the inserted classes, each of which
\* implements the interface and has a kind that no other has, in every state that
\* finalizeInterfaces goes through.
THEOREM DispatchSafe == Spec => []DispatchInv
  <1>1. Init => DispatchInv
    BY InitDispatch
  <1>2. DispatchInv /\ [Next]_vars => DispatchInv'
    <2> SUFFICES ASSUME DispatchInv, [Next]_vars PROVE DispatchInv'
      OBVIOUS
    <2>1. CASE VisitClass
      BY <2>1, VisitStep
    <2>2. ASSUME NEW I \in Interfaces, InsertImplementation(I) PROVE DispatchInv'
      BY <2>2, InsertStep
    <2>3. ASSUME NEW I \in Interfaces, FailAssertion(I) PROVE DispatchInv'
      BY <2>3, FailStep
    <2>4. CASE Link
      BY <2>4, OtherStep DEF Link
    <2>5. CASE UNCHANGED vars
      BY <2>5, OtherStep DEF vars
    <2> QED  BY <2>1, <2>2, <2>3, <2>4, <2>5 DEF Next
  <1> QED  BY <1>1, <1>2, PTL DEF Spec

----------------------------------------------------------------------------
\* doesImplement is true of a class exactly if it has every method name as often
\* as the interface declares it (Class::doesImplement, Class.cpp).
THEOREM InclusionHolds == Spec => []DoesImplementIsInclusion
  <1>1. ASSUME DispatchInv PROVE DoesImplementIsInclusion
    <2>1. \A c \in Classes, I \in Interfaces :
             methods[c] \in MethodLists /\ declared[I] \in MethodLists
      BY <1>1 DEF DispatchInv, Lists
    <2> QED  BY <2>1, MergeIsInclusion DEF DoesImplementIsInclusion, DoesImplement
  <1> QED  BY <1>1, DispatchSafe, PTL

\* finalizeInterfaces counts methods and goes by names: where that misleads it an
\* assertion of insertImplementation fails, for overloads that share a name or for a
\* second class without a name, and never otherwise.
THEOREM AssertionsExplained == Spec => []AssertionsAreExplained
  <1>1. DispatchInv => AssertionsAreExplained
    BY DEF DispatchInv
  <1> QED  BY <1>1, DispatchSafe, PTL

LEMMA DoneIsInserted ==
    ASSUME DispatchInv, NEW I \in Interfaces, NEW c \in Classes, Done(c, I)
    PROVE  Inserted(c, I) /\ Dispatches(I, dispatchers[I])
  <1>1. Inserted(c, I)
    BY CountDecides DEF DispatchInv, Done, Inserted
  <1> QED  BY <1>1 DEF DispatchInv, DispatchersComplete

\* A call through an interface on an object of a class that implements it reaches that
\* class's method of the name, and no other, also where classes have no name.
THEOREM CallsReach == Spec => []CallsReachTheClass
  <1>1. ASSUME DispatchInv PROVE CallsReachTheClass
    <2> SUFFICES ASSUME NEW I \in Interfaces, NEW c \in Classes, Done(c, I),
                        NEW i \in DOMAIN declared[I], NEW k \in KindsOf(c)
                 PROVE  Reached(dispatchers[I], i, k) =
                           {<<c, j>> : j \in Occurrences(methods[c], declared[I][i])}
      BY DEF CallsReachTheClass
    <2> DEFINE b == dispatchers[I].switch[i]
               C == CallsOf(I, c, i)
    <2>1. declared[I] \in MethodLists /\ methods[c] \in MethodLists
      BY <1>1 DEF DispatchInv, Lists
    <2>2. /\ Sorted(declared[I]) /\ Sorted(methods[c]) /\ i \in 1 .. Len(declared[I])
          /\ Distinct(declared[I]) /\ Distinct(methods[c]) /\ Implements(c, I)
      BY <2>1, ListsAreSorted DEF Sorted, Done
    <2>3. Inserted(c, I) /\ Dispatches(I, dispatchers[I])
      BY <1>1, DoneIsInserted
    <2>4. C = {<<c, j>> : j \in Occurrences(methods[c], declared[I][i])}
      <3>1. ASSUME NEW j \in 1 .. Len(methods[c])
            PROVE  <<i, j>> \in Pairs(declared[I], methods[c]) <=> methods[c][j] = declared[I][i]
        <4>1. StartOf(declared[I], i) = i /\ StartOf(methods[c], j) = j
          BY <2>2, DistinctStarts
        <4>2. i - i = 0 /\ j - j = 0
          BY <2>2 DEF Sorted
        <4>3. Partner(declared[I], methods[c], i, j) <=> methods[c][j] = declared[I][i]
          BY <2>2, <4>1, <4>2 DEF Partner
        <4> QED  BY <2>1, <4>3, PairsOfLists
      <3>2. Occurrences(methods[c], declared[I][i]) =
               {j \in 1 .. Len(methods[c]) : <<i, j>> \in Pairs(declared[I], methods[c])}
        BY <2>2, <3>1 DEF Occurrences, Sorted
      <3> QED  BY <3>2 DEF CallsOf
    <2>5. PICK x \in C : C = {x}
      <3>1. C # {}
        BY <2>2, <2>4 DEF Implements
      <3>2. \A x, y \in C : x = y
        BY <1>1, OneCall DEF DispatchInv
      <3> QED  BY <3>1, <3>2
    <2>6. /\ b \in Blocks /\ Switched(I, dispatchers[I], i)
      BY <2>2, <2>3 DEF Dispatches
    <2>7. <<name[c], k>> \in kinds
      <3>1. PICK e \in kinds : e[1] = name[c] /\ e[2] = k
        BY DEF KindsOf
      <3>2. e = <<e[1], e[2]>>
        BY <1>1 DEF DispatchInv, KindsTellNames
      <3> QED  BY <3>1, <3>2
    <2>8. \A e \in b.cases : e[1] = k => e[2] = x
      <3> SUFFICES ASSUME NEW e \in b.cases, e[1] = k PROVE e[2] = x
        OBVIOUS
      <3> DEFINE a == e[2][1]
      <3>1. a \in Classes /\ e[2] \in CallsOf(I, a, i) /\ <<name[a], k>> \in kinds
            /\ Inserted(a, I)
        BY <2>6 DEF Switched, Blocks, Calls
      <3>2. name[a] = name[c]
        BY <1>1, <2>7, <3>1 DEF DispatchInv, KindsTellNames
      <3>3. a = c
        BY <1>1, <2>3, <3>1, <3>2 DEF DispatchInv, InsertedApart
      <3> QED  BY <2>5, <3>1, <3>3
    <2>9. x \in b.default \/ \E l \in Nat : <<l, x>> \in b.cases
      BY <2>3, <2>6 DEF Switched
    <2>10. \A l \in Nat : <<l, x>> \in b.cases => l = k
      <3> SUFFICES ASSUME NEW l \in Nat, <<l, x>> \in b.cases PROVE l = k
        OBVIOUS
      <3>1. x[1] = c
        BY <1>1, OneCall DEF DispatchInv
      <3>2. <<name[c], l>> \in kinds
        BY <2>6, <3>1 DEF Switched
      <3> QED  BY <1>1, <2>7, <3>2 DEF DispatchInv, KindsTellNames
    <2>11. x \in b.default => b.default = {x}
      BY <2>6 DEF Switched
    <2> HIDE DEF b, C
    <2>12. CASE \E e \in b.cases : e[1] = k
      <3>1. {e[2] : e \in {y \in b.cases : y[1] = k}} = {x}
        BY <2>8, <2>12
      <3> QED  BY <2>4, <2>5, <2>12, <3>1 DEF Reached, b
    <2>13. CASE ~ \E e \in b.cases : e[1] = k
      <3>1. ~ \E l \in Nat : <<l, x>> \in b.cases
        <4> SUFFICES ASSUME NEW l \in Nat, <<l, x>> \in b.cases PROVE FALSE
          OBVIOUS
        <4>1. <<l, x>>[1] = k
          BY <2>10
        <4> QED  BY <2>13, <4>1
      <3>2. b.default = {x}
        BY <2>9, <2>11, <3>1
      <3> QED  BY <2>4, <2>5, <2>13, <3>2 DEF Reached, b
    <2> QED  BY <2>12, <2>13
  <1> QED  BY <1>1, DispatchSafe, PTL

\* No implementing class is left out of the dispatcher's list, and none has the kind
\* of another.
THEOREM ImplementationsListed == Spec => []ImplementationsAreListed
  <1>1. ASSUME DispatchInv PROVE ImplementationsAreListed
    <2> SUFFICES ASSUME NEW I \in Interfaces, NEW c \in Classes, Done(c, I)
                 PROVE  /\ \E k \in KindsOf(c) : <<k, name[c]>> \in dispatchers[I].implementations
                        /\ \A d \in Classes \ {c} : Done(d, I) => KindsOf(c) \cap KindsOf(d) = {}
      BY DEF ImplementationsAreListed
    <2>1. Inserted(c, I) /\ Listed(I, dispatchers[I])
      BY <1>1, DoneIsInserted DEF Dispatches
    <2>2. PICK k \in Nat : <<k, name[c]>> \in dispatchers[I].implementations
      BY <2>1 DEF Listed
    <2>3. <<name[c], k>> \in kinds
      BY <2>1, <2>2 DEF Listed
    <2>4. k \in KindsOf(c)
      BY <2>3 DEF KindsOf
    <2>5. ASSUME NEW d \in Classes \ {c}, Done(d, I), NEW l \in KindsOf(c), l \in KindsOf(d)
          PROVE  FALSE
      <3>1. PICK e \in kinds : e[1] = name[c] /\ e[2] = l
        BY DEF KindsOf
      <3>2. PICK f \in kinds : f[1] = name[d] /\ f[2] = l
        BY <2>5 DEF KindsOf
      <3>3. name[d] = name[c]
        BY <1>1, <3>1, <3>2 DEF DispatchInv, KindsTellNames
      <3>4. Inserted(d, I)
        BY <1>1, <2>5, DoneIsInserted
      <3> QED  BY <1>1, <2>1, <3>3, <3>4 DEF DispatchInv, InsertedApart
    <2> QED  BY <2>2, <2>4, <2>5
  <1> QED  BY <1>1, DispatchSafe, PTL

\* What is read back is what was built, once all classes were visited.
ReadBack ==
    linked # {} =>
        /\ current = ClassCount /\ pending = {}
        /\ linked = {[interface |-> I, implementations |-> dispatchers[I].implementations,
                      switch |-> dispatchers[I].switch] : I \in {J \in Interfaces : Exists(J)}}

LEMMA ReadBackHolds == Spec => []ReadBack
  <1>1. Init => ReadBack
    BY DEF Init, ReadBack
  <1>2. ASSUME DispatchInv, ReadBack, [Next]_vars PROVE ReadBack'
    <2>1. CASE VisitClass
      <3>1. current \in Nat /\ current < ClassCount /\ ClassCount \in Nat
        BY <1>2, <2>1, ClassAssumption DEF DispatchInv, Turns, VisitClass
      <3>2. linked = {} /\ linked' = linked
        BY <1>2, <2>1, <3>1 DEF ReadBack, VisitClass
      <3> QED  BY <3>2 DEF ReadBack
    <2>2. ASSUME NEW I \in Interfaces, InsertImplementation(I) PROVE ReadBack'
      <3>1. linked = {} /\ linked' = linked
        BY <1>2, <2>2 DEF ReadBack, InsertImplementation
      <3> QED  BY <3>1 DEF ReadBack
    <2>3. ASSUME NEW I \in Interfaces, FailAssertion(I) PROVE ReadBack'
      <3>1. linked = {} /\ linked' = linked
        BY <1>2, <2>3 DEF ReadBack, FailAssertion
      <3> QED  BY <3>1 DEF ReadBack
    <2>4. CASE Link
      BY <2>4 DEF Link, ReadBack, Exists
    <2>5. CASE UNCHANGED vars
      BY <1>2, <2>5 DEF vars, ReadBack, Exists
    <2> QED  BY <1>2, <2>1, <2>2, <2>3, <2>4, <2>5 DEF Next
  <1> QED  BY <1>1, <1>2, DispatchSafe, PTL DEF Spec

\* An implementation that was inserted is read back when its dispatcher is.
LEMMA ListedIsRead ==
    ASSUME DispatchInv, ReadBack, linked # {},
           NEW c \in Classes, NEW I \in Interfaces, Done(c, I)
    PROVE  \E d \in linked :
              d.interface = I /\ \E e \in d.implementations : e[2] = name[c]
  <1>1. Inserted(c, I) /\ Listed(I, dispatchers[I]) /\ Exists(I)
    BY DoneIsInserted DEF Dispatches, DispatchInv, DispatchersComplete
  <1>2. PICK k \in Nat : <<k, name[c]>> \in dispatchers[I].implementations
    BY <1>1 DEF Listed
  <1>3. [interface |-> I, implementations |-> dispatchers[I].implementations,
         switch |-> dispatchers[I].switch] \in linked
    BY <1>1 DEF ReadBack
  <1> QED  BY <1>2, <1>3

\* When the module has its dispatchers it has, for every class and every interface
\* that the class implements, a dispatcher that lists the class: the order of the
\* classes and of the interfaces loses none (syncMetadata after linkModules).
THEOREM NothingIsLostInLinking ==
    Spec => [](linked # {} =>
                 \A c \in Classes, I \in Interfaces :
                    Done(c, I) => \E d \in linked :
                       d.interface = I /\ \E e \in d.implementations : e[2] = name[c])
  <1>1. ASSUME DispatchInv, ReadBack, linked # {}
        PROVE  \A c \in Classes, I \in Interfaces :
                  Done(c, I) => \E d \in linked :
                     d.interface = I /\ \E e \in d.implementations : e[2] = name[c]
    BY <1>1, ListedIsRead
  <1> QED  BY <1>1, ReadBackHolds, DispatchSafe, PTL

----------------------------------------------------------------------------
(* Why finalizeInterfaces ends, and where.                                 *)

\* No assertion has failed, and there is a class to visit, an interface in the count
\* map, or a dispatcher to link.
GoesOn ==
    /\ failed = {}
    /\ \/ pending # {} \/ current < ClassCount
       \/ linked = {} /\ \E I \in Interfaces : Exists(I)

\* The outer loop goes to the next class, or the inner loop has one interface less,
\* or both have ended and the dispatchers are linked, or the program ends.
Closer ==
    \/ current < current' /\ current' <= ClassCount
    \/ current' = current /\ pending' \subseteq pending /\ pending' # pending
    \/ current' = current /\ pending' = pending /\ linked = {} /\ linked' # {}
    \/ failed' # {}

\* Every step of finalizeInterfaces brings it nearer to its end, in the order of its
\* loops: no class is visited twice, and the map of counts only shrinks until the
\* next class.
LoopsProgress == [][GoesOn /\ Closer]_vars

THEOREM LoopsEnd == Spec => LoopsProgress
  <1> DEFINE Step == GoesOn /\ Closer
  <1>1. ASSUME DispatchInv, [Next]_vars PROVE [Step]_vars
    <2> SUFFICES ASSUME ~UNCHANGED vars PROVE Step
      OBVIOUS
    <2>1. CASE VisitClass
      <3>1. current \in Nat /\ ClassCount \in Nat
        BY <1>1, ClassAssumption DEF DispatchInv, Turns
      <3>2. current < ClassCount /\ current' = current + 1 /\ failed = {}
        BY <2>1 DEF VisitClass
      <3>3. current < current' /\ current' <= ClassCount
        BY <3>1, <3>2
      <3> QED  BY <3>2, <3>3 DEF GoesOn, Closer
    <2>2. ASSUME NEW I \in Interfaces, InsertImplementation(I) PROVE Step
      BY <2>2 DEF InsertImplementation, GoesOn, Closer
    <2>3. ASSUME NEW I \in Interfaces, FailAssertion(I) PROVE Step
      BY <2>3 DEF FailAssertion, GoesOn, Closer
    <2>4. CASE Link
      <3>1. linked' # {}
        BY <2>4 DEF Link, vars
      <3>2. PICK d \in linked' : TRUE
        BY <3>1
      <3>3. \E I \in Interfaces : Exists(I)
        BY <2>4, <3>2 DEF Link
      <3> QED  BY <2>4, <3>1, <3>3 DEF Link, GoesOn, Closer
    <2> QED  BY <1>1, <2>1, <2>2, <2>3, <2>4 DEF Next
  <1> HIDE DEF Step
  <1>2. Spec => [][Step]_vars
    BY <1>1, DispatchSafe, PTL DEF Spec
  <1> QED  BY <1>2 DEF LoopsProgress, Step

\* Where finalizeInterfaces has nothing more to do, an assertion has failed (for what
\* AssertionsExplained says), or all classes were visited and each that implements an
\* interface is listed in a dispatcher that was read back: with LoopsEnd, what
\* EndsLinked says but for the fairness.
THEOREM EndsComplete ==
    Spec => [](~GoesOn =>
                 \/ failed # {}
                 \/ /\ current = ClassCount
                    /\ \A c \in Classes, I \in Interfaces :
                         Done(c, I) => \E d \in linked :
                            d.interface = I /\ \E e \in d.implementations : e[2] = name[c])
  <1>1. ASSUME DispatchInv, ReadBack, ~GoesOn, failed = {}
        PROVE  /\ current = ClassCount
               /\ \A c \in Classes, I \in Interfaces :
                    Done(c, I) => \E d \in linked :
                       d.interface = I /\ \E e \in d.implementations : e[2] = name[c]
    <2>1. current = ClassCount
      BY <1>1, ClassAssumption DEF GoesOn, DispatchInv, Turns
    <2>2. ASSUME NEW c \in Classes, NEW I \in Interfaces, Done(c, I)
          PROVE  linked # {}
      <3>1. Inserted(c, I) /\ Exists(I)
        BY <1>1, <2>2, DoneIsInserted DEF DispatchInv, DispatchersComplete
      <3> QED  BY <1>1, <3>1 DEF GoesOn
    <2> QED  BY <1>1, <2>1, <2>2, ListedIsRead
  <1>2. DispatchInv /\ ReadBack =>
           (~GoesOn =>
              \/ failed # {}
              \/ /\ current = ClassCount
                 /\ \A c \in Classes, I \in Interfaces :
                      Done(c, I) => \E d \in linked :
                         d.interface = I /\ \E e \in d.implementations : e[2] = name[c])
    BY <1>1
  <1> QED  BY <1>2, ReadBackHolds, DispatchSafe, PTL

----------------------------------------------------------------------------
(***************************************************************************)
(* Where classes and interfaces come from: ClassesFromABI, for every       *)
(* number of functions. What is read of their names is what ABI's parser   *)
(* reads, of which only ReadingAssumption is used.                         *)
(***************************************************************************)
ClassRecords ==
    [name : ClassNames(Compiled), type : {f.self : f \in Compiled},
     methods : SUBSET ({f.name.method : f \in Compiled} \X Compiled)]

\* A finite module of compiled functions, and classes made of such functions
LoadingTypes ==
    /\ functions \subseteq Compiled
    /\ IsFiniteSet(functions)
    /\ classes \in Seq(ClassRecords)
    /\ stopped \in BOOLEAN

LoadingInv == LoadingTypes /\ NamedOnce /\ StopsAreExplained

LEMMA ReadableFunctions ==
    ASSUME LoadingTypes, NEW linkages
    PROVE  /\ Readable(linkages) \subseteq functions
           /\ Readable(linkages) \subseteq Compiled
           /\ IsFiniteSet(Readable(linkages))
           /\ \A f \in Readable(linkages) :
                 /\ f.linkage \in linkages /\ f.name.found /\ f.said.method
                 /\ f.name.class \in {f.said.spelling, Undefined}
                 /\ f.said.clear => Undefined \notin {f.name.class, f.name.method}
  <1>1. Readable(linkages) \subseteq functions
    BY DEF Readable
  <1>2. IsFiniteSet(Readable(linkages))
    BY <1>1, FS_Subset DEF LoadingTypes
  <1>3. ASSUME NEW f \in Readable(linkages)
        PROVE  /\ f.linkage \in linkages /\ f.name.found /\ f.said.method
               /\ f.name.class \in {f.said.spelling, Undefined}
               /\ f.said.clear => Undefined \notin {f.name.class, f.name.method}
    <2>1. f \in Compiled /\ f.linkage \in linkages /\ f.name.found
      BY DEF Readable, LoadingTypes
    <2>2. f.said.method /\ f.name.class \in {f.said.spelling, Undefined}
      BY <2>1, ReadingAssumption
    <2> QED  BY <2>1, <2>2, ReadingAssumption
  <1> QED  BY <1>1, <1>2, <1>3 DEF LoadingTypes

LEMMA FiniteNames ==
    ASSUME NEW fs, IsFiniteSet(fs)
    PROVE  IsFiniteSet(ClassNames(fs))
  <1> DEFINE called == [f \in fs |-> f.name.class]
  <1>1. called \in Surjection(fs, ClassNames(fs))
    BY DEF Surjection, ClassNames
  <1> QED  BY <1>1, FS_Surjection

LEMMA ClassFields ==
    ASSUME NEW fs, NEW n
    PROVE  /\ Class(fs, n).name = n
           /\ {m[2] : m \in Class(fs, n).methods} = MethodsOf(fs, n)
  <1> DEFINE t == CHOOSE x \in {f.self : f \in MethodsOf(fs, n)} : TRUE
             ms == {<<f.name.method, f>> : f \in MethodsOf(fs, n)}
  <1>1. Class(fs, n) = [name |-> n, type |-> t, methods |-> ms]
    BY DEF Class
  <1>2. ASSUME NEW f \in MethodsOf(fs, n) PROVE f \in {m[2] : m \in ms}
    <2>1. <<f.name.method, f>> \in ms /\ <<f.name.method, f>>[2] = f
      OBVIOUS
    <2> QED  BY <2>1
  <1>3. ASSUME NEW m \in ms PROVE m[2] \in MethodsOf(fs, n)
    OBVIOUS
  <1> HIDE DEF t, ms
  <1>4. {m[2] : m \in ms} = MethodsOf(fs, n)
    BY <1>2, <1>3
  <1> QED  BY <1>1, <1>4

\* What is made of compiled functions is a class.
LEMMA ClassIsRecord ==
    ASSUME NEW fs \in SUBSET Compiled, NEW n, MethodsOf(fs, n) # {}
    PROVE  Class(fs, n) \in ClassRecords
  <1> DEFINE t == CHOOSE x \in {f.self : f \in MethodsOf(fs, n)} : TRUE
             ms == {<<f.name.method, f>> : f \in MethodsOf(fs, n)}
  <1>1. MethodsOf(fs, n) \subseteq Compiled
    BY DEF MethodsOf
  <1>2. t \in {f.self : f \in MethodsOf(fs, n)}
    OBVIOUS
  <1>3. t \in {f.self : f \in Compiled}
    BY <1>1, <1>2
  <1>4. ms \in SUBSET ({f.name.method : f \in Compiled} \X Compiled)
    BY <1>1
  <1>5. n \in ClassNames(Compiled)
    BY DEF MethodsOf, ClassNames
  <1>6. Class(fs, n) = [name |-> n, type |-> t, methods |-> ms]
    BY DEF Class
  <1> HIDE DEF t, ms
  <1> QED  BY <1>3, <1>4, <1>5, <1>6 DEF ClassRecords

----------------------------------------------------------------------------
\* The program ends for what Mixed says of functions of one linkage.
LEMMA EndsOnlyForMixed ==
    ASSUME LoadingTypes, NEW linkage, NEW names,
           \/ Ends(Readable({linkage}), names)
           \/ Undefined \in ClassNames(Readable({linkage}))
    PROVE  Mixed({f \in functions : f.linkage = linkage /\ f.said.method})
  <1> DEFINE fs == Readable({linkage})
             ms == {f \in functions : f.linkage = linkage /\ f.said.method}
  <1>1. fs \subseteq ms
    BY ReadableFunctions
  <1>2. \A f \in fs : /\ f.name.class \in {f.said.spelling, Undefined}
                      /\ f.said.clear => Undefined \notin {f.name.class, f.name.method}
    BY ReadableFunctions
  <1>8. Ends(fs, names) \/ Undefined \in ClassNames(fs)
    OBVIOUS
  <1> SUFFICES Mixed(ms)
    OBVIOUS
  <1> HIDE DEF fs, ms
  <1>3. CASE Undefined \in ClassNames(fs)
    BY <1>1, <1>2, <1>3 DEF ClassNames, Mixed
  <1>4. CASE \E f \in fs : f.self = NoParameter
    BY <1>1, <1>4 DEF Mixed
  <1>5. CASE \E c \in names : \E f, g \in MethodsOf(fs, c) : f.self # g.self
    <2>1. PICK f \in fs, g \in fs :
             /\ f.name.class = g.name.class
             /\ NoSelf \notin {f.self, g.self} /\ f.self # g.self
      BY <1>5 DEF MethodsOf
    <2>2. CASE f.name.class = Undefined
      BY <1>1, <1>2, <2>1, <2>2 DEF Mixed
    <2>3. CASE f.name.class # Undefined
      BY <1>1, <1>2, <2>1, <2>3 DEF Mixed
    <2> QED  BY <2>2, <2>3
  <1>6. CASE \E c \in names : \E f \in MethodsOf(fs, c) : f.name.method = Undefined
    BY <1>1, <1>2, <1>6 DEF MethodsOf, Mixed
  <1>7. Ends(fs, names) =>
           \/ \E f \in fs : f.self = NoParameter
           \/ \E c \in names : \E f, g \in MethodsOf(fs, c) : f.self # g.self
           \/ \E c \in names : \E f \in MethodsOf(fs, c) : f.name.method = Undefined
    BY DEF Ends
  <1> QED  BY <1>3, <1>4, <1>5, <1>6, <1>7, <1>8

\* A class that is made without ending the program is a scope, or two scopes are
\* confused.
LEMMA MadeIsScope ==
    ASSUME LoadingTypes, NEW linkage, NEW n, n # Undefined,
           ~Ends(Readable({linkage}), {n}), MethodsOf(Readable({linkage}), n) # {}
    PROVE  IsScopeOrConfused(Class(Readable({linkage}), n), linkage)
  <1> DEFINE fs == Readable({linkage})
             c == Class(fs, n)
             members == {m[2] : m \in c.methods}
  <1>1. PICK f \in MethodsOf(fs, n) : TRUE
    OBVIOUS
  <1>2. members = MethodsOf(fs, n)
    BY ClassFields
  <1>3. c.name = n
    BY ClassFields
  <1>4. \A g \in MethodsOf(fs, n) :
           /\ g \in functions /\ g \in Compiled /\ g.linkage = linkage
           /\ g.name.found /\ g.said.method
           /\ g.name.class = n /\ g.said.spelling = n
           /\ g.self # NoSelf /\ g.self = f.self
    <2> TAKE g \in MethodsOf(fs, n)
    <2>1. g \in fs /\ g.name.class = n /\ g.self # NoSelf
      BY DEF MethodsOf
    <2>2. g.self = f.self
      BY <1>1 DEF Ends
    <2> QED  BY <2>1, <2>2, ReadableFunctions
  <1>5. ASSUME NEW g \in OfScope(linkage, f.said.scope), g.self # NoSelf
        PROVE  g \in MethodsOf(fs, n)
    <2>1. g \in functions /\ g \in Compiled /\ g.linkage = linkage /\ g.said.method
          /\ g.said.scope = f.said.scope
      BY DEF OfScope, LoadingTypes
    <2>2. f \in Compiled /\ f.said.method /\ f.name.found /\ f.name.class = n
      BY <1>1, <1>4
    <2>3. g.name.found = f.name.found /\ g.name.class = f.name.class
      BY <2>1, <2>2, ReadingAssumption
    <2> QED  BY <1>5, <2>1, <2>2, <2>3 DEF MethodsOf, Readable
  <1> SUFFICES IsScopeOrConfused(c, linkage)
    OBVIOUS
  <1> HIDE DEF fs, c, members
  <1>6. CASE \A g \in MethodsOf(fs, n) : g.said.scope = f.said.scope
    <2>1. MethodsOf(fs, n) = {g \in OfScope(linkage, f.said.scope) : g.self # NoSelf}
      BY <1>4, <1>5, <1>6 DEF OfScope
    <2>2. f \in functions /\ f.said.method /\ c.name = f.said.spelling
      BY <1>1, <1>3, <1>4
    <2>3. {m[2] : m \in c.methods} = {g \in OfScope(linkage, f.said.scope) : g.self # NoSelf}
      BY <1>2, <2>1 DEF members
    <2>4. IsScope(c, linkage)
      BY <2>2, <2>3 DEF IsScope
    <2> QED  BY <2>4 DEF IsScopeOrConfused
  <1>7. CASE \E g \in MethodsOf(fs, n) : g.said.scope # f.said.scope
    <2>1. PICK g \in MethodsOf(fs, n) : g.said.scope # f.said.scope
      BY <1>7
    <2>2. Confused(linkage, n)
      BY <1>1, <1>4, <2>1 DEF Confused
    <2> QED  BY <1>3, <2>2 DEF IsScopeOrConfused
  <1> QED  BY <1>6, <1>7

----------------------------------------------------------------------------
\* What a call adds to the list of classes: classes of strong functions that were
\* not there, each name once.
NewClass(c) ==
    /\ c.name # Undefined
    /\ Existing(c.name) = {}
    /\ ~Ends(Readable({"strong"}), {c.name})
    /\ MethodsOf(Readable({"strong"}), c.name) # {}
    /\ c = Class(Readable({"strong"}), c.name)

NewClasses(more) ==
    /\ more \in Seq(ClassRecords)
    /\ \A i \in DOMAIN more : NewClass(more[i])
    /\ \A i, j \in DOMAIN more : more[i].name = more[j].name => i = j

LEMMA NothingNew == NewClasses(<<>>)
  BY DEF NewClasses

LEMMA ClassIsNew ==
    ASSUME LoadingTypes, NEW n, n # Undefined, Existing(n) = {},
           ~Ends(Readable({"strong"}), {n}), MethodsOf(Readable({"strong"}), n) # {}
    PROVE  LET c == Class(Readable({"strong"}), n)
           IN  c \in ClassRecords /\ c.name = n /\ NewClass(c)
  <1> DEFINE fs == Readable({"strong"})
             c == Class(fs, n)
  <1>1. c.name = n
    BY ClassFields
  <1>2. c \in ClassRecords
    BY ReadableFunctions, ClassIsRecord
  <1>3. c = Class(fs, c.name)
    BY <1>1
  <1> HIDE DEF c
  <1> QED  BY <1>1, <1>2, <1>3 DEF NewClass, c

LEMMA OneMade ==
    ASSUME LoadingTypes, NEW n \in ClassNames(Readable({"strong"})) \ {Undefined},
           getOrLoadClassFromABI(n)
    PROVE  \E more : NewClasses(more) /\ classes' = classes \o more
  <1> DEFINE fs == Readable({"strong"})
             c == Class(fs, n)
  <1>1. CASE stopped' \/ MethodsOf(fs, n) = {}
    <2>1. classes' = classes \o <<>>
      BY <1>1 DEF getOrLoadClassFromABI, LoadingTypes
    <2> QED  BY <2>1, NothingNew
  <1>2. CASE ~stopped' /\ MethodsOf(fs, n) # {}
    <2>1. Existing(n) = {} /\ ~Ends(fs, {n}) /\ classes' = Append(classes, c)
      BY <1>2 DEF getOrLoadClassFromABI
    <2>2. c \in ClassRecords /\ NewClass(c)
      BY <1>2, <2>1, ClassIsNew
    <2> HIDE DEF c, fs
    <2>3. NewClasses(<<c>>)
      BY <2>2 DEF NewClasses
    <2>4. classes' = classes \o <<c>>
      BY <2>1, <2>2 DEF LoadingTypes
    <2> QED  BY <2>3, <2>4
  <1> QED  BY <1>1, <1>2

\* An order of a finite set is a sequence of it, without repetition.
LEMMA OrdersAreSequences ==
    ASSUME NEW S, IsFiniteSet(S), NEW order \in Orders(S)
    PROVE  /\ order \in Seq(S)
           /\ \A i, j \in DOMAIN order : order[i] = order[j] => i = j
  <1>1. Cardinality(S) \in Nat
    BY FS_CardinalityType
  <1>2. order \in [1 .. Cardinality(S) -> S]
    BY DEF Orders
  <1>3. order \in Seq(S)
    BY <1>1, <1>2
  <1> QED  BY <1>3 DEF Orders

LEMMA AllMade ==
    ASSUME LoadingTypes, getOrLoadAllClassesFromABI
    PROVE  \E more : NewClasses(more) /\ classes' = classes \o more
  <1> DEFINE fs == Readable({"strong"})
             missing == {c \in ClassNames(fs) : Existing(c) = {}}
             new == {c \in missing : MethodsOf(fs, c) # {}}
  <1>1. PICK order \in Orders(new) :
           classes' = IF stopped' THEN classes
                      ELSE classes \o [i \in DOMAIN order |-> Class(fs, order[i])]
    BY DEF getOrLoadAllClassesFromABI
  <1>2. IsFiniteSet(ClassNames(fs))
    BY ReadableFunctions, FiniteNames
  <1>3. IsFiniteSet(new)
    BY <1>2, FS_Subset
  <1>4. order \in Seq(new) /\ \A i, j \in DOMAIN order : order[i] = order[j] => i = j
    BY <1>3, OrdersAreSequences
  <1>5. CASE stopped'
    <2>1. classes' = classes \o <<>>
      BY <1>1, <1>5 DEF LoadingTypes
    <2> QED  BY <2>1, NothingNew
  <1>6. CASE ~stopped'
    <2> DEFINE more == [i \in DOMAIN order |-> Class(fs, order[i])]
    <2>1. Undefined \notin missing /\ ~Ends(fs, missing)
      BY <1>6 DEF getOrLoadAllClassesFromABI
    <2>2. ASSUME NEW n \in new
          PROVE  n # Undefined /\ Existing(n) = {} /\ MethodsOf(fs, n) # {} /\ ~Ends(fs, {n})
      BY <2>1 DEF Ends
    <2>3. ASSUME NEW n \in new
          PROVE  Class(fs, n) \in ClassRecords /\ Class(fs, n).name = n /\ NewClass(Class(fs, n))
      BY <2>2, ClassIsNew
    <2>4. ASSUME NEW i \in DOMAIN order
          PROVE  order[i] \in new /\ more[i] = Class(fs, order[i])
      BY <1>4
    <2>5. DOMAIN more = DOMAIN order
      OBVIOUS
    <2>6. Len(order) \in Nat /\ DOMAIN order = 1 .. Len(order)
      BY <1>4
    <2>7. \A i \in DOMAIN order : more[i] \in ClassRecords /\ NewClass(more[i]) /\ more[i].name = order[i]
      BY <2>3, <2>4
    <2>8. classes' = classes \o more
      BY <1>1, <1>6
    <2>9. more = [i \in 1 .. Len(order) |-> more[i]]
      BY <2>6
    <2> HIDE DEF more, new, fs
    <2>10. more \in [1 .. Len(order) -> ClassRecords]
      BY <2>6, <2>7, <2>9
    <2>11. more \in Seq(ClassRecords)
      BY <2>6, <2>10
    <2>12. NewClasses(more)
      BY <1>4, <2>5, <2>7, <2>11 DEF NewClasses
    <2> QED  BY <2>8, <2>12
  <1> QED  BY <1>5, <1>6

LEMMA StepMakes ==
    ASSUME LoadingTypes, NextLoading
    PROVE  \E more : NewClasses(more) /\ classes' = classes \o more
  <1>1. ASSUME classes' = classes PROVE \E more : NewClasses(more) /\ classes' = classes \o more
    <2>1. classes' = classes \o <<>>
      BY <1>1 DEF LoadingTypes
    <2> QED  BY <2>1, NothingNew
  <1>2. ASSUME NEW f \in Compiled, AddFunction(f) PROVE classes' = classes
    BY <1>2 DEF AddFunction
  <1>3. ASSUME getAllInterfacesFromABI PROVE classes' = classes
    BY <1>3 DEF getAllInterfacesFromABI
  <1> QED  BY <1>1, <1>2, <1>3, OneMade, AllMade DEF NextLoading

\* Where a class that a step adds is found in the longer list.
LEMMA Lengthened ==
    ASSUME NEW S, NEW old \in Seq(S), NEW more \in Seq(S)
    PROVE  /\ old \o more \in Seq(S)
           /\ \A i \in DOMAIN (old \o more) :
                 \/ i \in DOMAIN old /\ (old \o more)[i] = old[i]
                 \/ /\ i \notin DOMAIN old /\ i - Len(old) \in DOMAIN more
                    /\ (old \o more)[i] = more[i - Len(old)]
  OBVIOUS

----------------------------------------------------------------------------
\* Classes that are new are named apart from those that are there.
LEMMA NewNames ==
    ASSUME LoadingTypes, NamedOnce, NEW more, NewClasses(more), classes' = classes \o more
    PROVE  classes' \in Seq(ClassRecords) /\ NamedOnce'
  <1>1. classes \in Seq(ClassRecords) /\ more \in Seq(ClassRecords)
    BY DEF LoadingTypes, NewClasses
  <1>2. /\ classes' \in Seq(ClassRecords)
        /\ \A i \in DOMAIN classes' :
              \/ i \in DOMAIN classes /\ classes'[i] = classes[i]
              \/ /\ i \notin DOMAIN classes /\ i - Len(classes) \in DOMAIN more
                 /\ classes'[i] = more[i - Len(classes)]
    BY <1>1, Lengthened
  <1>3. \A i \in DOMAIN classes, j \in DOMAIN more :
           classes[i].name = more[j].name => more[j].name = NoName
    BY DEF NewClasses, NewClass, Existing
  <1>4. ASSUME NEW i \in DOMAIN classes', NEW j \in DOMAIN classes',
               classes'[i].name = classes'[j].name
        PROVE  i = j \/ classes'[i].name = NoName
    <2>0. DOMAIN classes' \subseteq Nat /\ Len(classes) \in Nat
      BY <1>1, <1>2
    <2>1. CASE i \in DOMAIN classes /\ j \in DOMAIN classes
      BY <1>2, <1>4, <2>1 DEF NamedOnce
    <2>2. CASE i \in DOMAIN classes /\ j \notin DOMAIN classes
      BY <1>2, <1>3, <1>4, <2>2
    <2>3. CASE i \notin DOMAIN classes /\ j \in DOMAIN classes
      BY <1>2, <1>3, <1>4, <2>3
    <2>4. CASE i \notin DOMAIN classes /\ j \notin DOMAIN classes
      <3>1. i - Len(classes) = j - Len(classes)
        BY <1>2, <1>4, <2>4 DEF NewClasses
      <3> QED  BY <2>0, <3>1
    <2> QED  BY <2>1, <2>2, <2>3, <2>4
  <1>5. NamedOnce'
    BY <1>4 DEF NamedOnce
  <1> QED  BY <1>2, <1>5

LEMMA TypesStep ==
    ASSUME LoadingTypes, NextLoading
    PROVE  functions' \subseteq Compiled /\ IsFiniteSet(functions') /\ stopped' \in BOOLEAN
  <1>1. ASSUME NEW f \in Compiled, AddFunction(f)
        PROVE  functions' \subseteq Compiled /\ IsFiniteSet(functions') /\ stopped' \in BOOLEAN
    <2>1. IsFiniteSet(functions \cup {f})
      BY FS_AddElement DEF LoadingTypes
    <2> QED  BY <1>1, <2>1 DEF AddFunction, LoadingTypes
  <1>2. ASSUME NEW n, getOrLoadClassFromABI(n)
        PROVE  functions' \subseteq Compiled /\ IsFiniteSet(functions') /\ stopped' \in BOOLEAN
    <2>1. functions' = functions /\ stopped' = Ends(Readable({"strong"}), {n})
      BY <1>2 DEF getOrLoadClassFromABI
    <2>2. Ends(Readable({"strong"}), {n}) \in BOOLEAN
      BY DEF Ends
    <2> QED  BY <2>1, <2>2 DEF LoadingTypes
  <1>3. ASSUME getOrLoadAllClassesFromABI
        PROVE  functions' \subseteq Compiled /\ IsFiniteSet(functions') /\ stopped' \in BOOLEAN
    BY <1>3 DEF getOrLoadAllClassesFromABI, LoadingTypes
  <1>4. ASSUME getAllInterfacesFromABI
        PROVE  functions' \subseteq Compiled /\ IsFiniteSet(functions') /\ stopped' \in BOOLEAN
    BY <1>4 DEF getAllInterfacesFromABI, LoadingTypes
  <1> QED  BY <1>1, <1>2, <1>3, <1>4 DEF NextLoading

\* The program ends in the call that meets the functions that Mixed describes.
LEMMA StopsStep ==
    ASSUME LoadingTypes, NextLoading
    PROVE  StopsAreExplained'
  <1> DEFINE Of(linkage) == {f \in functions : f.linkage = linkage /\ f.said.method}
  <1>1. ASSUME NEW linkage \in {"strong", "declaration"}, Mixed(Of(linkage)),
               functions' = functions
        PROVE  StopsAreExplained'
    BY <1>1 DEF StopsAreExplained, Mixed
  <1>2. ASSUME NEW f \in Compiled, AddFunction(f) PROVE StopsAreExplained'
    BY <1>2 DEF AddFunction, StopsAreExplained
  <1>3. ASSUME ~stopped' PROVE StopsAreExplained'
    BY <1>3 DEF StopsAreExplained
  <1>4. ASSUME NEW n, getOrLoadClassFromABI(n), stopped' PROVE StopsAreExplained'
    <2>1. Ends(Readable({"strong"}), {n}) /\ functions' = functions
      BY <1>4 DEF getOrLoadClassFromABI
    <2>2. Mixed(Of("strong"))
      BY <2>1, EndsOnlyForMixed
    <2> HIDE DEF Of
    <2> QED  BY <1>1, <2>1, <2>2
  <1>5. ASSUME getOrLoadAllClassesFromABI, stopped' PROVE StopsAreExplained'
    <2> DEFINE fs == Readable({"strong"})
    <2>1. PICK names : names \subseteq ClassNames(fs) /\ (Undefined \in names \/ Ends(fs, names))
      BY <1>5 DEF getOrLoadAllClassesFromABI
    <2>2. Mixed(Of("strong"))
      BY <2>1, EndsOnlyForMixed
    <2>3. functions' = functions
      BY <1>5 DEF getOrLoadAllClassesFromABI
    <2> HIDE DEF Of
    <2> QED  BY <1>1, <2>2, <2>3
  <1>6. ASSUME getAllInterfacesFromABI, stopped' PROVE StopsAreExplained'
    <2> DEFINE fs == Readable({"declaration"})
    <2>1. Undefined \in ClassNames(fs) \/ Ends(fs, ClassNames(fs))
      BY <1>6 DEF getAllInterfacesFromABI
    <2>2. Mixed(Of("declaration"))
      BY <2>1, EndsOnlyForMixed
    <2>3. functions' = functions
      BY <1>6 DEF getAllInterfacesFromABI
    <2> HIDE DEF Of
    <2> QED  BY <1>1, <2>2, <2>3
  <1> QED  BY <1>2, <1>3, <1>4, <1>5, <1>6 DEF NextLoading

LEMMA LoadingInvInit == InitLoading => LoadingInv
  <1> SUFFICES ASSUME InitLoading PROVE LoadingInv
    OBVIOUS
  <1>0. IsFiniteSet({})
    BY FS_EmptySet
  <1>1. LoadingTypes
    <2>1. functions = {} /\ classes = <<>> /\ stopped = FALSE
      BY DEF InitLoading
    <2>2. functions \subseteq Compiled /\ IsFiniteSet(functions)
      BY <1>0, <2>1
    <2>3. stopped \in BOOLEAN
      BY <2>1
    <2>4. <<>> \in Seq(ClassRecords)
      OBVIOUS
    <2> QED  BY <2>1, <2>2, <2>3, <2>4 DEF LoadingTypes
  <1>2. NamedOnce /\ StopsAreExplained
    BY DEF InitLoading, NamedOnce, StopsAreExplained
  <1> QED  BY <1>1, <1>2 DEF LoadingInv

LEMMA LoadingInvStep == LoadingInv /\ [NextLoading]_loading => LoadingInv'
  <1> SUFFICES ASSUME LoadingInv, [NextLoading]_loading PROVE LoadingInv'
    OBVIOUS
  <1>1. CASE NextLoading
    <2>1. LoadingTypes /\ NamedOnce
      BY DEF LoadingInv
    <2>2. PICK more : NewClasses(more) /\ classes' = classes \o more
      BY <1>1, <2>1, StepMakes
    <2>3. classes' \in Seq(ClassRecords) /\ NamedOnce'
      BY <2>1, <2>2, NewNames
    <2>4. LoadingTypes'
      BY <1>1, <2>1, <2>3, TypesStep DEF LoadingTypes
    <2>5. StopsAreExplained'
      BY <1>1, <2>1, StopsStep
    <2> QED  BY <2>3, <2>4, <2>5 DEF LoadingInv
  <1>2. CASE UNCHANGED loading
    BY <1>2 DEF loading, LoadingInv, LoadingTypes, NamedOnce, StopsAreExplained, Mixed
  <1> QED  BY <1>1, <1>2

\* The inductive invariant of loading classes and interfaces: the module is a finite
\* set of compiled functions, classes are made of such functions, a name that is not
\* empty is that of one class, and the program ended for what it met only.
THEOREM LoadingSafe == Loading => []LoadingInv
  <1>1. LoadingInv /\ [NextLoading]_loading => LoadingInv'
    BY LoadingInvStep
  <1> QED  BY LoadingInvInit, <1>1, PTL DEF Loading

\* getOrLoadClassFromABI and getOrLoadAllClassesFromABI, called in any order and as
\* often as one likes while functions come, make one class of a name at most.
THEOREM ClassesNamedOnce == Loading => []NamedOnce
  <1>1. LoadingInv => NamedOnce
    BY DEF LoadingInv
  <1> QED  BY <1>1, LoadingSafe, PTL

\* The assertion on the class's type and a method without a text end the program only
\* for functions that Mixed describes, whatever functions the module has.
THEOREM StopsExplained == Loading => []StopsAreExplained
  <1>1. LoadingInv => StopsAreExplained
    BY DEF LoadingInv
  <1> QED  BY <1>1, LoadingSafe, PTL

\* The classes and the interfaces that a step makes are scopes, or scopes are confused.
LEMMA ClassesAreScopesStep ==
    ASSUME LoadingTypes, NextLoading
    PROVE  /\ \A i \in DOMAIN classes' \ DOMAIN classes : IsScopeOrConfused(classes'[i], "strong")
           /\ \A c \in interfaces' \ interfaces : IsScopeOrConfused(c, "declaration")
  <1>1. ASSUME NEW i \in DOMAIN classes' \ DOMAIN classes
        PROVE  IsScopeOrConfused(classes'[i], "strong")
    <2>1. PICK more : NewClasses(more) /\ classes' = classes \o more
      BY StepMakes
    <2>2. classes \in Seq(ClassRecords) /\ more \in Seq(ClassRecords)
      BY <2>1 DEF LoadingTypes, NewClasses
    <2>3. i - Len(classes) \in DOMAIN more /\ classes'[i] = more[i - Len(classes)]
      BY <2>1, <2>2, Lengthened
    <2>4. NewClass(classes'[i])
      BY <2>1, <2>3 DEF NewClasses
    <2> QED  BY <2>4, MadeIsScope DEF NewClass
  <1>2. ASSUME NEW c \in interfaces' \ interfaces
        PROVE  IsScopeOrConfused(c, "declaration")
    <2> DEFINE fs == Readable({"declaration"})
               made == {n \in ClassNames(fs) : MethodsOf(fs, n) # {}}
    <2>1. getAllInterfacesFromABI
      BY <1>2 DEF NextLoading, AddFunction, getOrLoadClassFromABI, getOrLoadAllClassesFromABI
    <2>2. /\ ~stopped' /\ interfaces' = {Class(fs, n) : n \in made}
          /\ Undefined \notin made /\ ~Ends(fs, ClassNames(fs))
      BY <1>2, <2>1 DEF getAllInterfacesFromABI
    <2>3. PICK n \in made : c = Class(fs, n)
      BY <1>2, <2>2
    <2>4. n # Undefined /\ ~Ends(fs, {n}) /\ MethodsOf(fs, n) # {}
      BY <2>2, <2>3 DEF Ends
    <2> QED  BY <2>3, <2>4, MadeIsScope
  <1> QED  BY <1>1, <1>2

\* Although getOrLoadClassFromABI tells scopes apart by text, a class it makes is one
\* scope with all of its methods, unless two scopes have one text and share a first
\* parameter's type; interfaces likewise.
THEOREM MadeAreScopes == Loading => ClassesAreScopes
  <1> DEFINE A == /\ \A i \in DOMAIN classes' \ DOMAIN classes : IsScopeOrConfused(classes'[i], "strong")
                  /\ \A c \in interfaces' \ interfaces : IsScopeOrConfused(c, "declaration")
  <1>1. LoadingInv /\ [NextLoading]_loading => [A]_loading
    BY ClassesAreScopesStep DEF LoadingInv
  <1> HIDE DEF A
  <1>2. Loading => [][A]_loading
    BY <1>1, LoadingSafe, PTL DEF Loading
  <1> QED  BY <1>2 DEF ClassesAreScopes, A
=============================================================================
