-------------------------- MODULE GraphColourProofs --------------------------
(***************************************************************************)
(* Proofs about the parallel colouring, for any graph, any number of       *)
(* threads and any number of rounds.                                       *)
(***************************************************************************)
EXTENDS GraphColour, FiniteSetTheorems, WellFoundedInduction, TLAPS

-----------------------------------------------------------------------------
(* Vertices and colours. *)

\* The smallest of some natural numbers is one of them.
LEMMA SmallestIn ==
    ASSUME NEW S, S \subseteq Nat, S # {}
    PROVE  SmallestOf(S) \in S /\ \A n \in S : SmallestOf(S) <= n
<1>1. PICK m \in S : \A n \in S : <<n, m>> \notin OpToRel(<, Nat)
  BY WFMin, NatLessThanWellFounded, Zenon
<1>2. \A n \in S : ~ (n < m)
  BY <1>1, Zenon DEF OpToRel
<1>3. \A n \in S : m <= n
  BY <1>2
<1> QED
  BY <1>3 DEF SmallestOf

LEMMA VertexType == Vertex \subseteq Nat /\ Vertex # {} /\ IsFiniteSet(Vertex)
<1>1. GraphSize \in Nat \ {0}
  BY GraphAssumption
<1>2. Vertex \subseteq Nat /\ 1 \in Vertex
  BY <1>1 DEF Vertex
<1>3. IsFiniteSet(1 .. GraphSize)
  BY <1>1, FS_Interval
<1> QED
  BY <1>2, <1>3 DEF Vertex

LEMMA AdjacentType ==
    ASSUME NEW v \in Vertex
    PROVE  /\ Adjacent[v] \in Seq(Vertex)
           /\ Len(Adjacent[v]) \in Nat
           /\ DOMAIN Adjacent[v] = 1 .. Len(Adjacent[v])
           /\ \A i \in 1 .. Len(Adjacent[v]) : Adjacent[v][i] \in Vertex
           /\ Neighbours(v) \subseteq Vertex
<1>1. Adjacent[v] \in Seq(Vertex)
  BY GraphAssumption
<1> QED
  BY <1>1 DEF Neighbours

\* The largest degree exists, and no vertex has more neighbours.
LEMMA MaxDegreeType ==
    MaxDegree \in Nat /\ \A v \in Vertex : Len(Adjacent[v]) <= MaxDegree
<1> DEFINE degrees == {Len(Adjacent[v]) : v \in Vertex}
           bounds  == {b \in Nat : \A v \in Vertex : Len(Adjacent[v]) <= b}
           least   == SmallestOf(bounds)
<1>1. \A v \in Vertex : Len(Adjacent[v]) \in Nat
  BY AdjacentType
<1>2. Cardinality(Vertex) \in bounds
  <2>1. Cardinality(Vertex) \in Nat
    BY VertexType, FS_CardinalityType
  <2>2. ASSUME NEW v \in Vertex PROVE Len(Adjacent[v]) <= Cardinality(Vertex)
    <3>1. Cardinality(Neighbours(v)) <= Cardinality(Vertex)
      BY AdjacentType, VertexType, FS_Subset
    <3> QED
      BY <3>1, GraphAssumption
  <2> QED
    BY <2>1, <2>2
<1>3. least \in bounds /\ \A b \in bounds : least <= b
  BY <1>2, SmallestIn
<1> HIDE DEF least
<1>4. least \in degrees
  <2>1. SUFFICES ASSUME least \notin degrees PROVE FALSE
    OBVIOUS
  <2>2. least \in Nat /\ \A v \in Vertex : Len(Adjacent[v]) < least
    BY <1>1, <1>3, <2>1
  <2>3. PICK v \in Vertex : TRUE
    BY VertexType
  <2>4. Len(Adjacent[v]) \in Nat /\ Len(Adjacent[v]) < least
    BY <1>1, <2>2
  <2>5. least - 1 \in Nat
    BY <2>2, <2>4
  <2>6. least - 1 \in bounds
    BY <1>1, <2>2, <2>5
  <2>7. least <= least - 1
    <3> HIDE DEF bounds
    <3> QED
      BY <1>3, <2>6, Zenon
  <2> QED
    BY <2>2, <2>7
<1>5. \E d \in degrees : \A v \in Vertex : Len(Adjacent[v]) <= d
  BY <1>3, <1>4
<1>6. MaxDegree \in degrees /\ \A v \in Vertex : Len(Adjacent[v]) <= MaxDegree
  <2> HIDE DEF degrees
  <2>1. MaxDegree = CHOOSE d \in degrees : \A v \in Vertex : Len(Adjacent[v]) <= d
    BY DEF MaxDegree, degrees
  <2> QED
    BY <1>5, <2>1
<1> QED
  BY <1>1, <1>6

-----------------------------------------------------------------------------
(* The invariant. *)

\* The threads only work on the vertices of the round.
WorkInRound == \A t \in Thread : work[t] \subseteq uncolored

\* A thread has forbidden the colours of the settled neighbours it has read.
MarksRead ==
    \A t \in Thread :
        /\ work[t] = {} => read[t] = 0
        /\ \A i \in 1 .. read[t] :
             LET v == SmallestOf(work[t])
                 w == Adjacent[v][i]
             IN  w \notin uncolored /\ colours[w] # 0 => fc[t][colours[w]] = v

\* How far a thread may have read.
ReadBounded ==
    \A t \in Thread : work[t] # {} => read[t] <= Len(Adjacent[SmallestOf(work[t])])

\* A vertex of the round does not clash with a settled one that comes after it.
LaterDiffer ==
    \A v \in uncolored : \A w \in Neighbours(v) \ uncolored : v < w => colours[v] # colours[w]

ColourInv ==
    TypeOK /\ WorkInRound /\ MarksRead /\ ReadBounded /\ SettledDiffer /\ LaterDiffer

LEMMA ColourInvInit == Init => ColourInv
<1> SUFFICES ASSUME Init PROVE ColourInv
  OBVIOUS
<1>1. \A t \in Thread : Share(Vertex, t) \subseteq Vertex
  BY DEF Share
<1>2. TypeOK
  BY <1>1, MaxDegreeType DEF Init, TypeOK, Colour
<1>3. WorkInRound
  BY <1>1 DEF Init, WorkInRound
<1>4. MarksRead
  BY DEF Init, MarksRead
<1>5. ReadBounded
  <2> SUFFICES ASSUME NEW t \in Thread, work[t] # {}
               PROVE  read[t] <= Len(Adjacent[SmallestOf(work[t])])
    BY DEF ReadBounded
  <2>1. work[t] \subseteq Vertex /\ read[t] = 0
    BY <1>1 DEF Init
  <2>2. SmallestOf(work[t]) \in Vertex
    BY <2>1, SmallestIn, VertexType
  <2> QED
    BY <2>1, <2>2, AdjacentType
<1>6. SettledDiffer /\ LaterDiffer
  BY AdjacentType DEF Init, SettledDiffer, LaterDiffer
<1> QED
  BY <1>2, <1>3, <1>4, <1>5, <1>6 DEF ColourInv

\* What the invariant says of the vertex a thread is at.
LEMMA VertexAtHand ==
    ASSUME ColourInv, NEW t \in Thread, work[t] # {}
    PROVE  LET v == SmallestOf(work[t])
           IN  /\ v \in work[t] /\ v \in uncolored /\ v \in Vertex
               /\ read[t] \in Nat /\ read[t] <= Len(Adjacent[v])
<1>1. work[t] \subseteq Vertex /\ work[t] \subseteq uncolored /\ read[t] \in Nat
  BY MaxDegreeType DEF ColourInv, TypeOK, WorkInRound
<1>2. SmallestOf(work[t]) \in work[t]
  BY <1>1, VertexType, SmallestIn
<1> QED
  BY <1>1, <1>2 DEF ColourInv, ReadBounded

-----------------------------------------------------------------------------
(* A thread reads a colour. *)

LEMMA ReadKeeps ==
    ASSUME ColourInv, NEW t \in Thread, ReadNeighbour(t)
    PROVE  ColourInv'
<1> DEFINE v    == SmallestOf(work[t])
           i    == read[t] + 1
           w    == Adjacent[v][i]
           wcol == colours[w]
<1>1. v \in Vertex /\ v \in uncolored /\ read[t] \in Nat /\ read[t] < Len(Adjacent[v])
  BY VertexAtHand, AdjacentType DEF ReadNeighbour, AllRead
<1>2. w \in Vertex /\ i \in Nat /\ i <= Len(Adjacent[v])
  BY <1>1, AdjacentType
<1>3. wcol \in {0} \cup Colour
  BY <1>2 DEF ColourInv, TypeOK
<1>4. /\ fc' = IF wcol = 0 THEN fc ELSE [fc EXCEPT ![t][wcol] = v]
      /\ read' = [read EXCEPT ![t] = i]
      /\ UNCHANGED <<phase, uncolored, colours, nc, work, rounds>>
  BY DEF ReadNeighbour
<1> HIDE DEF v, wcol
<1>5. TypeOK'
  <2>1. fc' \in [Thread -> [Colour -> {0} \cup Vertex]]
    BY <1>1, <1>3, <1>4 DEF ColourInv, TypeOK
  <2>2. read' \in [Thread -> 0 .. MaxDegree]
    BY <1>1, <1>2, <1>4, MaxDegreeType DEF ColourInv, TypeOK
  <2> QED
    BY <1>4, <2>1, <2>2 DEF ColourInv, TypeOK
<1>6. WorkInRound'
  BY <1>4 DEF ColourInv, WorkInRound
<1>7. MarksRead'
  <2> SUFFICES ASSUME NEW s \in Thread
               PROVE  /\ work[s] = {} => read'[s] = 0
                      /\ \A k \in 1 .. read'[s] :
                           LET u == SmallestOf(work[s])
                               x == Adjacent[u][k]
                           IN  x \notin uncolored /\ colours[x] # 0 => fc'[s][colours[x]] = u
    BY <1>4 DEF MarksRead
  <2>1. /\ work[s] = {} => read[s] = 0
        /\ \A k \in 1 .. read[s] :
             LET u == SmallestOf(work[s])
                 x == Adjacent[u][k]
             IN  x \notin uncolored /\ colours[x] # 0 => fc[s][colours[x]] = u
    BY DEF ColourInv, MarksRead
  <2>2. CASE s # t
    BY <1>4, <2>1, <2>2 DEF ColourInv, TypeOK
  <2>3. CASE s = t
    <3>1. work[s] # {} /\ read'[s] = i
      BY <1>4, <2>3 DEF ReadNeighbour, ColourInv, TypeOK
    <3>2. ASSUME NEW k \in 1 .. i, Adjacent[v][k] \notin uncolored, colours[Adjacent[v][k]] # 0
          PROVE  fc'[t][colours[Adjacent[v][k]]] = v
      <4> DEFINE c == colours[Adjacent[v][k]]
      <4>1. Adjacent[v][k] \in Vertex
        BY <1>1, <1>2, AdjacentType
      <4>2. c \in Colour
        BY <3>2, <4>1 DEF ColourInv, TypeOK
      <4>3. CASE k = i
        BY <1>3, <1>4, <3>2, <4>2, <4>3 DEF wcol, ColourInv, TypeOK
      <4>4. CASE k # i
        <5>1. k \in 1 .. read[t]
          BY <1>1, <4>4
        <5>2. fc[t][c] = v
          BY <2>1, <2>3, <3>2, <5>1 DEF v
        <5> QED
          BY <1>3, <1>4, <4>2, <5>2 DEF ColourInv, TypeOK
      <4> QED
        BY <4>3, <4>4
    <3> QED
      BY <2>3, <3>1, <3>2 DEF v
  <2> QED
    BY <2>2, <2>3
<1>8. ReadBounded'
  BY <1>1, <1>2, <1>4 DEF v, ColourInv, ReadBounded, TypeOK
<1>9. SettledDiffer' /\ LaterDiffer'
  BY <1>4 DEF ColourInv, SettledDiffer, LaterDiffer
<1> QED
  BY <1>5, <1>6, <1>7, <1>8, <1>9 DEF ColourInv

-----------------------------------------------------------------------------
(* A thread gives a colour. *)

LEMMA GiveKeeps ==
    ASSUME ColourInv, NEW t \in Thread, GiveColour(t)
    PROVE  ColourInv'
<1> DEFINE v == SmallestOf(work[t])
           c == SmallestOf(Permissible(t, v))
<1>1. v \in Vertex /\ v \in uncolored /\ v \in work[t] /\ read[t] = Len(Adjacent[v])
  BY VertexAtHand DEF GiveColour, AllRead
<1>2. /\ work' = [work EXCEPT ![t] = work[t] \ {v}]
      /\ read' = [read EXCEPT ![t] = 0]
      /\ UNCHANGED <<phase, uncolored, fc, rounds>>
      /\ IF Permissible(t, v) = {} THEN UNCHANGED <<colours, nc>>
         ELSE colours' = [colours EXCEPT ![v] = c] /\ nc' = MaxOf(nc, c)
  BY DEF GiveColour
<1> HIDE DEF v
<1>3. Permissible(t, v) # {} => c \in Colour /\ fc[t][c] # v
  <2>1. Permissible(t, v) \subseteq Nat
    BY MaxDegreeType DEF Permissible, Colour
  <2>2. Permissible(t, v) # {} => c \in Permissible(t, v)
    BY <2>1, SmallestIn
  <2> QED
    BY <2>2 DEF Permissible
<1> HIDE DEF c
<1>4. \A u \in Vertex : u # v => colours'[u] = colours[u]
  BY <1>1, <1>2 DEF ColourInv, TypeOK
<1>5. TypeOK'
  <2>1. colours' \in [Vertex -> {0} \cup Colour] /\ nc' \in {0} \cup Colour
    BY <1>1, <1>2, <1>3 DEF ColourInv, TypeOK, MaxOf
  <2>2. work' \in [Thread -> SUBSET Vertex]
    BY <1>2 DEF ColourInv, TypeOK
  <2>3. read' \in [Thread -> 0 .. MaxDegree]
    BY <1>2, MaxDegreeType DEF ColourInv, TypeOK
  <2> QED
    BY <1>2, <2>1, <2>2, <2>3 DEF ColourInv, TypeOK
<1>6. \A s \in Thread : IF s = t THEN work'[s] = work[s] \ {v} /\ read'[s] = 0
                                 ELSE work'[s] = work[s] /\ read'[s] = read[s]
  BY <1>2 DEF ColourInv, TypeOK
<1>7. WorkInRound'
  BY <1>2, <1>6 DEF ColourInv, WorkInRound
<1>8. \A s \in Thread : work[s] # {} =>
         SmallestOf(work[s]) \in Vertex /\ read[s] \in Nat
           /\ read[s] <= Len(Adjacent[SmallestOf(work[s])])
  BY VertexAtHand
<1>9. MarksRead'
  <2> SUFFICES ASSUME NEW s \in Thread
               PROVE  /\ work'[s] = {} => read'[s] = 0
                      /\ \A k \in 1 .. read'[s] :
                           LET u == SmallestOf(work'[s])
                               x == Adjacent[u][k]
                           IN  x \notin uncolored /\ colours'[x] # 0 => fc[s][colours'[x]] = u
    BY <1>2 DEF MarksRead
  <2>1. CASE s = t
    BY <1>6, <2>1
  <2>2. CASE s # t
    <3>1. work'[s] = work[s] /\ read'[s] = read[s]
      BY <1>6, <2>2
    <3>2. work[s] = {} => read[s] = 0
      BY DEF ColourInv, MarksRead
    <3>3. ASSUME NEW k \in 1 .. read[s], work[s] # {},
                 Adjacent[SmallestOf(work[s])][k] \notin uncolored,
                 colours'[Adjacent[SmallestOf(work[s])][k]] # 0
          PROVE  fc[s][colours'[Adjacent[SmallestOf(work[s])][k]]] = SmallestOf(work[s])
      <4> DEFINE x == Adjacent[SmallestOf(work[s])][k]
      <4>1. k \in 1 .. Len(Adjacent[SmallestOf(work[s])])
        BY <1>8, <3>3, AdjacentType
      <4>2. x \in Vertex
        BY <1>8, <3>3, <4>1, AdjacentType
      <4>3. colours'[x] = colours[x]
        BY <1>1, <1>4, <3>3, <4>2
      <4> QED
        BY <3>3, <4>3 DEF ColourInv, MarksRead
    <3>4. work[s] = {} => 1 .. read[s] = {}
      BY <3>2
    <3> QED
      BY <3>1, <3>2, <3>3, <3>4
  <2> QED
    BY <2>1, <2>2
<1>10. ReadBounded'
  <2> SUFFICES ASSUME NEW s \in Thread, work'[s] # {}
               PROVE  read'[s] <= Len(Adjacent[SmallestOf(work'[s])])
    BY DEF ReadBounded
  <2>1. CASE s # t
    BY <1>6, <1>8, <2>1
  <2>2. CASE s = t
    <3>1. work'[s] \subseteq Vertex /\ read'[s] = 0
      BY <1>5, <1>6, <2>2 DEF TypeOK
    <3>2. SmallestOf(work'[s]) \in Vertex
      BY <3>1, SmallestIn, VertexType
    <3> QED
      BY <3>1, <3>2, AdjacentType
  <2> QED
    BY <2>1, <2>2
<1>11. SettledDiffer'
  BY <1>1, <1>2, <1>4, AdjacentType DEF ColourInv, SettledDiffer
<1>12. LaterDiffer'
  <2> SUFFICES ASSUME NEW u \in uncolored, NEW w \in Neighbours(u) \ uncolored, u < w
               PROVE  colours'[u] # colours'[w]
    BY <1>2 DEF LaterDiffer
  <2>1. u \in Vertex /\ w \in Vertex /\ w # v
    BY <1>1, AdjacentType DEF ColourInv, TypeOK
  <2>2. colours[u] # colours[w] /\ colours'[w] = colours[w]
    BY <1>4, <2>1 DEF ColourInv, LaterDiffer
  <2>3. CASE u # v \/ Permissible(t, v) = {}
    BY <1>2, <1>4, <2>1, <2>2, <2>3
  <2>4. CASE u = v /\ Permissible(t, v) # {}
    <3>1. colours'[u] = c /\ c \in Colour /\ fc[t][c] # v
      BY <1>1, <1>2, <1>3, <2>4 DEF ColourInv, TypeOK
    <3>2. PICK k \in 1 .. read[t] : w = Adjacent[v][k]
      BY <1>1, <2>4, AdjacentType DEF Neighbours
    <3>3. colours[w] # 0 => fc[t][colours[w]] = v
      BY <3>2 DEF v, ColourInv, MarksRead
    <3>4. c # 0
      BY <3>1, MaxDegreeType DEF Colour
    <3> QED
      BY <2>2, <3>1, <3>3, <3>4
  <2> QED
    BY <2>3, <2>4
<1> QED
  BY <1>5, <1>7, <1>9, <1>10, <1>11, <1>12 DEF ColourInv

-----------------------------------------------------------------------------
(* The vertices that clash are collected. *)

LEMMA CollectKeeps ==
    ASSUME ColourInv, Collect
    PROVE  ColourInv'
<1> DEFINE again == {v \in uncolored : Conflicts(v)}
<1>1. /\ uncolored' = again
      /\ UNCHANGED <<colours, nc, read, fc>>
      /\ phase' \in {"colour", "single"}
  BY DEF Collect
<1>2. again \subseteq uncolored /\ uncolored \subseteq Vertex
  BY DEF ColourInv, TypeOK
<1>3. work' \in [Thread -> SUBSET again]
  <2>1. \A t \in Thread : Share(again, t) \subseteq again
    BY DEF Share
  <2> QED
    BY <2>1 DEF Collect
<1>4. \A t \in Thread : read[t] = 0
  BY DEF Collect, ColourInv, MarksRead
<1>5. TypeOK'
  <2>1. rounds' \in 1 .. 2
    BY DEF Collect, ColourInv, TypeOK
  <2> QED
    BY <1>1, <1>2, <1>3, <2>1 DEF ColourInv, TypeOK
<1>6. WorkInRound' /\ MarksRead'
  BY <1>1, <1>3, <1>4 DEF WorkInRound, MarksRead
<1>7. ReadBounded'
  <2> SUFFICES ASSUME NEW t \in Thread, work'[t] # {}
               PROVE  read'[t] <= Len(Adjacent[SmallestOf(work'[t])])
    BY DEF ReadBounded
  <2>1. SmallestOf(work'[t]) \in Vertex
    BY <1>2, <1>3, SmallestIn, VertexType
  <2> QED
    BY <1>1, <1>4, <2>1, AdjacentType
<1>8. ASSUME NEW v \in Vertex, NEW w \in Neighbours(v), w \notin again,
             v \notin again \/ v < w
      PROVE  colours[v] # colours[w]
  <2>1. /\ w \in Vertex /\ v \in Neighbours(w) /\ v # w
        /\ v \in Nat /\ w \in Nat
    BY AdjacentType, VertexType, GraphAssumption
  <2>2. CASE v \notin uncolored /\ w \notin uncolored
    BY <2>2 DEF ColourInv, SettledDiffer
  <2>3. CASE v \in uncolored /\ w \in uncolored
    BY <1>8, <2>1, <2>3 DEF Conflicts
  <2>4. CASE v \in uncolored /\ w \notin uncolored
    BY <1>8, <2>1, <2>4 DEF Conflicts, ColourInv, LaterDiffer
  <2>5. CASE v \notin uncolored /\ w \in uncolored
    BY <1>8, <2>1, <2>5 DEF Conflicts, ColourInv, LaterDiffer
  <2> QED
    BY <2>2, <2>3, <2>4, <2>5
<1>9. SettledDiffer'
  BY <1>1, <1>8 DEF SettledDiffer
<1>10. LaterDiffer'
  BY <1>1, <1>2, <1>8 DEF LaterDiffer
<1> QED
  BY <1>5, <1>6, <1>7, <1>9, <1>10 DEF ColourInv

LEMMA StutterKeeps ==
    ASSUME ColourInv, UNCHANGED <<uncolored, colours, nc, work, read, fc, rounds>>,
           phase' \in {"colour", "single", "done"}
    PROVE  ColourInv'
BY DEF ColourInv, TypeOK, WorkInRound, MarksRead, ReadBounded, SettledDiffer, LaterDiffer

LEMMA ColourInvariant == Spec => []ColourInv
<1>1. Init => ColourInv
  BY ColourInvInit
<1>2. ColourInv /\ [Next]_vars => ColourInv'
  <2> SUFFICES ASSUME ColourInv, [Next]_vars PROVE ColourInv'
    OBVIOUS
  <2>1. ASSUME NEW t \in Thread, ReadNeighbour(t) PROVE ColourInv'
    BY <2>1, ReadKeeps
  <2>2. ASSUME NEW t \in Thread, GiveColour(t) PROVE ColourInv'
    BY <2>2, GiveKeeps
  <2>3. CASE Collect
    BY <2>3, CollectKeeps
  <2>4. CASE Finish
    BY <2>4, StutterKeeps DEF Finish
  <2>5. CASE Terminated \/ UNCHANGED vars
    <3>1. phase' \in {"colour", "single", "done"}
      BY <2>5 DEF Terminated, vars, ColourInv, TypeOK
    <3> QED
      BY <2>5, <3>1, StutterKeeps DEF Terminated, vars
  <2> QED
    BY <2>1, <2>2, <2>3, <2>4, <2>5 DEF Next
<1> QED
  BY <1>1, <1>2, PTL DEF Spec

-----------------------------------------------------------------------------
(* One thread on its own. *)

\* When one thread goes on alone, it alone has vertices to colour, and it has
\* forbidden the colours of all neighbours it has read, settled or not.
AloneInv ==
    phase = "single" =>
        \A t \in Thread :
            /\ \A s \in Thread : work[s] # {} /\ work[t] # {} => s = t
            /\ \A i \in 1 .. read[t] :
                 LET v == SmallestOf(work[t])
                     w == Adjacent[v][i]
                 IN  colours[w] # 0 => fc[t][colours[w]] = v

LEMMA ReadKeepsAlone ==
    ASSUME ColourInv, AloneInv, NEW t \in Thread, ReadNeighbour(t)
    PROVE  AloneInv'
<1> DEFINE v    == SmallestOf(work[t])
           i    == read[t] + 1
           wcol == colours[Adjacent[v][i]]
<1> SUFFICES ASSUME phase = "single" PROVE AloneInv'
  BY DEF AloneInv, ReadNeighbour
<1>1. v \in Vertex /\ read[t] \in Nat /\ read[t] < Len(Adjacent[v])
  BY VertexAtHand, AdjacentType DEF ReadNeighbour, AllRead
<1>2. /\ fc' = IF wcol = 0 THEN fc ELSE [fc EXCEPT ![t][wcol] = v]
      /\ read' = [read EXCEPT ![t] = i]
      /\ UNCHANGED <<phase, uncolored, colours, nc, work, rounds>>
  BY DEF ReadNeighbour
<1> HIDE DEF v
<1>3. ASSUME NEW k \in 1 .. i
      PROVE  /\ Adjacent[v][k] \in Vertex
             /\ colours[Adjacent[v][k]] \in {0} \cup Colour
  BY <1>1, AdjacentType DEF ColourInv, TypeOK
<1>4. wcol \in {0} \cup Colour
  BY <1>1, <1>3
<1>5. \A s \in Thread : s # t => work[s] = {} /\ read'[s] = 0
  <2>1. \A s \in Thread : work[s] # {} => s = t
    BY DEF AloneInv, ReadNeighbour
  <2> QED
    BY <1>2, <2>1 DEF ColourInv, MarksRead, TypeOK
<1>6. read'[t] = i
  BY <1>2 DEF ColourInv, TypeOK
<1>7. ASSUME NEW k \in 1 .. i, colours[Adjacent[v][k]] # 0
      PROVE  fc'[t][colours[Adjacent[v][k]]] = v
  <2>1. colours[Adjacent[v][k]] \in Colour
    BY <1>3, <1>7
  <2>2. CASE k = i
    BY <1>2, <1>7, <2>1, <2>2 DEF ColourInv, TypeOK
  <2>3. CASE k # i
    <3>1. k \in 1 .. read[t]
      BY <1>1, <2>3
    <3>2. fc[t][colours[Adjacent[v][k]]] = v
      BY <1>7, <3>1 DEF v, AloneInv
    <3> QED
      BY <1>2, <1>4, <2>1, <3>2 DEF ColourInv, TypeOK
  <2> QED
    BY <2>2, <2>3
<1>8. ASSUME NEW s \in Thread
      PROVE  /\ \A r \in Thread : work'[r] # {} /\ work'[s] # {} => r = s
             /\ \A k \in 1 .. read'[s] :
                  LET u == SmallestOf(work'[s])
                      w == Adjacent[u][k]
                  IN  colours'[w] # 0 => fc'[s][colours'[w]] = u
  <2>1. work' = work /\ colours' = colours
    BY <1>2
  <2>2. \A r \in Thread : work[r] # {} /\ work[s] # {} => r = s
    BY DEF AloneInv
  <2>3. CASE s = t
    BY <1>6, <1>7, <2>1, <2>2, <2>3 DEF v
  <2>4. CASE s # t
    BY <1>5, <2>1, <2>2, <2>4
  <2> QED
    BY <2>3, <2>4
<1> QED
  BY <1>8 DEF AloneInv

LEMMA GiveKeepsAlone ==
    ASSUME ColourInv, AloneInv, NEW t \in Thread, GiveColour(t)
    PROVE  AloneInv'
<1> SUFFICES ASSUME phase = "single" PROVE AloneInv'
  BY DEF AloneInv, GiveColour
<1>1. PICK v : work' = [work EXCEPT ![t] = work[t] \ {v}]
  BY DEF GiveColour
<1>2. read' = [read EXCEPT ![t] = 0]
  BY DEF GiveColour
<1>3. \A s \in Thread : s # t => work[s] = {} /\ read[s] = 0
  <2>1. \A s \in Thread : work[s] # {} => s = t
    BY DEF AloneInv, GiveColour
  <2> QED
    BY <2>1 DEF ColourInv, MarksRead
<1>4. \A s \in Thread : read'[s] = 0 /\ (s # t => work'[s] = {})
  BY <1>1, <1>2, <1>3 DEF ColourInv, TypeOK
<1> QED
  BY <1>4 DEF AloneInv

LEMMA CollectStartsAlone ==
    ASSUME ColourInv, Collect
    PROVE  AloneInv'
<1> SUFFICES ASSUME phase' = "single" PROVE AloneInv'
  BY DEF AloneInv
<1>1. \A t \in Thread : read'[t] = 0
  BY DEF Collect, ColourInv, MarksRead
<1>2. PICK first \in Thread :
        \E again : work' = [t \in Thread |-> IF t = first THEN again ELSE {}]
  BY DEF Collect
<1>3. \A t \in Thread : work'[t] # {} => t = first
  BY <1>2
<1> QED
  BY <1>1, <1>3 DEF AloneInv

LEMMA AloneInvariant == Spec => []AloneInv
<1>1. Init => AloneInv
  BY DEF Init, AloneInv
<1>2. ColourInv /\ AloneInv /\ [Next]_vars => AloneInv'
  <2> SUFFICES ASSUME ColourInv, AloneInv, [Next]_vars PROVE AloneInv'
    OBVIOUS
  <2>1. ASSUME NEW t \in Thread, ReadNeighbour(t) PROVE AloneInv'
    BY <2>1, ReadKeepsAlone
  <2>2. ASSUME NEW t \in Thread, GiveColour(t) PROVE AloneInv'
    BY <2>2, GiveKeepsAlone
  <2>3. CASE Collect
    BY <2>3, CollectStartsAlone
  <2>4. CASE Finish
    BY <2>4 DEF Finish, AloneInv
  <2>5. CASE Terminated \/ UNCHANGED vars
    BY <2>5 DEF Terminated, vars, AloneInv
  <2> QED
    BY <2>1, <2>2, <2>3, <2>4, <2>5 DEF Next
<1> QED
  BY <1>1, <1>2, ColourInvariant, PTL DEF Spec

\* The colour a thread gives on its own is none of its neighbours'.
LEMMA GivesNewColour ==
    ASSUME ColourInv, AloneInv, phase = "single", NEW t \in Thread, GiveColour(t)
    PROVE  Clashes' \subseteq Clashes
<1> DEFINE v == SmallestOf(work[t])
           c == SmallestOf(Permissible(t, v))
<1>1. v \in Vertex /\ read[t] = Len(Adjacent[v])
  BY VertexAtHand DEF GiveColour, AllRead
<1>2. CASE Permissible(t, v) = {}
  BY <1>2 DEF GiveColour, Clashes
<1>3. CASE Permissible(t, v) # {}
  <2>1. colours' = [colours EXCEPT ![v] = c]
    BY <1>3 DEF GiveColour
  <2>2. c \in Colour /\ fc[t][c] # v
    <3>1. Permissible(t, v) \subseteq Nat
      BY MaxDegreeType DEF Permissible, Colour
    <3> QED
      BY <1>3, <3>1, SmallestIn DEF Permissible
  <2> HIDE DEF c
  <2>3. ASSUME NEW w \in Neighbours(v) PROVE colours[w] # c
    <3>1. PICK k \in 1 .. read[t] : w = Adjacent[v][k]
      BY <1>1, AdjacentType DEF Neighbours
    <3>2. colours[w] # 0 => fc[t][colours[w]] = v
      BY <3>1 DEF AloneInv
    <3> QED
      BY <2>2, <3>2, MaxDegreeType DEF Colour
  <2> HIDE DEF v
  <2>4. ASSUME NEW p \in Clashes' PROVE p \in Clashes
    <3>1. /\ p \in Vertex \X Vertex /\ p[2] \in Neighbours(p[1])
          /\ colours'[p[1]] = colours'[p[2]]
      BY <2>4 DEF Clashes
    <3>2. p[1] \in Vertex /\ p[2] \in Vertex /\ p[1] # p[2] /\ p[1] \in Neighbours(p[2])
      BY <3>1, GraphAssumption
    <3>3. \A u \in Vertex : colours'[u] = IF u = v THEN c ELSE colours[u]
      BY <1>1, <2>1 DEF ColourInv, TypeOK
    <3>4. colours[p[1]] = colours[p[2]]
      BY <2>3, <3>1, <3>2, <3>3
    <3> QED
      BY <3>1, <3>4 DEF Clashes
  <2> QED
    BY <2>4
<1> QED
  BY <1>2, <1>3

-----------------------------------------------------------------------------
(* The blocks of a loop. *)

LEMMA ProductMonotone ==
    ASSUME NEW a \in Nat, NEW b \in Nat, NEW q \in Nat, a <= b
    PROVE  a * q \in Nat /\ b * q \in Nat /\ a * q <= b * q
<1>1. PICK d \in Nat : b = a + d
  BY b - a \in Nat /\ b = a + (b - a)
<1>2. b * q = a * q + d * q
  BY <1>1
<1>3. d * q \in Nat /\ a * q \in Nat
  OBVIOUS
<1> QED
  BY <1>2, <1>3

\* The position of v among the vertices of S.
RankIn(S, v) == Cardinality({u \in S : u <= v})

\* The last position of the block of thread t.
LastIn(S, t) ==
    t * (Cardinality(S) \div Threads) + MinOf(t, Cardinality(S) % Threads)

LEMMA ThreadType == Threads \in Nat \ {0} /\ Thread \subseteq Nat
<1>1. Threads \in Nat \ {0}
  BY ThreadAssumption, GraphAssumption DEF Vertex
<1> QED
  BY <1>1 DEF Thread

LEMMA DivisionType ==
    ASSUME NEW n \in Nat
    PROVE  /\ n \div Threads \in Nat /\ n % Threads \in 0 .. Threads - 1
           /\ n = Threads * (n \div Threads) + (n % Threads)
BY ThreadType

LEMMA RankType ==
    ASSUME NEW S, S \subseteq Vertex, NEW v \in S
    PROVE  Cardinality(S) \in Nat /\ RankIn(S, v) \in 1 .. Cardinality(S)
<1> DEFINE upto == {u \in S : u <= v}
<1>1. IsFiniteSet(S) /\ v \in Nat
  BY VertexType, FS_Subset
<1>2. upto \in SUBSET S /\ v \in upto
  BY <1>1
<1>3. IsFiniteSet(upto) /\ Cardinality(upto) <= Cardinality(S)
  BY <1>1, <1>2, FS_Subset
<1>4. Cardinality(upto) \in Nat /\ Cardinality(S) \in Nat
  BY <1>1, <1>3, FS_CardinalityType
<1>5. Cardinality(upto) # 0
  BY <1>2, <1>3, FS_EmptySet
<1> QED
  BY <1>3, <1>4, <1>5 DEF RankIn

\* The blocks follow one another and end with the last vertex.
LEMMA LastType ==
    ASSUME NEW S, S \subseteq Vertex
    PROVE  /\ \A t \in Nat : LastIn(S, t) \in Nat
           /\ \A s, t \in Nat : s <= t => LastIn(S, s) <= LastIn(S, t)
           /\ LastIn(S, 0) = 0 /\ LastIn(S, Threads) = Cardinality(S)
<1> DEFINE size  == Cardinality(S) \div Threads
           extra == Cardinality(S) % Threads
<1>1. Cardinality(S) \in Nat
  BY VertexType, FS_Subset, FS_CardinalityType
<1>2. size \in Nat /\ extra \in 0 .. Threads - 1
  BY <1>1, DivisionType
<1>3. Cardinality(S) = Threads * size + extra
  BY <1>1, DivisionType
<1>4. \A t : LastIn(S, t) = t * size + MinOf(t, extra)
  BY DEF LastIn
<1> HIDE DEF size, extra
<1>5. \A t \in Nat : t * size \in Nat /\ MinOf(t, extra) \in Nat
  BY <1>2, ProductMonotone DEF MinOf
<1>6. ASSUME NEW s \in Nat, NEW t \in Nat, s <= t
      PROVE  s * size <= t * size /\ MinOf(s, extra) <= MinOf(t, extra)
  BY <1>2, <1>6, ProductMonotone DEF MinOf
<1>7. \A t \in Nat : LastIn(S, t) \in Nat
  BY <1>4, <1>5
<1>8. ASSUME NEW s \in Nat, NEW t \in Nat, s <= t PROVE LastIn(S, s) <= LastIn(S, t)
  BY <1>4, <1>5, <1>6, <1>8
<1>9. LastIn(S, 0) = 0
  BY <1>2, <1>4 DEF MinOf
<1>10. LastIn(S, Threads) = Cardinality(S)
  BY <1>2, <1>3, <1>4, ThreadType DEF MinOf
<1> QED
  BY <1>7, <1>8, <1>9, <1>10

LEMMA InShare ==
    ASSUME NEW S, S \subseteq Vertex, NEW t \in Thread, NEW v \in S
    PROVE  v \in Share(S, t) <=> LastIn(S, t - 1) < RankIn(S, v) /\ RankIn(S, v) <= LastIn(S, t)
<1>1. t \in Nat /\ t - 1 \in Nat
  BY ThreadType DEF Thread
<1>2. LastIn(S, t - 1) \in Nat /\ LastIn(S, t) \in Nat /\ RankIn(S, v) \in Nat
  BY <1>1, LastType, RankType
<1>3. v \in Share(S, t) <=> RankIn(S, v) \in (LastIn(S, t - 1) + 1) .. LastIn(S, t)
  BY DEF Share, RankIn, LastIn
<1> QED
  BY <1>2, <1>3

\* The blocks of different threads have no vertex in common.
LEMMA SharesDisjoint ==
    ASSUME NEW S, S \subseteq Vertex, NEW s \in Thread, NEW t \in Thread, s # t
    PROVE  Share(S, s) \cap Share(S, t) = {}
<1>1. ASSUME NEW a \in Thread, NEW b \in Thread, a < b,
             NEW v \in Share(S, a), v \in Share(S, b)
      PROVE  FALSE
  <2>1. v \in S
    BY <1>1 DEF Share
  <2>2. a \in Nat /\ b - 1 \in Nat /\ a <= b - 1
    BY <1>1, ThreadType DEF Thread
  <2>3. LastIn(S, a) <= LastIn(S, b - 1) /\ LastIn(S, a) \in Nat /\ LastIn(S, b - 1) \in Nat
    BY <2>2, LastType
  <2>4. RankIn(S, v) \in Nat
    BY <2>1, RankType
  <2>5. RankIn(S, v) <= LastIn(S, a)
    BY <1>1, <2>1, InShare
  <2>6. LastIn(S, b - 1) < RankIn(S, v)
    BY <1>1, <2>1, InShare
  <2> QED
    BY <2>3, <2>4, <2>5, <2>6
<1>2. s < t \/ t < s
  BY ThreadType
<1> QED
  BY <1>1, <1>2

\* Together the blocks are the whole loop.
LEMMA SharesCover ==
    ASSUME NEW S, S \subseteq Vertex, NEW v \in S
    PROVE  \E t \in Thread : v \in Share(S, t)
<1> DEFINE r     == RankIn(S, v)
           after == {t \in Nat : r <= LastIn(S, t)}
           t     == SmallestOf(after)
<1>1. r \in Nat /\ 1 <= r /\ r <= Cardinality(S)
  BY RankType
<1>2. Threads \in after
  BY <1>1, LastType, ThreadType
<1>3. t \in after /\ t <= Threads /\ \A n \in after : t <= n
  BY <1>2, SmallestIn
<1> HIDE DEF t
<1>4. t \in Nat /\ t # 0
  BY <1>1, <1>3, LastType
<1>5. t \in Thread /\ t - 1 \in Nat
  BY <1>3, <1>4, ThreadType DEF Thread
<1>6. t - 1 \notin after
  BY <1>3, <1>4
<1>7. LastIn(S, t - 1) < r /\ r <= LastIn(S, t)
  BY <1>1, <1>3, <1>5, <1>6, LastType
<1> QED
  BY <1>5, <1>7, InShare

-----------------------------------------------------------------------------
(* Every vertex gets a colour. *)

\* A mark of thread t for v is the colour of a neighbour.
MarkOfNeighbour(t, v) ==
    \A c \in Colour : fc[t][c] = v => \E w \in Neighbours(v) : colours[w] = c

\* In the first round every vertex without a colour waits in one thread, and no
\* neighbour has changed its colour since it was forbidden.
FirstRound ==
    /\ \A s, t \in Thread : s # t => work[s] \cap work[t] = {}
    /\ \A v \in Vertex : colours[v] = 0 <=> \E t \in Thread : v \in work[t]
    /\ \A t \in Thread : \A v \in Vertex : MarkOfNeighbour(t, v)

InFirstRound == phase = "colour" /\ rounds = 1

RoundInv ==
    /\ \A v \in Vertex : colours[v] <= nc
    /\ InFirstRound => FirstRound
    /\ ~ InFirstRound => \A v \in Vertex : colours[v] # 0

\* There are more colours than neighbours that could forbid them.
LEMMA SomePermissible ==
    ASSUME NEW t \in Thread, NEW v \in Vertex, MarkOfNeighbour(t, v)
    PROVE  Permissible(t, v) # {}
<1> SUFFICES ASSUME Permissible(t, v) = {} PROVE FALSE
  OBVIOUS
<1>1. \A c \in Colour : \E w \in Neighbours(v) : colours[w] = c
  BY DEF Permissible, MarkOfNeighbour
<1> DEFINE holder == [c \in Colour |-> CHOOSE w \in Neighbours(v) : colours[w] = c]
<1>2. \A c \in Colour : holder[c] \in Neighbours(v) /\ colours[holder[c]] = c
  BY <1>1
<1>3. holder \in [Colour -> Neighbours(v)]
  BY <1>2
<1> HIDE DEF holder
<1>4. holder \in Injection(Colour, Neighbours(v))
  BY <1>2, <1>3 DEF Injection, IsInjective
<1>5. IsFiniteSet(Neighbours(v))
  BY AdjacentType, VertexType, FS_Subset
<1>6. Cardinality(Colour) <= Cardinality(Neighbours(v))
  BY <1>4, <1>5, FS_Injection
<1>7. Cardinality(Colour) = MaxDegree + 1
  BY MaxDegreeType, FS_Interval DEF Colour
<1>8. Cardinality(Neighbours(v)) = Len(Adjacent[v])
  BY GraphAssumption
<1> QED
  BY <1>6, <1>7, <1>8, MaxDegreeType, AdjacentType

\* What GiveColour does to a vertex for which only neighbours' colours are forbidden.
LEMMA GivesPermissible ==
    ASSUME ColourInv, NEW t \in Thread, GiveColour(t),
           MarkOfNeighbour(t, SmallestOf(work[t]))
    PROVE  LET v == SmallestOf(work[t])
           IN  /\ v \in Vertex /\ v \in work[t] /\ read[t] = Len(Adjacent[v])
               /\ \E c \in Colour : /\ fc[t][c] # v /\ nc' = MaxOf(nc, c)
                                    /\ colours' = [colours EXCEPT ![v] = c]
               /\ work' = [work EXCEPT ![t] = work[t] \ {v}]
               /\ UNCHANGED <<phase, fc, rounds>>
<1> DEFINE v == SmallestOf(work[t])
           c == SmallestOf(Permissible(t, v))
<1>1. v \in Vertex /\ v \in work[t] /\ read[t] = Len(Adjacent[v])
  BY VertexAtHand DEF GiveColour, AllRead
<1>2. Permissible(t, v) # {}
  BY <1>1, SomePermissible
<1>3. c \in Colour /\ fc[t][c] # v
  <2>1. Permissible(t, v) \subseteq Nat
    BY MaxDegreeType DEF Permissible, Colour
  <2> QED
    BY <1>2, <2>1, SmallestIn DEF Permissible
<1>4. nc' = MaxOf(nc, c) /\ colours' = [colours EXCEPT ![v] = c]
  BY <1>2 DEF GiveColour
<1>5. work' = [work EXCEPT ![t] = work[t] \ {v}] /\ UNCHANGED <<phase, fc, rounds>>
  BY DEF GiveColour
<1> QED
  BY <1>1, <1>3, <1>4, <1>5

\* Reading a colour forbids the colour of a neighbour.
LEMMA ReadMarksNeighbour ==
    ASSUME ColourInv, NEW t \in Thread, ReadNeighbour(t),
           NEW s \in Thread, NEW v \in Vertex, MarkOfNeighbour(s, v)
    PROVE  MarkOfNeighbour(s, v)'
<1> DEFINE x    == SmallestOf(work[t])
           w    == Adjacent[x][read[t] + 1]
           wcol == colours[w]
<1>1. x \in Vertex /\ w \in Neighbours(x) /\ w \in Vertex
  <2>1. x \in Vertex /\ read[t] + 1 \in 1 .. Len(Adjacent[x])
    BY VertexAtHand, AdjacentType DEF ReadNeighbour, AllRead
  <2> QED
    BY <2>1, AdjacentType DEF Neighbours
<1>2. fc' = IF wcol = 0 THEN fc ELSE [fc EXCEPT ![t][wcol] = x]
  BY DEF ReadNeighbour
<1>3. colours' = colours /\ wcol \in {0} \cup Colour
  BY <1>1 DEF ReadNeighbour, ColourInv, TypeOK
<1> HIDE DEF x, w
<1>4. ASSUME NEW c \in Colour, fc'[s][c] = v
      PROVE  \E u \in Neighbours(v) : colours[u] = c
  <2>1. CASE fc[s][c] = v
    BY <2>1 DEF MarkOfNeighbour
  <2>2. CASE fc[s][c] # v
    <3>1. c = wcol /\ v = x
      BY <1>2, <1>3, <1>4, <2>2 DEF ColourInv, TypeOK
    <3> QED
      BY <1>1, <3>1
  <2> QED
    BY <2>1, <2>2
<1> QED
  BY <1>3, <1>4 DEF MarkOfNeighbour

LEMMA InitRound == Init => RoundInv
<1> SUFFICES ASSUME Init PROVE RoundInv
  OBVIOUS
<1>1. /\ colours = [v \in Vertex |-> 0] /\ nc = 0
      /\ work = [t \in Thread |-> Share(Vertex, t)]
      /\ fc = [t \in Thread |-> [c \in Colour |-> 0]]
      /\ phase = "colour" /\ rounds = 1
  BY DEF Init
<1>2. \A s, t \in Thread : s # t => work[s] \cap work[t] = {}
  BY <1>1, SharesDisjoint
<1>3. \A v \in Vertex : \E t \in Thread : v \in work[t]
  BY <1>1, SharesCover
<1>4. \A t \in Thread : \A v \in Vertex : MarkOfNeighbour(t, v)
  <2>1. 0 \notin Vertex
    BY DEF Vertex
  <2> QED
    BY <1>1, <2>1 DEF MarkOfNeighbour
<1> QED
  BY <1>1, <1>2, <1>3, <1>4 DEF RoundInv, FirstRound, InFirstRound

LEMMA MaxIs ==
    ASSUME NEW a \in Nat, NEW b \in Nat
    PROVE  MaxOf(a, b) \in Nat /\ a <= MaxOf(a, b) /\ b <= MaxOf(a, b)
BY DEF MaxOf

LEMMA ReadKeepsRound ==
    ASSUME ColourInv, RoundInv, NEW t \in Thread, ReadNeighbour(t)
    PROVE  RoundInv'
<1>1. UNCHANGED <<phase, colours, nc, work, rounds>>
  BY DEF ReadNeighbour
<1>2. ASSUME NEW s \in Thread, NEW v \in Vertex, MarkOfNeighbour(s, v)
      PROVE  MarkOfNeighbour(s, v)'
  BY <1>2, ReadMarksNeighbour
<1> QED
  BY <1>1, <1>2 DEF RoundInv, FirstRound, InFirstRound

LEMMA GiveKeepsRound ==
    ASSUME ColourInv, RoundInv, NEW t \in Thread, GiveColour(t)
    PROVE  RoundInv'
<1> DEFINE v == SmallestOf(work[t])
<1>1. v \in Vertex /\ v \in work[t]
  BY VertexAtHand DEF GiveColour
<1>2. colours \in [Vertex -> {0} \cup Colour] /\ nc \in Nat /\ Colour \subseteq Nat /\ 0 \notin Colour
  BY MaxDegreeType DEF ColourInv, TypeOK, Colour
<1>3. \A u \in Vertex : colours[u] \in Nat
  <2>1. {0} \cup Colour \subseteq Nat
    BY <1>2
  <2> HIDE DEF v
  <2> QED
    BY <1>2, <2>1
<1>4. CASE ~ InFirstRound
  <2>1. UNCHANGED <<phase, rounds>>
    BY DEF GiveColour
  <2>2. \/ UNCHANGED <<colours, nc>>
        \/ \E c \in Colour : colours' = [colours EXCEPT ![v] = c] /\ nc' = MaxOf(nc, c)
    <3> DEFINE c == SmallestOf(Permissible(t, v))
    <3>1. Permissible(t, v) \subseteq Nat
      BY <1>2 DEF Permissible
    <3>2. Permissible(t, v) # {} => c \in Colour
      BY <3>1, SmallestIn DEF Permissible
    <3> QED
      BY <3>2 DEF GiveColour
  <2>3. \A u \in Vertex : colours[u] <= nc /\ colours[u] # 0
    BY <1>4 DEF RoundInv
  <2>4. ASSUME NEW c \in Colour, colours' = [colours EXCEPT ![v] = c], nc' = MaxOf(nc, c)
        PROVE  \A u \in Vertex : colours'[u] <= nc' /\ colours'[u] # 0
    <3> HIDE DEF v
    <3>1. \A u \in Vertex : colours'[u] = IF u = v THEN c ELSE colours[u]
      BY <1>1, <1>2, <2>4
    <3>2. c \in Nat /\ c # 0
      BY <1>2, <2>4
    <3>3. nc' \in Nat /\ nc <= nc' /\ c <= nc'
      BY <1>2, <2>4, <3>2, MaxIs
    <3> QED
      BY <1>3, <1>2, <2>3, <3>1, <3>2, <3>3
  <2>5. \A u \in Vertex : colours'[u] <= nc' /\ colours'[u] # 0
    BY <2>2, <2>3, <2>4
  <2> QED
    BY <1>4, <2>1, <2>5 DEF RoundInv, InFirstRound
<1>5. CASE InFirstRound
  <2>1. FirstRound
    BY <1>5 DEF RoundInv
  <2>2. MarkOfNeighbour(t, v)
    BY <1>1, <2>1 DEF FirstRound
  <2>3. PICK c \in Colour : nc' = MaxOf(nc, c) /\ colours' = [colours EXCEPT ![v] = c]
    BY <2>2, GivesPermissible
  <2>4. work' = [work EXCEPT ![t] = work[t] \ {v}] /\ UNCHANGED <<phase, fc, rounds>>
    BY <2>2, GivesPermissible
  <2> HIDE DEF v
  <2>5. \A u \in Vertex : colours'[u] = IF u = v THEN c ELSE colours[u]
    BY <1>1, <1>2, <2>3
  <2>6. \A s \in Thread : work'[s] = IF s = t THEN work[t] \ {v} ELSE work[s]
    BY <2>4 DEF ColourInv, TypeOK
  <2>7. \A s \in Thread : v \in work[s] => s = t
    BY <1>1, <2>1 DEF FirstRound
  <2>8. colours[v] = 0
    BY <1>1, <2>1 DEF FirstRound
  <2>9. \A u \in Vertex : colours'[u] <= nc'
    <3>1. c \in Nat
      BY <1>2, <2>3
    <3>2. \A u \in Vertex : colours[u] \in Nat /\ colours[u] <= nc
      BY <1>3 DEF RoundInv
    <3>3. nc' \in Nat /\ nc <= nc' /\ c <= nc'
      BY <1>2, <2>3, <3>1, MaxIs
    <3> QED
      BY <1>2, <2>5, <3>1, <3>3, <3>2
  <2>10. \A r, s \in Thread : r # s => work'[r] \cap work'[s] = {}
    BY <2>1, <2>6 DEF FirstRound
  <2>11. ASSUME NEW u \in Vertex PROVE colours'[u] = 0 <=> \E s \in Thread : u \in work'[s]
    <3>1. CASE u = v
      BY <1>2, <2>5, <2>6, <2>7, <3>1
    <3>2. CASE u # v
      BY <2>1, <2>5, <2>6, <3>2 DEF FirstRound
    <3> QED
      BY <3>1, <3>2
  <2>12. ASSUME NEW s \in Thread, NEW u \in Vertex PROVE MarkOfNeighbour(s, u)'
    <3>1. ASSUME NEW d \in Colour, fc[s][d] = u
          PROVE  \E w \in Neighbours(u) : colours'[w] = d
      <4>1. PICK w \in Neighbours(u) : colours[w] = d
        BY <2>1, <3>1 DEF FirstRound, MarkOfNeighbour
      <4>2. w \in Vertex /\ w # v
        BY <1>2, <2>8, <4>1, AdjacentType
      <4> QED
        BY <2>5, <4>1, <4>2
    <3> QED
      BY <2>4, <3>1 DEF MarkOfNeighbour
  <2> QED
    BY <1>5, <2>4, <2>9, <2>10, <2>11, <2>12 DEF RoundInv, FirstRound, InFirstRound
<1> QED
  BY <1>4, <1>5

LEMMA CollectKeepsRound ==
    ASSUME RoundInv, Collect
    PROVE  RoundInv'
<1>1. UNCHANGED <<colours, nc>> /\ ~ InFirstRound'
  BY DEF Collect, InFirstRound
<1>2. \A v \in Vertex : colours[v] # 0
  BY DEF Collect, RoundInv, FirstRound
<1> QED
  BY <1>1, <1>2 DEF RoundInv

LEMMA RoundInvariant == Spec => []RoundInv
<1>1. Init => RoundInv
  BY InitRound
<1>2. ColourInv /\ RoundInv /\ [Next]_vars => RoundInv'
  <2> SUFFICES ASSUME ColourInv, RoundInv, [Next]_vars PROVE RoundInv'
    OBVIOUS
  <2>1. ASSUME NEW t \in Thread, ReadNeighbour(t) PROVE RoundInv'
    BY <2>1, ReadKeepsRound
  <2>2. ASSUME NEW t \in Thread, GiveColour(t) PROVE RoundInv'
    BY <2>2, GiveKeepsRound
  <2>3. CASE Collect
    BY <2>3, CollectKeepsRound
  <2>4. CASE Finish
    <3>1. UNCHANGED <<colours, nc>> /\ ~ InFirstRound /\ ~ InFirstRound'
      BY <2>4 DEF Finish, InFirstRound
    <3> QED
      BY <3>1 DEF RoundInv
  <2>5. CASE Terminated \/ UNCHANGED vars
    BY <2>5 DEF Terminated, vars, RoundInv, FirstRound, InFirstRound, MarkOfNeighbour
  <2> QED
    BY <2>1, <2>2, <2>3, <2>4, <2>5 DEF Next
<1> QED
  BY <1>1, <1>2, ColourInvariant, PTL DEF Spec

-----------------------------------------------------------------------------
(* The repair after the first round. *)

\* Thread t has no mark of colour c for a vertex it still has to go to.
MarkGone(t, c) == \A v \in work[t] \ {SmallestOf(work[t])} : fc[t][c] # v

\* The colour that x is about to lose can leave no mark without a neighbour: either a
\* neighbour keeps it, or its mark has been overwritten.
Harmless(t, x) ==
    (\E u \in Neighbours(x) : colours[u] = colours[x]) \/ MarkGone(t, colours[x])

Waiting(v) == \E t \in Thread : v \in work[t]

\* Neighbours that do not wait to be coloured again do not clash.
Cured ==
    \A v \in Vertex : \A w \in Neighbours(v) :
        ~ Waiting(v) /\ ~ Waiting(w) => colours[v] # colours[w]

Repairing ==
    /\ \A t \in Thread : \A v \in work[t] : MarkOfNeighbour(t, v) /\ Harmless(t, v)
    /\ Cured

RepairInv ==
    /\ phase = "single" /\ rounds = 1 => Repairing
    /\ phase = "done" => \A t \in Thread : work[t] = {}
    /\ FreeAfterOneRound

LEMMA CollectStartsRepair ==
    ASSUME ColourInv, RoundInv, Collect
    PROVE  RepairInv'
<1> DEFINE again == {v \in uncolored : Conflicts(v)}
<1>1. phase' # "done"
  BY DEF Collect
<1> SUFFICES ASSUME phase' = "single", rounds' = 1 PROVE Repairing'
  BY <1>1 DEF RepairInv, FreeAfterOneRound, FreeOfRaces
<1>2. rounds = 1 /\ phase = "colour" /\ UNCHANGED <<colours, fc>> /\ uncolored' = again
  BY DEF Collect
<1>3. FirstRound
  BY <1>2 DEF RoundInv, InFirstRound
<1>4. PICK first \in Thread : work' = [t \in Thread |-> IF t = first THEN again ELSE {}]
  BY DEF Collect
<1>5. again \subseteq Vertex
  BY DEF ColourInv, TypeOK
<1>6. ASSUME NEW t \in Thread, NEW v \in work'[t]
      PROVE  MarkOfNeighbour(t, v)' /\ Harmless(t, v)'
  <2>1. v \in again /\ v \in Vertex
    BY <1>4, <1>5
  <2>2. MarkOfNeighbour(t, v)
    BY <1>3, <2>1 DEF FirstRound
  <2>3. \E w \in Neighbours(v) : colours[w] = colours[v]
    BY <2>1 DEF Conflicts
  <2> QED
    BY <1>2, <2>2, <2>3 DEF MarkOfNeighbour, Harmless
<1>7. Cured'
  <2>1. SettledDiffer'
    BY CollectKeeps DEF ColourInv
  <2>2. \A v \in Vertex : v \in uncolored' => Waiting(v)'
    BY <1>2, <1>4 DEF Waiting
  <2>3. \A v \in Vertex : Neighbours(v) \subseteq Vertex
    BY AdjacentType
  <2> QED
    BY <2>1, <2>2, <2>3 DEF Cured, SettledDiffer
<1> QED
  BY <1>6, <1>7 DEF Repairing

LEMMA ReadKeepsRepair ==
    ASSUME ColourInv, RepairInv, NEW t \in Thread, ReadNeighbour(t)
    PROVE  RepairInv'
<1> DEFINE x    == SmallestOf(work[t])
           wcol == colours[Adjacent[x][read[t] + 1]]
<1>1. UNCHANGED <<phase, colours, work, rounds>>
  BY DEF ReadNeighbour
<1>2. FreeAfterOneRound'
  BY <1>1 DEF RepairInv, FreeAfterOneRound, FreeOfRaces
<1> SUFFICES ASSUME phase = "single", rounds = 1 PROVE Repairing'
  BY <1>1, <1>2 DEF RepairInv
<1>3. Repairing
  BY DEF RepairInv
<1>4. Cured'
  BY <1>1, <1>3 DEF Repairing, Cured, Waiting
<1>5. wcol \in {0} \cup Colour
  <2>1. x \in Vertex /\ read[t] + 1 \in 1 .. Len(Adjacent[x])
    BY VertexAtHand, AdjacentType DEF ReadNeighbour, AllRead
  <2> QED
    BY <2>1, AdjacentType DEF ColourInv, TypeOK
<1>6. fc' = IF wcol = 0 THEN fc ELSE [fc EXCEPT ![t][wcol] = x]
  BY DEF ReadNeighbour
<1>7. ASSUME NEW s \in Thread, NEW v \in work[s]
      PROVE  MarkOfNeighbour(s, v)' /\ Harmless(s, v)'
  <2>1. v \in Vertex /\ MarkOfNeighbour(s, v) /\ Harmless(s, v)
    BY <1>3 DEF ColourInv, TypeOK, Repairing
  <2>2. MarkOfNeighbour(s, v)'
    BY <2>1, ReadMarksNeighbour
  <2>3. colours[v] \in {0} \cup Colour
    BY <2>1 DEF ColourInv, TypeOK
  <2>4. MarkGone(s, colours[v]) => MarkGone(s, colours[v])'
    <3> HIDE DEF wcol
    <3>1. ASSUME MarkGone(s, colours[v]), NEW u \in work[s] \ {SmallestOf(work[s])}
          PROVE  fc'[s][colours[v]] # u
      <4>1. fc[s][colours[v]] # u
        BY <3>1 DEF MarkGone
      <4>2. CASE s = t /\ wcol # 0 /\ colours[v] = wcol
        BY <1>5, <1>6, <3>1, <4>2 DEF ColourInv, TypeOK
      <4>3. CASE ~ (s = t /\ wcol # 0 /\ colours[v] = wcol)
        BY <1>5, <1>6, <4>1, <4>3 DEF ColourInv, TypeOK
      <4> QED
        BY <4>2, <4>3
    <3> QED
      BY <1>1, <3>1 DEF MarkGone
  <2> QED
    BY <1>1, <2>1, <2>2, <2>4 DEF Harmless
<1> QED
  BY <1>1, <1>4, <1>7 DEF Repairing

\* The vertex gets a colour that no neighbour has, and what it loses harms no other.
LEMMA GiveKeepsRepair ==
    ASSUME ColourInv, AloneInv, RoundInv, RepairInv, NEW t \in Thread, GiveColour(t)
    PROVE  RepairInv'
<1> DEFINE y == SmallestOf(work[t])
           d == colours[y]
<1>1. UNCHANGED <<phase, fc, rounds>> /\ phase # "done" /\ work[t] # {}
  BY DEF GiveColour, RepairInv
<1> SUFFICES ASSUME phase = "single", rounds = 1 PROVE Repairing'
  BY <1>1 DEF RepairInv, FreeAfterOneRound, FreeOfRaces
<1>2. Repairing
  BY DEF RepairInv
<1>3. y \in Vertex /\ y \in work[t] /\ read[t] = Len(Adjacent[y])
  BY <1>1, VertexAtHand DEF GiveColour, AllRead
<1>4. MarkOfNeighbour(t, y) /\ Harmless(t, y)
  BY <1>2, <1>3 DEF Repairing
<1>5. PICK c \in Colour : fc[t][c] # y /\ colours' = [colours EXCEPT ![y] = c]
  BY <1>4, GivesPermissible
<1>6. work' = [work EXCEPT ![t] = work[t] \ {y}]
  BY <1>4, GivesPermissible
<1>7. \A v \in Vertex : colours[v] \in Colour
  <2>1. \A v \in Vertex : colours[v] # 0
    BY DEF RoundInv, InFirstRound
  <2> QED
    BY <2>1 DEF ColourInv, TypeOK
<1>8. \A w \in Neighbours(y) : w \in Vertex /\ fc[t][colours[w]] = y /\ colours[w] # c
  <2> SUFFICES ASSUME NEW w \in Neighbours(y)
               PROVE  w \in Vertex /\ fc[t][colours[w]] = y /\ colours[w] # c
    OBVIOUS
  <2>1. PICK k \in 1 .. read[t] : w = Adjacent[y][k]
    BY <1>3, AdjacentType DEF Neighbours
  <2>2. w \in Vertex /\ colours[w] # 0
    BY <1>3, <1>7, AdjacentType, MaxDegreeType DEF Colour
  <2>3. fc[t][colours[w]] = y
    BY <2>1, <2>2 DEF AloneInv
  <2> QED
    BY <1>5, <2>2, <2>3
<1>9. MarkGone(t, d)
  <2>1. CASE \E u \in Neighbours(y) : colours[u] = d
    BY <1>8, <2>1 DEF MarkGone
  <2> QED
    BY <1>4, <2>1 DEF Harmless
<1>10. \A s \in Thread : work'[s] = IF s = t THEN work[t] \ {y} ELSE {}
  <2>1. \A s \in Thread : work[s] # {} => s = t
    BY <1>1 DEF AloneInv
  <2> QED
    BY <1>6, <2>1 DEF ColourInv, TypeOK
<1>11. \A e : MarkGone(t, e) => MarkGone(t, e)'
  BY <1>1, <1>10 DEF MarkGone
<1>12. \A v \in work[t] : v # y => MarkOfNeighbour(t, v) /\ Harmless(t, v) /\ fc[t][d] # v
  BY <1>2, <1>9 DEF Repairing, MarkGone
<1>13. work[t] \subseteq Vertex /\ \A v \in Vertex : Neighbours(v) \subseteq Vertex
  BY AdjacentType DEF ColourInv, TypeOK
<1> HIDE DEF y
<1>14. \A v \in Vertex : colours'[v] = IF v = y THEN c ELSE colours[v]
  BY <1>3, <1>5 DEF ColourInv, TypeOK
<1>15. ASSUME NEW v \in work[t] \ {y} PROVE MarkOfNeighbour(t, v)'
  <2>1. ASSUME NEW e \in Colour, fc[t][e] = v
        PROVE  \E w \in Neighbours(v) : colours'[w] = e
    <3>1. PICK w \in Neighbours(v) : colours[w] = e
      BY <1>12, <2>1 DEF MarkOfNeighbour
    <3>2. w \in Vertex /\ w # y
      BY <1>12, <1>13, <2>1, <3>1
    <3> QED
      BY <1>14, <3>1, <3>2
  <2> QED
    BY <1>1, <2>1 DEF MarkOfNeighbour
<1>16. ASSUME NEW v \in work[t] \ {y} PROVE Harmless(t, v)'
  <2>1. colours'[v] = colours[v]
    BY <1>13, <1>14
  <2>2. CASE MarkGone(t, colours[v]) \/ colours[v] = d
    <3>1. MarkGone(t, colours[v])'
      BY <1>9, <1>11, <2>1, <2>2
    <3> QED
      BY <3>1 DEF Harmless
  <2>3. CASE ~ MarkGone(t, colours[v]) /\ colours[v] # d
    <3>1. PICK u \in Neighbours(v) : colours[u] = colours[v]
      BY <1>12, <2>3 DEF Harmless
    <3>2. colours'[u] = colours[u]
      BY <1>13, <1>14, <2>3, <3>1
    <3> QED
      BY <2>1, <3>1, <3>2 DEF Harmless
  <2> QED
    BY <2>2, <2>3
<1>17. Cured'
  <2> SUFFICES ASSUME NEW v \in Vertex, NEW w \in Neighbours(v), ~ Waiting(v)', ~ Waiting(w)'
               PROVE  colours'[v] # colours'[w]
    BY DEF Cured
  <2>1. w \in Vertex /\ v # w /\ v \in Neighbours(w)
    BY <1>13, GraphAssumption
  <2>2. CASE v = y \/ w = y
    BY <1>8, <1>14, <2>1, <2>2
  <2>3. CASE v # y /\ w # y
    <3>1. ASSUME NEW u \in Vertex, Waiting(u), u # y PROVE Waiting(u)'
      <4>1. PICK s \in Thread : u \in work[s]
        BY <3>1 DEF Waiting
      <4>2. u \in work'[s]
        BY <1>6, <3>1, <4>1 DEF ColourInv, TypeOK
      <4> QED
        BY <4>2 DEF Waiting
    <3>2. ~ Waiting(v) /\ ~ Waiting(w)
      BY <2>1, <2>3, <3>1
    <3>3. colours[v] # colours[w]
      BY <1>2, <3>2 DEF Repairing, Cured
    <3> QED
      BY <1>14, <2>1, <2>3, <3>3
  <2> QED
    BY <2>2, <2>3
<1>18. \A s \in Thread : \A v \in work'[s] : s = t /\ v \in work[t] \ {y}
  BY <1>10
<1> QED
  BY <1>15, <1>16, <1>17, <1>18 DEF Repairing

LEMMA FinishRepair ==
    ASSUME RepairInv, Finish
    PROVE  RepairInv'
<1>1. phase = "single" /\ phase' = "done" /\ UNCHANGED <<colours, work, rounds>>
  BY DEF Finish
<1>2. \A t \in Thread : work[t] = {}
  BY DEF Finish
<1>3. rounds = 1 => FreeOfRaces'
  BY <1>1, <1>2 DEF RepairInv, Repairing, Cured, Waiting, FreeOfRaces
<1> QED
  BY <1>1, <1>2, <1>3 DEF RepairInv, FreeAfterOneRound

LEMMA RepairInvariant == Spec => []RepairInv
<1>1. Init => RepairInv
  BY DEF Init, RepairInv, FreeAfterOneRound, FreeOfRaces
<1>2. ColourInv /\ AloneInv /\ RoundInv /\ RepairInv /\ [Next]_vars => RepairInv'
  <2> SUFFICES ASSUME ColourInv, AloneInv, RoundInv, RepairInv, [Next]_vars
               PROVE  RepairInv'
    OBVIOUS
  <2>1. ASSUME NEW t \in Thread, ReadNeighbour(t) PROVE RepairInv'
    BY <2>1, ReadKeepsRepair
  <2>2. ASSUME NEW t \in Thread, GiveColour(t) PROVE RepairInv'
    BY <2>2, GiveKeepsRepair
  <2>3. CASE Collect
    BY <2>3, CollectStartsRepair
  <2>4. CASE Finish
    BY <2>4, FinishRepair
  <2>5. CASE Terminated \/ UNCHANGED vars
    BY <2>5 DEF Terminated, vars, RepairInv, FreeAfterOneRound, FreeOfRaces, Repairing,
                MarkOfNeighbour, Harmless, MarkGone, Cured, Waiting
  <2> QED
    BY <2>1, <2>2, <2>3, <2>4, <2>5 DEF Next
<1> QED
  BY <1>1, <1>2, ColourInvariant, AloneInvariant, RoundInvariant, PTL DEF Spec

-----------------------------------------------------------------------------
(* The theorems. *)

\* Every index of ElmerGraphColour stays within its array, in all threads.
THEOREM ColourTypeCorrect == Spec => []TypeOK
<1>1. ColourInv => TypeOK
  BY DEF ColourInv
<1> QED
  BY <1>1, ColourInvariant, PTL

\* Whatever the threads read of one another, what a round has settled is a colouring:
\* clashes are only left between vertices of which one is still to be coloured.
THEOREM SettledNeverClash == Spec => []SettledDiffer
<1>1. ColourInv => SettledDiffer
  BY DEF ColourInv
<1> QED
  BY <1>1, ColourInvariant, PTL

\* The thread that colours the last vertices on its own makes no clash that was not
\* there, although the marks of earlier rounds still count for it.
THEOREM RepairMakesNoClash == Spec => NoNewClashes
<1>1. ColourInv /\ AloneInv /\ [Next]_vars => [phase = "single" => Clashes' \subseteq Clashes]_vars
  <2> SUFFICES ASSUME ColourInv, AloneInv, Next, phase = "single"
               PROVE  Clashes' \subseteq Clashes
    OBVIOUS
  <2>1. ASSUME NEW t \in Thread, GiveColour(t) PROVE Clashes' \subseteq Clashes
    BY <2>1, GivesNewColour
  <2>2. CASE UNCHANGED colours
    BY <2>2 DEF Clashes
  <2>3. ~ Collect
    BY DEF Collect
  <2> QED
    BY <2>1, <2>2, <2>3 DEF Next, ReadNeighbour, Finish, Terminated, vars
<1> QED
  BY <1>1, ColourInvariant, AloneInvariant, PTL DEF Spec, NoNewClashes
\* However the threads interleave and however many rounds they need, every vertex ends
\* with a colour from 1 to nc: there are always more colours than neighbours that could
\* forbid them in the first round, and no vertex loses its colour later.
THEOREM ColoursAreInRange == Spec => []ColoursInRange
<1>1. ColourInv /\ RoundInv => ColoursInRange
  <2> SUFFICES ASSUME ColourInv, RoundInv, phase = "done"
               PROVE  nc <= MaxDegree + 1 /\ \A v \in Vertex : colours[v] \in 1 .. nc
    BY DEF ColoursInRange
  <2>1. nc \in Nat /\ nc <= MaxDegree + 1
    BY MaxDegreeType DEF ColourInv, TypeOK, Colour
  <2>2. \A v \in Vertex : colours[v] \in Nat /\ colours[v] # 0 /\ colours[v] <= nc
    BY MaxDegreeType DEF ColourInv, TypeOK, Colour, RoundInv, InFirstRound
  <2> QED
    BY <2>1, <2>2
<1> QED
  BY <1>1, ColourInvariant, RoundInvariant, PTL
\* When one thread goes on alone after the first round, the result is a colouring for any
\* graph and any interleaving, although marks are never cleared: the colour that a vertex
\* loses is that of a neighbour too, whose mark takes the place of what was left of it.
THEOREM OneRoundIsFree == Spec => []FreeAfterOneRound
<1>1. RepairInv => FreeAfterOneRound
  BY DEF RepairInv
<1> QED
  BY <1>1, RepairInvariant, PTL
=============================================================================
