------------------------ MODULE SparsityPatternProofs ------------------------
(***************************************************************************)
(* Proofs that the degrees of the rows are the lengths of their lists and  *)
(* that the assembly implements SparsityPattern, for any number of         *)
(* threads, any elements and any way to colour them.                       *)
(***************************************************************************)
EXTENDS ListMatrixArrayProofs, FiniteSetTheorems, WellFoundedInduction

-----------------------------------------------------------------------------
(* The list of a row.  Path is defined by recursion over the pointers; what *)
(* it leads to is found by induction, stated for sets.                      *)

LEMMA Induction ==
    ASSUME NEW N \in Nat, NEW S, 0 \in S, \A n \in 0 .. N : n < N /\ n \in S => n + 1 \in S
    PROVE  \A n \in 0 .. N : n \in S
<1> DEFINE left == {n \in 0 .. N : n \notin S}
<1> SUFFICES ASSUME left # {} PROVE FALSE
  OBVIOUS
<1>1. left \subseteq Nat
  OBVIOUS
<1>2. PICK m \in left : \A n \in left : ~ (<<n, m>> \in OpToRel(<, Nat))
  BY <1>1, WFMin, NatLessThanWellFounded, Zenon
<1>3. \A n \in left : ~ (n < m)
  BY <1>1, <1>2, Zenon DEF OpToRel
<1>4. m \in 0 .. N /\ m \notin S /\ m # 0
  OBVIOUS
<1>5. m - 1 \in 0 .. N /\ m - 1 < m /\ m - 1 < N /\ (m - 1) + 1 = m
  BY <1>4
<1>6. m - 1 \in S
  BY <1>3, <1>5
<1> QED
  BY <1>4, <1>5, <1>6

\* Where one pointer of heap h leads.
After(h, e) == IF e = NULL THEN NULL ELSE h[e].Next

\* Where n pointers lead from x, as in Path.
Walk(h, x) ==
    LET path[n \in 0 .. Cardinality(DOMAIN h)] ==
            IF n = 0 THEN x
            ELSE LET e == path[n - 1] IN IF e = NULL THEN NULL ELSE h[e].Next
    IN  path

LEMMA PathIsWalk ==
    ASSUME NEW r
    PROVE  Path(r) = Walk(heap, head[r]) /\ Path(r)' = Walk(heap', head'[r])
BY DEF Path, Walk

\* The definition is a good one.
WalkIsGood(h, x) ==
    /\ Cardinality(DOMAIN h) \in Nat
    /\ DOMAIN Walk(h, x) = 0 .. Cardinality(DOMAIN h)
    /\ Walk(h, x)[0] = x
    /\ \A n \in 0 .. Cardinality(DOMAIN h) :
         n < Cardinality(DOMAIN h) => Walk(h, x)[n + 1] = After(h, Walk(h, x)[n])

LEMMA WalkSteps ==
    ASSUME NEW h, NEW x, IsFiniteSet(DOMAIN h)
    PROVE  WalkIsGood(h, x)
<1> DEFINE N == Cardinality(DOMAIN h)
           To(n, g) == g = [i \in 0 .. n |-> IF i = 0 THEN x ELSE After(h, g[i - 1])]
           S == {n \in 0 .. N : \E g : To(n, g)}
<1>1. N \in Nat
  BY FS_CardinalityType
<1> HIDE DEF N
<1>2. 0 \in S
  <2> DEFINE g == [i \in 0 .. 0 |-> x]
  <2>1. To(0, g)
    OBVIOUS
  <2> HIDE DEF To, g
  <2> QED
    BY <1>1, <2>1
<1>3. ASSUME NEW n \in 0 .. N, n < N, n \in S PROVE n + 1 \in S
  <2>1. PICK g : To(n, g)
    BY <1>3
  <2> DEFINE f == [i \in 0 .. n + 1 |-> IF i = n + 1 THEN After(h, g[n]) ELSE g[i]]
  <2>2. \A i \in 0 .. n : g[i] = IF i = 0 THEN x ELSE After(h, g[i - 1])
    BY <2>1
  <2>3. ASSUME NEW i \in 0 .. n + 1
        PROVE  f[i] = IF i = 0 THEN x ELSE After(h, f[i - 1])
    <3>1. CASE i = n + 1
      BY <1>1, <3>1
    <3>2. CASE i \in 0 .. n
      BY <1>1, <2>2, <3>2
    <3> QED
      BY <1>1, <3>1, <3>2
  <2>4. f = [i \in 0 .. n + 1 |-> IF i = 0 THEN x ELSE After(h, f[i - 1])]
    BY <2>3
  <2>5. To(n + 1, f)
    BY <2>4
  <2>6. n + 1 \in 0 .. N
    BY <1>1, <1>3
  <2> HIDE DEF To, f
  <2> QED
    BY <2>5, <2>6
<1>4. \E g : To(N, g)
  <2> HIDE DEF S
  <2>1. N \in S
    BY <1>1, <1>2, <1>3, Induction
  <2> QED
    BY <2>1 DEF S
<1>5. PICK g : g = [n \in 0 .. N |->
                      IF n = 0 THEN x
                      ELSE LET e == g[n - 1] IN IF e = NULL THEN NULL ELSE h[e].Next]
  BY <1>4 DEF After
<1>6. Walk(h, x) = [n \in 0 .. N |->
                      IF n = 0 THEN x
                      ELSE LET e == Walk(h, x)[n - 1] IN IF e = NULL THEN NULL ELSE h[e].Next]
  BY <1>5, Zenon DEF Walk, N
<1> HIDE DEF N
<1> DEFINE w == Walk(h, x)
<1>7. w = [n \in 0 .. N |-> IF n = 0 THEN x ELSE After(h, w[n - 1])]
  BY <1>6 DEF After
<1> HIDE DEF w
<1>8. /\ DOMAIN w = 0 .. N
      /\ \A n \in 0 .. N : w[n] = IF n = 0 THEN x ELSE After(h, w[n - 1])
  BY <1>7
<1>9. ASSUME NEW n \in 0 .. N, n < N PROVE w[n + 1] = After(h, w[n])
  <2>1. n + 1 \in 0 .. N /\ n + 1 # 0 /\ (n + 1) - 1 = n
    BY <1>1, <1>9
  <2> QED
    BY <1>8, <2>1
<1>10. w[0] = x
  BY <1>1, <1>8
<1> QED
  BY <1>1, <1>8, <1>9, <1>10 DEF w, N, WalkIsGood

\* Lists of rows, each entry in the list of its owner.
WellLinked(h, hd, owner) ==
    /\ NULL \notin DOMAIN h /\ IsFiniteSet(DOMAIN h)
    /\ \A e \in DOMAIN h : h[e].Index \in Nat /\ h[e].Next \in DOMAIN h \cup {NULL}
    /\ \A r \in Row : hd[r] \in DOMAIN h \cup {NULL}
    /\ owner \in [DOMAIN h -> Row]
    /\ \A r \in Row : hd[r] # NULL => owner[hd[r]] = r
    /\ \A e \in DOMAIN h : h[e].Next # NULL =>
          owner[h[e].Next] = owner[e] /\ h[e].Index < h[h[e].Next].Index

\* What follows an entry is the next of its row in the order of the columns, the head is
\* the first, and there is one entry for a column: so nothing of a row is out of reach.
InOrder(h, hd, owner) ==
    /\ \A e \in DOMAIN h : hd[owner[e]] # NULL /\ h[hd[owner[e]]].Index <= h[e].Index
    /\ \A d, e \in DOMAIN h : owner[d] = owner[e] /\ h[d].Index < h[e].Index =>
          h[d].Next # NULL /\ h[h[d].Next].Index <= h[e].Index
    /\ \A d, e \in DOMAIN h : owner[d] = owner[e] /\ h[d].Index = h[e].Index => d = e

Owned(h, owner, r) == {e \in DOMAIN h : owner[e] = r}

LEMMA WalkReachesRow ==
    ASSUME NEW h, NEW hd, NEW owner, WellLinked(h, hd, owner), InOrder(h, hd, owner),
           NEW r \in Row
    PROVE  {Walk(h, hd[r])[n] : n \in DOMAIN Walk(h, hd[r])} \ {NULL} = Owned(h, owner, r)
<1> DEFINE w == Walk(h, hd[r])
           N == Cardinality(DOMAIN h)
           own == Owned(h, owner, r)
           UpTo(e) == {d \in own : h[d].Index <= h[e].Index}
           S == {n \in 0 .. N :
                   /\ w[n] \in own \cup {NULL}
                   /\ \A e \in own : \/ \E m \in 0 .. n : w[m] = e
                                     \/ w[n] # NULL /\ h[w[n]].Index < h[e].Index
                   /\ w[n] # NULL => n + 1 <= Cardinality(UpTo(w[n]))}
<1>1. /\ N \in Nat /\ DOMAIN w = 0 .. N /\ w[0] = hd[r]
      /\ \A n \in 0 .. N : n < N => w[n + 1] = After(h, w[n])
  <2>1. IsFiniteSet(DOMAIN h)
    BY DEF WellLinked
  <2>2. WalkIsGood(h, hd[r])
    BY <2>1, WalkSteps, Zenon
  <2> QED
    BY <2>2 DEF WalkIsGood
<1>2. /\ own \subseteq DOMAIN h /\ NULL \notin own /\ IsFiniteSet(DOMAIN h)
      /\ \A e \in own : h[e].Index \in Nat /\ owner[e] = r
      /\ \A e \in DOMAIN h : owner[e] = r => e \in own
  BY DEF WellLinked, Owned
<1>3. \A e \in DOMAIN h : IsFiniteSet(UpTo(e)) /\ Cardinality(UpTo(e)) \in Nat
  <2> SUFFICES ASSUME NEW e \in DOMAIN h
               PROVE  IsFiniteSet(UpTo(e)) /\ Cardinality(UpTo(e)) \in Nat
    OBVIOUS
  <2>1. UpTo(e) \subseteq DOMAIN h
    BY <1>2
  <2> QED
    BY <1>2, <2>1, FS_Subset, FS_CardinalityType
<1> HIDE DEF w, N, own
<1>4. 0 \in S
  <2>1. CASE hd[r] = NULL
    <3>1. own = {}
      BY <1>2, <2>1 DEF InOrder
    <3> QED
      BY <1>1, <2>1, <3>1
  <2>2. CASE hd[r] # NULL
    <3>1. hd[r] \in own
      BY <1>2, <2>2 DEF WellLinked
    <3>2. ASSUME NEW e \in own, e # hd[r] PROVE h[hd[r]].Index < h[e].Index
      BY <1>2, <2>2, <3>1, <3>2 DEF InOrder
    <3>3. 1 <= Cardinality(UpTo(hd[r]))
      <4>1. hd[r] \in UpTo(hd[r])
        BY <1>2, <3>1
      <4>2. UpTo(hd[r]) # {}
        BY <4>1
      <4> HIDE DEF UpTo
      <4> QED
        BY <1>2, <1>3, <3>1, <4>2, FS_EmptySet
    <3> HIDE DEF UpTo
    <3> QED
      BY <1>1, <2>2, <3>1, <3>2, <3>3
  <2> QED
    BY <2>1, <2>2
<1>5. ASSUME NEW n \in 0 .. N, n < N, n \in S PROVE n + 1 \in S
  <2>1. n + 1 \in 0 .. N /\ w[n + 1] = After(h, w[n]) /\ w[n] \in own \cup {NULL}
    BY <1>1, <1>5
  <2>2. \A e \in own : \/ \E m \in 0 .. n : w[m] = e
                       \/ w[n] # NULL /\ h[w[n]].Index < h[e].Index
    BY <1>5
  <2>3. w[n] # NULL => n + 1 <= Cardinality(UpTo(w[n]))
    BY <1>5
  <2>4. ASSUME w[n] # NULL, h[w[n]].Next # NULL
        PROVE  /\ w[n + 1] = h[w[n]].Next /\ w[n + 1] \in own
               /\ h[w[n]].Index < h[w[n + 1]].Index
    BY <1>2, <2>1, <2>4 DEF WellLinked, After
  <2>5. w[n + 1] # NULL => w[n] # NULL /\ h[w[n]].Next # NULL
    BY <1>2, <2>1 DEF After
  <2>6. w[n + 1] \in own \cup {NULL}
    BY <2>4, <2>5
  <2>7. ASSUME NEW e \in own
        PROVE  \/ \E m \in 0 .. n + 1 : w[m] = e
               \/ w[n + 1] # NULL /\ h[w[n + 1]].Index < h[e].Index
    <3>1. CASE \E m \in 0 .. n : w[m] = e
      BY <1>1, <3>1
    <3>2. CASE w[n] # NULL /\ h[w[n]].Index < h[e].Index
      <4>1. w[n] \in own /\ h[w[n]].Next # NULL /\ h[h[w[n]].Next].Index <= h[e].Index
        BY <1>2, <2>1, <3>2 DEF InOrder
      <4>2. w[n + 1] \in own /\ h[w[n + 1]].Index <= h[e].Index
        BY <2>4, <3>2, <4>1
      <4>3. h[w[n + 1]].Index = h[e].Index => w[n + 1] = e
        BY <1>2, <4>2 DEF InOrder
      <4> QED
        BY <1>1, <1>2, <2>1, <4>2, <4>3
    <3> QED
      BY <2>2, <3>1, <3>2
  <2>8. ASSUME w[n + 1] # NULL PROVE (n + 1) + 1 <= Cardinality(UpTo(w[n + 1]))
    <3>1. /\ w[n] \in own /\ w[n + 1] \in own /\ h[w[n]].Index < h[w[n + 1]].Index
          /\ n + 1 <= Cardinality(UpTo(w[n]))
      BY <2>1, <2>3, <2>4, <2>5, <2>8
    <3>2. w[n + 1] \notin UpTo(w[n])
      BY <1>2, <3>1
    <3>3. UpTo(w[n]) \cup {w[n + 1]} \subseteq UpTo(w[n + 1])
      BY <1>2, <3>1
    <3> HIDE DEF UpTo
    <3>4. Cardinality(UpTo(w[n]) \cup {w[n + 1]}) = Cardinality(UpTo(w[n])) + 1
      BY <1>2, <1>3, <3>1, <3>2, FS_AddElement
    <3>5. Cardinality(UpTo(w[n]) \cup {w[n + 1]}) <= Cardinality(UpTo(w[n + 1]))
      BY <1>2, <1>3, <3>1, <3>3, FS_Subset
    <3> QED
      BY <1>1, <1>2, <1>3, <3>1, <3>4, <3>5
  <2> HIDE DEF UpTo
  <2> QED
    BY <2>1, <2>6, <2>7, <2>8
<1>6. \A n \in 0 .. N : n \in S
  <2> HIDE DEF S
  <2> QED
    BY <1>1, <1>4, <1>5, Induction
<1>7. ASSUME NEW e \in own PROVE \E m \in 0 .. N : w[m] = e
  <2>1. /\ (\E m \in 0 .. N : w[m] = e) \/ w[N] # NULL
        /\ w[N] # NULL => w[N] \in own /\ N + 1 <= Cardinality(UpTo(w[N]))
    <3>1. N \in S
      <4> HIDE DEF S
      <4> QED
        BY <1>1, <1>6
    <3> QED
      BY <3>1
  <2> SUFFICES ASSUME w[N] # NULL PROVE FALSE
    BY <2>1
  <2>2. UpTo(w[N]) \subseteq DOMAIN h
    BY <1>2
  <2> HIDE DEF UpTo, S
  <2>3. Cardinality(UpTo(w[N])) <= N
    BY <1>2, <2>2, FS_Subset DEF N
  <2> QED
    BY <1>1, <1>2, <1>3, <2>1, <2>3
<1>8. \A n \in 0 .. N : w[n] \in own \cup {NULL}
  BY <1>6
<1> HIDE DEF S
<1>9. {w[n] : n \in DOMAIN w} \ {NULL} = own
  BY <1>1, <1>2, <1>7, <1>8
<1> QED
  BY <1>9 DEF w, own

\* The same for EntriesOf and Pattern.
Reached(h, x) == {Walk(h, x)[n] : n \in DOMAIN Walk(h, x)} \ {NULL}

PatternOf(h, hd) == UNION {{r} \X {h[e].Index : e \in Reached(h, hd[r])} : r \in Row}

Contents(h, owner) == {<<owner[e], h[e].Index>> : e \in DOMAIN h}

LEMMA EntriesAreReached ==
    ASSUME NEW r
    PROVE  /\ EntriesOf(r) = Reached(heap, head[r])
           /\ EntriesOf(r)' = Reached(heap', head'[r])
<1>1. Path(r) = Walk(heap, head[r]) /\ Path(r)' = Walk(heap', head'[r])
  BY PathIsWalk
<1> QED
  BY <1>1 DEF EntriesOf, Reached

LEMMA PatternIsReached ==
    Pattern = PatternOf(heap, head) /\ Pattern' = PatternOf(heap', head')
<1>1. \A r : /\ EntriesOf(r) = Reached(heap, head[r])
             /\ EntriesOf(r)' = Reached(heap', head'[r])
  BY EntriesAreReached
<1> QED
  BY <1>1 DEF Pattern, PatternOf

LEMMA PatternIsContents ==
    ASSUME NEW h, NEW hd, NEW owner, WellLinked(h, hd, owner), InOrder(h, hd, owner)
    PROVE  PatternOf(h, hd) = Contents(h, owner)
<1>1. \A r \in Row : Reached(h, hd[r]) = Owned(h, owner, r)
  BY WalkReachesRow DEF Reached
<1>2. PatternOf(h, hd) = UNION {{r} \X {h[e].Index : e \in Owned(h, owner, r)} : r \in Row}
  BY <1>1 DEF PatternOf
<1>3. \A e \in DOMAIN h : owner[e] \in Row
  BY DEF WellLinked
<1>4. UNION {{r} \X {h[e].Index : e \in Owned(h, owner, r)} : r \in Row} = Contents(h, owner)
  BY <1>3 DEF Owned, Contents
<1> QED
  BY <1>2, <1>4

-----------------------------------------------------------------------------
(* The rows are filled in order.                                           *)

FilledBy(owner) ==
    /\ OwnedBy(owner)
    /\ InOrder(heap, head, owner)
    /\ \A r \in Row : degree[r] = Cardinality(Owned(heap, owner, r))

FillInv ==
    /\ IsFiniteSet(DOMAIN heap)
    /\ \E owner \in [DOMAIN heap -> Row] : FilledBy(owner)

LEMMA FilledIsLinked ==
    ASSUME ListsOK, ListsAscend, IsFiniteSet(DOMAIN heap),
           NEW owner \in [DOMAIN heap -> Row], OwnedBy(owner)
    PROVE  WellLinked(heap, head, owner)
<1>1. NULL \notin DOMAIN heap
  BY NullIsNoEntry
<1>2. \A e \in DOMAIN heap : heap[e].Index \in Nat /\ heap[e].Next \in DOMAIN heap \cup {NULL}
  BY DEF ListsOK, Row
<1>3. \A r \in Row : head[r] \in DOMAIN heap \cup {NULL}
  BY DEF ListsOK
<1> QED
  BY <1>1, <1>2, <1>3 DEF WellLinked, OwnedBy, ListsAscend

LEMMA DegreesFromOwners ==
    ASSUME ListsOK, ListsAscend, FillInv
    PROVE  DegreeCounts
<1>1. PICK owner \in [DOMAIN heap -> Row] : FilledBy(owner)
  BY DEF FillInv
<1>2. WellLinked(heap, head, owner)
  BY <1>1, FilledIsLinked DEF FilledBy, FillInv
<1>3. ASSUME NEW r \in Row PROVE EntriesOf(r) = Owned(heap, owner, r)
  BY <1>1, <1>2, EntriesAreReached, WalkReachesRow DEF FilledBy, Reached
<1> QED
  BY <1>1, <1>3 DEF FilledBy, DegreeCounts

LEMMA FillInit == Init => FillInv /\ Pattern = {}
<1> SUFFICES ASSUME Init PROVE FillInv /\ Pattern = {}
  OBVIOUS
<1>1. /\ DOMAIN heap = {} /\ head = [r \in Row |-> NULL] /\ degree = [r \in Row |-> 0]
      /\ pc = [t \in Thread |-> "call"]
  BY DEF Init
<1>2. IsFiniteSet(DOMAIN heap) /\ Cardinality({}) = 0
  BY <1>1, FS_EmptySet
<1> DEFINE owner == [e \in {} |-> 1]
<1>3. owner \in [DOMAIN heap -> Row]
  BY <1>1
<1>4. OwnedBy(owner) /\ InOrder(heap, head, owner)
  BY <1>1 DEF OwnedBy, InOrder
<1>5. \A r \in Row : degree[r] = Cardinality(Owned(heap, owner, r))
  <2>1. \A r \in Row : Owned(heap, owner, r) = {}
    BY <1>1 DEF Owned
  <2> QED
    BY <1>1, <1>2, <2>1
<1> HIDE DEF owner
<1>6. ListsOK /\ ListsAscend
  BY TypeInvInit, AscendInit DEF TypeInv, TypeOK, AscendInv
<1>7. Pattern = Contents(heap, owner)
  BY <1>2, <1>3, <1>4, <1>6, FilledIsLinked, PatternIsReached, PatternIsContents
<1> QED
  BY <1>1, <1>2, <1>3, <1>4, <1>5, <1>7 DEF FillInv, FilledBy, Contents

\* An entry put between two others of its row, or before its row, keeps the order; its
\* column was not in the row.
LEMMA PutKeepsOrder ==
    ASSUME ApartInv, AscendInv, NEW t \in Thread,
           NEW prev, NEW col, NEW next, Puts(t, prev, col, next),
           NEW owner \in [DOMAIN heap -> Row], OwnedBy(owner), InOrder(heap, head, owner),
           NEW owner1 \in [DOMAIN heap' -> Row],
           owner1[NewEntry(t)] = RowOf(t), \A e \in DOMAIN heap : owner1[e] = owner[e]
    PROVE  /\ InOrder(heap', head', owner1)
           /\ \A e \in DOMAIN heap : owner[e] = RowOf(t) => heap[e].Index # col
<1> DEFINE r == RowOf(t)
           n == NewEntry(t)
<1>1. ListsOK /\ TasksOK /\ NULL \notin DOMAIN heap /\ r \in Row
  BY NullIsNoEntry, CallAtHand DEF ApartInv, TypeInv, TypeOK, TasksOK, Puts
<1>2. n \notin DOMAIN heap /\ n # NULL
  BY PutIsNew
<1>3. /\ DOMAIN heap' = DOMAIN heap \cup {n}
      /\ heap'[n].Index = col /\ heap'[n].Next = next
      /\ \A e \in DOMAIN heap : /\ heap'[e].Index = heap[e].Index
                                /\ heap'[e].Next = IF e = prev THEN n ELSE heap[e].Next
      /\ next \in DOMAIN heap \cup {NULL} /\ prev \in DOMAIN heap \cup {NULL}
  BY <1>2 DEF Puts, LinkedIn, Pointer
<1>4. /\ prev # NULL => owner[prev] = r /\ heap[prev].Index < col
      /\ next # NULL => owner[next] = r /\ col < heap[next].Index
  <2>1. /\ prev # NULL => owner[prev] = r
        /\ next # NULL => owner[next] = r
        /\ \A s \in Thread \ {t} : pc[s] = "search" =>
             pEntry[s] \in DOMAIN heap /\ pEntry[s] # prev /\ pEntry[s] # n
    BY PutInRow
  <2> QED
    BY <2>1 DEF Puts
<1>5. \/ prev = NULL /\ next = head[r] /\ head' = [head EXCEPT ![r] = n]
      \/ prev # NULL /\ next = heap[prev].Next /\ head' = head
  <2>1. pc[t] = "search" => pEntry[t] \in DOMAIN heap /\ cEntry[t] = heap[pEntry[t]].Next
    BY DEF AscendInv, PlaceHeld
  <2> QED
    BY <1>1, <2>1 DEF Puts, Between
<1>6. /\ col \in Nat /\ \A e \in DOMAIN heap : heap[e].Index \in Nat
      /\ head \in [Row -> DOMAIN heap \cup {NULL}]
  BY <1>1 DEF Puts, ListsOK, Row
<1>7. owner1[n] = r /\ \A e \in DOMAIN heap : owner1[e] = owner[e]
  BY DEF n, r
<1> HIDE DEF n, r
<1>8. ASSUME NEW e \in DOMAIN heap, owner[e] = r
      PROVE  \/ prev # NULL /\ heap[e].Index <= heap[prev].Index
             \/ next # NULL /\ heap[next].Index <= heap[e].Index
  <2>1. CASE prev = NULL
    BY <1>5, <1>8, <2>1 DEF InOrder
  <2>2. CASE prev # NULL /\ heap[prev].Index < heap[e].Index
    BY <1>3, <1>4, <1>5, <1>8, <2>2 DEF InOrder
  <2> QED
    BY <1>3, <1>6, <2>1, <2>2
<1>9. \A e \in DOMAIN heap : owner[e] = r => heap[e].Index # col
  BY <1>3, <1>4, <1>6, <1>8
<1>10. ASSUME NEW e \in DOMAIN heap'
       PROVE  head'[owner1[e]] # NULL /\ heap'[head'[owner1[e]]].Index <= heap'[e].Index
  <2>1. CASE e = n
    BY <1>1, <1>2, <1>3, <1>4, <1>5, <1>6, <1>7, <2>1 DEF InOrder
  <2>2. CASE e \in DOMAIN heap /\ owner[e] # r
    BY <1>1, <1>3, <1>5, <1>6, <1>7, <2>2 DEF InOrder
  <2>3. CASE e \in DOMAIN heap /\ owner[e] = r /\ prev = NULL
    BY <1>1, <1>2, <1>3, <1>4, <1>5, <1>6, <1>7, <1>8, <2>3
  <2>4. CASE e \in DOMAIN heap /\ owner[e] = r /\ prev # NULL
    BY <1>1, <1>3, <1>5, <1>6, <1>7, <2>4 DEF InOrder
  <2> QED
    BY <1>3, <2>1, <2>2, <2>3, <2>4
<1>11. ASSUME NEW d \in DOMAIN heap', NEW e \in DOMAIN heap',
              owner1[d] = owner1[e], heap'[d].Index < heap'[e].Index
       PROVE  heap'[d].Next # NULL /\ heap'[heap'[d].Next].Index <= heap'[e].Index
  <2>1. CASE d = n
    <3>1. e \in DOMAIN heap /\ owner[e] = r
      BY <1>3, <1>6, <1>7, <1>11, <2>1
    <3> QED
      BY <1>3, <1>4, <1>6, <1>8, <1>11, <2>1, <3>1
  <2>2. CASE d \in DOMAIN heap /\ d = prev
    <3>1. heap'[d].Next = n /\ n # NULL /\ owner[d] = r
      BY <1>1, <1>2, <1>3, <1>4, <2>2
    <3>2. CASE e = n
      BY <1>3, <1>6, <3>1, <3>2
    <3>3. CASE e \in DOMAIN heap
      BY <1>3, <1>4, <1>6, <1>7, <1>8, <1>11, <2>2, <3>1, <3>3
    <3> QED
      BY <1>3, <3>2, <3>3
  <2>3. CASE d \in DOMAIN heap /\ d # prev /\ e \in DOMAIN heap
    <3>1. heap[d].Next # NULL /\ heap[heap[d].Next].Index <= heap[e].Index
      BY <1>3, <1>7, <1>11, <2>3 DEF InOrder
    <3>2. heap[d].Next \in DOMAIN heap
      BY <1>1, <2>3, <3>1 DEF ListsOK
    <3> QED
      BY <1>3, <2>3, <3>1, <3>2
  <2>4. CASE d \in DOMAIN heap /\ d # prev /\ e = n
    <3>1. owner[d] = r /\ heap[d].Index < col
      BY <1>3, <1>7, <1>11, <2>4
    <3>2. prev # NULL /\ heap[d].Index <= heap[prev].Index
      BY <1>3, <1>4, <1>6, <1>8, <2>4, <3>1
    <3>3. heap[d].Index < heap[prev].Index
      <4>1. prev \in DOMAIN heap /\ owner[prev] = owner[d]
        BY <1>3, <1>4, <3>1, <3>2
      <4>2. heap[d].Index # heap[prev].Index
        BY <2>4, <4>1 DEF InOrder
      <4> QED
        BY <1>6, <2>4, <3>2, <4>1, <4>2
    <3>4. heap[d].Next # NULL /\ heap[heap[d].Next].Index <= heap[prev].Index
      BY <1>3, <1>4, <2>4, <3>1, <3>2, <3>3 DEF InOrder
    <3>5. heap[d].Next \in DOMAIN heap
      BY <1>1, <2>4, <3>4 DEF ListsOK
    <3> QED
      BY <1>3, <1>4, <1>6, <2>4, <3>2, <3>4, <3>5
  <2> QED
    BY <1>3, <2>1, <2>2, <2>3, <2>4
<1>12. ASSUME NEW d \in DOMAIN heap', NEW e \in DOMAIN heap',
              owner1[d] = owner1[e], heap'[d].Index = heap'[e].Index
       PROVE  d = e
  <2>1. CASE d \in DOMAIN heap /\ e \in DOMAIN heap
    BY <1>3, <1>7, <1>12, <2>1 DEF InOrder
  <2> QED
    BY <1>3, <1>7, <1>9, <1>12, <2>1
<1>13. InOrder(heap', head', owner1)
  BY <1>10, <1>11, <1>12 DEF InOrder
<1> QED
  BY <1>9, <1>13 DEF r

\* A row has one entry more.
Counted(t) ==
    \/ degree' = [degree EXCEPT ![RowOf(t)] = degree[RowOf(t)] + 1]
    \/ head[RowOf(t)] = NULL /\ degree' = [degree EXCEPT ![RowOf(t)] = 1]

LEMMA FillPut ==
    ASSUME ApartInv, AscendInv, TypeInv', AscendInv', FillInv, NEW t \in Thread,
           NEW prev, NEW col, NEW next, Puts(t, prev, col, next), Counted(t)
    PROVE  /\ FillInv'
           /\ <<RowOf(t), col>> \notin Pattern
           /\ Pattern' = Pattern \cup {<<RowOf(t), col>>}
<1> DEFINE r == RowOf(t)
           n == NewEntry(t)
<1>1. ListsOK /\ TasksOK /\ r \in Row /\ ListsAscend
  BY CallAtHand DEF ApartInv, AscendInv, TypeInv, TypeOK, TasksOK, Puts
<1>2. n \notin DOMAIN heap /\ n # NULL
  BY PutIsNew
<1>3. /\ DOMAIN heap' = DOMAIN heap \cup {n}
      /\ heap'[n].Index = col
      /\ \A e \in DOMAIN heap : heap'[e].Index = heap[e].Index
  BY <1>2 DEF Puts, LinkedIn
<1>4. PICK owner \in [DOMAIN heap -> Row] : FilledBy(owner)
  BY DEF FillInv
<1>5. PICK owner1 \in [DOMAIN heap' -> Row] :
        owner1[n] = r /\ \A e \in DOMAIN heap : owner1[e] = owner[e]
  <2> DEFINE extended == [e \in DOMAIN heap' |-> IF e = n THEN r ELSE owner[e]]
  <2>1. extended \in [DOMAIN heap' -> Row]
    BY <1>1, <1>3, <1>4
  <2>2. extended[n] = r /\ \A e \in DOMAIN heap : extended[e] = owner[e]
    BY <1>2, <1>3
  <2> QED
    BY <2>1, <2>2
<1>6. OwnedBy(owner) /\ InOrder(heap, head, owner)
  BY <1>4 DEF FilledBy
<1>7. OwnedBy(owner1)'
  BY <1>5, <1>6, OwnedPut
<1>8. /\ InOrder(heap', head', owner1)
      /\ \A e \in DOMAIN heap : owner[e] = r => heap[e].Index # col
  BY <1>5, <1>6, PutKeepsOrder
<1>9. IsFiniteSet(DOMAIN heap) /\ IsFiniteSet(DOMAIN heap')
  <2>1. IsFiniteSet(DOMAIN heap)
    BY DEF FillInv
  <2> QED
    BY <1>3, <2>1, FS_AddElement
<1> HIDE DEF n, r
<1>10. ASSUME NEW q \in Row PROVE degree'[q] = Cardinality(Owned(heap', owner1, q))
  <2>1. degree \in [Row -> Nat] /\ degree[q] = Cardinality(Owned(heap, owner, q))
    BY <1>1, <1>4 DEF FilledBy, ListsOK
  <2>2. CASE q = r
    <3>1. Owned(heap', owner1, q) = Owned(heap, owner, q) \cup {n} /\ n \notin Owned(heap, owner, q)
      BY <1>2, <1>3, <1>5, <2>2 DEF Owned
    <3>2. IsFiniteSet(Owned(heap, owner, q))
      <4>1. Owned(heap, owner, q) \subseteq DOMAIN heap
        BY DEF Owned
      <4> QED
        BY <1>9, <4>1, FS_Subset
    <3>3. Cardinality(Owned(heap', owner1, q)) = degree[q] + 1
      BY <2>1, <3>1, <3>2, FS_AddElement
    <3>4. head[q] = NULL => degree[q] = 0
      <4>1. head[q] = NULL => Owned(heap, owner, q) = {}
        BY <1>6 DEF InOrder, Owned
      <4> QED
        BY <2>1, <4>1, FS_EmptySet
    <3> QED
      BY <2>1, <2>2, <3>3, <3>4 DEF Counted, r
  <2>3. CASE q # r
    <3>1. Owned(heap', owner1, q) = Owned(heap, owner, q)
      BY <1>2, <1>3, <1>5, <2>3 DEF Owned
    <3> QED
      BY <2>1, <2>3, <3>1 DEF Counted, r
  <2> QED
    BY <2>2, <2>3
<1>11. FillInv'
  BY <1>7, <1>8, <1>9, <1>10 DEF FillInv, FilledBy
<1>12. WellLinked(heap, head, owner)
  BY <1>1, <1>6, <1>9, FilledIsLinked
<1>13. WellLinked(heap', head', owner1)
  <2>1. ListsOK' /\ ListsAscend'
    BY DEF TypeInv, TypeOK, AscendInv
  <2>2. NULL \notin DOMAIN heap'
    BY <1>2, <1>3, <1>1, NullIsNoEntry
  <2>3. \A e \in DOMAIN heap' : heap'[e].Index \in Nat /\ heap'[e].Next \in DOMAIN heap' \cup {NULL}
    BY <2>1 DEF ListsOK, Row
  <2>4. \A q \in Row : head'[q] \in DOMAIN heap' \cup {NULL}
    BY <2>1 DEF ListsOK
  <2> QED
    BY <1>7, <1>9, <2>1, <2>2, <2>3, <2>4 DEF WellLinked, OwnedBy, ListsAscend
<1>14. Pattern = Contents(heap, owner) /\ Pattern' = Contents(heap', owner1)
  BY <1>6, <1>8, <1>12, <1>13, PatternIsReached, PatternIsContents
<1>15. Contents(heap', owner1) = Contents(heap, owner) \cup {<<r, col>>}
  BY <1>2, <1>3, <1>5 DEF Contents
<1>16. <<r, col>> \notin Contents(heap, owner)
  BY <1>8 DEF Contents
<1> QED
  BY <1>11, <1>14, <1>15, <1>16 DEF r

\* Other steps leave the rows as they are.
LEMMA FillKept ==
    ASSUME TypeInv, AscendInv, FillInv,
           OutsideSearch \/ \E t \in Thread : MovesOn(t)
    PROVE  FillInv' /\ Pattern' = Pattern
<1>1. UNCHANGED <<head, heap, degree>>
  BY DEF OutsideSearch, MovesOn, listvars
<1>2. PICK owner \in [DOMAIN heap -> Row] : FilledBy(owner)
  BY DEF FillInv
<1>3. OwnedBy(owner)'
  BY <1>2, OwnedOutside, OwnedMove DEF FilledBy
<1>4. FillInv'
  BY <1>1, <1>2, <1>3 DEF FillInv, FilledBy
<1> QED
  BY <1>1, <1>4, PatternIsReached

\* What a step does to the pattern.
LEMMA FillStep ==
    ASSUME ApartInv, AscendInv, TypeInv', AscendInv', FillInv, [Next]_vars
    PROVE  /\ FillInv'
           /\ \/ OutsideSearch /\ Pattern' = Pattern
              \/ \E t \in Thread :
                   /\ StartSearch(t) \/ Advance(t) \/ Skip(t)
                   /\ MovesOn(t) /\ Pattern' = Pattern
              \/ \E t \in Thread, col \in Row :
                   /\ \/ NewHead(t) /\ col = Columns(t)[1]
                      \/ Insert(t) /\ col = Columns(t)[column[t]]
                   /\ <<RowOf(t), col>> \notin Pattern
                   /\ Pattern' = Pattern \cup {<<RowOf(t), col>>}
<1>1. TypeInv
  BY DEF ApartInv
<1>2. CASE OutsideSearch
  BY <1>1, <1>2, FillKept
<1>3. ASSUME NEW t \in Thread, StartSearch(t) \/ Advance(t) \/ Skip(t), MovesOn(t)
      PROVE  FillInv' /\ Pattern' = Pattern
  BY <1>1, <1>3, FillKept
<1>4. ASSUME NEW t \in Thread, NewHead(t), Puts(t, NULL, Columns(t)[1], head[RowOf(t)])
      PROVE  /\ FillInv' /\ Columns(t)[1] \in Row
             /\ <<RowOf(t), Columns(t)[1]>> \notin Pattern
             /\ Pattern' = Pattern \cup {<<RowOf(t), Columns(t)[1]>>}
  <2>1. Counted(t)
    BY <1>4 DEF NewHead, DegreeWithHead, Counted
  <2> QED
    BY <1>4, <2>1, FillPut DEF Puts
<1>5. ASSUME NEW t \in Thread, Insert(t), Puts(t, pEntry[t], Columns(t)[column[t]], cEntry[t])
      PROVE  /\ FillInv' /\ Columns(t)[column[t]] \in Row
             /\ <<RowOf(t), Columns(t)[column[t]]>> \notin Pattern
             /\ Pattern' = Pattern \cup {<<RowOf(t), Columns(t)[column[t]]>>}
  <2>1. Counted(t)
    BY <1>5 DEF Insert, Counted
  <2> QED
    BY <1>5, <2>1, FillPut DEF Puts
<1> QED
  BY <1>2, <1>3, <1>4, <1>5, ListStep

\* When nobody is in a row its degree is the length of its list, whatever the threads
\* have done, if the unknowns of an element are all different and no two elements of a
\* colour have one in common (AddEntries in ListMatrixArray.F90).
THEOREM DegreesAreLengths ==
    ASSUME ColoursApart, Distinct
    PROVE  Spec => []DegreeCounts
<1> DEFINE Inv == ApartInv /\ AscendInv /\ FillInv
<1>1. Init => Inv
  BY ApartInit, AscendInit, FillInit
<1>2. Inv /\ [Next]_vars => Inv'
  <2> SUFFICES ASSUME Inv, [Next]_vars PROVE Inv'
    OBVIOUS
  <2>1. ApartInv' /\ AscendInv'
    BY ApartStep, AscendStep
  <2>2. TypeInv'
    BY <2>1 DEF ApartInv
  <2> QED
    BY <2>1, <2>2, FillStep
<1>3. Inv => DegreeCounts
  BY DegreesFromOwners DEF ApartInv, AscendInv, TypeInv, TypeOK
<1> QED
  BY <1>1, <1>2, <1>3, PTL DEF Spec

-----------------------------------------------------------------------------
(* Nothing is forgotten: what is required is in the pattern, or a thread   *)
(* has it still to add, or it is from an element that nobody has taken or  *)
(* a connection to be added after the region.                              *)

Square(e) == Unknowns(e) \X Unknowns(e)

Connected == {Connections[i] : i \in DOMAIN Connections}

\* The calls of a thread that are left, in the call under way the columns that are left.
ToAdd(t, p) ==
    \E i \in DOMAIN tasks[t] : \E j \in DOMAIN tasks[t][i].columns :
        /\ i = 1 => column[t] <= j
        /\ p = <<tasks[t][i].row, tasks[t][i].columns[j]>>

Awaited(p) ==
    \/ \E t \in Thread : ToAdd(t, p)
    \/ /\ phase = "region"
       /\ \/ \E e \in todo : p \in Square(e)
          \/ \E i \in DOMAIN colours : colour < i /\ \E e \in colours[i] : p \in Square(e)
          \/ p \in Connected

AllCovered == \A p \in Required : p \in Pattern \/ Awaited(p)

\* Nothing else is added.
AllRequired(calls) ==
    \A i \in DOMAIN calls : \A j \in DOMAIN calls[i].columns :
        <<calls[i].row, calls[i].columns[j]>> \in Required

CallsRequired == \A t \in Thread : AllRequired(tasks[t])

\* A call begins with its first column, and all are over in the end.
ColumnsStart == \A t \in Thread : pc[t] # "search" => column[t] = 1

DoneIdle == phase = "done" => \A t \in Thread : tasks[t] = <<>>

CoverInv ==
    /\ AllCovered /\ CallsRequired /\ Pattern \subseteq Required
    /\ ColumnsStart /\ DoneIdle

LEMMA CoverInit == Init => CoverInv
<1> SUFFICES ASSUME Init PROVE CoverInv
  OBVIOUS
<1>1. /\ phase = "region" /\ colour = 1 /\ todo = colours[1] /\ colours \in Colourings
      /\ tasks = [t \in Thread |-> <<>>] /\ column = [t \in Thread |-> 1]
  BY DEF Init
<1>2. Pattern = {}
  BY FillInit
<1>3. CallsRequired /\ ColumnsStart /\ DoneIdle
  BY <1>1 DEF CallsRequired, AllRequired, ColumnsStart, DoneIdle
<1>4. ASSUME NEW p \in Required PROVE Awaited(p)
  <2>1. CASE p \in Connected
    BY <1>1, <2>1 DEF Awaited
  <2>2. ASSUME NEW e \in Element, p \in Square(e) PROVE Awaited(p)
    <3>1. colours \in Seq(SUBSET Element) /\ \E i \in DOMAIN colours : e \in colours[i]
      BY <1>1, ColouringAssumption
    <3>2. PICK i \in DOMAIN colours : e \in colours[i]
      BY <3>1
    <3>3. i = 1 \/ colour < i
      BY <1>1, <3>1, <3>2
    <3>4. e \in todo \/ (colour < i /\ e \in colours[i])
      BY <1>1, <3>2, <3>3
    <3>5. phase = "region"
      BY <1>1
    <3> QED
      BY <2>2, <3>2, <3>4, <3>5, Zenon DEF Awaited
  <2> QED
    BY <2>1, <2>2 DEF Required, Square, Connected
<1> QED
  BY <1>2, <1>3, <1>4 DEF CoverInv, AllCovered

\* The entries at the place of a thread are in the pattern.
LEMMA PlaceInPattern ==
    ASSUME ApartInv, AscendInv, FillInv, NEW t \in Thread, pc[t] # "call"
    PROVE  /\ head[RowOf(t)] # NULL => <<RowOf(t), heap[head[RowOf(t)]].Index>> \in Pattern
           /\ pc[t] = "search" /\ cEntry[t] # NULL =>
                <<RowOf(t), heap[cEntry[t]].Index>> \in Pattern
<1>1. /\ ListsOK /\ ListsAscend /\ RowOf(t) \in Row
      /\ cEntry[t] \in DOMAIN heap \cup {NULL} /\ head[RowOf(t)] \in DOMAIN heap \cup {NULL}
  BY PlaceAtHand DEF ApartInv, AscendInv, TypeInv, TypeOK
<1>2. PICK owner \in [DOMAIN heap -> Row] : FilledBy(owner)
  BY DEF FillInv
<1>3. OwnedBy(owner) /\ InOrder(heap, head, owner) /\ IsFiniteSet(DOMAIN heap)
  BY <1>2 DEF FilledBy, FillInv
<1>4. Pattern = Contents(heap, owner)
  BY <1>1, <1>3, FilledIsLinked, PatternIsReached, PatternIsContents
<1>5. head[RowOf(t)] # NULL => owner[head[RowOf(t)]] = RowOf(t)
  BY <1>1, <1>3 DEF OwnedBy
<1>6. pc[t] = "search" /\ cEntry[t] # NULL => owner[cEntry[t]] = RowOf(t)
  BY <1>3 DEF OwnedBy, AscendInv, PlaceHeld
<1> QED
  BY <1>1, <1>4, <1>5, <1>6 DEF Contents

\* A thread that leaves a column behind has it in the pattern; it leaves nothing else.
LEMMA CoverInCall ==
    ASSUME TypeInv, CoverInv, NEW t \in Thread,
           UNCHANGED <<colours, phase, colour, todo, tasks>>,
           \A s \in Thread \ {t} : column'[s] = column[s],
           \/ column'[t] = column[t]
           \/ /\ column'[t] = column[t] + 1
              /\ <<RowOf(t), Columns(t)[column[t]]>> \in Pattern',
           Pattern \subseteq Pattern'
    PROVE  AllCovered'
<1> SUFFICES ASSUME NEW p \in Required, p \notin Pattern' PROVE Awaited(p)'
  BY DEF AllCovered, Required, Unknowns
<1>1. Awaited(p)
  BY DEF CoverInv, AllCovered
<1>2. ASSUME NEW s \in Thread, ToAdd(s, p) PROVE ToAdd(s, p)'
  <2>0. PICK i \in DOMAIN tasks[s] : \E j \in DOMAIN tasks[s][i].columns :
          (i = 1 => column[s] <= j) /\ p = <<tasks[s][i].row, tasks[s][i].columns[j]>>
    BY <1>2 DEF ToAdd
  <2>1. PICK j \in DOMAIN tasks[s][i].columns :
          (i = 1 => column[s] <= j) /\ p = <<tasks[s][i].row, tasks[s][i].columns[j]>>
    BY <2>0
  <2>2. i = 1 => column'[s] <= j
    <3> SUFFICES ASSUME i = 1, s = t, column'[t] = column[t] + 1
                 PROVE  column'[t] <= j
      BY <2>1
    <3>1. /\ tasks[t] \in Seq(Task) /\ tasks[t] # <<>>
          /\ column[t] \in Nat
      BY DEF TypeInv, TypeOK, TasksOK
    <3>2. RowOf(t) = tasks[t][1].row /\ Columns(t) = tasks[t][1].columns
      BY <3>1 DEF RowOf, Columns
    <3>3. j \in Nat
      <4>1. Columns(t) \in Seq(Row)
        BY <3>1, CallAtHand DEF TypeInv, TypeOK
      <4> QED
        BY <2>1, <3>2, <4>1
    <3>4. j # column[t]
      <4>1. <<RowOf(t), Columns(t)[column[t]]>> \in Pattern'
        BY <3>1
      <4>2. p = <<RowOf(t), Columns(t)[j]>>
        BY <2>1, <3>2
      <4> QED
        BY <4>1, <4>2
    <3> QED
      BY <2>1, <3>1, <3>3, <3>4
  <2> QED
    BY <2>1, <2>2 DEF ToAdd
<1> QED
  BY <1>1, <1>2 DEF Awaited, Square, Unknowns, Connected

LEMMA RequiredKept == Required' = Required
  BY DEF Required, Unknowns

LEMMA AllRequiredKept ==
    \A t \in Thread : AllRequired(tasks[t])' = AllRequired(tasks'[t])
  BY RequiredKept DEF AllRequired

LEMMA PatternKept ==
    ASSUME UNCHANGED <<head, heap>>
    PROVE  Pattern' = Pattern
  BY PatternIsReached

\* Within a call: the columns it has passed are in the pattern.
LEMMA CoverMoves ==
    ASSUME ApartInv, AscendInv, FillInv, CoverInv, NEW t \in Thread,
           StartSearch(t) \/ Advance(t) \/ Skip(t)
    PROVE  CoverInv'
<1>1. TypeInv /\ ListsOK /\ TasksOK
  BY DEF ApartInv, TypeInv, TypeOK
<1>2. /\ UNCHANGED <<head, heap, colours, phase, colour, todo, tasks>>
      /\ pc[t] # "call" /\ pc'[t] = "search"
      /\ \A s \in Thread \ {t} : column'[s] = column[s] /\ pc'[s] = pc[s]
  BY <1>1 DEF StartSearch, Advance, Skip, listvars, TasksOK
<1>3. Pattern' = Pattern /\ Required' = Required
  BY <1>2, PatternKept, RequiredKept
<1>4. \/ column'[t] = column[t]
      \/ column'[t] = column[t] + 1 /\ <<RowOf(t), Columns(t)[column[t]]>> \in Pattern
  <2>1. CASE StartSearch(t)
    <3>1. column[t] = 1
      BY <2>1 DEF StartSearch, CoverInv, ColumnsStart
    <3>2. column'[t] = IF heap[head[RowOf(t)]].Index = Columns(t)[1] THEN 2 ELSE 1
      BY <1>1, <2>1 DEF StartSearch, TasksOK
    <3>3. head[RowOf(t)] # NULL
      BY <2>1 DEF StartSearch, BeforeHead
    <3>4. <<RowOf(t), heap[head[RowOf(t)]].Index>> \in Pattern
      BY <1>2, <3>3, PlaceInPattern
    <3> QED
      BY <3>1, <3>2, <3>4
  <2>2. CASE Advance(t)
    BY <2>2 DEF Advance
  <2>3. CASE Skip(t)
    <3>1. cEntry[t] # NULL /\ heap[cEntry[t]].Index = Columns(t)[column[t]] /\ pc[t] = "search"
      BY <2>3 DEF Skip, Present
    <3>2. column'[t] = column[t] + 1
      BY <1>1, <2>3 DEF Skip, TasksOK
    <3>3. <<RowOf(t), heap[cEntry[t]].Index>> \in Pattern
      BY <1>2, <3>1, PlaceInPattern
    <3> QED
      BY <3>1, <3>2, <3>3
  <2> QED
    BY <2>1, <2>2, <2>3
<1>5. AllCovered'
  BY <1>1, <1>2, <1>3, <1>4, CoverInCall
<1>6. CallsRequired' /\ ColumnsStart' /\ DoneIdle'
  BY <1>2, <1>3 DEF CoverInv, CallsRequired, ColumnsStart, DoneIdle
<1> QED
  BY <1>3, <1>5, <1>6 DEF CoverInv

LEMMA CoverPuts ==
    ASSUME ApartInv, AscendInv, FillInv, CoverInv, NEW t \in Thread, NEW col,
           \/ NewHead(t) /\ col = Columns(t)[1]
           \/ Insert(t) /\ col = Columns(t)[column[t]],
           Pattern' = Pattern \cup {<<RowOf(t), col>>}
    PROVE  CoverInv' /\ <<RowOf(t), col>> \in Required
<1>1. TypeInv /\ ListsOK /\ TasksOK
  BY DEF ApartInv, TypeInv, TypeOK
<1>2. /\ UNCHANGED <<colours, phase, colour, todo, tasks>>
      /\ pc[t] # "call" /\ pc'[t] = "search"
      /\ \A s \in Thread \ {t} : column'[s] = column[s] /\ pc'[s] = pc[s]
  BY <1>1 DEF NewHead, Insert, TasksOK
<1>3. Required' = Required
  BY RequiredKept
<1>4. /\ column'[t] = column[t] + 1 /\ col = Columns(t)[column[t]]
      /\ column[t] \in 1 .. Len(Columns(t))
  <2>1. Len(Columns(t)) \in Nat \ {0} /\ column[t] \in Nat \ {0}
    BY <1>1, <1>2, PlaceAtHand
  <2>2. CASE NewHead(t)
    <3>1. column[t] = 1
      BY <2>2 DEF NewHead, CoverInv, ColumnsStart
    <3>2. column'[t] = 2
      BY <1>1, <2>2 DEF NewHead, TasksOK
    <3>3. col = Columns(t)[1]
      BY <2>2 DEF NewHead, Insert
    <3> QED
      BY <2>1, <3>1, <3>2, <3>3
  <2>3. CASE Insert(t)
    <3>1. column'[t] = column[t] + 1 /\ ColumnsLeft(t)
      BY <1>1, <2>3 DEF Insert, TasksOK
    <3>2. col = Columns(t)[column[t]]
      BY <2>3 DEF NewHead, Insert
    <3> QED
      BY <2>1, <3>1, <3>2 DEF ColumnsLeft
  <2> QED
    BY <2>2, <2>3
<1>5. AllCovered'
  BY <1>1, <1>2, <1>4, CoverInCall
<1>6. <<RowOf(t), col>> \in Required
  <2>1. tasks[t] # <<>>
    BY <1>1, <1>2 DEF TasksOK
  <2>2. 1 \in DOMAIN tasks[t] /\ RowOf(t) = tasks[t][1].row /\ Columns(t) = tasks[t][1].columns
    BY <1>1, <2>1, CallAtHand DEF RowOf, Columns
  <2>3. Columns(t) \in Seq(Row)
    BY <1>1, <2>1, CallAtHand
  <2>4. column[t] \in DOMAIN Columns(t)
    BY <1>4, <2>3
  <2> QED
    BY <1>4, <2>2, <2>4 DEF CoverInv, CallsRequired, AllRequired
<1>7. CallsRequired' /\ ColumnsStart' /\ DoneIdle'
  BY <1>2, <1>3 DEF CoverInv, CallsRequired, ColumnsStart, DoneIdle
<1> QED
  BY <1>3, <1>5, <1>6, <1>7 DEF CoverInv

\* The steps between the calls.
LEMMA CoverTake ==
    ASSUME ApartInv, CoverInv, NEW t \in Thread, TakeElement(t)
    PROVE  CoverInv'
<1>1. /\ tasks \in [Thread -> Seq(Task)] /\ todo \in SUBSET Element
      /\ UNCHANGED <<colours, phase, colour, pc, column>>
      /\ Pattern' = Pattern /\ Required' = Required
      /\ phase = "region" /\ tasks[t] = <<>> /\ column[t] = 1
  BY PatternKept, RequiredKept DEF TakeElement, Idle, listvars, ApartInv, TypeInv, TypeOK, TasksOK,
     CoverInv, ColumnsStart
<1>2. PICK e \in todo : todo' = todo \ {e} /\ tasks' = [tasks EXCEPT ![t] = Calls(e)]
  BY DEF TakeElement
<1>3. /\ DOMAIN Calls(e) = DOMAIN Indexes[e]
      /\ \A i \in DOMAIN Indexes[e] :
           Calls(e)[i].row = Indexes[e][i] /\ Calls(e)[i].columns = Indexes[e]
  BY DEF Calls
<1>4. tasks'[t] = Calls(e) /\ \A s \in Thread \ {t} : tasks'[s] = tasks[s]
  BY <1>1, <1>2
<1>5. DOMAIN Indexes[e] \subseteq Nat \ {0}
  BY <1>1, IndexAssumption
<1>6. ASSUME NEW p \in Square(e) PROVE ToAdd(t, p)'
  <2>1. PICK a \in Unknowns(e), b \in Unknowns(e) : p = <<a, b>>
    BY <1>6 DEF Square
  <2>2. PICK i \in DOMAIN Indexes[e], j \in DOMAIN Indexes[e] :
          p = <<Indexes[e][i], Indexes[e][j]>>
    BY <2>1 DEF Unknowns
  <2>3. column'[t] <= j
    BY <1>1, <1>5
  <2> QED
    BY <1>3, <1>4, <2>2, <2>3 DEF ToAdd
<1>7. AllCovered'
  <2> SUFFICES ASSUME NEW p \in Required, Awaited(p) PROVE Awaited(p)'
    BY <1>1 DEF CoverInv, AllCovered
  <2>1. ASSUME NEW s \in Thread, ToAdd(s, p) PROVE ToAdd(s, p)'
    <3>1. s # t
      BY <1>1, <2>1 DEF ToAdd
    <3> QED
      BY <1>1, <1>4, <2>1, <3>1 DEF ToAdd
  <2>2. ASSUME NEW d \in todo, p \in Square(d) PROVE Awaited(p)'
    <3>1. d = e \/ d \in todo'
      BY <1>2
    <3>2. CASE d = e
      BY <1>6, <2>2, <3>2 DEF Awaited
    <3>3. CASE d \in todo'
      BY <1>1, <2>2, <3>3 DEF Awaited, Square, Unknowns
    <3> QED
      BY <3>1, <3>2, <3>3
  <2> QED
    BY <1>1, <2>1, <2>2 DEF Awaited, Square, Unknowns, Connected
<1>8. CallsRequired'
  <2>1. \A i, j \in DOMAIN Indexes[e] : <<Indexes[e][i], Indexes[e][j]>> \in Required
    BY <1>1, <1>2 DEF Required, Unknowns
  <2>2. AllRequired(Calls(e))
    BY <1>3, <2>1 DEF AllRequired
  <2> QED
    BY <1>4, <2>2, AllRequiredKept DEF CoverInv, CallsRequired
<1>9. ColumnsStart' /\ DoneIdle'
  BY <1>1 DEF CoverInv, ColumnsStart, DoneIdle
<1> QED
  BY <1>1, <1>7, <1>8, <1>9 DEF CoverInv

LEMMA CoverUnlock ==
    ASSUME ApartInv, CoverInv, NEW t \in Thread, UnlockRow(t)
    PROVE  CoverInv'
<1>1. /\ tasks \in [Thread -> Seq(Task)] /\ column \in [Thread -> Nat \ {0}]
      /\ pc \in [Thread -> {"call", "first", "search"}]
      /\ UNCHANGED <<colours, phase, colour, todo>>
      /\ Pattern' = Pattern /\ Required' = Required
      /\ tasks[t] # <<>> /\ ~ ColumnsLeft(t)
  BY PatternKept, RequiredKept DEF UnlockRow, listvars, ApartInv, TypeInv, TypeOK, TasksOK
<1>2. /\ tasks' = [tasks EXCEPT ![t] = Tail(tasks[t])]
      /\ column' = [column EXCEPT ![t] = 1]
      /\ pc' = [pc EXCEPT ![t] = "call"]
  BY DEF UnlockRow
<1>3. /\ tasks'[t] = Tail(tasks[t]) /\ \A s \in Thread \ {t} : tasks'[s] = tasks[s]
      /\ column'[t] = 1 /\ \A s \in Thread \ {t} : column'[s] = column[s]
  BY <1>1, <1>2
<1>4. /\ \A i \in DOMAIN Tail(tasks[t]) :
           i + 1 \in DOMAIN tasks[t] /\ Tail(tasks[t])[i] = tasks[t][i + 1]
      /\ \A i \in DOMAIN tasks[t] : i # 1 =>
           i - 1 \in DOMAIN Tail(tasks[t]) /\ tasks[t][i] = Tail(tasks[t])[i - 1]
  <2>1. /\ Len(tasks[t]) \in Nat \ {0} /\ DOMAIN tasks[t] = 1 .. Len(tasks[t])
        /\ DOMAIN Tail(tasks[t]) = 1 .. Len(tasks[t]) - 1
        /\ \A i \in 1 .. Len(tasks[t]) - 1 : Tail(tasks[t])[i] = tasks[t][i + 1]
    BY <1>1
  <2>2. ASSUME NEW i \in DOMAIN tasks[t], i # 1
        PROVE  i - 1 \in DOMAIN Tail(tasks[t]) /\ tasks[t][i] = Tail(tasks[t])[i - 1]
    <3>1. i - 1 \in 1 .. Len(tasks[t]) - 1 /\ (i - 1) + 1 = i
      BY <2>1, <2>2
    <3> QED
      BY <2>1, <3>1
  <2> QED
    BY <2>1, <2>2
<1>5. ASSUME NEW p, ToAdd(t, p) PROVE ToAdd(t, p)'
  <2>1. PICK i \in DOMAIN tasks[t] : \E j \in DOMAIN tasks[t][i].columns :
          (i = 1 => column[t] <= j) /\ p = <<tasks[t][i].row, tasks[t][i].columns[j]>>
    BY <1>5 DEF ToAdd
  <2>2. PICK j \in DOMAIN tasks[t][i].columns :
          (i = 1 => column[t] <= j) /\ p = <<tasks[t][i].row, tasks[t][i].columns[j]>>
    BY <2>1
  <2>3. tasks[t][i].columns \in Seq(Row)
    <3>1. tasks[t][i] \in Task
      BY <1>1
    <3> HIDE DEF Task
    <3> DEFINE task == tasks[t][i]
    <3>2. task \in Task
      BY <3>1
    <3> HIDE DEF task
    <3>3. task.columns \in Seq(Row)
      BY <3>2 DEF Task
    <3> QED
      BY <3>3 DEF task
  <2>4. j \in 1 .. Len(tasks[t][i].columns)
    BY <2>2, <2>3
  <2>5. i # 1
    <3> SUFFICES ASSUME i = 1 PROVE FALSE
      OBVIOUS
    <3>1. Columns(t) = tasks[t][i].columns
      BY <1>1 DEF Columns
    <3>2. column[t] \in Nat /\ Len(Columns(t)) \in Nat /\ ~ (column[t] <= Len(Columns(t)))
      BY <1>1, <2>3, <3>1 DEF ColumnsLeft
    <3> QED
      BY <2>2, <2>4, <3>1, <3>2
  <2>6. i - 1 \in DOMAIN tasks'[t] /\ tasks'[t][i - 1] = tasks[t][i]
    BY <1>3, <1>4, <2>5
  <2>7. column'[t] <= j
    BY <1>3, <2>4
  <2> QED
    BY <2>2, <2>6, <2>7 DEF ToAdd
<1>6. AllCovered'
  <2> SUFFICES ASSUME NEW p \in Required, Awaited(p) PROVE Awaited(p)'
    BY <1>1 DEF CoverInv, AllCovered
  <2>1. ASSUME NEW s \in Thread, ToAdd(s, p) PROVE ToAdd(s, p)'
    <3>1. CASE s # t
      BY <1>3, <2>1, <3>1 DEF ToAdd
    <3> QED
      BY <1>5, <2>1, <3>1
  <2> QED
    BY <1>1, <2>1 DEF Awaited, Square, Unknowns, Connected
<1>7. CallsRequired'
  <2>1. AllRequired(tasks[t])
    BY DEF CoverInv, CallsRequired
  <2>2. AllRequired(Tail(tasks[t]))
    BY <1>4, <2>1 DEF AllRequired
  <2> QED
    BY <1>3, <2>2, AllRequiredKept DEF CoverInv, CallsRequired
<1>8. ColumnsStart'
  BY <1>1, <1>2 DEF CoverInv, ColumnsStart
<1>9. DoneIdle'
  BY <1>1 DEF CoverInv, DoneIdle
<1> QED
  BY <1>1, <1>6, <1>7, <1>8, <1>9 DEF CoverInv

LEMMA CoverRegion ==
    ASSUME ApartInv, CoverInv, NextColour \/ EndRegion
    PROVE  CoverInv'
<1>1. /\ tasks \in [Thread -> Seq(Task)] /\ 1 \in Thread /\ colours \in Colourings
      /\ colour \in 1 .. Len(colours)
      /\ UNCHANGED <<colours, pc, column>>
      /\ Pattern' = Pattern /\ Required' = Required
      /\ phase = "region" /\ todo = {}
      /\ \A t \in Thread : tasks[t] = <<>> /\ column[t] = 1
  <2>1. /\ tasks \in [Thread -> Seq(Task)] /\ colours \in Colourings
        /\ colour \in 1 .. Len(colours)
    BY DEF ApartInv, TypeInv, TypeOK, TasksOK
  <2>2. 1 \in Thread
    BY SizeAssumption DEF Thread
  <2>3. /\ UNCHANGED <<colours, pc, column>>
        /\ phase = "region" /\ todo = {}
        /\ \A t \in Thread : tasks[t] = <<>> /\ pc[t] = "call"
    BY DEF NextColour, EndRegion, ColourDone, Idle, listvars, threadvars
  <2>4. UNCHANGED <<heap, head>>
    BY DEF NextColour, EndRegion, listvars
  <2>5. Pattern' = Pattern /\ Required' = Required
    BY <2>3, <2>4, PatternKept, RequiredKept
  <2>6. \A t \in Thread : column[t] = 1
    BY <2>3 DEF CoverInv, ColumnsStart
  <2> QED
    BY <2>1, <2>2, <2>3, <2>5, <2>6
<1>2. \A p : \A t \in Thread : ~ ToAdd(t, p)
  BY <1>1 DEF ToAdd
<1>3. ColumnsStart'
  BY <1>1 DEF CoverInv, ColumnsStart
<1>4. Len(colours) \in Nat /\ DOMAIN colours = 1 .. Len(colours)
  BY <1>1, ColouringAssumption
<1>5. CASE NextColour
  <2>1. phase' = phase /\ tasks' = tasks /\ colour' = colour + 1 /\ todo' = colours[colour + 1]
    BY <1>5 DEF NextColour, threadvars
  <2>2. ASSUME NEW p, Awaited(p) PROVE Awaited(p)'
    <3>1. CASE p \in Connected
      BY <1>1, <2>1, <3>1 DEF Awaited, Connected
    <3>2. ASSUME NEW i \in DOMAIN colours, colour < i, NEW e \in colours[i], p \in Square(e)
          PROVE  Awaited(p)'
      <4>1. i = colour' \/ colour' < i
        BY <1>1, <1>4, <2>1, <3>2
      <4>2. e \in todo' \/ (colour' < i /\ e \in colours'[i] /\ i \in DOMAIN colours')
        BY <1>1, <2>1, <3>2, <4>1
      <4>3. phase' = "region" /\ (p \in Square(e))'
        BY <1>1, <2>1, <3>2 DEF Square, Unknowns
      <4> QED
        BY <4>2, <4>3, Zenon DEF Awaited
    <3> QED
      BY <1>1, <1>2, <2>2, <3>1, <3>2 DEF Awaited
  <2>3. AllCovered'
    BY <1>1, <2>2 DEF CoverInv, AllCovered
  <2>4. CallsRequired' /\ DoneIdle'
    BY <1>1, <2>1, AllRequiredKept DEF CoverInv, CallsRequired, DoneIdle
  <2> QED
    BY <1>1, <1>3, <2>3, <2>4 DEF CoverInv
<1>6. CASE EndRegion
  <2>1. /\ colour = Len(colours) /\ phase' = "after"
        /\ tasks' = [tasks EXCEPT ![1] = ConnectionCalls]
    BY <1>6 DEF EndRegion, ConnectionCalls
  <2>2. tasks'[1] = ConnectionCalls /\ \A t \in Thread \ {1} : tasks'[t] = <<>>
    BY <1>1, <2>1
  <2>3. DOMAIN ConnectionCalls = DOMAIN Connections
    BY DEF ConnectionCalls
  <2>4. ASSUME NEW i \in DOMAIN Connections
        PROVE  /\ ConnectionCalls[i].row = Connections[i][1]
               /\ ConnectionCalls[i].columns = <<Connections[i][2]>>
               /\ Connections[i] = <<Connections[i][1], Connections[i][2]>>
    <3>1. Connections[i] \in Row \X Row
      BY IndexAssumption
    <3> QED
      BY <3>1 DEF ConnectionCalls
  <2>5. ASSUME NEW p, Awaited(p) PROVE Awaited(p)'
    <3>1. p \in Connected
      <4>1. ~ \E i \in DOMAIN colours : colour < i
        BY <1>4, <2>1
      <4> QED
        BY <1>1, <1>2, <2>5, <4>1 DEF Awaited
    <3>2. PICK i \in DOMAIN Connections : p = Connections[i]
      BY <3>1 DEF Connected
    <3>3. i \in DOMAIN tasks'[1] /\ 1 \in DOMAIN tasks'[1][i].columns
      BY <2>2, <2>3, <2>4
    <3>4. p = <<tasks'[1][i].row, tasks'[1][i].columns[1]>> /\ column'[1] <= 1
      BY <1>1, <2>2, <2>4, <3>2
    <3>5. ToAdd(1, p)'
      BY <3>3, <3>4 DEF ToAdd
    <3> QED
      BY <1>1, <3>5 DEF Awaited
  <2>6. AllCovered'
    BY <1>1, <2>5 DEF CoverInv, AllCovered
  <2>7. CallsRequired'
    <3>1. AllRequired(ConnectionCalls)
      BY <2>3, <2>4 DEF AllRequired, Required
    <3>2. AllRequired(<<>>)
      BY DEF AllRequired
    <3> QED
      BY <2>2, <3>1, <3>2, AllRequiredKept DEF CallsRequired
  <2>8. DoneIdle'
    BY <2>1 DEF DoneIdle
  <2> QED
    BY <1>1, <1>3, <2>6, <2>7, <2>8 DEF CoverInv
<1> QED
  BY <1>5, <1>6

\* When the assembly is over nothing is awaited, so everything required is there.
LEMMA CoverFinish ==
    ASSUME ApartInv, CoverInv, Finish
    PROVE  CoverInv' /\ Pattern' = Pattern /\ Pattern = Required
<1>1. /\ UNCHANGED <<tasks, pc, column>> /\ phase = "after" /\ phase' = "done"
      /\ Pattern' = Pattern /\ Required' = Required
      /\ \A t \in Thread : tasks[t] = <<>>
  BY PatternKept, RequiredKept DEF Finish, Idle, listvars, threadvars, ApartInv, AloneAfter
<1>2. \A p : ~ Awaited(p)
  BY <1>1 DEF Awaited, ToAdd
<1>3. Pattern = Required
  BY <1>2 DEF CoverInv, AllCovered
<1>4. AllCovered'
  BY <1>1, <1>3 DEF AllCovered
<1>5. CallsRequired' /\ ColumnsStart' /\ DoneIdle'
  BY <1>1, AllRequiredKept DEF CoverInv, CallsRequired, ColumnsStart, DoneIdle
<1> QED
  BY <1>1, <1>3, <1>4, <1>5 DEF CoverInv

LEMMA CoverRest ==
    ASSUME ApartInv, CoverInv, (\E t \in Thread : LockRow(t)) \/ UNCHANGED vars
    PROVE  CoverInv'
<1>1. /\ UNCHANGED <<colours, phase, colour, todo, tasks, column>>
      /\ Pattern' = Pattern /\ Required' = Required
      /\ \A s \in Thread : pc'[s] = "search" <=> pc[s] = "search"
  BY PatternKept, RequiredKept DEF LockRow, vars, listvars, threadvars, ApartInv, TypeInv, TypeOK,
     TasksOK
<1>2. AllCovered'
  <2>1. \A p : Awaited(p) => Awaited(p)'
    BY <1>1 DEF Awaited, ToAdd, Square, Unknowns, Connected
  <2> QED
    BY <1>1, <2>1 DEF CoverInv, AllCovered
<1>3. CallsRequired' /\ ColumnsStart' /\ DoneIdle'
  BY <1>1, AllRequiredKept DEF CoverInv, CallsRequired, ColumnsStart, DoneIdle
<1> QED
  BY <1>1, <1>2, <1>3 DEF CoverInv

-----------------------------------------------------------------------------
(* The assembly implements SparsityPattern.                                *)

AssemblyInv == ApartInv /\ AscendInv /\ FillInv /\ CoverInv

LEMMA AssemblyInvStep ==
    ASSUME ColoursApart, Distinct
    PROVE  AssemblyInv /\ [Next]_vars => AssemblyInv'
<1> SUFFICES ASSUME AssemblyInv, [Next]_vars PROVE AssemblyInv'
  OBVIOUS
<1> USE DEF AssemblyInv
<1>1. ApartInv' /\ AscendInv' /\ TypeInv'
  BY ApartStep, AscendStep DEF ApartInv
<1>2. FillInv'
  BY <1>1, FillStep
<1>3. ASSUME NEW t \in Thread, StartSearch(t) \/ Advance(t) \/ Skip(t) PROVE CoverInv'
  BY <1>3, CoverMoves
<1>4. ASSUME NEW t \in Thread, NewHead(t) PROVE CoverInv'
  <2>1. Puts(t, NULL, Columns(t)[1], head[RowOf(t)]) /\ Counted(t)
    BY <1>4, NewHeadPuts DEF NewHead, DegreeWithHead, Counted
  <2>2. Pattern' = Pattern \cup {<<RowOf(t), Columns(t)[1]>>}
    BY <1>1, <2>1, FillPut
  <2> QED
    BY <1>4, <2>2, CoverPuts
<1>5. ASSUME NEW t \in Thread, Insert(t) PROVE CoverInv'
  <2>1. Puts(t, pEntry[t], Columns(t)[column[t]], cEntry[t]) /\ Counted(t)
    BY <1>5, InsertPuts DEF Insert, Counted
  <2>2. Pattern' = Pattern \cup {<<RowOf(t), Columns(t)[column[t]]>>}
    BY <1>1, <2>1, FillPut
  <2> QED
    BY <1>5, <2>2, CoverPuts
<1>6. ASSUME NEW t \in Thread, TakeElement(t) \/ UnlockRow(t) PROVE CoverInv'
  BY <1>6, CoverTake, CoverUnlock
<1>7. ASSUME NextColour \/ EndRegion \/ Finish PROVE CoverInv'
  BY <1>7, CoverRegion, CoverFinish
<1>8. ASSUME (\E t \in Thread : LockRow(t)) \/ UNCHANGED vars PROVE CoverInv'
  BY <1>8, CoverRest
<1>9. CoverInv'
  BY <1>3, <1>4, <1>5, <1>6, <1>7, <1>8, Zenon DEF Next, ThreadStep, Terminated
<1> QED
  BY <1>1, <1>2, <1>9

\* What a step is in the terms of SparsityPattern.
LEMMA AssemblyStep ==
    ASSUME AssemblyInv, AssemblyInv', [Next]_vars
    PROVE  [PatternSpec!AddConnection \/ PatternSpec!Complete]_<<Pattern, phase = "done">>
<1> USE DEF AssemblyInv
<1>1. TypeInv' /\ TypeInv
  BY DEF ApartInv
<1>2. \/ Pattern' = Pattern
      \/ \E t \in Thread, col \in Row :
           /\ \/ NewHead(t) /\ col = Columns(t)[1]
              \/ Insert(t) /\ col = Columns(t)[column[t]]
           /\ <<RowOf(t), col>> \notin Pattern
           /\ Pattern' = Pattern \cup {<<RowOf(t), col>>}
  BY <1>1, FillStep
<1>3. ASSUME NEW t \in Thread, NEW col \in Row,
             \/ NewHead(t) /\ col = Columns(t)[1]
             \/ Insert(t) /\ col = Columns(t)[column[t]],
             <<RowOf(t), col>> \notin Pattern,
             Pattern' = Pattern \cup {<<RowOf(t), col>>}
      PROVE  PatternSpec!AddConnection
  <2>1. <<RowOf(t), col>> \in Required
    BY <1>3, CoverPuts
  <2>2. pc[t] # "call" /\ phase' = phase
    BY <1>3 DEF NewHead, Insert
  <2>3. phase # "done"
    BY <1>1, <2>2 DEF CoverInv, DoneIdle, TypeInv, TypeOK, TasksOK
  <2> QED
    BY <1>3, <2>1, <2>2, <2>3 DEF PatternSpec!AddConnection
<1>4. CASE Finish
  <2>1. Pattern' = Pattern /\ Pattern = Required /\ phase' = "done"
    BY <1>4, CoverFinish DEF Finish
  <2> QED
    BY <2>1 DEF PatternSpec!Complete
<1>5. CASE ~ Finish /\ Pattern' = Pattern
  <2>1. (phase' = "done") = (phase = "done")
    <3>1. CASE EndRegion
      BY <3>1 DEF EndRegion, ColourDone
    <3>2. CASE UNCHANGED phase
      BY <3>2
    <3> QED
      BY <1>5, <3>1, <3>2 DEF Next, ThreadStep, Terminated, vars, NextColour, TakeElement, LockRow,
         NewHead, StartSearch, Advance, Skip, Insert, UnlockRow
  <2> QED
    BY <1>5, <2>1
<1> QED
  BY <1>2, <1>3, <1>4, <1>5

\* Connections are added one by one, none is lost and none is added that is not needed,
\* and when the assembly is over all are there, whatever the threads do and however the
\* mesh is coloured (MakeListMatrixArray in ElementUtils.F90).
THEOREM PatternIsAssembled ==
    ASSUME ColoursApart, Distinct
    PROVE  Spec => AssemblesPattern
<1>1. Init => AssemblyInv /\ PatternSpec!Init
  BY ApartInit, AscendInit, FillInit, CoverInit DEF AssemblyInv, PatternSpec!Init, Init
<1>2. AssemblyInv /\ [Next]_vars => AssemblyInv'
  BY AssemblyInvStep
<1>3. AssemblyInv /\ AssemblyInv' /\ [Next]_vars =>
        [PatternSpec!AddConnection \/ PatternSpec!Complete]_<<Pattern, phase = "done">>
  BY AssemblyStep
<1> QED
  BY <1>1, <1>2, <1>3, PTL DEF Spec, AssemblesPattern, PatternSpec!Spec
=============================================================================
