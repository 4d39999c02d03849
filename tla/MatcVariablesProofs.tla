------------------------- MODULE MatcVariablesProofs -------------------------
(***************************************************************************)
(* Proofs about MATC's variables, for any number of variables, matrices,   *)
(* names and values, any depth of functions and any number of errors.      *)
(***************************************************************************)
EXTENDS MatcVariables, FiniteSetTheorems, SequenceTheorems, WellFoundedInduction, TLAPS

-----------------------------------------------------------------------------
(* Lists. *)

Removed(s, i) == SubSeq(s, 1, i - 1) \o SubSeq(s, i + 1, Len(s))
Inserted(s, i, n) == SubSeq(s, 1, i - 1) \o <<n>> \o SubSeq(s, i, Len(s))

\* The parts of a list before and from a place.
LEMMA PartType ==
    ASSUME NEW S, NEW s \in Seq(S), NEW i \in 1 .. Len(s) + 1
    PROVE  /\ SubSeq(s, 1, i - 1) \in Seq(S) /\ Len(SubSeq(s, 1, i - 1)) = i - 1
           /\ \A j \in 1 .. i - 1 : SubSeq(s, 1, i - 1)[j] = s[j]
           /\ SubSeq(s, i, Len(s)) \in Seq(S) /\ Len(SubSeq(s, i, Len(s))) = Len(s) - i + 1
           /\ \A j \in 1 .. Len(s) - i + 1 : SubSeq(s, i, Len(s))[j] = s[j + i - 1]
OBVIOUS

LEMMA RemovedIs ==
    ASSUME NEW S, NEW s \in Seq(S), NEW i \in 1 .. Len(s)
    PROVE  /\ Removed(s, i) \in Seq(S) /\ Len(Removed(s, i)) = Len(s) - 1
           /\ \A j \in 1 .. Len(s) - 1 : Removed(s, i)[j] = s[IF j < i THEN j ELSE j + 1]
<1> DEFINE a == SubSeq(s, 1, i - 1)
           b == SubSeq(s, i + 1, Len(s))
<1>1. Len(s) \in Nat /\ i \in Nat /\ i + 1 \in 1 .. Len(s) + 1
  OBVIOUS
<1>2. a \in Seq(S) /\ Len(a) = i - 1 /\ \A j \in 1 .. i - 1 : a[j] = s[j]
  BY <1>1, PartType
<1>3. b \in Seq(S) /\ Len(b) = Len(s) - i /\ \A j \in 1 .. Len(s) - i : b[j] = s[j + i]
  BY <1>1
<1> HIDE DEF a, b
<1>4. /\ a \o b \in Seq(S) /\ Len(a \o b) = Len(a) + Len(b)
      /\ \A j \in 1 .. Len(a) + Len(b) :
           (a \o b)[j] = IF j <= Len(a) THEN a[j] ELSE b[j - Len(a)]
  BY <1>2, <1>3, ConcatProperties, Zenon
<1>5. \A j \in 1 .. Len(s) - 1 : (a \o b)[j] = s[IF j < i THEN j ELSE j + 1]
  BY <1>1, <1>2, <1>3, <1>4
<1>6. Len(a \o b) = Len(s) - 1
  BY <1>1, <1>2, <1>3, <1>4
<1>7. Removed(s, i) = a \o b
  BY DEF Removed, a, b
<1> QED
  BY <1>4, <1>5, <1>6, <1>7, Zenon

\* The list d is s with n at place i.
HasInserted(d, s, i, n) ==
    /\ Len(d) = Len(s) + 1
    /\ \A j \in 1 .. Len(s) + 1 :
         d[j] = IF j < i THEN s[j] ELSE IF j = i THEN n ELSE s[j - 1]

LEMMA InsertedIs ==
    ASSUME NEW S, NEW s \in Seq(S), NEW i \in 1 .. Len(s) + 1, NEW n \in S
    PROVE  Inserted(s, i, n) \in Seq(S) /\ HasInserted(Inserted(s, i, n), s, i, n)
<1> DEFINE a == SubSeq(s, 1, i - 1)
           c == a \o <<n>>
           b == SubSeq(s, i, Len(s))
<1>1. Len(s) \in Nat /\ i \in Nat
  OBVIOUS
<1>2. a \in Seq(S) /\ Len(a) = i - 1 /\ \A j \in 1 .. i - 1 : a[j] = s[j]
  BY <1>1, PartType
<1>3. /\ b \in Seq(S) /\ Len(b) = Len(s) - i + 1
      /\ \A j \in 1 .. Len(s) - i + 1 : b[j] = s[j + i - 1]
  BY <1>1, PartType
<1> HIDE DEF a, b
<1>4. c \in Seq(S) /\ Len(c) = i /\ \A j \in 1 .. i : c[j] = IF j < i THEN s[j] ELSE n
  BY <1>1, <1>2
<1> HIDE DEF c
<1>5. /\ c \o b \in Seq(S) /\ Len(c \o b) = Len(c) + Len(b)
      /\ \A j \in 1 .. Len(c) + Len(b) :
           (c \o b)[j] = IF j <= Len(c) THEN c[j] ELSE b[j - Len(c)]
  BY <1>3, <1>4, ConcatProperties, Zenon
<1>6. \A j \in 1 .. Len(s) + 1 :
         (c \o b)[j] = IF j < i THEN s[j] ELSE IF j = i THEN n ELSE s[j - 1]
  BY <1>1, <1>3, <1>4, <1>5
<1>7. Len(c \o b) = Len(s) + 1
  BY <1>1, <1>3, <1>4, <1>5
<1>8. HasInserted(c \o b, s, i, n)
  BY <1>6, <1>7 DEF HasInserted
<1>9. Inserted(s, i, n) = c \o b
  BY DEF Inserted, a, b, c
<1> QED
  BY <1>5, <1>8, <1>9, Zenon

LEMMA ElementsType ==
    ASSUME NEW S, NEW s \in Seq(S)
    PROVE  /\ DOMAIN s = 1 .. Len(s) /\ Len(s) \in Nat
           /\ Elements(s) \subseteq S
           /\ \A i \in 1 .. Len(s) : s[i] \in Elements(s) /\ s[i] \in S
BY DEF Elements

LEMMA ElementsInserted ==
    ASSUME NEW S, NEW s \in Seq(S), NEW i \in 1 .. Len(s) + 1, NEW n \in S
    PROVE  Elements(Inserted(s, i, n)) = Elements(s) \cup {n}
<1> DEFINE d == Inserted(s, i, n)
<1>1. /\ DOMAIN d = 1 .. Len(s) + 1 /\ Len(s) \in Nat /\ DOMAIN s = 1 .. Len(s)
      /\ \A j \in 1 .. Len(s) + 1 : d[j] = IF j < i THEN s[j] ELSE IF j = i THEN n ELSE s[j - 1]
  BY InsertedIs, ElementsType DEF HasInserted
<1> HIDE DEF d
<1>2. ASSUME NEW j \in DOMAIN d PROVE d[j] \in Elements(s) \cup {n}
  BY <1>1 DEF Elements
<1>3. d[i] = n /\ i \in DOMAIN d
  BY <1>1
<1>4. ASSUME NEW j \in DOMAIN s PROVE s[j] \in Elements(d)
  <2>1. CASE j < i
    BY <1>1, <2>1 DEF Elements
  <2>2. CASE ~ (j < i)
    <3>1. j + 1 \in DOMAIN d /\ d[j + 1] = s[j]
      BY <1>1, <2>2
    <3> QED
      BY <3>1 DEF Elements
  <2> QED
    BY <2>1, <2>2
<1>5. Elements(d) \subseteq Elements(s) \cup {n}
  BY <1>2 DEF Elements
<1>6. Elements(s) \cup {n} \subseteq Elements(d)
  BY <1>3, <1>4 DEF Elements
<1> QED
  BY <1>5, <1>6 DEF d

LEMMA ElementsRemoved ==
    ASSUME NEW S, NEW s \in Seq(S), NEW i \in 1 .. Len(s),
           \A j \in 1 .. Len(s) : s[j] = s[i] => j = i
    PROVE  Elements(Removed(s, i)) = Elements(s) \ {s[i]}
<1> DEFINE d == Removed(s, i)
<1>1. /\ DOMAIN d = 1 .. Len(s) - 1 /\ Len(s) \in Nat /\ DOMAIN s = 1 .. Len(s)
      /\ \A j \in 1 .. Len(s) - 1 : d[j] = s[IF j < i THEN j ELSE j + 1]
  BY RemovedIs, ElementsType
<1> HIDE DEF d
<1>2. ASSUME NEW j \in DOMAIN d PROVE d[j] \in Elements(s) /\ d[j] # s[i]
  <2> DEFINE k == IF j < i THEN j ELSE j + 1
  <2>1. k \in DOMAIN s /\ k # i /\ d[j] = s[k]
    BY <1>1
  <2> QED
    BY <1>1, <2>1 DEF Elements
<1>3. ASSUME NEW j \in DOMAIN s, s[j] # s[i] PROVE s[j] \in Elements(d)
  <2>1. CASE j < i
    BY <1>1, <2>1 DEF Elements
  <2>2. CASE ~ (j < i)
    <3>1. j - 1 \in DOMAIN d /\ d[j - 1] = s[j]
      BY <1>1, <1>3, <2>2
    <3> QED
      BY <3>1 DEF Elements
  <2> QED
    BY <2>1, <2>2
<1>4. Elements(d) \subseteq Elements(s) \ {s[i]}
  BY <1>2 DEF Elements
<1>5. Elements(s) \ {s[i]} \subseteq Elements(d)
  BY <1>3 DEF Elements
<1> QED
  BY <1>4, <1>5 DEF d

-----------------------------------------------------------------------------
(* What holds of an environment.                                           *)

Shares(e, m) == Cardinality(Sharers(e, m))

\* A matrix in use has the references of the nodes that share it and x[m] others:
\* those of temporaries, and those an error has lost.
Balance(e, x, m) ==
    IF e.content[m] = Null THEN e.refcnt[m] = 0 /\ Shares(e, m) = 0 /\ x[m] = 0
    ELSE e.refcnt[m] = Shares(e, m) + x[m] /\ e.refcnt[m] > 0

Counted(e, x) == \A m \in Matrices : Balance(e, x, m)

UniqueIn(e, s) == \A i, j \in DOMAIN s : e.name[s[i]] = e.name[s[j]] => i = j

\* The allocated nodes are those of the current list and, apart from them, those of O.
Listed(e, O) ==
    /\ Elements(e.list) \cap O = {}
    /\ \A n \in Nodes : e.this[n] # Null <=> n \in Elements(e.list) \cup O
    /\ \A n \in Nodes : e.this[n] # Null => e.name[n] \in Names
    /\ UniqueIn(e, e.list)

\* The nodes of O are what they are in b.
Kept(b, e, O) == \A n \in O : e.name[n] = b.name[n] /\ e.this[n] = b.this[n]

Sound(e, x, O, b) ==
    /\ e \in Env /\ x \in [Matrices -> Nat] /\ O \subseteq Nodes
    /\ Counted(e, x) /\ Listed(e, O) /\ Kept(b, e, O)

Plus(x, m) == [x EXCEPT ![m] = x[m] + 1]
Minus(x, m) == [x EXCEPT ![m] = x[m] - 1]

FreeNode(e) == \E n \in Nodes : e.this[n] = Null
FreeMatrix(e) == \E m \in Matrices : e.content[m] = Null

LEMMA NullIs ==
    Null \notin Nodes /\ Null \notin Matrices /\ Null \notin Names /\ Null \notin Contents
BY NullIsNone

LEMMA NewIs ==
    ASSUME NEW e
    PROVE  /\ FreeNode(e) => NewNode(e) \in Nodes /\ e.this[NewNode(e)] = Null
           /\ FreeMatrix(e) => NewMatrix(e) \in Matrices /\ e.content[NewMatrix(e)] = Null
BY DEF FreeNode, FreeMatrix, NewNode, NewMatrix

LEMMA SharesType ==
    ASSUME NEW e, NEW m
    PROVE  Shares(e, m) \in Nat /\ (Shares(e, m) = 0 <=> Sharers(e, m) = {})
<1>1. Sharers(e, m) \in SUBSET Nodes
  BY DEF Sharers
<1>2. IsFiniteSet(Sharers(e, m))
  BY <1>1, FiniteMemory, FS_Subset
<1> QED
  BY <1>2, FS_CardinalityType, FS_EmptySet DEF Shares

\* A node that comes to share matrix k counts for it, and no longer for another.
Moved(e, d, n, k, m) ==
    Shares(d, m) = Shares(e, m) + (IF m = k THEN 1 ELSE 0) - (IF m = e.this[n] THEN 1 ELSE 0)

LEMMA SharesMove ==
    ASSUME NEW e \in Env, NEW d \in Env, NEW n \in Nodes, NEW k,
           d.this = [e.this EXCEPT ![n] = k], NEW m \in Matrices
    PROVE  Moved(e, d, n, k, m)
<1>1. Sharers(e, m) \in SUBSET Nodes
  BY DEF Sharers
<1>2. IsFiniteSet(Sharers(e, m)) /\ Shares(e, m) \in Nat
  BY <1>1, FiniteMemory, FS_Subset, SharesType
<1>3. e.this \in [Nodes -> Matrices \cup {Null}]
  BY DEF Env
<1>4. CASE m = k /\ m # e.this[n]
  <2>1. Sharers(d, m) = Sharers(e, m) \cup {n} /\ n \notin Sharers(e, m)
    BY <1>3, <1>4 DEF Sharers
  <2> QED
    <3>1. Cardinality(Sharers(e, m) \cup {n}) = Cardinality(Sharers(e, m)) + 1
      BY <1>2, <2>1, FS_AddElement
    <3> QED
      BY <1>2, <1>4, <2>1, <3>1 DEF Shares, Moved
<1>5. CASE m # k /\ m = e.this[n]
  <2>1. Sharers(d, m) = Sharers(e, m) \ {n} /\ n \in Sharers(e, m)
    BY <1>3, <1>5 DEF Sharers
  <2> QED
    <3>1. Cardinality(Sharers(e, m) \ {n}) = Cardinality(Sharers(e, m)) - 1
      BY <1>2, <2>1, FS_RemoveElement
    <3> QED
      BY <1>2, <1>5, <2>1, <3>1 DEF Shares, Moved
<1>6. CASE (m = k) = (m = e.this[n])
  <2>1. Sharers(d, m) = Sharers(e, m)
    BY <1>3, <1>6 DEF Sharers
  <2> QED
    BY <1>2, <1>6, <2>1 DEF Shares, Moved
<1> QED
  BY <1>4, <1>5, <1>6 DEF Moved

LEMMA SharesSame ==
    ASSUME NEW e, NEW d, d.this = e.this, NEW m
    PROVE  Shares(d, m) = Shares(e, m)
BY DEF Shares, Sharers

LEMMA PlusMinus ==
    ASSUME NEW x \in [Matrices -> Nat], NEW m \in Matrices
    PROVE  /\ Plus(x, m) \in [Matrices -> Nat]
           /\ \A k \in Matrices : Plus(x, m)[k] = IF k = m THEN x[m] + 1 ELSE x[k]
           /\ Minus(Plus(x, m), m) = x
           /\ x[m] > 0 => /\ Minus(x, m) \in [Matrices -> Nat]
                          /\ Plus(Minus(x, m), m) = x
           /\ \A k \in Matrices : Minus(x, m)[k] = IF k = m THEN x[m] - 1 ELSE x[k]
<1>1. x[m] \in Nat
  OBVIOUS
<1>2. Plus(x, m) \in [Matrices -> Nat]
  BY <1>1 DEF Plus
<1>3. \A k \in Matrices : Plus(x, m)[k] = IF k = m THEN x[m] + 1 ELSE x[k]
  BY DEF Plus
<1>4. Minus(Plus(x, m), m) = x
  <2> DEFINE y == Plus(x, m)
  <2>1. y[m] = x[m] + 1 /\ y[m] - 1 = x[m]
    BY <1>1, <1>3
  <2> HIDE DEF y
  <2>2. Minus(y, m) = [y EXCEPT ![m] = x[m]]
    BY <2>1 DEF Minus
  <2> QED
    BY <1>2, <1>3, <2>2 DEF y
<1>5. ASSUME x[m] > 0 PROVE Minus(x, m) \in [Matrices -> Nat] /\ Plus(Minus(x, m), m) = x
  <2> DEFINE y == Minus(x, m)
  <2>1. x[m] - 1 \in Nat
    BY <1>1, <1>5
  <2>2. y = [x EXCEPT ![m] = x[m] - 1]
    BY DEF Minus
  <2>3. y \in [Matrices -> Nat] /\ y[m] + 1 = x[m]
    BY <1>1, <2>1, <2>2
  <2> HIDE DEF y
  <2>4. Plus(y, m) = [y EXCEPT ![m] = x[m]]
    BY <2>3 DEF Plus
  <2> QED
    BY <2>2, <2>3, <2>4 DEF y
<1>6. \A k \in Matrices : Minus(x, m)[k] = IF k = m THEN x[m] - 1 ELSE x[k]
  BY DEF Minus
<1> QED
  BY <1>2, <1>3, <1>4, <1>5, <1>6

-----------------------------------------------------------------------------
(* The operations on matrices. *)

\* The environment d is e with the new matrix m.
HasCreated(d, e, m, c) ==
    /\ d.list = e.list /\ d.name = e.name /\ d.this = e.this
    /\ d.refcnt = [e.refcnt EXCEPT ![m] = 1] /\ d.content = [e.content EXCEPT ![m] = c]

LEMMA CreateType ==
    ASSUME NEW e \in Env, NEW m \in Matrices, NEW c \in Contents
    PROVE  Create(e, m, c) \in Env /\ HasCreated(Create(e, m, c), e, m, c)
<1> DEFINE count == [e.refcnt EXCEPT ![m] = 1]
           value == [e.content EXCEPT ![m] = c]
           d     == Create(e, m, c)
<1>1. count \in [Matrices -> Int]
  BY DEF Env
<1>2. value \in [Matrices -> Contents \cup {Null}]
  BY DEF Env
<1>3. d = [e EXCEPT !.refcnt = count, !.content = value]
  BY DEF Create
<1> HIDE DEF count, value, d
<1>4. d \in Env
  BY <1>1, <1>2, <1>3 DEF Env
<1>5. d.list = e.list /\ d.name = e.name /\ d.this = e.this
        /\ d.refcnt = count /\ d.content = value
  BY <1>3 DEF Env
<1> QED
  BY <1>4, <1>5 DEF HasCreated, count, value, d

LEMMA CreateSound ==
    ASSUME NEW e, NEW x, NEW O, NEW b, Sound(e, x, O, b),
           NEW m \in Matrices, e.content[m] = Null, NEW c \in Contents
    PROVE  /\ Sound(Create(e, m, c), Plus(x, m), O, b)
           /\ Plus(x, m)[m] > 0
           /\ HasCreated(Create(e, m, c), e, m, c)
<1> DEFINE d == Create(e, m, c)
<1>1. e \in Env /\ x \in [Matrices -> Nat]
  BY DEF Sound
<1>2. /\ d \in Env /\ d.list = e.list /\ d.this = e.this /\ d.name = e.name
      /\ d.refcnt = [e.refcnt EXCEPT ![m] = 1] /\ d.content = [e.content EXCEPT ![m] = c]
  <2>1. d \in Env /\ HasCreated(d, e, m, c)
    BY <1>1, CreateType, Zenon
  <2> HIDE DEF d
  <2> QED
    BY <2>1 DEF HasCreated
<1> HIDE DEF d
<1>3. Counted(d, Plus(x, m))
  <2> SUFFICES ASSUME NEW k \in Matrices PROVE Balance(d, Plus(x, m), k)
    BY DEF Counted
  <2>1. Balance(e, x, k) /\ Balance(e, x, m)
    BY DEF Sound, Counted
  <2>2. Shares(d, k) = Shares(e, k) /\ Shares(d, m) = Shares(e, m)
    BY <1>2, SharesSame
  <2>3. Plus(x, m)[k] = IF k = m THEN x[m] + 1 ELSE x[k]
    BY <1>1, PlusMinus, Zenon
  <2>4. /\ d.refcnt[k] = IF k = m THEN 1 ELSE e.refcnt[k]
        /\ d.content[k] = IF k = m THEN c ELSE e.content[k]
    BY <1>1, <1>2 DEF Env
  <2> QED
    BY <2>1, <2>2, <2>3, <2>4, NullIs DEF Balance
<1>4. Listed(d, O) /\ Kept(b, d, O)
  BY <1>2 DEF Sound, Listed, UniqueIn, Kept
<1> QED
  BY <1>1, <1>2, <1>3, <1>4, PlusMinus DEF Sound, HasCreated, d

LEMMA HoldSound ==
    ASSUME NEW e, NEW x, NEW O, NEW b, Sound(e, x, O, b),
           NEW m \in Matrices, e.content[m] # Null
    PROVE  /\ Sound(Hold(e, m), Plus(x, m), O, b)
           /\ Hold(e, m).list = e.list /\ Hold(e, m).this = e.this
           /\ Hold(e, m).name = e.name /\ Hold(e, m).content = e.content
           /\ Plus(x, m)[m] > 0
<1> DEFINE d == Hold(e, m)
<1>1. e \in Env /\ x \in [Matrices -> Nat]
  BY DEF Sound
<1>2. /\ d \in Env /\ d.list = e.list /\ d.this = e.this /\ d.name = e.name
      /\ d.refcnt = [e.refcnt EXCEPT ![m] = e.refcnt[m] + 1] /\ d.content = e.content
  <2> DEFINE count == [e.refcnt EXCEPT ![m] = e.refcnt[m] + 1]
  <2>1. count \in [Matrices -> Int]
    BY <1>1 DEF Env
  <2>2. d = [e EXCEPT !.refcnt = count]
    BY DEF Hold
  <2> HIDE DEF count, d
  <2>3. d \in Env
    BY <1>1, <2>1, <2>2 DEF Env
  <2> QED
    BY <1>1, <2>1, <2>2, <2>3 DEF Env, count
<1> HIDE DEF d
<1>3. Counted(d, Plus(x, m))
  <2> SUFFICES ASSUME NEW k \in Matrices PROVE Balance(d, Plus(x, m), k)
    BY DEF Counted
  <2>1. Balance(e, x, k) /\ Balance(e, x, m)
    BY DEF Sound, Counted
  <2>2. Shares(d, k) = Shares(e, k)
    BY <1>2, SharesSame
  <2>3. Plus(x, m)[k] = IF k = m THEN x[m] + 1 ELSE x[k]
    BY <1>1, PlusMinus, Zenon
  <2>4. /\ d.refcnt[k] = IF k = m THEN e.refcnt[m] + 1 ELSE e.refcnt[k]
        /\ x[k] \in Nat /\ Shares(e, k) \in Nat
    BY <1>1, <1>2, SharesType DEF Env
  <2> QED
    BY <1>2, <2>1, <2>2, <2>3, <2>4 DEF Balance
<1>4. Listed(d, O) /\ Kept(b, d, O)
  BY <1>2 DEF Sound, Listed, UniqueIn, Kept
<1> QED
  BY <1>1, <1>2, <1>3, <1>4, PlusMinus DEF Sound, d

LEMMA ReleaseType ==
    ASSUME NEW e \in Env, NEW m \in Matrices
    PROVE  /\ Release(e, m) \in Env
           /\ Release(e, m).list = e.list /\ Release(e, m).name = e.name
           /\ Release(e, m).this = e.this
           /\ Release(e, m).refcnt = [e.refcnt EXCEPT ![m] = e.refcnt[m] - 1]
           /\ Release(e, m).content =
                [e.content EXCEPT ![m] = IF e.refcnt[m] = 1 THEN Null ELSE e.content[m]]
<1> DEFINE count == [e.refcnt EXCEPT ![m] = e.refcnt[m] - 1]
           value == [e.content EXCEPT ![m] = IF e.refcnt[m] = 1 THEN Null ELSE e.content[m]]
           d     == Release(e, m)
<1>1. count \in [Matrices -> Int]
  BY DEF Env
<1>2. value \in [Matrices -> Contents \cup {Null}]
  BY DEF Env
<1>3. d = [e EXCEPT !.refcnt = count, !.content = value]
  BY DEF Release
<1> HIDE DEF count, value, d
<1>4. d \in Env
  BY <1>1, <1>2, <1>3 DEF Env
<1>5. d.list = e.list /\ d.name = e.name /\ d.this = e.this
        /\ d.refcnt = count /\ d.content = value
  BY <1>3 DEF Env
<1> QED
  BY <1>4, <1>5 DEF count, value, d

\* A reference that no node holds is released.
LEMMA ReleaseSound ==
    ASSUME NEW e, NEW x, NEW O, NEW b, Sound(e, x, O, b), NEW m \in Matrices, x[m] > 0
    PROVE  /\ Sound(Release(e, m), Minus(x, m), O, b)
           /\ Release(e, m).list = e.list /\ Release(e, m).this = e.this
           /\ Release(e, m).name = e.name
           /\ \A k \in Matrices : e.content[k] = Null => Release(e, m).content[k] = Null
<1> DEFINE d == Release(e, m)
<1>1. e \in Env /\ x \in [Matrices -> Nat]
  BY DEF Sound
<1>2. /\ d \in Env /\ d.list = e.list /\ d.this = e.this /\ d.name = e.name
      /\ d.refcnt = [e.refcnt EXCEPT ![m] = e.refcnt[m] - 1]
      /\ d.content = [e.content EXCEPT ![m] = IF e.refcnt[m] = 1 THEN Null ELSE e.content[m]]
  BY <1>1, ReleaseType
<1> HIDE DEF d
<1>3. Counted(d, Minus(x, m))
  <2> SUFFICES ASSUME NEW k \in Matrices PROVE Balance(d, Minus(x, m), k)
    BY DEF Counted
  <2>1. Balance(e, x, k) /\ Balance(e, x, m)
    BY DEF Sound, Counted
  <2>2. Shares(d, k) = Shares(e, k)
    BY <1>2, SharesSame
  <2>3. Minus(x, m)[k] = IF k = m THEN x[m] - 1 ELSE x[k]
    BY <1>1, PlusMinus, Zenon
  <2>4. /\ d.refcnt[k] = IF k = m THEN e.refcnt[m] - 1 ELSE e.refcnt[k]
        /\ d.content[k] = IF k = m /\ e.refcnt[m] = 1 THEN Null ELSE e.content[k]
        /\ x[k] \in Nat /\ Shares(e, k) \in Nat /\ e.refcnt[k] \in Int
    BY <1>1, <1>2, SharesType DEF Env
  <2> QED
    BY <2>1, <2>2, <2>3, <2>4 DEF Balance
<1>4. Listed(d, O) /\ Kept(b, d, O)
  BY <1>2 DEF Sound, Listed, UniqueIn, Kept
<1>5. \A k \in Matrices : e.content[k] = Null => d.content[k] = Null
  BY <1>1, <1>2 DEF Env
<1> QED
  BY <1>1, <1>2, <1>3, <1>4, <1>5, PlusMinus DEF Sound, d

\* The value of a matrix in use changes.
WithContent(e, m, c) == [e EXCEPT !.content[m] = c]

LEMMA ContentSound ==
    ASSUME NEW e, NEW x, NEW O, NEW b, Sound(e, x, O, b),
           NEW m \in Matrices, e.content[m] # Null, NEW c \in Contents
    PROVE  /\ Sound(WithContent(e, m, c), x, O, b)
           /\ WithContent(e, m, c).list = e.list /\ WithContent(e, m, c).this = e.this
<1> DEFINE d == WithContent(e, m, c)
<1>1. e \in Env /\ x \in [Matrices -> Nat]
  BY DEF Sound
<1>2. /\ d \in Env /\ d.list = e.list /\ d.this = e.this /\ d.name = e.name
      /\ d.refcnt = e.refcnt /\ d.content = [e.content EXCEPT ![m] = c]
  <2> DEFINE value == [e.content EXCEPT ![m] = c]
  <2>1. value \in [Matrices -> Contents \cup {Null}]
    BY <1>1 DEF Env
  <2>2. d = [e EXCEPT !.content = value]
    BY DEF WithContent
  <2> HIDE DEF value, d
  <2>3. d \in Env
    BY <1>1, <2>1, <2>2 DEF Env
  <2> QED
    BY <1>1, <2>1, <2>2, <2>3 DEF Env, value
<1> HIDE DEF d
<1>3. Counted(d, x)
  <2> SUFFICES ASSUME NEW k \in Matrices PROVE Balance(d, x, k)
    BY DEF Counted
  <2>1. Balance(e, x, k)
    BY DEF Sound, Counted
  <2>2. Shares(d, k) = Shares(e, k)
    BY <1>2, SharesSame
  <2>3. d.content[k] = Null <=> e.content[k] = Null
    BY <1>1, <1>2, NullIs DEF Env
  <2> QED
    BY <1>2, <2>1, <2>2, <2>3 DEF Balance
<1>4. Listed(d, O) /\ Kept(b, d, O)
  BY <1>2 DEF Sound, Listed, UniqueIn, Kept
<1> QED
  BY <1>1, <1>2, <1>3, <1>4 DEF Sound, d

-----------------------------------------------------------------------------
(* Finding a variable. *)

LEMMA SmallestExists ==
    ASSUME NEW S, S \subseteq Nat, S # {}
    PROVE  \E m \in S : \A n \in S : m <= n
<1>1. PICK m \in S : \A n \in S : <<n, m>> \notin OpToRel(<, Nat)
  BY WFMin, NatLessThanWellFounded, Zenon
<1>2. \A n \in S : ~ (n < m)
  BY <1>1, Zenon DEF OpToRel
<1>3. \A n \in S : m <= n
  BY <1>2
<1> QED
  BY <1>3

\* lst_find finds a variable of the name, and with unique names it is the only one.
LEMMA FindIs ==
    ASSUME NEW e \in Env, NEW r, Defined(e, r)
    PROVE  /\ Place(e, r) \in 1 .. Len(e.list) /\ Find(e, r) = e.list[Place(e, r)]
           /\ Find(e, r) \in Elements(e.list) /\ Find(e, r) \in Nodes
           /\ e.name[Find(e, r)] = r
           /\ UniqueIn(e, e.list) =>
                \A n \in Elements(e.list) : e.name[n] = r => n = Find(e, r)
<1> DEFINE places == {i \in DOMAIN e.list : e.name[e.list[i]] = r}
<1>1. e.list \in Seq(Nodes)
  BY DEF Env
<1>2. DOMAIN e.list = 1 .. Len(e.list) /\ Len(e.list) \in Nat
  BY <1>1, ElementsType
<1>3. places \subseteq Nat /\ places # {}
  BY <1>2 DEF Defined
<1>4. PICK m \in places : \A n \in places : m <= n
  BY <1>3, SmallestExists
<1>5. \A j \in 1 .. (m - 1) : e.name[e.list[j]] # r
  BY <1>2, <1>4
<1>6. Place(e, r) \in DOMAIN e.list /\ e.name[e.list[Place(e, r)]] = r
  BY <1>4, <1>5 DEF Place
<1>7. Find(e, r) \in Elements(e.list) /\ Find(e, r) \in Nodes
  BY <1>1, <1>2, <1>6, ElementsType DEF Find
<1>8. ASSUME UniqueIn(e, e.list), NEW n \in Elements(e.list), e.name[n] = r
      PROVE  n = Find(e, r)
  BY <1>6, <1>8 DEF UniqueIn, Elements, Find
<1> QED
  BY <1>2, <1>6, <1>7, <1>8 DEF Find

\* A variable that can be found is a node with a matrix in use.
LEMMA FoundUsed ==
    ASSUME NEW e, NEW x, NEW O, NEW b, Sound(e, x, O, b), NEW n \in Elements(e.list) \cup O
    PROVE  /\ n \in Nodes /\ e.this[n] \in Matrices /\ e.name[n] \in Names
           /\ e.content[e.this[n]] \in Contents /\ e.content[e.this[n]] # Null
           /\ e.refcnt[e.this[n]] > x[e.this[n]]
<1>1. e \in Env /\ Listed(e, O) /\ O \subseteq Nodes /\ x \in [Matrices -> Nat]
  BY DEF Sound
<1>2. n \in Nodes
  BY <1>1, ElementsType DEF Env
<1>3. e.this[n] # Null /\ e.this[n] \in Matrices /\ e.name[n] \in Names
  BY <1>1, <1>2 DEF Listed, Env
<1>4. n \in Sharers(e, e.this[n])
  BY <1>2 DEF Sharers
<1>5. Shares(e, e.this[n]) \in Nat /\ Shares(e, e.this[n]) # 0
  BY <1>4, SharesType
<1>6. Balance(e, x, e.this[n])
  BY <1>3 DEF Sound, Counted
<1>7. e.content[e.this[n]] # Null
  BY <1>5, <1>6 DEF Balance
<1>8. e.content[e.this[n]] \in Contents
  BY <1>1, <1>3, <1>7 DEF Env
<1>9. x[e.this[n]] \in Nat
  BY <1>1, <1>3
<1>10. e.refcnt[e.this[n]] = Shares(e, e.this[n]) + x[e.this[n]]
  BY <1>6, <1>7 DEF Balance
<1> QED
  BY <1>2, <1>3, <1>5, <1>7, <1>8, <1>9, <1>10

-----------------------------------------------------------------------------
(* The operations on a list. *)

\* The environment d is e with the new variable n.
HasAdded(d, e, n, r, m) ==
    /\ Elements(d.list) = Elements(e.list) \cup {n}
    /\ d.name = [e.name EXCEPT ![n] = r] /\ d.this = [e.this EXCEPT ![n] = m]
    /\ d.content = e.content

\* A temporary becomes a variable.
LEMMA AddAtSound ==
    ASSUME NEW e, NEW x, NEW O, NEW b, Sound(e, x, O, b), NEW m \in Matrices, x[m] > 0,
           FreeNode(e), NEW i \in 1 .. Len(e.list) + 1, NEW r \in Names, ~ Defined(e, r)
    PROVE  /\ Sound(AddAt(e, i, r, m), Minus(x, m), O, b)
           /\ HasAdded(AddAt(e, i, r, m), e, NewNode(e), r, m)
<1> DEFINE n    == NewNode(e)
           d    == AddAt(e, i, r, m)
           list == Inserted(e.list, i, n)
           name == [e.name EXCEPT ![n] = r]
           this == [e.this EXCEPT ![n] = m]
<1>1. e \in Env /\ x \in [Matrices -> Nat] /\ e.list \in Seq(Nodes) /\ Listed(e, O)
  BY DEF Sound, Env
<1>2. n \in Nodes /\ e.this[n] = Null
  BY NewIs
<1>3. d = [e EXCEPT !.list = list, !.name = name, !.this = this]
  BY DEF AddAt, Inserted
<1> HIDE DEF n, d
<1>4. list \in Seq(Nodes) /\ name \in [Nodes -> Names \cup {Null}]
        /\ this \in [Nodes -> Matrices \cup {Null}]
  BY <1>1, <1>2, InsertedIs DEF Env
<1>5. Elements(list) = Elements(e.list) \cup {n}
  BY <1>1, <1>2, ElementsInserted
<1>6. /\ DOMAIN list = 1 .. Len(e.list) + 1 /\ DOMAIN e.list = 1 .. Len(e.list)
      /\ Len(e.list) \in Nat
      /\ \A j \in 1 .. Len(e.list) + 1 :
           list[j] = IF j < i THEN e.list[j] ELSE IF j = i THEN n ELSE e.list[j - 1]
  <2>1. Len(list) = Len(e.list) + 1 /\ \A j \in 1 .. Len(e.list) + 1 :
           list[j] = IF j < i THEN e.list[j] ELSE IF j = i THEN n ELSE e.list[j - 1]
    <3>1. HasInserted(list, e.list, i, n)
      BY <1>1, <1>2, InsertedIs, Zenon
    <3> QED
      BY <3>1 DEF HasInserted
  <2> HIDE DEF list
  <2>2. DOMAIN list = 1 .. Len(list)
    BY <1>4, ElementsType
  <2>3. DOMAIN e.list = 1 .. Len(e.list) /\ Len(e.list) \in Nat
    BY <1>1, ElementsType
  <2> QED
    BY <2>1, <2>2, <2>3
<1> HIDE DEF list
<1>7. /\ d \in Env /\ d.list = list /\ d.name = name /\ d.this = this
      /\ d.refcnt = e.refcnt /\ d.content = e.content
  <2> HIDE DEF name, this
  <2>1. d \in Env
    BY <1>1, <1>3, <1>4 DEF Env
  <2> QED
    BY <1>1, <1>3, <2>1 DEF Env
<1>8. Counted(d, Minus(x, m))
  <2> SUFFICES ASSUME NEW k \in Matrices PROVE Balance(d, Minus(x, m), k)
    BY DEF Counted
  <2>1. Balance(e, x, k) /\ Balance(e, x, m)
    BY DEF Sound, Counted
  <2>2. Minus(x, m)[k] = IF k = m THEN x[m] - 1 ELSE x[k]
    BY <1>1, PlusMinus, Zenon
  <2>3. Shares(d, k) = Shares(e, k) + (IF k = m THEN 1 ELSE 0)
                                    - (IF k = e.this[n] THEN 1 ELSE 0)
    <3>1. d.this = [e.this EXCEPT ![n] = m] /\ d \in Env /\ e \in Env /\ n \in Nodes
      BY <1>1, <1>2, <1>7
    <3>2. Moved(e, d, n, m, k)
      BY <3>1, SharesMove, Zenon
    <3> QED
      BY <3>2 DEF Moved
  <2>4. /\ k # e.this[n] /\ Shares(e, k) \in Nat /\ x[k] \in Nat
        /\ d.refcnt[k] = e.refcnt[k] /\ d.content[k] = e.content[k]
    BY <1>1, <1>2, <1>7, SharesType, NullIs
  <2> QED
    BY <2>1, <2>2, <2>3, <2>4 DEF Balance
<1>9. n \notin Elements(e.list) /\ n \notin O
  BY <1>1, <1>2 DEF Listed
<1>10. \A k \in Nodes : /\ d.name[k] = IF k = n THEN r ELSE e.name[k]
                        /\ d.this[k] = IF k = n THEN m ELSE e.this[k]
  BY <1>1, <1>2, <1>7 DEF Env
<1>11. UniqueIn(d, list)
  <2>1. \A j \in DOMAIN e.list : /\ e.list[j] \in Nodes /\ e.list[j] # n
                                 /\ d.name[e.list[j]] = e.name[e.list[j]]
                                 /\ e.name[e.list[j]] # r
    BY <1>1, <1>9, <1>10, ElementsType DEF Defined
  <2>2. d.name[n] = r
    BY <1>2, <1>10
  <2>3. \A j \in 1 .. Len(e.list) + 1 :
           d.name[list[j]] = IF j < i THEN e.name[e.list[j]]
                             ELSE IF j = i THEN r ELSE e.name[e.list[j - 1]]
    <3> SUFFICES ASSUME NEW j \in 1 .. Len(e.list) + 1
                 PROVE  d.name[list[j]] = IF j < i THEN e.name[e.list[j]]
                                          ELSE IF j = i THEN r ELSE e.name[e.list[j - 1]]
      OBVIOUS
    <3>1. CASE j < i
      <4>1. j \in DOMAIN e.list /\ list[j] = e.list[j]
        BY <1>6, <3>1
      <4> QED
        BY <2>1, <3>1, <4>1
    <3>2. CASE j = i
      <4>1. list[j] = n
        BY <1>6, <3>2
      <4> QED
        BY <2>2, <3>2, <4>1
    <3>3. CASE j > i
      <4>1. j - 1 \in DOMAIN e.list /\ list[j] = e.list[j - 1]
        BY <1>6, <3>3
      <4> QED
        BY <2>1, <3>3, <4>1
    <3> QED
      BY <1>6, <3>1, <3>2, <3>3
  <2>4. UniqueIn(e, e.list)
    BY <1>1 DEF Listed
  <2> SUFFICES ASSUME NEW j \in DOMAIN list, NEW k \in DOMAIN list,
                      d.name[list[j]] = d.name[list[k]]
               PROVE  j = k
    BY DEF UniqueIn
  <2> DEFINE old(q) == IF q < i THEN q ELSE q - 1
  <2>5. \A q \in DOMAIN list : q # i =>
           old(q) \in DOMAIN e.list /\ d.name[list[q]] = e.name[e.list[old(q)]]
    BY <1>6, <2>3
  <2>6. CASE j = i \/ k = i
    <3>1. \A q \in DOMAIN list : q # i => d.name[list[q]] # r
      <4> HIDE DEF old
      <4> QED
        BY <2>1, <2>5
    <3>2. d.name[list[i]] = r
      BY <1>6, <2>2
    <3> QED
      BY <2>6, <3>1, <3>2
  <2>7. CASE j # i /\ k # i
    <3>1. old(j) = old(k)
      <4> HIDE DEF old
      <4> QED
        BY <2>4, <2>5, <2>7 DEF UniqueIn
    <3> QED
      BY <1>6, <2>7, <3>1
  <2> QED
    BY <2>6, <2>7
<1>12. Listed(d, O)
  <2>1. Elements(d.list) \cap O = {}
    BY <1>1, <1>5, <1>7, <1>9 DEF Listed
  <2>2. \A k \in Nodes : d.this[k] # Null <=> k \in Elements(d.list) \cup O
    BY <1>1, <1>5, <1>7, <1>10, NullIs DEF Listed
  <2>3. \A k \in Nodes : d.this[k] # Null => d.name[k] \in Names
    BY <1>1, <1>10 DEF Listed
  <2> QED
    BY <1>7, <1>11, <2>1, <2>2, <2>3 DEF Listed
<1>13. Kept(b, d, O)
  BY <1>9, <1>10 DEF Sound, Kept
<1>14. Minus(x, m) \in [Matrices -> Nat]
  BY <1>1, PlusMinus
<1> QED
  BY <1>5, <1>7, <1>8, <1>12, <1>13, <1>14 DEF Sound, HasAdded, name, this, n, d

LEMMA DropType ==
    ASSUME NEW e \in Env, NEW i \in 1 .. Len(e.list)
    PROVE  LET n == e.list[i] IN
           /\ Drop(e, i) \in Env
           /\ Drop(e, i).list = Removed(e.list, i)
           /\ Drop(e, i).name = [e.name EXCEPT ![n] = Null]
           /\ Drop(e, i).this = [e.this EXCEPT ![n] = Null]
           /\ Drop(e, i).refcnt = e.refcnt /\ Drop(e, i).content = e.content
<1> DEFINE n    == e.list[i]
           list == Removed(e.list, i)
           name == [e.name EXCEPT ![n] = Null]
           this == [e.this EXCEPT ![n] = Null]
           d    == Drop(e, i)
<1>1. e.list \in Seq(Nodes)
  BY DEF Env
<1>2. n \in Nodes
  BY <1>1, ElementsType
<1>3. d = [e EXCEPT !.list = list, !.name = name, !.this = this]
  BY DEF Drop, Removed
<1> HIDE DEF n, d
<1>4. list \in Seq(Nodes) /\ name \in [Nodes -> Names \cup {Null}]
        /\ this \in [Nodes -> Matrices \cup {Null}]
  BY <1>1, <1>2, RemovedIs DEF Env
<1> HIDE DEF list, name, this
<1>5. d \in Env
  BY <1>3, <1>4 DEF Env
<1>6. d.list = list /\ d.name = name /\ d.this = this
        /\ d.refcnt = e.refcnt /\ d.content = e.content
  BY <1>3 DEF Env
<1> QED
  BY <1>5, <1>6 DEF list, name, this, d, n

\* A variable leaves its list: its reference is one that no node holds.
LEMMA DropSound ==
    ASSUME NEW e, NEW x, NEW O, NEW b, Sound(e, x, O, b), NEW i \in 1 .. Len(e.list)
    PROVE  LET n == e.list[i] IN
           /\ n \in Elements(e.list) /\ e.this[n] \in Matrices
           /\ Sound(Drop(e, i), Plus(x, e.this[n]), O, b) /\ FreeNode(Drop(e, i))
           /\ Plus(x, e.this[n])[e.this[n]] > 0
           /\ Drop(e, i).name = [e.name EXCEPT ![n] = Null]
           /\ Drop(e, i).this = [e.this EXCEPT ![n] = Null]
           /\ Elements(Drop(e, i).list) = Elements(e.list) \ {n}
           /\ Drop(e, i).refcnt = e.refcnt /\ Drop(e, i).content = e.content
<1> DEFINE n    == e.list[i]
           m    == e.this[n]
           d    == Drop(e, i)
           list == Removed(e.list, i)
           name == [e.name EXCEPT ![n] = Null]
           this == [e.this EXCEPT ![n] = Null]
<1>1. e \in Env /\ x \in [Matrices -> Nat] /\ e.list \in Seq(Nodes) /\ Listed(e, O)
  BY DEF Sound, Env
<1>2. n \in Elements(e.list) /\ n \in Nodes
  BY <1>1, ElementsType
<1>3. d = [e EXCEPT !.list = list, !.name = name, !.this = this]
  BY DEF Drop, Removed
<1>4. m \in Matrices /\ e.content[m] # Null
  <2> HIDE DEF n
  <2> QED
    BY <1>2, FoundUsed
<1>5. \A j \in 1 .. Len(e.list) : e.list[j] = e.list[i] => j = i
  BY <1>1, ElementsType DEF Listed, UniqueIn
<1>6. Elements(list) = Elements(e.list) \ {n}
  BY <1>1, <1>5, ElementsRemoved
<1>7. list \in Seq(Nodes) /\ name \in [Nodes -> Names \cup {Null}]
        /\ this \in [Nodes -> Matrices \cup {Null}]
  <2> HIDE DEF n
  <2> QED
    BY <1>1, <1>2, RemovedIs DEF Env
<1>8. /\ DOMAIN list = 1 .. Len(e.list) - 1 /\ DOMAIN e.list = 1 .. Len(e.list)
      /\ Len(e.list) \in Nat
      /\ \A j \in 1 .. Len(e.list) - 1 : list[j] = e.list[IF j < i THEN j ELSE j + 1]
  BY <1>1, <1>7, RemovedIs, ElementsType, SMTT(30)
<1> HIDE DEF list, n, d
<1>9. /\ d \in Env /\ d.list = list /\ d.name = name /\ d.this = this
      /\ d.refcnt = e.refcnt /\ d.content = e.content
  BY <1>1, DropType DEF list, n, d
<1>10. Counted(d, Plus(x, m))
  <2> SUFFICES ASSUME NEW k \in Matrices PROVE Balance(d, Plus(x, m), k)
    BY DEF Counted
  <2>1. Balance(e, x, k) /\ Balance(e, x, m)
    BY <1>4 DEF Sound, Counted
  <2>2. Plus(x, m)[k] = IF k = m THEN x[m] + 1 ELSE x[k]
    BY <1>1, <1>4, PlusMinus, ZenonT(30)
  <2>3. Shares(d, k) = Shares(e, k) + (IF k = Null THEN 1 ELSE 0) - (IF k = m THEN 1 ELSE 0)
    <3>1. d.this = [e.this EXCEPT ![n] = Null] /\ d \in Env /\ e \in Env /\ n \in Nodes
      BY <1>1, <1>2, <1>9
    <3>2. Moved(e, d, n, Null, k)
      BY <3>1, SharesMove, Zenon
    <3> QED
      BY <3>2 DEF Moved
  <2>4. /\ k # Null /\ Shares(e, k) \in Nat /\ x[k] \in Nat
        /\ d.refcnt[k] = e.refcnt[k] /\ d.content[k] = e.content[k]
    BY <1>1, <1>9, SharesType, NullIs
  <2> QED
    BY <1>4, <2>1, <2>2, <2>3, <2>4 DEF Balance
<1>11. n \notin O
  BY <1>1, <1>2 DEF Listed
<1>12. \A k \in Nodes : /\ d.name[k] = IF k = n THEN Null ELSE e.name[k]
                        /\ d.this[k] = IF k = n THEN Null ELSE e.this[k]
  BY <1>1, <1>2, <1>9 DEF Env
<1>13. UniqueIn(d, list)
  <2> SUFFICES ASSUME NEW j \in DOMAIN list, NEW k \in DOMAIN list,
                      d.name[list[j]] = d.name[list[k]]
               PROVE  j = k
    BY DEF UniqueIn
  <2> DEFINE old(q) == IF q < i THEN q ELSE q + 1
  <2>1. \A q \in DOMAIN list :
           /\ old(q) \in DOMAIN e.list /\ list[q] = e.list[old(q)] /\ old(q) # i
    BY <1>8
  <2>2. \A q \in DOMAIN list : list[q] \in Elements(e.list) \ {n}
    BY <1>6 DEF Elements
  <2>3. \A q \in DOMAIN list : d.name[list[q]] = e.name[list[q]]
    BY <1>1, <1>12, <2>2, ElementsType
  <2>4. old(j) = old(k)
    <3> HIDE DEF old
    <3> QED
      BY <1>1, <2>1, <2>3 DEF Listed, UniqueIn
  <2> QED
    BY <1>8, <2>4
<1>14. Listed(d, O)
  <2>1. Elements(d.list) \cap O = {}
    BY <1>1, <1>6, <1>9 DEF Listed
  <2>2. \A k \in Nodes : d.this[k] # Null <=> k \in Elements(d.list) \cup O
    BY <1>1, <1>6, <1>9, <1>11, <1>12 DEF Listed
  <2>3. \A k \in Nodes : d.this[k] # Null => d.name[k] \in Names
    BY <1>1, <1>12 DEF Listed
  <2> QED
    BY <1>9, <1>13, <2>1, <2>2, <2>3 DEF Listed
<1>15. Kept(b, d, O)
  BY <1>11, <1>12 DEF Sound, Kept
<1>16. Plus(x, m) \in [Matrices -> Nat] /\ Plus(x, m)[m] > 0
  BY <1>1, <1>4, PlusMinus
<1>17. FreeNode(d)
  BY <1>2, <1>12 DEF FreeNode
<1> QED
  BY <1>2, <1>4, <1>6, <1>9, <1>10, <1>14, <1>15, <1>16, <1>17 DEF Sound, name, this, n, d

\* A variable takes over the matrix of a temporary.
WithThis(e, n, m) == [e EXCEPT !.this[n] = m]

HasThis(d, e, n, m) ==
    /\ d \in Env /\ d.list = e.list /\ d.name = e.name
    /\ d.this = [e.this EXCEPT ![n] = m]
    /\ d.refcnt = e.refcnt /\ d.content = e.content

LEMMA WithThisType ==
    ASSUME NEW e \in Env, NEW n, NEW m \in Matrices
    PROVE  HasThis(WithThis(e, n, m), e, n, m)
<1> DEFINE this == [e.this EXCEPT ![n] = m]
           d    == WithThis(e, n, m)
<1>1. this \in [Nodes -> Matrices \cup {Null}]
  BY DEF Env
<1>2. d = [e EXCEPT !.this = this]
  BY DEF WithThis
<1> HIDE DEF this, d
<1>3. d \in Env
  BY <1>1, <1>2 DEF Env
<1>4. d.list = e.list /\ d.name = e.name /\ d.this = this
        /\ d.refcnt = e.refcnt /\ d.content = e.content
  BY <1>2 DEF Env
<1> QED
  BY <1>3, <1>4 DEF HasThis, this, d

\* The reference of m has become one of n's, and that of n one that no node holds.
Taken(e, x, O, b, n, m, old) ==
    /\ Sound(WithThis(e, n, m), Plus(Minus(x, m), old), O, b)
    /\ Plus(Minus(x, m), old)[old] > 0
    /\ Minus(Plus(Minus(x, m), old), old) = Minus(x, m)

LEMMA ThisTaken ==
    ASSUME NEW e, NEW x, NEW O, NEW b, Sound(e, x, O, b), NEW n \in Elements(e.list),
           NEW m \in Matrices, x[m] > 0, m # e.this[n]
    PROVE  Taken(e, x, O, b, n, m, e.this[n])
<1> DEFINE old  == e.this[n]
           d    == WithThis(e, n, m)
           this == [e.this EXCEPT ![n] = m]
           y    == Minus(x, m)
<1>1. e \in Env /\ x \in [Matrices -> Nat] /\ Listed(e, O)
  BY DEF Sound
<1>2. n \in Nodes /\ old \in Matrices /\ e.content[old] # Null
  BY FoundUsed
<1>3. y \in [Matrices -> Nat] /\ \A k \in Matrices : y[k] = IF k = m THEN x[m] - 1 ELSE x[k]
  BY <1>1, PlusMinus
<1> HIDE DEF y, old
<1>4. /\ Plus(y, old) \in [Matrices -> Nat] /\ Minus(Plus(y, old), old) = y
      /\ \A k \in Matrices : Plus(y, old)[k] = IF k = old THEN y[old] + 1 ELSE y[k]
  BY <1>2, <1>3, PlusMinus, Zenon
<1>5. /\ d \in Env /\ d.list = e.list /\ d.name = e.name /\ d.this = this
      /\ d.refcnt = e.refcnt /\ d.content = e.content
  <2>1. HasThis(d, e, n, m)
    BY <1>1, WithThisType, Zenon
  <2> HIDE DEF d
  <2> QED
    BY <2>1 DEF HasThis
<1> HIDE DEF d
<1>6. Counted(d, Plus(y, old))
  <2> SUFFICES ASSUME NEW k \in Matrices PROVE Balance(d, Plus(y, old), k)
    BY DEF Counted
  <2>1. Balance(e, x, k) /\ Balance(e, x, m) /\ Balance(e, x, old)
    BY <1>2 DEF Sound, Counted
  <2>2. Shares(d, k) = Shares(e, k) + (IF k = m THEN 1 ELSE 0) - (IF k = old THEN 1 ELSE 0)
    <3>1. d.this = [e.this EXCEPT ![n] = m] /\ d \in Env /\ e \in Env /\ n \in Nodes
      BY <1>1, <1>2, <1>5
    <3>2. Moved(e, d, n, m, k)
      BY <3>1, SharesMove, Zenon
    <3> QED
      BY <3>2 DEF Moved, old
  <2>3. /\ Shares(e, k) \in Nat /\ x[k] \in Nat
        /\ d.refcnt[k] = e.refcnt[k] /\ d.content[k] = e.content[k]
    BY <1>1, <1>5, SharesType
  <2>4. Plus(y, old)[k] = IF k = old THEN (IF old = m THEN x[m] - 1 ELSE x[old]) + 1
                          ELSE IF k = m THEN x[m] - 1 ELSE x[k]
    BY <1>2, <1>3, <1>4
  <2>5. m # old
    BY DEF old
  <2> QED
    BY <1>2, <2>1, <2>2, <2>3, <2>4, <2>5 DEF Balance
<1>7. n \notin O
  BY <1>1 DEF Listed
<1>8. \A k \in Nodes : d.this[k] = IF k = n THEN m ELSE e.this[k]
  BY <1>1, <1>2, <1>5 DEF Env
<1>9. Listed(d, O)
  BY <1>1, <1>2, <1>5, <1>8, NullIs DEF Listed, UniqueIn, old
<1>10. Kept(b, d, O)
  BY <1>5, <1>7, <1>8 DEF Sound, Kept
<1>11. Plus(y, old)[old] > 0
  BY <1>2, <1>3, <1>4
<1> QED
  BY <1>1, <1>2, <1>4, <1>5, <1>6, <1>9, <1>10, <1>11 DEF Sound, Taken, old, y, d

LEMMA ThisSound ==
    ASSUME NEW e, NEW x, NEW O, NEW b, Sound(e, x, O, b), NEW n \in Elements(e.list),
           NEW m \in Matrices, x[m] > 0, m # e.this[n]
    PROVE  LET old == e.this[n] IN
           /\ old \in Matrices
           /\ Sound(WithThis(e, n, m), Plus(Minus(x, m), old), O, b)
           /\ Plus(Minus(x, m), old)[old] > 0
           /\ Minus(Plus(Minus(x, m), old), old) = Minus(x, m)
           /\ WithThis(e, n, m).list = e.list /\ WithThis(e, n, m).name = e.name
           /\ WithThis(e, n, m).this = [e.this EXCEPT ![n] = m]
           /\ WithThis(e, n, m).refcnt = e.refcnt /\ WithThis(e, n, m).content = e.content
<1>1. e \in Env /\ e.this[n] \in Matrices
  BY FoundUsed DEF Sound
<1>2. HasThis(WithThis(e, n, m), e, n, m)
  BY <1>1, WithThisType, Zenon
<1>3. Taken(e, x, O, b, n, m, e.this[n])
  BY ThisTaken, Zenon
<1> QED
  BY <1>1, <1>2, <1>3, Zenon DEF HasThis, Taken

-----------------------------------------------------------------------------
(* The operations on variables. *)

LEMMA DefinedIs ==
    ASSUME NEW e, NEW r
    PROVE  Defined(e, r) <=> \E n \in Elements(e.list) : e.name[n] = r
BY DEF Defined, Elements

\* Environments that agree in their parts are the same.
LEMMA SameEnv ==
    ASSUME NEW e \in Env, NEW d \in Env, d.list = e.list, d.name = e.name,
           d.this = e.this, d.refcnt = e.refcnt, d.content = e.content
    PROVE  d = e
BY DEF Env

\* What an operation that only ends variables leaves.
Ended(e, d) ==
    /\ \A n \in Nodes : d.this[n] # Null => d.this[n] = e.this[n] /\ d.name[n] = e.name[n]
    /\ \A m \in Matrices : d.content[m] # Null => d.content[m] = e.content[m]
    /\ \A m \in Matrices : d.refcnt[m] <= e.refcnt[m]

LEMMA EndedFree ==
    ASSUME NEW e \in Env, NEW d \in Env, Ended(e, d)
    PROVE  (FreeNode(e) => FreeNode(d)) /\ (FreeMatrix(e) => FreeMatrix(d))
BY DEF Ended, FreeNode, FreeMatrix

\* var_delete ends the variable of the name.
LEMMA DeleteSound ==
    ASSUME NEW e, NEW x, NEW O, NEW b, Sound(e, x, O, b), NEW r \in Names
    PROVE  LET d == Delete(e, r) IN
           /\ Sound(d, x, O, b) /\ ~ Defined(d, r) /\ Ended(e, d)
           /\ Elements(d.list) = {n \in Elements(e.list) : e.name[n] # r}
           /\ \A n \in Elements(d.list) : d.name[n] = e.name[n] /\ d.this[n] = e.this[n]
<1> DEFINE d == Delete(e, r)
<1>1. e \in Env /\ x \in [Matrices -> Nat] /\ UniqueIn(e, e.list) /\ e.list \in Seq(Nodes)
  BY DEF Sound, Listed, Env
<1>2. Elements(e.list) \subseteq Nodes
  BY <1>1, ElementsType
<1>3. CASE ~ Defined(e, r)
  <2>1. d = e
    BY <1>3 DEF Delete
  <2>2. \A n \in Elements(e.list) : e.name[n] # r
    BY <1>3, DefinedIs
  <2>3. Ended(e, e)
    BY <1>1 DEF Ended, Env
  <2> QED
    BY <1>3, <2>1, <2>2, <2>3
<1>4. CASE Defined(e, r)
  <2> DEFINE p == Place(e, r)
             n == Find(e, r)
             m == e.this[n]
             f == Drop(e, p)
             g == Release(f, m)
             h == Release(e, m)
  <2>1. p \in 1 .. Len(e.list) /\ n = e.list[p] /\ n \in Elements(e.list) /\ n \in Nodes
    BY <1>1, <1>4, FindIs
  <2>2. \A k \in Elements(e.list) : e.name[k] = r <=> k = n
    BY <1>1, <1>4, FindIs
  <2> HIDE DEF p, n
  <2>3. /\ m \in Matrices /\ Sound(f, Plus(x, m), O, b) /\ Plus(x, m)[m] > 0
        /\ f.name = [e.name EXCEPT ![n] = Null] /\ f.this = [e.this EXCEPT ![n] = Null]
        /\ Elements(f.list) = Elements(e.list) \ {n}
        /\ f.refcnt = e.refcnt /\ f.content = e.content
    BY <2>1, DropSound, ZenonT(30)
  <2>4. e.refcnt[m] - 1 \in Int /\ e.content \in [Matrices -> Contents \cup {Null}]
          /\ e.refcnt \in [Matrices -> Int]
    BY <1>1, <2>3 DEF Env
  <2>5. Minus(Plus(x, m), m) = x
    BY <1>1, <2>3, PlusMinus, Zenon
  <2>6. Sound(g, x, O, b) /\ g.list = f.list /\ g.this = f.this /\ g.name = f.name
    <3> HIDE DEF f, m
    <3> QED
      BY <2>3, <2>5, ReleaseSound
  <2>7. /\ g.refcnt = [e.refcnt EXCEPT ![m] = e.refcnt[m] - 1]
        /\ g.content = [e.content EXCEPT ![m] = IF e.refcnt[m] = 1 THEN Null ELSE e.content[m]]
    <3>1. f \in Env
      BY <2>3 DEF Sound
    <3> HIDE DEF f, m
    <3> QED
      BY <2>3, <3>1 DEF Release, Env
  <2>8. d = g
    <3>1. d = Drop(h, p)
      BY <1>4 DEF Delete, n, p, m
    <3>2. Drop(h, p) = g
      <4>1. /\ h \in Env /\ h.list = e.list /\ h.name = e.name /\ h.this = e.this
            /\ h.refcnt = [e.refcnt EXCEPT ![m] = e.refcnt[m] - 1]
            /\ h.content = [e.content EXCEPT ![m] = IF e.refcnt[m] = 1 THEN Null ELSE e.content[m]]
        BY <1>1, <2>3, ReleaseType, ZenonT(30)
      <4>2. /\ f \in Env /\ f.list = Removed(e.list, p)
            /\ f.name = [e.name EXCEPT ![n] = Null] /\ f.this = [e.this EXCEPT ![n] = Null]
        BY <1>1, <2>1, DropType
      <4>3. g \in Env
        BY <2>6 DEF Sound
      <4> HIDE DEF f, g, h
      <4>4. /\ Drop(h, p) \in Env /\ Drop(h, p).list = Removed(e.list, p)
            /\ Drop(h, p).name = [e.name EXCEPT ![n] = Null]
            /\ Drop(h, p).this = [e.this EXCEPT ![n] = Null]
            /\ Drop(h, p).refcnt = h.refcnt /\ Drop(h, p).content = h.content
        BY <2>1, <4>1, DropType, SMTT(30)
      <4> QED
        BY <2>6, <2>7, <4>1, <4>2, <4>3, <4>4, SameEnv
    <3> QED
      BY <3>1, <3>2
  <2> HIDE DEF f, g, d
  <2>9. \A k \in Nodes : d.this[k] # Null => d.this[k] = e.this[k] /\ d.name[k] = e.name[k]
    BY <1>1, <2>1, <2>3, <2>6, <2>8 DEF Env
  <2>10. \A k \in Matrices : d.content[k] # Null => d.content[k] = e.content[k]
    BY <2>3, <2>4, <2>7, <2>8
  <2>11. \A k \in Matrices : d.refcnt[k] <= e.refcnt[k]
    <3>1. \A k \in Matrices : e.refcnt[k] \in Int
      BY <2>4
    <3> HIDE DEF m
    <3>2. \A k \in Matrices : d.refcnt[k] = IF k = m THEN e.refcnt[m] - 1 ELSE e.refcnt[k]
      BY <2>4, <2>7, <2>8
    <3> QED
      BY <3>1, <3>2
  <2>12. Elements(d.list) = {k \in Elements(e.list) : e.name[k] # r}
    BY <2>2, <2>3, <2>6, <2>8
  <2>13. \A k \in Elements(d.list) : d.name[k] = e.name[k] /\ d.this[k] = e.this[k]
    BY <1>1, <1>2, <2>1, <2>3, <2>6, <2>8 DEF Env
  <2>14. ~ Defined(d, r)
    BY <2>12, <2>13, DefinedIs
  <2> QED
    BY <2>6, <2>8, <2>9, <2>10, <2>11, <2>12, <2>13, <2>14 DEF Ended, d
<1> QED
  BY <1>3, <1>4

\* var_free ends the variables of the list.
LEMMA FreeSound ==
    ASSUME NEW e, NEW x, NEW O, NEW b, Sound(e, x, O, b)
    PROVE  Sound(Free(e), x, O, b) /\ Free(e).list = <<>> /\ Ended(e, Free(e))
<1> DEFINE gone     == Elements(e.list)
           count(m) == Cardinality(Sharers(e, m) \cap gone)
           d        == Free(e)
           name     == [n \in Nodes |-> IF n \in gone THEN Null ELSE e.name[n]]
           this     == [n \in Nodes |-> IF n \in gone THEN Null ELSE e.this[n]]
           refcnt   == [m \in Matrices |-> e.refcnt[m] - count(m)]
           content  == [m \in Matrices |-> IF e.refcnt[m] \in 1 .. count(m) THEN Null
                                           ELSE e.content[m]]
<1>1. e \in Env /\ x \in [Matrices -> Nat] /\ Listed(e, O)
  BY DEF Sound
<1>2. d = [list |-> <<>>, name |-> name, this |-> this, refcnt |-> refcnt, content |-> content]
  BY DEF Free
<1>3. ASSUME NEW m \in Matrices
      PROVE  /\ count(m) \in Nat /\ count(m) <= Shares(e, m)
             /\ Cardinality(Sharers(e, m) \ gone) = Shares(e, m) - count(m)
             /\ Shares(e, m) \in Nat
  <2>1. Sharers(e, m) \in SUBSET Nodes
    BY DEF Sharers
  <2>2. IsFiniteSet(Sharers(e, m))
    BY <2>1, FiniteMemory, FS_Subset
  <2>3. Sharers(e, m) \cap gone \in SUBSET Sharers(e, m)
    OBVIOUS
  <2>4. IsFiniteSet(Sharers(e, m) \cap gone) /\ count(m) <= Shares(e, m)
    BY <2>2, <2>3, FS_Subset DEF Shares
  <2>5. count(m) \in Nat /\ Shares(e, m) \in Nat
    BY <2>2, <2>4, FS_CardinalityType DEF Shares
  <2>6. Cardinality(Sharers(e, m) \ gone) = Shares(e, m) - count(m)
    BY <2>2, FS_Difference DEF Shares
  <2> QED
    BY <2>4, <2>5, <2>6
<1> HIDE DEF count
<1>4. /\ name \in [Nodes -> Names \cup {Null}] /\ this \in [Nodes -> Matrices \cup {Null}]
      /\ content \in [Matrices -> Contents \cup {Null}]
  BY <1>1 DEF Env
<1>5. refcnt \in [Matrices -> Int]
  <2>1. ASSUME NEW m \in Matrices PROVE e.refcnt[m] - count(m) \in Int
    <3>1. e.refcnt[m] \in Int
      BY <1>1 DEF Env
    <3>2. count(m) \in Nat
      BY <1>3
    <3> QED
      BY <3>1, <3>2
  <2> QED
    BY <2>1
<1> HIDE DEF d
<1>6. /\ d.list = <<>> /\ d.name = name /\ d.this = this
      /\ d.refcnt = refcnt /\ d.content = content
  BY <1>2
<1>7. d \in Env
  <2> HIDE DEF name, this, refcnt, content
  <2>1. <<>> \in Seq(Nodes)
    OBVIOUS
  <2> QED
    BY <1>2, <1>4, <1>5, <2>1 DEF Env
<1>8. Counted(d, x)
  <2> SUFFICES ASSUME NEW m \in Matrices PROVE Balance(d, x, m)
    BY DEF Counted
  <2>1. Balance(e, x, m)
    BY DEF Sound, Counted
  <2>2. Shares(d, m) = Shares(e, m) - count(m)
    <3>1. Sharers(d, m) = Sharers(e, m) \ gone
      BY <1>6, NullIs DEF Sharers
    <3> QED
      BY <1>3, <3>1 DEF Shares
  <2>3. /\ d.refcnt[m] = e.refcnt[m] - count(m)
        /\ d.content[m] = IF e.refcnt[m] \in 1 .. count(m) THEN Null ELSE e.content[m]
        /\ x[m] \in Nat /\ e.refcnt[m] \in Int
    BY <1>1, <1>6 DEF Env
  <2>4. count(m) \in Nat /\ Shares(e, m) \in Nat /\ count(m) <= Shares(e, m)
    BY <1>3
  <2> DEFINE k == count(m)
  <2> HIDE DEF k
  <2>5. k \in Nat /\ k <= Shares(e, m) /\ Shares(d, m) = Shares(e, m) - k
          /\ d.refcnt[m] = e.refcnt[m] - k
          /\ d.content[m] = IF e.refcnt[m] \in 1 .. k THEN Null ELSE e.content[m]
    BY <2>2, <2>3, <2>4 DEF k
  <2>6. CASE e.content[m] = Null
    <3>1. e.refcnt[m] = 0 /\ Shares(e, m) = 0 /\ x[m] = 0 /\ k = 0
      BY <2>1, <2>4, <2>5, <2>6 DEF Balance
    <3> QED
      BY <2>5, <2>6, <3>1 DEF Balance
  <2>7. CASE e.content[m] # Null
    <3>1. e.refcnt[m] = Shares(e, m) + x[m] /\ e.refcnt[m] > 0
      BY <2>1, <2>7 DEF Balance
    <3>2. CASE e.refcnt[m] <= k
      <4>1. e.refcnt[m] = k /\ Shares(e, m) = k /\ x[m] = 0
        <5> DEFINE all == Shares(e, m)
                   more == x[m]
                   held == e.refcnt[m]
        <5>1. all \in Nat /\ more \in Nat /\ k \in Nat /\ k <= all
          BY <2>3, <2>4, <2>5
        <5>2. held = all + more /\ held <= k
          BY <3>1, <3>2
        <5> HIDE DEF all, more, held
        <5>3. held = k /\ all = k /\ more = 0
          BY <5>1, <5>2
        <5> QED
          BY <5>3 DEF all, more, held
      <4>2. d.content[m] = Null
        BY <2>5, <3>1, <4>1
      <4> QED
        BY <2>5, <4>1, <4>2 DEF Balance
    <3>3. CASE e.refcnt[m] > k
      <4>1. d.content[m] # Null
        BY <2>3, <2>5, <2>7, <3>3
      <4> QED
        BY <2>3, <2>4, <2>5, <3>1, <3>3, <4>1 DEF Balance
    <3> QED
      BY <2>3, <2>5, <3>2, <3>3
  <2> QED
    BY <2>6, <2>7
<1>9. \A n \in Nodes : d.this[n] # Null => d.this[n] = e.this[n] /\ d.name[n] = e.name[n]
  BY <1>6
<1>10. \A m \in Matrices : d.content[m] # Null => d.content[m] = e.content[m]
  BY <1>6
<1>11. \A m \in Matrices : d.refcnt[m] <= e.refcnt[m]
  <2> SUFFICES ASSUME NEW m \in Matrices PROVE d.refcnt[m] <= e.refcnt[m]
    OBVIOUS
  <2>1. e.refcnt[m] \in Int /\ d.refcnt[m] = e.refcnt[m] - count(m)
    BY <1>1, <1>6 DEF Env
  <2>2. count(m) \in Nat
    BY <1>3
  <2> QED
    BY <2>1, <2>2
<1>12. Elements(<<>>) = {}
  BY DEF Elements
<1>13. Listed(d, O)
  BY <1>1, <1>6, <1>12 DEF Listed, UniqueIn
<1>14. Kept(b, d, O)
  BY <1>1, <1>6 DEF Sound, Kept, Listed
<1> QED
  BY <1>1, <1>6, <1>7, <1>8, <1>9, <1>10, <1>11, <1>13, <1>14 DEF Sound, Ended, d

\* lst_add adds a variable of a new name somewhere in the list.
LEMMA AddByNameSound ==
    ASSUME NEW e, NEW x, NEW O, NEW b, Sound(e, x, O, b), NEW m \in Matrices, x[m] > 0,
           FreeNode(e), NEW r \in Names, ~ Defined(e, r)
    PROVE  LET d == AddByName(e, r, m) IN
           /\ Sound(d, Minus(x, m), O, b)
           /\ \A k \in Matrices : e.content[k] = Null => d.content[k] = Null
<1> DEFINE places == {i \in 1 .. (Len(e.list) + 1) : i <= Len(e.list) => e.name[e.list[i]] > r}
           right(i) == /\ i <= Len(e.list) => e.name[e.list[i]] > r
                       /\ \A j \in 1 .. (i - 1) : e.name[e.list[j]] <= r
<1>1. e.list \in Seq(Nodes) /\ Len(e.list) \in Nat
  BY ElementsType DEF Sound, Env
<1>2. Len(e.list) + 1 \in places /\ places \subseteq Nat
  BY <1>1
<1>3. PICK i \in places : \A j \in places : i <= j
  <2> HIDE DEF places
  <2> QED
    BY <1>2, SmallestExists
<1>4. ASSUME NEW j \in 1 .. (i - 1) PROVE e.name[e.list[j]] <= r
  <2>1. j \in 1 .. Len(e.list) /\ j \notin places
    BY <1>1, <1>3
  <2>2. e.list[j] \in Elements(e.list)
    BY <1>1, <2>1, ElementsType
  <2>3. e.name[e.list[j]] \in Names
    BY <2>2, FoundUsed
  <2>4. e.name[e.list[j]] \in Nat /\ r \in Nat
    BY <2>3, NamesAreOrdered
  <2> QED
    BY <1>1, <2>1, <2>4
<1>5. i \in 1 .. (Len(e.list) + 1) /\ right(i)
  BY <1>3, <1>4
<1> DEFINE p == CHOOSE q \in 1 .. (Len(e.list) + 1) : right(q)
<1>6. p \in 1 .. (Len(e.list) + 1)
  <2> HIDE DEF right
  <2> QED
    BY <1>5
<1>7. AddByName(e, r, m) = AddAt(e, p, r, m)
  BY DEF AddByName
<1> HIDE DEF p
<1>8. /\ Sound(AddAt(e, p, r, m), Minus(x, m), O, b)
      /\ HasAdded(AddAt(e, p, r, m), e, NewNode(e), r, m)
  BY <1>6, AddAtSound, Zenon
<1> QED
  BY <1>7, <1>8 DEF HasAdded

\* The temporary that holds matrix m becomes the variable r.
LEMMA RenameSound ==
    ASSUME NEW e, NEW x, NEW O, NEW b, Sound(e, x, O, b), NEW m \in Matrices, x[m] > 0,
           NEW r \in Names, FreeNode(e), e.refcnt[m] > 1 => FreeMatrix(e)
    PROVE  Sound(Rename(e, m, r), Minus(x, m), O, b)
<1>1. e \in Env /\ x \in [Matrices -> Nat]
  BY DEF Sound
<1>2. Minus(x, m) \in [Matrices -> Nat] /\ Plus(Minus(x, m), m) = x
  BY <1>1, PlusMinus, Zenon
<1>3. e.content[m] # Null /\ e.content[m] \in Contents
  <2>1. Balance(e, x, m)
    BY DEF Sound, Counted
  <2>2. e.content[m] # Null
    BY <2>1 DEF Balance
  <2> QED
    BY <1>1, <2>2 DEF Env
<1>4. 1 \in 1 .. Len(e.list) + 1
  <2>1. e.list \in Seq(Nodes)
    BY <1>1 DEF Env
  <2>2. Len(e.list) \in Nat
    BY <2>1, ElementsType
  <2> QED
    BY <2>2
<1>5. CASE ~ Defined(e, r) /\ e.refcnt[m] > 1
  <2> DEFINE k == NewMatrix(e)
             f == Release(e, m)
             g == Create(f, k, e.content[m])
             y == Minus(x, m)
  <2>1. k \in Matrices /\ e.content[k] = Null
    BY <1>5, NewIs
  <2>2. Sound(f, y, O, b) /\ f.list = e.list /\ f.this = e.this /\ f.name = e.name
          /\ f.content[k] = Null
    BY <2>1, ReleaseSound
  <2>3. Rename(e, m, r) = AddAt(g, 1, r, k)
    <3>1. ~ (e.refcnt[m] <= 1) /\ e.refcnt[m] > 1 /\ ~ Defined(e, r)
      BY <1>1, <1>5 DEF Env
    <3> QED
      BY <3>1, Zenon DEF Rename
  <2> HIDE DEF f, k, y
  <2>4. Sound(g, Plus(y, k), O, b) /\ Plus(y, k)[k] > 0 /\ HasCreated(g, f, k, e.content[m])
    BY <1>3, <2>1, <2>2, CreateSound, Zenon
  <2>5. FreeNode(g) /\ ~ Defined(g, r) /\ 1 \in 1 .. Len(g.list) + 1
    BY <1>4, <1>5, <2>2, <2>4 DEF FreeNode, Defined, HasCreated
  <2> HIDE DEF g
  <2>6. Sound(AddAt(g, 1, r, k), Minus(Plus(y, k), k), O, b)
    BY <2>1, <2>4, <2>5, AddAtSound, Zenon
  <2>7. Minus(Plus(y, k), k) = y
    BY <1>2, <2>1, PlusMinus, Zenon DEF y
  <2> QED
    BY <2>3, <2>6, <2>7 DEF y
<1>6. CASE ~ Defined(e, r) /\ ~ (e.refcnt[m] > 1)
  <2>1. e.refcnt[m] <= 1
    BY <1>1, <1>6 DEF Env
  <2>2. Rename(e, m, r) = AddAt(e, 1, r, m)
    BY <1>6, <2>1 DEF Rename
  <2> QED
    BY <1>4, <1>6, <2>2, AddAtSound, Zenon
<1>7. CASE Defined(e, r)
  <2> DEFINE v   == Find(e, r)
             old == e.this[v]
  <2>1. v \in Elements(e.list)
    BY <1>1, <1>7, FindIs
  <2>2. Rename(e, m, r) = IF Size[e.content[old]] = Size[e.content[m]]
                          THEN Release([e EXCEPT !.content[old] = e.content[m]], m)
                          ELSE [Release(e, old) EXCEPT !.this[v] = m]
    BY <1>7 DEF Rename
  <2> HIDE DEF v
  <2>3. old \in Matrices /\ e.content[old] # Null
    BY <2>1, FoundUsed
  <2>4. CASE Size[e.content[old]] = Size[e.content[m]]
    <3> DEFINE f == WithContent(e, old, e.content[m])
    <3>1. Sound(f, x, O, b)
      BY <1>3, <2>3, ContentSound
    <3>2. Rename(e, m, r) = Release(f, m)
      BY <2>2, <2>4 DEF WithContent
    <3> HIDE DEF f
    <3> QED
      BY <3>1, <3>2, ReleaseSound
  <2>5. CASE Size[e.content[old]] # Size[e.content[m]]
    <3> DEFINE f == WithThis(e, v, m)
               h == Release(e, old)
               y == Minus(x, m)
    <3>1. m # old
      BY <2>5
    <3>2. /\ Sound(f, Plus(y, old), O, b) /\ Plus(y, old)[old] > 0
          /\ Minus(Plus(y, old), old) = y
          /\ f.list = e.list /\ f.name = e.name /\ f.this = [e.this EXCEPT ![v] = m]
          /\ f.refcnt = e.refcnt /\ f.content = e.content
      BY <2>1, <3>1, ThisSound
    <3>3. Rename(e, m, r) = WithThis(h, v, m)
      BY <2>2, <2>5 DEF WithThis
    <3>4. /\ h \in Env /\ h.list = e.list /\ h.name = e.name /\ h.this = e.this
          /\ h.refcnt = [e.refcnt EXCEPT ![old] = e.refcnt[old] - 1]
          /\ h.content = [e.content EXCEPT ![old] = IF e.refcnt[old] = 1 THEN Null ELSE e.content[old]]
      BY <1>1, <2>3, ReleaseType
    <3>5. f \in Env
      BY <3>2 DEF Sound
    <3> HIDE DEF old, f, h, y
    <3>6. Sound(Release(f, old), y, O, b)
      BY <2>3, <3>2, ReleaseSound
    <3>7. /\ Release(f, old) \in Env /\ Release(f, old).list = f.list
          /\ Release(f, old).name = f.name /\ Release(f, old).this = f.this
          /\ Release(f, old).refcnt = [f.refcnt EXCEPT ![old] = f.refcnt[old] - 1]
          /\ Release(f, old).content =
               [f.content EXCEPT ![old] = IF f.refcnt[old] = 1 THEN Null ELSE f.content[old]]
      BY <2>3, <3>5, ReleaseType
    <3>8. HasThis(WithThis(h, v, m), h, v, m)
      BY <3>4, WithThisType, Zenon
    <3>9. WithThis(h, v, m) = Release(f, old)
      BY <3>2, <3>4, <3>7, <3>8, SameEnv DEF HasThis
    <3> QED
      BY <3>3, <3>6, <3>9 DEF y
  <2> QED
    BY <2>4, <2>5
<1> QED
  BY <1>5, <1>6, <1>7

\* put_result
LEMMA PutResultSound ==
    ASSUME NEW e, NEW x, NEW O, NEW b, Sound(e, x, O, b), NEW m \in Matrices, x[m] > 0,
           NEW r \in Names, FreeNode(e), e.refcnt[m] > 1 => FreeMatrix(e)
    PROVE  Sound(PutResult(e, m, r), Minus(x, m), O, b)
<1> DEFINE d == Delete(e, Ans)
<1>1. Sound(d, x, O, b) /\ Ended(e, d)
  BY DeleteSound, FunctionNames
<1> HIDE DEF d
<1>2. e \in Env /\ d \in Env
  BY <1>1 DEF Sound
<1>3. FreeNode(d) /\ (FreeMatrix(e) => FreeMatrix(d))
  BY <1>1, <1>2, EndedFree, Zenon
<1>4. d.refcnt[m] > 1 => e.refcnt[m] > 1
  BY <1>1, <1>2 DEF Ended, Env
<1>5. Sound(Rename(d, m, r), Minus(x, m), O, b)
  BY <1>1, <1>3, <1>4, RenameSound, Zenon
<1> QED
  BY <1>5 DEF PutResult, d

LEMMA SwapUpdates ==
    ASSUME NEW S, NEW T, NEW f \in [S -> T], NEW a, NEW b, a # b, NEW u, NEW v
    PROVE  [[f EXCEPT ![a] = u] EXCEPT ![b] = v] = [[f EXCEPT ![b] = v] EXCEPT ![a] = u]
OBVIOUS

\* put_values, except where the matrix is shared and as large as the value.
LEMMA PutValuesSound ==
    ASSUME NEW e, NEW x, NEW O, NEW b, Sound(e, x, O, b), NEW r \in Names,
           NEW c \in Contents, NEW masked, FreeNode(e), FreeMatrix(e),
           LET old == e.this[Find(e, r)] IN
           Defined(e, r) => \/ Size[c] > Size[e.content[old]]
                            \/ Size[c] = Size[e.content[old]] /\ e.refcnt[old] <= 1
    PROVE  Sound(PutValues(e, r, c, masked), x, O, b)
<1> DEFINE k == NewMatrix(e)
           f == Create(e, k, c)
           y == Plus(x, k)
<1>1. e \in Env /\ x \in [Matrices -> Nat]
  BY DEF Sound
<1>2. k \in Matrices /\ e.content[k] = Null
  BY NewIs
<1> HIDE DEF k
<1>3. Sound(f, y, O, b) /\ y[k] > 0 /\ HasCreated(f, e, k, c)
  BY <1>2, CreateSound
<1>4. Minus(y, k) = x
  BY <1>1, <1>2, PlusMinus
<1> HIDE DEF f, y
<1>5. CASE ~ Defined(e, r)
  <2>1. 1 \in 1 .. Len(f.list) + 1
    <3>1. f.list \in Seq(Nodes)
      BY <1>3 DEF Sound, Env
    <3>2. Len(f.list) \in Nat
      BY <3>1, ElementsType
    <3> QED
      BY <3>2
  <2>2. ~ Defined(f, r) /\ FreeNode(f)
    BY <1>3, <1>5 DEF HasCreated, Defined, FreeNode
  <2>3. Sound(AddAt(f, 1, r, k), x, O, b)
    BY <1>2, <1>3, <1>4, <2>1, <2>2, AddAtSound
  <2>4. PutValues(e, r, c, masked) = AddAt(f, 1, r, k)
    BY <1>5 DEF PutValues, f, k
  <2> QED
    BY <2>3, <2>4
<1>6. CASE Defined(e, r)
  <2> DEFINE v   == Find(e, r)
             old == e.this[v]
             i   == Release(e, old)
             h   == Create(i, k, c)
             g   == WithThis(f, v, k)
  <2>1. v \in Elements(e.list)
    BY <1>1, <1>6, FindIs
  <2> HIDE DEF v
  <2>2. old \in Matrices /\ e.content[old] \in Contents /\ e.content[old] # Null
    BY <2>1, FoundUsed
  <2>3. CASE Size[c] > Size[e.content[old]]
    <3>1. PutValues(e, r, c, masked) = WithThis(h, v, k)
      <4>1. /\ Defined(e, r) /\ Size[c] > Size[e.content[old]]
            /\ ~ (Size[c] <= Size[e.content[old]])
        BY <1>6, <2>2, <2>3, SizesAreNumbers
      <4> QED
        BY <4>1, Zenon DEF PutValues, WithThis, k, v
    <3>2. old # k /\ v \in Elements(f.list) /\ f.this = e.this
      BY <1>2, <1>3, <2>1, <2>2 DEF HasCreated
    <3>3. f \in Env
      BY <1>3 DEF Sound
    <3> HIDE DEF old, h, i, g
    <3>4. /\ i \in Env /\ i.list = e.list /\ i.name = e.name /\ i.this = e.this
          /\ i.refcnt = [e.refcnt EXCEPT ![old] = e.refcnt[old] - 1]
          /\ i.content = [e.content EXCEPT ![old] = IF e.refcnt[old] = 1 THEN Null ELSE e.content[old]]
      BY <1>1, <2>2, ReleaseType DEF i
    <3>5. h \in Env /\ HasCreated(h, i, k, c)
      BY <1>2, <3>4, CreateType, Zenon DEF h
    <3>6. HasThis(WithThis(h, v, k), h, v, k)
      BY <1>2, <3>5, WithThisType, Zenon
    <3>7. /\ Sound(g, Plus(Minus(y, k), f.this[v]), O, b)
          /\ Plus(Minus(y, k), f.this[v])[f.this[v]] > 0
          /\ Minus(Plus(Minus(y, k), f.this[v]), f.this[v]) = Minus(y, k)
          /\ HasThis(g, f, v, k)
      <4>1. k # f.this[v]
        BY <3>2 DEF old
      <4>2. HasThis(g, f, v, k)
        BY <1>2, <3>3, WithThisType, Zenon DEF g
      <4>3. Taken(f, y, O, b, v, k, f.this[v])
        BY <1>2, <1>3, <3>2, <4>1, ThisTaken, Zenon
      <4> QED
        BY <4>2, <4>3, Zenon DEF Taken, g
    <3>8. f.this[v] = old
      BY <3>2 DEF old
    <3>9. Sound(Release(g, old), x, O, b)
      BY <1>4, <2>2, <3>7, <3>8, ReleaseSound
    <3>10. g \in Env
      BY <3>7 DEF HasThis
    <3>11. /\ Release(g, old) \in Env /\ Release(g, old).list = g.list
           /\ Release(g, old).name = g.name /\ Release(g, old).this = g.this
           /\ Release(g, old).refcnt = [g.refcnt EXCEPT ![old] = g.refcnt[old] - 1]
           /\ Release(g, old).content =
                [g.content EXCEPT ![old] = IF g.refcnt[old] = 1 THEN Null ELSE g.content[old]]
      BY <2>2, <3>10, ReleaseType
    <3> DEFINE d == WithThis(h, v, k)
               w == Release(g, old)
    <3> HIDE DEF d, w
    <3>12. d \in Env /\ w \in Env /\ d.list = w.list /\ d.name = w.name /\ d.this = w.this
      BY <1>3, <3>4, <3>5, <3>6, <3>7, <3>11 DEF HasThis, HasCreated, d, w
    <3>13. /\ d.refcnt = [i.refcnt EXCEPT ![k] = 1] /\ d.content = [i.content EXCEPT ![k] = c]
           /\ g.refcnt = [e.refcnt EXCEPT ![k] = 1] /\ g.content = [e.content EXCEPT ![k] = c]
      BY <1>3, <3>5, <3>6, <3>7 DEF HasThis, HasCreated, d
    <3>14. d.refcnt = w.refcnt
      <4> DEFINE z == e.refcnt
                 s == z[old] - 1
      <4>1. z \in [Matrices -> Int] /\ g.refcnt[old] = z[old]
        BY <1>1, <2>2, <3>2, <3>13 DEF Env
      <4>2. w.refcnt = [g.refcnt EXCEPT ![old] = s]
        BY <3>11, <4>1 DEF w
      <4>3. i.refcnt = [z EXCEPT ![old] = s]
        BY <3>4
      <4> HIDE DEF z, s
      <4>4. [[z EXCEPT ![old] = s] EXCEPT ![k] = 1] = [[z EXCEPT ![k] = 1] EXCEPT ![old] = s]
        BY <3>2, <4>1, SwapUpdates, Zenon
      <4> QED
        BY <3>13, <4>2, <4>3, <4>4, Zenon DEF z
    <3>15. d.content = w.content
      <4> DEFINE z == e.content
                 s == IF e.refcnt[old] = 1 THEN Null ELSE e.content[old]
      <4>1. /\ z \in [Matrices -> Contents \cup {Null}] /\ e.refcnt \in [Matrices -> Int]
            /\ g.refcnt[old] = e.refcnt[old] /\ g.content[old] = e.content[old]
        BY <1>1, <2>2, <3>2, <3>13 DEF Env
      <4>2. w.content = [g.content EXCEPT ![old] = s]
        BY <3>11, <4>1 DEF w
      <4>3. i.content = [z EXCEPT ![old] = s]
        BY <3>4
      <4> HIDE DEF z, s
      <4>4. [[z EXCEPT ![old] = s] EXCEPT ![k] = c] = [[z EXCEPT ![k] = c] EXCEPT ![old] = s]
        BY <3>2, <4>1, SwapUpdates, Zenon
      <4> QED
        BY <3>13, <4>2, <4>3, <4>4, Zenon DEF z
    <3>16. d = w
      BY <3>12, <3>14, <3>15, SameEnv
    <3> QED
      BY <3>1, <3>9, <3>16 DEF d, w
  <2>4. CASE Size[c] = Size[e.content[old]] /\ e.refcnt[old] <= 1
    <3>1. Size[c] \in Nat /\ e.refcnt[old] \in Int
      BY <1>1, <2>2, SizesAreNumbers DEF Env
    <3>2. ~ (Size[c] > Size[e.content[old]]) /\ ~ (e.refcnt[old] > 1)
      BY <2>4, <3>1
    <3>3. PutValues(e, r, c, masked) = WithContent(e, old, c)
      BY <1>6, <3>2 DEF PutValues, WithContent, k, v
    <3> QED
      BY <2>2, <3>3, ContentSound
  <2> QED
    BY <1>6, <2>3, <2>4 DEF v
<1> QED
  BY <1>5, <1>6

-----------------------------------------------------------------------------
(* Another list becomes the current one. *)

WithList(e, list) == [e EXCEPT !.list = list]

\* The current list joins the others, and one of those, or none, is current.
LEMMA SwitchSound ==
    ASSUME NEW e, NEW x, NEW O, NEW b, Sound(e, x, O, b), NEW list \in Seq(Nodes),
           Elements(list) \subseteq O, UniqueIn(e, list)
    PROVE  /\ Sound(WithList(e, list), x, (O \ Elements(list)) \cup Elements(e.list), e)
           /\ WithList(e, list).list = list /\ WithList(e, list).name = e.name
           /\ WithList(e, list).this = e.this /\ WithList(e, list).content = e.content
           /\ WithList(e, list).refcnt = e.refcnt
<1> DEFINE d == WithList(e, list)
<1>1. e \in Env /\ x \in [Matrices -> Nat] /\ O \subseteq Nodes
  BY DEF Sound
<1>2. d = [e EXCEPT !.list = list]
  BY DEF WithList
<1> HIDE DEF d
<1>3. d \in Env
  BY <1>1, <1>2 DEF Env
<1>4. d.list = list /\ d.name = e.name /\ d.this = e.this
        /\ d.refcnt = e.refcnt /\ d.content = e.content
  BY <1>1, <1>2 DEF Env
<1>5. Counted(d, x)
  <2> SUFFICES ASSUME NEW k \in Matrices PROVE Balance(d, x, k)
    BY DEF Counted
  <2>1. Balance(e, x, k) /\ Shares(d, k) = Shares(e, k)
    BY <1>4, SharesSame DEF Sound, Counted
  <2> QED
    BY <1>4, <2>1 DEF Balance
<1>6. Elements(e.list) \subseteq Nodes
  BY <1>1, ElementsType DEF Env
<1>7. Listed(d, (O \ Elements(list)) \cup Elements(e.list))
  BY <1>4 DEF Sound, Listed, UniqueIn
<1>8. Kept(e, d, (O \ Elements(list)) \cup Elements(e.list))
  BY <1>4 DEF Kept
<1> QED
  BY <1>1, <1>3, <1>4, <1>5, <1>6, <1>7, <1>8 DEF Sound, d

\* What is kept of an environment is kept of those that agree with it.
LEMMA KeptVia ==
    ASSUME NEW d, NEW x, NEW O, NEW c, NEW b, Sound(d, x, O, c), Kept(b, c, O)
    PROVE  Sound(d, x, O, b)
BY DEF Sound, Kept

LEMMA KeptSame ==
    ASSUME NEW c, NEW b, c.name = b.name, c.this = b.this, NEW O
    PROVE  Kept(b, c, O)
BY DEF Kept

-----------------------------------------------------------------------------
(* The references of the temporaries. *)

Values == Matrices \cup {Null}

\* The references of x and of the temporaries of a stack.
Owing(x, stack) == [m \in Matrices |-> x[m] + Held(stack, m)]

\* One more reference, of a matrix or of none.
Added(x, v) == IF v = Null THEN x ELSE Plus(x, v)

LEMMA HeldAppended ==
    ASSUME NEW s \in Seq(Values), NEW v \in Values, NEW m \in Matrices
    PROVE  /\ Held(s, m) \in Nat
           /\ Held(Append(s, v), m) = Held(s, m) + (IF v = m THEN 1 ELSE 0)
<1> DEFINE S == {i \in DOMAIN s : s[i] = m}
           t == Append(s, v)
           T == {i \in DOMAIN t : t[i] = m}
<1>1. DOMAIN s = 1 .. Len(s) /\ Len(s) \in Nat
  BY ElementsType
<1>2. /\ t \in Seq(Values) /\ Len(t) = Len(s) + 1 /\ t[Len(s) + 1] = v
      /\ \A i \in 1 .. Len(s) : t[i] = s[i]
  OBVIOUS
<1>3. DOMAIN t = 1 .. Len(s) + 1
  BY <1>2, ElementsType
<1>4. IsFiniteSet(S)
  <2>1. IsFiniteSet(1 .. Len(s))
    BY <1>1, FS_Interval
  <2>2. S \in SUBSET (1 .. Len(s))
    BY <1>1
  <2> QED
    BY <2>1, <2>2, FS_Subset
<1>5. Held(s, m) = Cardinality(S) /\ Held(t, m) = Cardinality(T) /\ Cardinality(S) \in Nat
  BY <1>4, FS_CardinalityType DEF Held
<1> HIDE DEF t
<1>6. CASE v = m
  <2>1. T = S \cup {Len(s) + 1} /\ Len(s) + 1 \notin S
    BY <1>1, <1>2, <1>3, <1>6
  <2>2. Cardinality(S \cup {Len(s) + 1}) = Cardinality(S) + 1
    BY <1>4, <2>1, FS_AddElement
  <2> QED
    BY <1>5, <1>6, <2>1, <2>2 DEF t
<1>7. CASE v # m
  <2>1. T = S
    BY <1>1, <1>2, <1>3, <1>7
  <2>2. Held(t, m) = Held(s, m) /\ Held(s, m) \in Nat
    <3> HIDE DEF S, T
    <3> QED
      BY <1>5, <2>1
  <2> QED
    BY <1>7, <2>2 DEF t
<1> QED
  BY <1>6, <1>7

LEMMA AddedIs ==
    ASSUME NEW x \in [Matrices -> Nat], NEW v \in Values
    PROVE  /\ Added(x, v) \in [Matrices -> Nat]
           /\ \A k \in Matrices : Added(x, v)[k] = x[k] + (IF v = k THEN 1 ELSE 0)
<1>1. CASE v = Null
  BY <1>1, NullIs DEF Added
<1>2. CASE v \in Matrices
  <2>1. v # Null
    BY <1>2, NullIs
  <2>2. Plus(x, v) \in [Matrices -> Nat]
          /\ \A k \in Matrices : Plus(x, v)[k] = IF k = v THEN x[v] + 1 ELSE x[k]
    BY <1>2, PlusMinus
  <2>3. \A k \in Matrices : x[k] \in Nat
    OBVIOUS
  <2> QED
    BY <2>1, <2>2, <2>3 DEF Added
<1> QED
  BY <1>1, <1>2 DEF Values

LEMMA OwingType ==
    ASSUME NEW x \in [Matrices -> Nat], NEW s \in Seq(Values)
    PROVE  Owing(x, s) \in [Matrices -> Nat]
<1>1. \A m \in Matrices : Held(s, m) \in Nat
  <2>1. Null \in Values
    BY DEF Values
  <2> QED
    BY <2>1, HeldAppended
<1>2. \A m \in Matrices : x[m] + Held(s, m) \in Nat
  BY <1>1
<1> QED
  BY <1>2 DEF Owing

\* A temporary's reference is one more.
LEMMA OwingAppended ==
    ASSUME NEW x \in [Matrices -> Nat], NEW s \in Seq(Values), NEW v \in Values
    PROVE  /\ Owing(x, Append(s, v)) = Added(Owing(x, s), v)
           /\ Owing(x, Append(s, v)) = Owing(Added(x, v), s)
<1> DEFINE y == Owing(x, Append(s, v))
           z == Added(Owing(x, s), v)
           w == Owing(Added(x, v), s)
<1>1. y = [m \in Matrices |-> x[m] + Held(Append(s, v), m)]
  BY DEF Owing
<1>2. /\ z \in [Matrices -> Nat]
      /\ \A k \in Matrices : z[k] = x[k] + Held(s, k) + (IF v = k THEN 1 ELSE 0)
  <2> DEFINE o == Owing(x, s)
  <2>1. (\A k \in Matrices : o[k] = x[k] + Held(s, k)) /\ o \in [Matrices -> Nat]
    BY OwingType DEF Owing
  <2> HIDE DEF o
  <2>2. /\ Added(o, v) \in [Matrices -> Nat]
        /\ \A k \in Matrices : Added(o, v)[k] = o[k] + (IF v = k THEN 1 ELSE 0)
    BY <2>1, AddedIs
  <2> QED
    BY <2>1, <2>2 DEF o
<1>3. w = [m \in Matrices |-> Added(x, v)[m] + Held(s, m)]
  BY DEF Owing
<1>4. \A k \in Matrices : Added(x, v)[k] = x[k] + (IF v = k THEN 1 ELSE 0)
  BY AddedIs
<1>5. \A k \in Matrices : /\ Held(s, k) \in Nat /\ x[k] \in Nat
                          /\ Held(Append(s, v), k) = Held(s, k) + (IF v = k THEN 1 ELSE 0)
  BY HeldAppended
<1> HIDE DEF y, z, w
<1>6. y = z
  <2>1. \A k \in Matrices : x[k] + Held(Append(s, v), k) = z[k]
    BY <1>2, <1>5, SMTT(30)
  <2> QED
    BY <1>1, <1>2, <2>1
<1>7. y = w
  BY <1>1, <1>3, <1>4, <1>5
<1> QED
  BY <1>6, <1>7 DEF y, z, w

LEMMA OwingNone ==
    ASSUME NEW x \in [Matrices -> Nat]
    PROVE  Owing(x, <<>>) = x
<1>1. \A m \in Matrices : Held(<<>>, m) = 0
  <2> SUFFICES ASSUME NEW m \in Matrices PROVE Held(<<>>, m) = 0
    OBVIOUS
  <2>1. {i \in DOMAIN <<>> : <<>>[i] = m} = {}
    OBVIOUS
  <2> QED
    BY <2>1, FS_EmptySet DEF Held
<1>2. \A m \in Matrices : x[m] + Held(<<>>, m) = x[m]
  BY <1>1
<1> QED
  BY <1>2 DEF Owing

\* What is left of a stack without its top.
LEMMA TopIs ==
    ASSUME NEW s \in Seq(Values), Len(s) >= 1
    PROVE  /\ SubSeq(s, 1, Len(s) - 1) \in Seq(Values) /\ s[Len(s)] \in Values
           /\ Len(SubSeq(s, 1, Len(s) - 1)) = Len(s) - 1
           /\ s = Append(SubSeq(s, 1, Len(s) - 1), s[Len(s)])
<1> DEFINE n == Len(s)
           t == SubSeq(s, 1, n - 1)
<1>1. n \in Nat /\ n >= 1 /\ DOMAIN s = 1 .. n
  BY ElementsType
<1>2. s[n] \in Values
  BY <1>1
<1>3. t \in Seq(Values) /\ Len(t) = n - 1 /\ \A i \in 1 .. n - 1 : t[i] = s[i]
  <2>1. n \in 1 .. Len(s) + 1
    BY <1>1
  <2> QED
    BY <2>1, PartType, Zenon
<1> HIDE DEF t
<1>4. Append(t, s[n]) = s
  <2> DEFINE v == s[n]
             a == Append(t, v)
  <2>1. a \in Seq(Values) /\ Len(a) = n /\ a[n] = v /\ \A i \in 1 .. n - 1 : a[i] = t[i]
    <3> HIDE DEF v
    <3>1. v \in Values
      BY <1>2 DEF v
    <3>2. /\ a \in Seq(Values) /\ Len(a) = Len(t) + 1 /\ a[Len(t) + 1] = v
          /\ \A i \in 1 .. Len(t) : a[i] = t[i]
      BY <1>3, <3>1
    <3> QED
      BY <1>1, <1>3, <3>2
  <2> HIDE DEF a
  <2>2. \A i \in 1 .. n : a[i] = s[i]
    <3>1. \A k \in Nat : \A i \in 1 .. k : i \in 1 .. k - 1 \/ i = k
      OBVIOUS
    <3>2. \A i \in 1 .. n : i \in 1 .. n - 1 \/ i = n
      BY <1>1, <3>1, Zenon
    <3> QED
      BY <1>3, <2>1, <3>2
  <2>3. a = s
    BY <1>1, <2>1, <2>2
  <2> QED
    BY <2>3 DEF a
<1> QED
  BY <1>2, <1>3, <1>4 DEF t

\* The temporaries evaluated last, and what is under them.
LEMMA StackIs ==
    ASSUME temps \in Seq(Values), NEW k \in 0 .. 2, Len(temps) >= k
    PROVE  /\ Under(k) \in Seq(Values)
           /\ k = 0 => Under(k) = temps
           /\ k >= 1 => Top(1) \in Values /\ temps = Append(Under(1), Top(1))
           /\ k = 2 => Under(1) \in Seq(Values) /\ Top(2) \in Values
                         /\ Under(1) = Append(Under(2), Top(2))
<1>1. Len(temps) \in Nat /\ Under(0) = temps
  BY DEF Under
<1>2. ASSUME k >= 1
      PROVE  /\ Under(1) \in Seq(Values) /\ Len(Under(1)) = Len(temps) - 1
             /\ Top(1) \in Values /\ temps = Append(Under(1), Top(1))
  <2>1. Len(temps) >= 1 /\ Len(temps) + 1 - 1 = Len(temps)
    BY <1>1, <1>2
  <2> QED
    BY <2>1, TopIs DEF Under, Top
<1>3. ASSUME k = 2
      PROVE  /\ Under(2) \in Seq(Values) /\ Top(2) \in Values
             /\ Under(1) = Append(Under(2), Top(2))
  <2> DEFINE s == Under(1)
             n == Len(temps)
  <2>1. s \in Seq(Values) /\ Len(s) = n - 1 /\ n >= 2 /\ n \in Nat /\ s = SubSeq(temps, 1, n - 1)
    BY <1>1, <1>2, <1>3 DEF Under
  <2>2. Top(2) = temps[n - 1] /\ Under(2) = SubSeq(temps, 1, n - 2)
    BY <2>1 DEF Top, Under
  <2> HIDE DEF s, n
  <2>3. Len(s) >= 1 /\ Len(s) - 1 = n - 2
    BY <2>1
  <2>4. s[Len(s)] = temps[n - 1]
    BY <2>1
  <2>5. SubSeq(s, 1, Len(s) - 1) = SubSeq(temps, 1, n - 2)
    <3>1. n - 1 \in 0 .. Len(temps) /\ n - 2 \in 0 .. n - 1
      BY <2>1 DEF n
    <3> QED
      BY <2>1, <2>3, <3>1
  <2> QED
    BY <2>1, <2>2, <2>3, <2>4, <2>5, TopIs DEF s
<1> QED
  BY <1>1, <1>2, <1>3

\* var_delete_temp gives the reference back.
LEMMA DisposeSound ==
    ASSUME NEW e, NEW x \in [Matrices -> Nat], NEW v \in Values, NEW O, NEW b,
           Sound(e, Added(x, v), O, b)
    PROVE  /\ Sound(Dispose(e, v), x, O, b)
           /\ Dispose(e, v).list = e.list /\ Dispose(e, v).name = e.name
           /\ Dispose(e, v).this = e.this
<1>1. CASE v = Null
  BY <1>1 DEF Dispose, Added
<1>2. CASE v \in Matrices
  <2>1. v # Null
    BY <1>2, NullIs
  <2>2. Sound(e, Plus(x, v), O, b) /\ Dispose(e, v) = Release(e, v)
    BY <2>1 DEF Dispose, Added
  <2>3. Plus(x, v)[v] = x[v] + 1 /\ x[v] \in Nat /\ Minus(Plus(x, v), v) = x
    BY <1>2, PlusMinus
  <2>4. Plus(x, v)[v] > 0
    BY <2>3
  <2> QED
    BY <1>2, <2>2, <2>3, <2>4, ReleaseSound
<1> QED
  BY <1>1, <1>2 DEF Values

LEMMA DisposeTopSound ==
    ASSUME temps \in Seq(Values), NEW k \in 0 .. 2, Len(temps) >= k,
           NEW x \in [Matrices -> Nat], NEW e, NEW O, NEW b, Sound(e, Owing(x, temps), O, b)
    PROVE  /\ Sound(DisposeTop(e, k), Owing(x, Under(k)), O, b)
           /\ DisposeTop(e, k).list = e.list /\ DisposeTop(e, k).name = e.name
           /\ DisposeTop(e, k).this = e.this
<1>1. CASE k = 0
  BY <1>1, StackIs DEF DisposeTop
<1>2. ASSUME k >= 1
      PROVE  /\ Sound(Dispose(e, Top(1)), Owing(x, Under(1)), O, b)
             /\ Dispose(e, Top(1)).list = e.list /\ Dispose(e, Top(1)).name = e.name
             /\ Dispose(e, Top(1)).this = e.this
  <2>1. Top(1) \in Values /\ temps = Append(Under(1), Top(1)) /\ Under(1) \in Seq(Values)
    <3>1. k = 1 \/ k = 2
      BY <1>2
    <3> QED
      BY <1>2, <3>1, StackIs
  <2>2. Owing(x, temps) = Added(Owing(x, Under(1)), Top(1))
    BY <2>1, OwingAppended
  <2>3. Owing(x, Under(1)) \in [Matrices -> Nat]
    BY <2>1, OwingType
  <2> QED
    BY <2>1, <2>2, <2>3, DisposeSound
<1>3. CASE k = 1
  BY <1>2, <1>3 DEF DisposeTop
<1>4. CASE k = 2
  <2> DEFINE d == Dispose(e, Top(1))
  <2>1. Top(2) \in Values /\ Under(1) = Append(Under(2), Top(2)) /\ Under(2) \in Seq(Values)
    <3>1. 2 \in 0 .. 2 /\ Len(temps) >= 2
      BY <1>4
    <3> QED
      BY <3>1, StackIs, Zenon
  <2>2. Owing(x, Under(1)) = Added(Owing(x, Under(2)), Top(2))
    <3>1. Owing(x, Append(Under(2), Top(2))) = Added(Owing(x, Under(2)), Top(2))
      BY <2>1, OwingAppended, Zenon
    <3> QED
      BY <2>1, <3>1, Zenon
  <2>3. Owing(x, Under(2)) \in [Matrices -> Nat]
    BY <2>1, OwingType
  <2>4. DisposeTop(e, k) = Dispose(d, Top(2))
    BY <1>4 DEF DisposeTop
  <2>5. Sound(d, Owing(x, Under(1)), O, b) /\ d.list = e.list /\ d.name = e.name
        /\ d.this = e.this
    BY <1>2, <1>4
  <2> HIDE DEF d
  <2>6. /\ Sound(Dispose(d, Top(2)), Owing(x, Under(2)), O, b)
        /\ Dispose(d, Top(2)).list = d.list /\ Dispose(d, Top(2)).name = d.name
        /\ Dispose(d, Top(2)).this = d.this
    BY <2>1, <2>2, <2>3, <2>5, DisposeSound
  <2> QED
    BY <1>4, <2>4, <2>5, <2>6
<1> QED
  BY <1>1, <1>3, <1>4

-----------------------------------------------------------------------------
(* The invariant.  The current list and those of the callers have no node  *)
(* in common and hold all that are allocated, and a matrix has the         *)
(* references of its nodes, of the temporaries, and those an error has     *)
(* lost.  What an error leaves, as long as the call has not changed it, is *)
(* the list the call began with: the memory of this call is none of its    *)
(* nodes and none of their matrices, and it is all the rest.               *)

Owed == Owing(lost, temps)

\* The nodes of the lists that will be current again.
Others == UNION {Elements(callers[i].list) : i \in DOMAIN callers}

CallersApart ==
    /\ \A i \in DOMAIN callers : UniqueIn(env, callers[i].list)
    /\ \A i, j \in DOMAIN callers :
          i # j => Elements(callers[i].list) \cap Elements(callers[j].list) = {}

\* The list of the variables of the call itself, not of a function.
Base == IF callers = <<>> THEN env.list ELSE callers[1].list

\* Of the memory of environment e, S is what the nodes of B do not use.
RestIs(e, S, B) ==
    /\ \A n \in Nodes : e.this[n] # Null => (n \in S <=> n \notin B)
    /\ \A n \in B : e.this[n] \notin S

RecentInv ==
    ~ touched => /\ saved = IF Base = <<>> THEN Null ELSE Head(Base)
                 /\ RestIs(env, recent, Elements(Base))

Frames == [list : Seq(Nodes), begin : Nat, floor : Nat]

StateTypes ==
    /\ temps \in Seq(Values) /\ begin \in Nat
    /\ callers \in Seq(Frames)
    /\ recent \subseteq Nodes \cup Matrices
    /\ saved \in Nodes \cup {Null}
    /\ touched \in BOOLEAN
    /\ lost \in [Matrices -> Nat]

MatcInv ==
    /\ Sound(env, Owed, Others, env)
    /\ StateTypes
    /\ CallersApart
    /\ RecentInv

\* The lists of the callers.
LEMMA CallersType ==
    ASSUME StateTypes
    PROVE  /\ Len(callers) \in Nat /\ DOMAIN callers = 1 .. Len(callers)
           /\ callers = <<>> <=> Len(callers) = 0
           /\ \A i \in DOMAIN callers :
                 /\ callers[i].list \in Seq(Nodes)
                 /\ callers[i].begin \in Nat /\ callers[i].floor \in Nat
                 /\ Elements(callers[i].list) \subseteq Others
<1>1. callers \in Seq(Frames)
  BY DEF StateTypes
<1>2. Len(callers) \in Nat /\ DOMAIN callers = 1 .. Len(callers)
  BY <1>1, ElementsType
<1>3. callers = <<>> <=> Len(callers) = 0
  BY <1>1
<1>4. ASSUME NEW i \in DOMAIN callers
      PROVE  /\ callers[i].list \in Seq(Nodes)
             /\ callers[i].begin \in Nat /\ callers[i].floor \in Nat
  <2>1. callers[i] \in Frames
    BY <1>1, <1>2, <1>4
  <2> QED
    BY <2>1 DEF Frames
<1>5. \A i \in DOMAIN callers : Elements(callers[i].list) \subseteq Others
  BY DEF Others
<1> QED
  BY <1>2, <1>3, <1>4, <1>5

\* Every action but an error leaves the lost references as they are.
LEMMA BecomesSound ==
    ASSUME NEW e, NEW O, lost \in [Matrices -> Nat], temps' \in Seq(Values),
           Sound(e, Owing(lost, temps'), O, env), Becomes(e)
    PROVE  /\ env' = e /\ lost' = lost /\ Owed' = Owing(lost, temps') /\ Sound(e, Owed', O, e)
           /\ recent' = Allocated(e) \ (Allocated(env) \ recent)
           /\ recent' \subseteq Nodes \cup Matrices
<1> DEFINE x == Owing(lost, temps')
<1>1. \A m \in Matrices : e.content[m] = Null => x[m] = 0
  BY DEF Sound, Counted, Balance
<1>2. \A m \in Matrices : /\ x[m] = lost[m] + Held(temps', m)
                          /\ lost[m] \in Nat /\ Held(temps', m) \in Nat
  <2>1. Null \in Values
    BY DEF Values
  <2>2. \A m \in Matrices : Held(temps', m) \in Nat
    BY <2>1, HeldAppended
  <2> QED
    BY <2>2 DEF Owing
<1> HIDE DEF x
<1>3. \A m \in Matrices : e.content[m] = Null => lost[m] = 0
  BY <1>1, <1>2
<1>4. lost' = [m \in Matrices |-> IF e.content[m] = Null THEN 0 ELSE lost[m]]
  BY DEF Becomes
<1>5. lost' = lost
  BY <1>3, <1>4
<1>6. Owed' = x
  BY <1>5 DEF Owed, Owing, x
<1>7. Sound(e, x, O, e)
  BY DEF Sound, Kept, x
<1> QED
  BY <1>5, <1>6, <1>7 DEF Becomes, Allocated, x

\* What the list of the call uses stays apart from what the call has allocated.
LEMMA RestKept ==
    ASSUME NEW e, NEW y, NEW P, Sound(env, y, P, env),
           NEW B, B \subseteq Elements(env.list) \cup P, Kept(env, e, B),
           NEW S, RestIs(env, S, B)
    PROVE  RestIs(e, Allocated(e) \ (Allocated(env) \ S), B)
<1> DEFINE T == Allocated(e) \ (Allocated(env) \ S)
<1>1. Nodes \cap Matrices = {}
  BY FiniteMemory
<1>2. \A n \in Nodes : n \in Allocated(e) <=> e.this[n] # Null
  BY <1>1 DEF Allocated
<1>3. \A n \in Nodes : n \in Allocated(env) <=> env.this[n] # Null
  BY <1>1 DEF Allocated
<1>4. ASSUME NEW n \in B
      PROVE  /\ n \in Nodes /\ e.this[n] = env.this[n] /\ env.this[n] # Null
             /\ env.this[n] \in Matrices /\ env.content[env.this[n]] # Null
  <2>1. n \in Elements(env.list) \cup P
    OBVIOUS
  <2>2. n \in Nodes /\ env.this[n] \in Matrices /\ env.content[env.this[n]] # Null
    BY <2>1, FoundUsed
  <2> QED
    BY <2>2, NullIs DEF Kept
<1>5. ASSUME NEW n \in Nodes, e.this[n] # Null PROVE n \in T <=> n \notin B
  BY <1>2, <1>3, <1>4, <1>5 DEF RestIs
<1>6. ASSUME NEW n \in B PROVE e.this[n] \notin T
  <2>1. env.this[n] \in Allocated(env)
    BY <1>4 DEF Allocated
  <2> QED
    BY <1>4, <2>1 DEF RestIs
<1> QED
  BY <1>5, <1>6 DEF RestIs

\* A list of another function stays as it is.
LEMMA UniqueKept ==
    ASSUME NEW e, NEW O, Kept(env, e, O), NEW s \in Seq(Nodes), Elements(s) \subseteq O,
           UniqueIn(env, s)
    PROVE  UniqueIn(e, s)
BY ElementsType DEF Kept, UniqueIn

LEMMA CallersKept ==
    ASSUME StateTypes, CallersApart, NEW e, NEW x, Sound(e, x, Others, env)
    PROVE  \A i \in DOMAIN callers : UniqueIn(e, callers[i].list)
<1> SUFFICES ASSUME NEW i \in DOMAIN callers PROVE UniqueIn(e, callers[i].list)
  OBVIOUS
<1>1. callers[i].list \in Seq(Nodes) /\ Elements(callers[i].list) \subseteq Others
  BY CallersType
<1>2. UniqueIn(env, callers[i].list) /\ Kept(env, e, Others)
  BY DEF CallersApart, Sound
<1> QED
  BY <1>1, <1>2, UniqueKept

\* The list of the call, in any state.
LEMMA BaseIs ==
    ASSUME MatcInv
    PROVE  /\ Base \in Seq(Nodes) /\ UniqueIn(env, Base)
           /\ Elements(Base) \subseteq Elements(env.list) \cup Others
           /\ callers # <<>> => Elements(Base) \subseteq Others
<1>1. env.list \in Seq(Nodes) /\ UniqueIn(env, env.list)
  BY DEF MatcInv, Sound, Env, Listed
<1>2. CASE callers = <<>>
  BY <1>1, <1>2 DEF Base
<1>3. CASE callers # <<>>
  <2>1. /\ Len(callers) \in Nat /\ DOMAIN callers = 1 .. Len(callers) /\ Len(callers) # 0
        /\ \A i \in DOMAIN callers :
              callers[i].list \in Seq(Nodes) /\ Elements(callers[i].list) \subseteq Others
    BY <1>3, CallersType DEF MatcInv
  <2>2. 1 \in DOMAIN callers
    BY <2>1
  <2> QED
    BY <1>3, <2>1, <2>2 DEF Base, MatcInv, CallersApart
<1> QED
  BY <1>2, <1>3

\* A step that leaves a sound environment, with the lists of the callers.
LEMMA StepSound ==
    ASSUME MatcInv, NEW e, Becomes(e), temps' \in Seq(Values), begin' \in Nat,
           Sound(e, Owing(lost, temps'), Others, env),
           callers' = callers, saved' = saved, touched' \in BOOLEAN,
           ~ touched' => ~ touched /\ Base' = Base /\ Kept(env, e, Elements(Base))
    PROVE  MatcInv'
<1>1. lost \in [Matrices -> Nat]
  BY DEF MatcInv, StateTypes
<1>2. /\ env' = e /\ lost' = lost /\ Sound(e, Owed', Others, e)
      /\ recent' = Allocated(e) \ (Allocated(env) \ recent)
      /\ recent' \subseteq Nodes \cup Matrices
  BY <1>1, BecomesSound
<1>3. Others' = Others
  BY DEF Others
<1>4. Sound(env, Owed, Others, env)'
  BY <1>2, <1>3
<1>5. StateTypes'
  BY <1>1, <1>2 DEF StateTypes, MatcInv
<1>6. CallersApart'
  <2>1. \A i \in DOMAIN callers : UniqueIn(e, callers[i].list)
    BY CallersKept DEF MatcInv
  <2> QED
    BY <1>2, <2>1 DEF CallersApart, MatcInv
<1>7. RecentInv'
  <2> SUFFICES ASSUME ~ touched'
               PROVE  /\ saved' = IF Base' = <<>> THEN Null ELSE Head(Base')
                      /\ RestIs(env', recent', Elements(Base'))
    BY DEF RecentInv
  <2>1. /\ RestIs(env, recent, Elements(Base)) /\ Sound(env, Owed, Others, env)
        /\ saved = IF Base = <<>> THEN Null ELSE Head(Base)
    BY DEF MatcInv, RecentInv
  <2>2. RestIs(e, recent', Elements(Base))
    BY <1>2, <2>1, BaseIs, RestKept
  <2> QED
    BY <1>2, <2>1, <2>2
<1> QED
  BY <1>4, <1>5, <1>6, <1>7 DEF MatcInv

\* Nothing but the first temporary of the statement changes.
LEMMA SameSound ==
    ASSUME MatcInv, UNCHANGED <<env, temps, callers, recent, saved, touched, lost>>,
           begin' \in Nat
    PROVE  MatcInv'
BY DEF MatcInv, StateTypes, CallersApart, RecentInv, Base, Others, Owed

\* A step of an expression.  It may end variables when it counts as a change of the
\* list, or inside a function.
LEMMA LeaveSound ==
    ASSUME MatcInv, NEW e, NEW k \in 0 .. 2, NEW m \in Values, Leave(e, k, m),
           Sound(e, Added(Owed, m), Others, env), touched' \in BOOLEAN,
           ~ touched' => ~ touched,
           \/ ~ touched' => callers # <<>>
           \/ e.list = env.list /\ e.name = env.name /\ e.this = env.this
    PROVE  MatcInv'
<1> DEFINE d == DisposeTop(e, k)
<1>1. /\ Len(temps) >= begin + k /\ Becomes(d) /\ temps' = Append(Under(k), m)
      /\ begin' = begin /\ callers' = callers /\ saved' = saved
  BY DEF Leave, Evaluated
<1>2. temps \in Seq(Values) /\ begin \in Nat /\ lost \in [Matrices -> Nat] /\ Len(temps) \in Nat
  BY DEF MatcInv, StateTypes
<1>3. Len(temps) >= k
  BY <1>1, <1>2
<1>4. Under(k) \in Seq(Values)
  BY <1>2, <1>3, StackIs
<1>5. Added(lost, m) \in [Matrices -> Nat]
  BY <1>2, AddedIs
<1>6. Added(Owed, m) = Owing(Added(lost, m), temps)
  BY <1>2, OwingAppended DEF Owed
<1>7. /\ Sound(d, Owing(Added(lost, m), Under(k)), Others, env)
      /\ d.list = e.list /\ d.name = e.name /\ d.this = e.this
  BY <1>2, <1>3, <1>5, <1>6, DisposeTopSound
<1>8. Owing(lost, temps') = Owing(Added(lost, m), Under(k))
  BY <1>1, <1>2, <1>4, OwingAppended
<1>9. temps' \in Seq(Values)
  BY <1>1, <1>4
<1> HIDE DEF d
<1>10. Kept(env, d, Others) /\ env' = d
  BY <1>1, <1>7 DEF Sound, Becomes
<1>11. ASSUME ~ touched'
       PROVE  Base' = Base /\ Kept(env, d, Elements(Base))
  <2>1. CASE callers # <<>>
    BY <1>1, <1>10, <2>1, BaseIs DEF Base, Kept
  <2>2. CASE e.list = env.list /\ e.name = env.name /\ e.this = env.this
    BY <1>1, <1>7, <1>10, <2>2 DEF Base, Kept
  <2> QED
    BY <1>11, <2>1, <2>2
<1> QED
  BY <1>1, <1>2, <1>7, <1>8, <1>9, <1>11, StepSound

\* The end of a statement, outside a function a change of the list.
LEMMA StatementSound ==
    ASSUME MatcInv, NEW e, NEW k \in 0 .. 2, Len(temps) >= k,
           Sound(e, Owing(lost, Under(k)), Others, env), Statement(e, k)
    PROVE  MatcInv'
<1>1. /\ Becomes(e) /\ temps' = Under(k) /\ touched' = (touched \/ callers = <<>>)
      /\ begin' = begin /\ callers' = callers /\ saved' = saved
  BY DEF Statement
<1>2. temps \in Seq(Values) /\ begin \in Nat /\ touched \in BOOLEAN
  BY DEF MatcInv, StateTypes
<1>3. temps' \in Seq(Values) /\ touched' \in BOOLEAN
  BY <1>1, <1>2, StackIs
<1>4. ASSUME ~ touched'
      PROVE  ~ touched /\ Base' = Base /\ Kept(env, e, Elements(Base))
  <2>1. ~ touched /\ callers # <<>> /\ Kept(env, e, Others)
    BY <1>1, <1>4 DEF Sound
  <2> QED
    BY <1>1, <2>1, BaseIs DEF Base, Kept
<1> QED
  BY <1>1, <1>2, <1>3, <1>4, StepSound

\* A step finds room in the memory.
LEMMA RoomIs ==
    ASSUME NEW p \in Nat, NEW q \in Nat, Room(p, q)
    PROVE  /\ p >= 1 => FreeNode(env)
           /\ q >= 1 => FreeMatrix(env)
           /\ p >= 2 => \A n : \E k \in Nodes : env.this[k] = Null /\ k # n
           /\ q >= 2 => \A n : \E k \in Matrices : env.content[k] = Null /\ k # n
<1> DEFINE S == {n \in Nodes : env.this[n] = Null}
           T == {m \in Matrices : env.content[m] = Null}
<1>1. Cardinality(S) >= p /\ Cardinality(T) >= q
  BY DEF Room
<1>2. Cardinality({}) = 0 /\ \A n : Cardinality({n}) = 1 /\ IsFiniteSet({n})
  BY FS_EmptySet, FS_Singleton
<1>3. ASSUME NEW U, IsFiniteSet(U), NEW n, U \subseteq {n} PROVE Cardinality(U) <= 1
  <2>1. Cardinality(U) <= Cardinality({n})
    BY <1>2, <1>3, FS_Subset
  <2> QED
    BY <1>2, <2>1
<1>4. IsFiniteSet(S) /\ IsFiniteSet(T)
  <2>1. S \in SUBSET Nodes /\ T \in SUBSET Matrices
    OBVIOUS
  <2> QED
    BY <2>1, FiniteMemory, FS_Subset
<1>5. Cardinality(S) \in Nat /\ Cardinality(T) \in Nat
  BY <1>4, FS_CardinalityType
<1>6. p >= 1 => S # {}
  BY <1>1, <1>2, <1>5
<1>7. q >= 1 => T # {}
  BY <1>1, <1>2, <1>5
<1>8. ASSUME p >= 2, NEW n PROVE \E k \in S : k # n
  <2>1. ~ (Cardinality(S) <= 1)
    BY <1>1, <1>5, <1>8
  <2>2. ~ (S \subseteq {n})
    BY <1>3, <1>4, <2>1
  <2> QED
    BY <2>2
<1>9. ASSUME q >= 2, NEW n PROVE \E k \in T : k # n
  <2>1. ~ (Cardinality(T) <= 1)
    BY <1>1, <1>5, <1>9
  <2>2. ~ (T \subseteq {n})
    BY <1>3, <1>4, <2>1
  <2> QED
    BY <2>2
<1> QED
  BY <1>6, <1>7, <1>8, <1>9 DEF FreeNode, FreeMatrix

-----------------------------------------------------------------------------
(* Expressions and statements. *)

\* The matrix of a variable.
LEMMA MatrixIs ==
    ASSUME MatcInv, NEW q \in Names, Defined(env, q)
    PROVE  /\ Matrix(q) \in Matrices /\ env.content[Matrix(q)] \in Contents
           /\ env.content[Matrix(q)] # Null
<1>1. Find(env, q) \in Elements(env.list)
  BY FindIs DEF MatcInv, Sound
<1> QED
  BY <1>1, FoundUsed DEF MatcInv, Matrix

\* What the sum of the references is without the top.
LEMMA OwedIs ==
    ASSUME MatcInv
    PROVE  /\ lost \in [Matrices -> Nat] /\ Owed \in [Matrices -> Nat]
           /\ temps \in Seq(Values) /\ Len(temps) \in Nat /\ begin \in Nat
           /\ Len(temps) >= 1 =>
                /\ Under(1) \in Seq(Values) /\ Top(1) \in Values
                /\ Owing(lost, Under(1)) \in [Matrices -> Nat]
                /\ Owed = Added(Owing(lost, Under(1)), Top(1))
<1>1. lost \in [Matrices -> Nat] /\ temps \in Seq(Values) /\ begin \in Nat
  BY DEF MatcInv, StateTypes
<1>2. Len(temps) \in Nat /\ Owed \in [Matrices -> Nat]
  BY <1>1, OwingType DEF Owed
<1>3. ASSUME Len(temps) >= 1
      PROVE  /\ Under(1) \in Seq(Values) /\ Top(1) \in Values /\ temps = Append(Under(1), Top(1))
  <2>1. 1 \in 0 .. 2
    OBVIOUS
  <2> QED
    BY <1>1, <1>3, <2>1, StackIs
<1>4. ASSUME Len(temps) >= 1
      PROVE  /\ Owing(lost, Under(1)) \in [Matrices -> Nat]
             /\ Owed = Added(Owing(lost, Under(1)), Top(1))
  <2>1. Owing(lost, Append(Under(1), Top(1))) = Added(Owing(lost, Under(1)), Top(1))
    BY <1>1, <1>3, <1>4, OwingAppended
  <2> QED
    BY <1>1, <1>3, <1>4, <2>1, OwingType DEF Owed
<1> QED
  BY <1>1, <1>2, <1>3, <1>4

LEMMA ComputeSound ==
    ASSUME MatcInv, NEW k \in 0 .. 2, NEW c \in Contents \cup {Null}, Compute(k, c)
    PROVE  MatcInv'
<1>1. touched' = touched /\ touched \in BOOLEAN /\ Sound(env, Owed, Others, env)
  BY DEF Compute, MatcInv, StateTypes
<1>2. Null \in Values /\ Matrices \subseteq Values
  BY DEF Values
<1>3. CASE c = Null
  <2>1. Leave(env, k, Null)
    BY <1>3 DEF Compute
  <2>2. Added(Owed, Null) = Owed
    BY DEF Added
  <2> QED
    BY <1>1, <1>2, <2>1, <2>2, LeaveSound
<1>4. CASE c # Null
  <2> DEFINE m == NewMatrix(env)
             e == Create(env, m, c)
  <2>1. Room(0, 1) /\ Leave(e, k, m)
    BY <1>4 DEF Compute
  <2>2. FreeMatrix(env)
    BY <2>1, RoomIs
  <2>3. m \in Matrices /\ env.content[m] = Null
    BY <2>2, NewIs
  <2> HIDE DEF m
  <2>4. Sound(e, Plus(Owed, m), Others, env) /\ HasCreated(e, env, m, c)
    BY <1>1, <1>4, <2>3, CreateSound
  <2>5. Added(Owed, m) = Plus(Owed, m)
    BY <2>3, NullIs DEF Added
  <2>6. e.list = env.list /\ e.name = env.name /\ e.this = env.this
    BY <2>4 DEF HasCreated
  <2> HIDE DEF e
  <2> QED
    BY <1>1, <1>2, <2>1, <2>3, <2>4, <2>5, <2>6, LeaveSound
<1> QED
  BY <1>3, <1>4

LEMMA ReadSound ==
    ASSUME MatcInv, NEW q \in Names, Read(q)
    PROVE  MatcInv'
<1> DEFINE m == Matrix(q)
           e == Hold(env, m)
<1>1. Leave(e, 0, m) /\ m \in Matrices /\ env.content[m] # Null /\ touched' = touched
  BY MatrixIs DEF Read
<1>2. touched \in BOOLEAN /\ Sound(env, Owed, Others, env)
  BY DEF MatcInv, StateTypes
<1> HIDE DEF m
<1>3. /\ Sound(e, Plus(Owed, m), Others, env)
      /\ e.list = env.list /\ e.name = env.name /\ e.this = env.this
  BY <1>1, <1>2, HoldSound
<1>4. Added(Owed, m) = Plus(Owed, m) /\ m \in Values /\ 0 \in 0 .. 2
  BY <1>1, NullIs DEF Added, Values
<1> HIDE DEF e
<1> QED
  BY <1>1, <1>2, <1>3, <1>4, LeaveSound

\* The built-in functions that end variables.
LEMMA EndSound ==
    ASSUME MatcInv, NEW e, NEW k \in 0 .. 2, Leave(e, k, Null),
           Sound(e, Owed, Others, env), touched' = (touched \/ callers = <<>>)
    PROVE  MatcInv'
<1>1. touched \in BOOLEAN /\ Null \in Values /\ Added(Owed, Null) = Owed
  BY DEF MatcInv, StateTypes, Values, Added
<1> QED
  BY <1>1, LeaveSound

LEMMA DeleteVariableSound ==
    ASSUME MatcInv, NEW q \in Names, DeleteVariable(q)
    PROVE  MatcInv'
<1>1. Sound(env, Owed, Others, env)
  BY DEF MatcInv
<1>2. Sound(Delete(env, q), Owed, Others, env)
  BY <1>1, DeleteSound
<1>3. Leave(Delete(env, q), 1, Null) /\ touched' = (touched \/ callers = <<>>) /\ 1 \in 0 .. 2
  BY DEF DeleteVariable
<1> QED
  BY <1>2, <1>3, EndSound

LEMMA ClearSound ==
    ASSUME MatcInv, Clear
    PROVE  MatcInv'
<1>1. Sound(env, Owed, Others, env)
  BY DEF MatcInv
<1>2. Sound(Free(env), Owed, Others, env)
  BY <1>1, FreeSound
<1>3. Leave(Free(env), 0, Null) /\ touched' = (touched \/ callers = <<>>) /\ 0 \in 0 .. 2
  BY DEF Clear
<1> QED
  BY <1>2, <1>3, EndSound

LEMMA AssignSound ==
    ASSUME MatcInv, NEW r \in Names, Assign(r)
    PROVE  MatcInv'
<1> DEFINE m == Top(1)
           x == Owing(lost, Under(1))
<1>1. Len(temps) >= 1 /\ 1 \in 0 .. 2
  <2>1. Len(temps) = begin + 1
    BY DEF Assign
  <2> QED
    BY <2>1, OwedIs
<1>2. x \in [Matrices -> Nat] /\ m \in Values /\ Sound(env, Added(x, m), Others, env)
  BY <1>1, OwedIs DEF MatcInv
<1>3. CASE m = Null
  <2>1. Statement(Delete(env, Ans), 1)
    BY <1>3 DEF Assign
  <2>2. Added(x, m) = x
    BY <1>3 DEF Added
  <2>3. Sound(Delete(env, Ans), x, Others, env)
    BY <1>2, <2>2, DeleteSound, FunctionNames
  <2> QED
    BY <1>1, <2>1, <2>3, StatementSound
<1>4. CASE m # Null
  <2>1. Room(1, 1) /\ Statement(PutResult(env, m, r), 1)
    BY <1>4 DEF Assign
  <2>2. FreeNode(env) /\ FreeMatrix(env)
    BY <2>1, RoomIs
  <2>3. m \in Matrices
    BY <1>2, <1>4 DEF Values
  <2> HIDE DEF m, x
  <2>4. Sound(env, Plus(x, m), Others, env)
    BY <1>2, <1>4 DEF Added
  <2>5. Plus(x, m)[m] > 0 /\ Minus(Plus(x, m), m) = x
    <3>1. Plus(x, m)[m] = x[m] + 1 /\ x[m] \in Nat
      BY <1>2, <2>3, PlusMinus
    <3> QED
      BY <1>2, <2>3, <3>1, PlusMinus
  <2>6. Sound(PutResult(env, m, r), Minus(Plus(x, m), m), Others, env)
    BY <2>2, <2>3, <2>4, <2>5, PutResultSound
  <2> QED
    BY <1>1, <2>1, <2>5, <2>6, StatementSound DEF x
<1> QED
  BY <1>3, <1>4

LEMMA AssignElementsSound ==
    ASSUME ~ IndexShared, MatcInv, NEW r \in Names, NEW c \in Contents,
           NEW masked \in BOOLEAN, AssignElements(r, c, masked)
    PROVE  MatcInv'
<1> DEFINE e == Delete(env, Ans)
           d == PutValues(e, r, c, masked)
<1>1. FreeNode(env) /\ FreeMatrix(env)
  <2>1. Room(1, 1)
    BY DEF AssignElements
  <2> QED
    BY <2>1, RoomIs
<1>2. Statement(DisposeTop(d, 2), 2)
  BY DEF AssignElements
<1>3. Sound(env, Owed, Others, env)
  BY DEF MatcInv
<1>4. /\ Sound(e, Owed, Others, env) /\ ~ Defined(e, Ans) /\ Ended(env, e)
      /\ Elements(e.list) = {n \in Elements(env.list) : env.name[n] # Ans}
      /\ \A n \in Elements(e.list) : e.name[n] = env.name[n] /\ e.this[n] = env.this[n]
  BY <1>3, DeleteSound, FunctionNames
<1> HIDE DEF e
<1>5. env \in Env /\ e \in Env /\ UniqueIn(env, env.list)
  BY <1>3, <1>4 DEF Sound, Listed
<1>6. FreeNode(e) /\ FreeMatrix(e)
  BY <1>1, <1>4, <1>5, EndedFree
<1>7. ASSUME Defined(e, r)
      PROVE  LET old == e.this[Find(e, r)] IN
             \/ Size[c] > Size[e.content[old]]
             \/ Size[c] = Size[e.content[old]] /\ e.refcnt[old] <= 1
  <2> DEFINE v   == Find(e, r)
             old == e.this[v]
  <2>1. v \in Elements(e.list) /\ e.name[v] = r
    BY <1>5, <1>7, FindIs
  <2>2. v \in Elements(env.list) /\ env.name[v] = r /\ e.this[v] = env.this[v]
    BY <1>4, <2>1
  <2>3. Defined(env, r)
    BY <2>2, DefinedIs
  <2>4. v = Find(env, r)
    BY <1>5, <2>2, <2>3, FindIs
  <2>5. Matrix(r) = old
    BY <2>2, <2>4 DEF Matrix
  <2>6. /\ Size[c] >= Size[env.content[old]]
        /\ Size[c] = Size[env.content[old]] => env.refcnt[old] = 1
    BY <2>3, <2>5 DEF AssignElements
  <2> HIDE DEF v
  <2>7. old \in Matrices /\ e.content[old] \in Contents /\ e.content[old] # Null
    BY <1>4, <2>1, FoundUsed
  <2>8. e.content[old] = env.content[old] /\ e.refcnt[old] <= env.refcnt[old]
    BY <1>4, <2>7 DEF Ended
  <2>9. Size[c] \in Nat /\ Size[e.content[old]] \in Nat
    BY <2>7, SizesAreNumbers
  <2> HIDE DEF old
  <2>10. \/ Size[c] > Size[e.content[old]]
         \/ Size[c] = Size[e.content[old]] /\ e.refcnt[old] <= 1
    BY <2>6, <2>8, <2>9
  <2> QED
    BY <2>10 DEF old, v
<1>8. Sound(d, Owed, Others, env)
  BY <1>4, <1>6, <1>7, PutValuesSound
<1> HIDE DEF d
<1>9. Len(temps) >= 2 /\ 2 \in 0 .. 2
  <2>1. Len(temps) = begin + 2
    BY DEF AssignElements
  <2> QED
    BY <2>1, OwedIs
<1>10. Sound(DisposeTop(d, 2), Owing(lost, Under(2)), Others, env)
  BY <1>8, <1>9, OwedIs, DisposeTopSound DEF Owed
<1> QED
  BY <1>2, <1>9, <1>10, StatementSound

LEMMA BlockSound ==
    ASSUME MatcInv, BeginBlock \/ EndBlock
    PROVE  MatcInv'
<1>1. CASE BeginBlock
  <2>1. /\ UNCHANGED <<env, temps, callers, recent, saved, touched, lost>>
        /\ begin' = begin + 1
    BY <1>1 DEF BeginBlock
  <2>2. begin' \in Nat
    BY <2>1, OwedIs
  <2> QED
    BY <2>1, <2>2, SameSound
<1>2. CASE EndBlock
  <2> DEFINE d == DisposeTop(env, 1)
  <2>1. /\ Len(temps) = begin /\ begin > Floor /\ Becomes(d)
        /\ temps' = Under(1) /\ begin' = begin - 1
        /\ callers' = callers /\ saved' = saved /\ touched' = touched
    BY <1>2 DEF EndBlock
  <2>2. Floor \in Nat
    <3>1. CASE callers = <<>>
      BY <3>1 DEF Floor
    <3>2. CASE callers # <<>>
      <4>1. Len(callers) \in DOMAIN callers
        BY <3>2, CallersType DEF MatcInv
      <4> QED
        BY <3>2, <4>1, CallersType DEF MatcInv, Floor
    <3> QED
      BY <3>1, <3>2
  <2>3. Len(temps) >= 1 /\ begin' \in Nat /\ 1 \in 0 .. 2
    BY <2>1, <2>2, OwedIs
  <2>4. temps' \in Seq(Values) /\ touched' \in BOOLEAN
    BY <2>1, <2>3, OwedIs DEF MatcInv, StateTypes
  <2>5. Sound(env, Owing(lost, temps), Others, env)
    BY DEF MatcInv, Owed
  <2>6. /\ Sound(d, Owing(lost, temps'), Others, env)
        /\ d.list = env.list /\ d.name = env.name /\ d.this = env.this
    BY <2>1, <2>3, <2>5, OwedIs, DisposeTopSound
  <2> HIDE DEF d
  <2>7. Base' = Base /\ Kept(env, d, Elements(Base))
    BY <2>1, <2>6 DEF Becomes, Base, Kept
  <2> QED
    BY <2>1, <2>3, <2>4, <2>6, <2>7, StepSound
<1> QED
  BY <1>1, <1>2

LEMMA NewCallSound ==
    ASSUME MatcInv, NewCall
    PROVE  MatcInv'
<1>1. /\ callers = <<>> /\ recent' = {} /\ touched' = FALSE
      /\ saved' = IF env.list = <<>> THEN Null ELSE Head(env.list)
      /\ env' = env /\ temps' = temps /\ begin' = begin
      /\ callers' = callers /\ lost' = lost
  BY DEF NewCall
<1>2. Others' = Others /\ Others = {}
  BY <1>1, CallersType DEF Others, MatcInv
<1>3. Sound(env, Owed, Others, env)
  BY DEF MatcInv
<1>4. Sound(env, Owed, Others, env)'
  BY <1>1, <1>2, <1>3 DEF Owed
<1>5. env.list \in Seq(Nodes)
  BY <1>3 DEF Sound, Env
<1>6. StateTypes'
  <2>1. env.list # <<>> => Head(env.list) \in Nodes
    BY <1>5
  <2> QED
    BY <1>1, <2>1 DEF StateTypes, MatcInv
<1>7. CallersApart'
  BY <1>1 DEF CallersApart, MatcInv
<1>8. RestIs(env, {}, Elements(env.list))
  BY <1>2, <1>3 DEF RestIs, Sound, Listed
<1>9. RecentInv'
  BY <1>1, <1>8 DEF RecentInv, Base
<1> QED
  BY <1>4, <1>6, <1>7, <1>9 DEF MatcInv

-----------------------------------------------------------------------------
(* A function begins. *)

\* The caller's list joins the others, and the temporary of the argument becomes
\* the parameter.
LEMMA ParamSound ==
    ASSUME NEW x \in [Matrices -> Nat], NEW m \in Values, Sound(env, Added(x, m), Others, env),
           FreeNode(env)
    PROVE  LET f == WithList(env, <<>>)
               g == WithParam(f, m)
           IN  /\ Sound(g, x, Others \cup Elements(env.list), env)
               /\ g.content = env.content
               /\ m = Null => g.list = <<>> /\ g.this = env.this
               /\ m # Null => /\ NewNode(f) \in Nodes /\ Elements(g.list) = {NewNode(f)}
                              /\ g.name[NewNode(f)] = Param
                              /\ g.this = [env.this EXCEPT ![NewNode(f)] = m]
<1> DEFINE O == Others \cup Elements(env.list)
           f == WithList(env, <<>>)
           n == NewNode(f)
           g == WithParam(f, m)
           y == Added(x, m)
<1>1. Elements(<<>>) = {} /\ <<>> \in Seq(Nodes) /\ UniqueIn(env, <<>>) /\ Len(<<>>) = 0
  BY DEF Elements, UniqueIn
<1> HIDE DEF y
<1>2. Sound(env, y, Others, env)
  BY DEF y
<1>3. /\ Sound(f, y, (Others \ Elements(<<>>)) \cup Elements(env.list), env)
      /\ f.list = <<>> /\ f.name = env.name /\ f.this = env.this /\ f.content = env.content
  BY <1>1, <1>2, SwitchSound
<1> HIDE DEF f
<1>4. Sound(f, y, O, env)
  BY <1>1, <1>3
<1>5. CASE m = Null
  BY <1>3, <1>4, <1>5 DEF WithParam, Added, y, f
<1>6. CASE m # Null
  <2>1. m \in Matrices /\ y = Plus(x, m) /\ g = AddAt(f, 1, Param, m)
    BY <1>6 DEF Values, Added, WithParam, y
  <2>2. y[m] > 0 /\ Minus(y, m) = x
    <3>1. y[m] = x[m] + 1 /\ x[m] \in Nat
      BY <2>1, PlusMinus
    <3> QED
      BY <2>1, <3>1, PlusMinus
  <2>3. FreeNode(f) /\ ~ Defined(f, Param) /\ 1 \in 1 .. Len(f.list) + 1
    BY <1>1, <1>3 DEF FreeNode, Defined
  <2>4. n \in Nodes /\ f.this[n] = Null
    BY <2>3, NewIs
  <2> HIDE DEF n
  <2>5. Sound(g, x, O, env) /\ HasAdded(g, f, n, Param, m)
    BY <1>4, <2>1, <2>2, <2>3, FunctionNames, AddAtSound DEF n
  <2> HIDE DEF g
  <2>6. f.name \in [Nodes -> Names \cup {Null}]
    BY <1>4 DEF Sound, Env
  <2>7. Elements(g.list) = {n} /\ g.name[n] = Param
    BY <1>1, <1>3, <2>4, <2>5, <2>6 DEF HasAdded
  <2>8. g.content = env.content /\ g.this = [env.this EXCEPT ![n] = m]
    BY <1>3, <2>5 DEF HasAdded
  <2> QED
    BY <1>6, <2>4, <2>5, <2>7, <2>8 DEF f, g, n
<1> QED
  BY <1>5, <1>6

\* The import is a copy of the caller's variable.
LEMMA ImportSound ==
    ASSUME MatcInv, NEW x \in [Matrices -> Nat], NEW m \in Values,
           Sound(env, Added(x, m), Others, env), Room(2, 1)
    PROVE  Sound(WithImport(WithParam(WithList(env, <<>>), m), m), x,
                 Others \cup Elements(env.list), env)
<1> DEFINE O == Others \cup Elements(env.list)
           n == NewNode(WithList(env, <<>>))
           g == WithParam(WithList(env, <<>>), m)
           d == WithImport(g, m)
<1>1. /\ FreeNode(env) /\ FreeMatrix(env)
      /\ \A k : \E j \in Nodes : env.this[j] = Null /\ j # k
  BY RoomIs
<1>2. /\ Sound(g, x, O, env) /\ g.content = env.content
      /\ m = Null => g.list = <<>> /\ g.this = env.this
      /\ m # Null => /\ n \in Nodes /\ Elements(g.list) = {n} /\ g.name[n] = Param
                     /\ g.this = [env.this EXCEPT ![n] = m]
  BY <1>1, ParamSound
<1> HIDE DEF g, n
<1>3. CASE ~ Imports(m)
  BY <1>2, <1>3 DEF WithImport, g
<1>4. CASE Imports(m)
  <2> DEFINE k == NewMatrix(g)
             c == env.content[Matrix(Import)]
             h == Create(g, k, c)
             y == Plus(x, k)
  <2>1. FreeMatrix(g)
    BY <1>1, <1>2 DEF FreeMatrix
  <2>2. k \in Matrices /\ g.content[k] = Null
    BY <2>1, NewIs
  <2>3. c \in Contents
    BY <1>4, MatrixIs, FunctionNames DEF Imports
  <2>4. d = AddByName(h, Import, k)
    BY <1>4 DEF WithImport
  <2> HIDE DEF k, c, d
  <2>5. Sound(h, y, O, env) /\ y[k] > 0 /\ HasCreated(h, g, k, c)
    BY <1>2, <2>2, <2>3, CreateSound
  <2> HIDE DEF h
  <2>6. Import \in Names /\ (m # Null => Import # Param)
    BY <1>4, FunctionNames DEF Imports
  <2>7. h.list = g.list /\ h.name = g.name /\ h.this = g.this
    BY <2>5 DEF HasCreated
  <2>8. ~ Defined(h, Import)
    <3>1. CASE m = Null
      <4>1. Elements(h.list) = {}
        BY <1>2, <2>7, <3>1 DEF Elements
      <4> QED
        BY <4>1, DefinedIs
    <3>2. CASE m # Null
      BY <1>2, <2>6, <2>7, <3>2, DefinedIs
    <3> QED
      BY <3>1, <3>2
  <2>9. FreeNode(h)
    <3>1. CASE m = Null
      BY <1>1, <1>2, <2>7, <3>1 DEF FreeNode
    <3>2. CASE m # Null
      <4>1. PICK j \in Nodes : env.this[j] = Null /\ j # n
        BY <1>1
      <4>2. env.this \in [Nodes -> Matrices \cup {Null}]
        BY DEF MatcInv, Sound, Env
      <4>3. h.this[j] = Null
        BY <1>2, <2>7, <3>2, <4>1, <4>2
      <4> QED
        BY <4>3 DEF FreeNode
    <3> QED
      BY <3>1, <3>2
  <2>10. Sound(d, Minus(y, k), O, env)
    BY <2>2, <2>4, <2>5, <2>6, <2>8, <2>9, AddByNameSound
  <2>11. Minus(y, k) = x
    BY <2>2, PlusMinus
  <2> QED
    BY <2>10, <2>11 DEF d, g
<1> QED
  BY <1>3, <1>4

LEMMA CallSound ==
    ASSUME MatcInv, NEW k \in {0, 1}, Call(k)
    PROVE  MatcInv'
<1> DEFINE m == IF k = 0 THEN Null ELSE Top(1)
           x == Owing(lost, Under(k))
           O == Others \cup Elements(env.list)
           d == WithImport(WithParam(WithList(env, <<>>), m), m)
           v == [list |-> env.list, begin |-> begin, floor |-> Len(Under(k))]
<1>1. /\ Len(temps) >= begin + k /\ Room(2, 1) /\ Becomes(d) /\ temps' = Under(k)
      /\ begin' = Len(temps') /\ callers' = Append(callers, v)
      /\ saved' = saved /\ touched' = touched
  BY DEF Call, Evaluated, WithList
<1>2. /\ Sound(env, Owed, Others, env) /\ lost \in [Matrices -> Nat]
      /\ temps \in Seq(Values) /\ begin \in Nat /\ Len(temps) \in Nat
  BY OwedIs DEF MatcInv
<1>3. Len(temps) >= k /\ k \in 0 .. 2
  BY <1>1, <1>2
<1>4. Under(k) \in Seq(Values) /\ x \in [Matrices -> Nat]
  BY <1>2, <1>3, StackIs, OwingType
<1>5. m \in Values /\ Owed = Added(x, m)
  <2>1. CASE k = 0
    <3>1. Under(k) = temps
      BY <1>2, <1>3, <2>1, StackIs
    <3> QED
      BY <2>1, <3>1 DEF Owed, Added, Values
  <2>2. CASE k = 1
    BY <1>3, <2>2, OwedIs
  <2> QED
    BY <2>1, <2>2
<1> HIDE DEF m, x
<1>6. Sound(d, x, O, env)
  BY <1>1, <1>2, <1>4, <1>5, ImportSound
<1> HIDE DEF d
<1>7. temps' \in Seq(Values) /\ Sound(d, Owing(lost, temps'), O, env)
  BY <1>1, <1>4, <1>6 DEF x
<1>8. /\ env' = d /\ lost' = lost /\ Sound(d, Owed', O, d)
      /\ recent' = Allocated(d) \ (Allocated(env) \ recent)
      /\ recent' \subseteq Nodes \cup Matrices
  BY <1>1, <1>2, <1>7, BecomesSound
<1>9. env.list \in Seq(Nodes)
  BY <1>2 DEF Sound, Env
<1>10. v \in Frames /\ v.list = env.list /\ callers \in Seq(Frames) /\ Len(temps') \in Nat
  <2>1. Len(Under(k)) \in Nat /\ Len(temps') \in Nat
    BY <1>4, <1>7
  <2> QED
    BY <1>2, <1>9, <2>1 DEF Frames, MatcInv, StateTypes
<1> HIDE DEF v
<1>11. StateTypes'
  <2>1. callers' \in Seq(Frames)
    BY <1>1, <1>10
  <2>2. saved' \in Nodes \cup {Null} /\ touched' \in BOOLEAN
    BY <1>1 DEF MatcInv, StateTypes
  <2> QED
    BY <1>1, <1>2, <1>7, <1>8, <1>10, <2>1, <2>2 DEF StateTypes
<1> DEFINE last == Len(callers) + 1
<1>12. /\ Len(callers) \in Nat /\ DOMAIN callers = 1 .. Len(callers)
       /\ callers = <<>> <=> Len(callers) = 0
       /\ \A i \in DOMAIN callers : Elements(callers[i].list) \subseteq Others
       /\ \A i \in DOMAIN callers : callers[i].list \in Seq(Nodes)
  BY CallersType DEF MatcInv
<1>13. /\ DOMAIN callers' = 1 .. last
       /\ \A i \in DOMAIN callers : callers'[i] = callers[i]
       /\ callers'[last].list = env.list
  <2>1. /\ DOMAIN callers' = 1 .. last /\ callers'[last] = v
        /\ \A i \in 1 .. Len(callers) : callers'[i] = callers[i]
    BY <1>1, <1>10
  <2> QED
    BY <1>10, <1>12, <2>1
<1>14. Others' = O
  <2>1. \A i \in DOMAIN callers' : Elements(callers'[i].list) \subseteq O
    <3> SUFFICES ASSUME NEW i \in DOMAIN callers' PROVE Elements(callers'[i].list) \subseteq O
      OBVIOUS
    <3>1. i = last \/ i \in DOMAIN callers
      BY <1>12, <1>13
    <3> QED
      BY <1>12, <1>13, <3>1
  <2>2. \A i \in DOMAIN callers :
          i \in DOMAIN callers' /\ Elements(callers[i].list) = Elements(callers'[i].list)
    BY <1>12, <1>13
  <2>3. last \in DOMAIN callers' /\ Elements(callers'[last].list) = Elements(env.list)
    BY <1>12, <1>13
  <2>4. Others' \subseteq O
    BY <2>1 DEF Others
  <2>5. O \subseteq Others'
    BY <2>2, <2>3 DEF Others
  <2> QED
    BY <2>4, <2>5
<1>15. Sound(env, Owed, Others, env)'
  BY <1>8, <1>14
<1>16. CallersApart'
  <2>1. Kept(env, d, O) /\ UniqueIn(env, env.list) /\ Elements(env.list) \cap Others = {}
    BY <1>2, <1>7 DEF Sound, Listed
  <2>2. ASSUME NEW i \in DOMAIN callers' PROVE UniqueIn(d, callers'[i].list)
    <3>1. CASE i = last
      BY <1>9, <1>13, <2>1, <3>1, UniqueKept
    <3>2. CASE i \in DOMAIN callers
      <4>1. UniqueIn(env, callers[i].list) /\ callers'[i].list = callers[i].list
        BY <1>13, <3>2 DEF MatcInv, CallersApart
      <4>2. callers[i].list \in Seq(Nodes) /\ Elements(callers[i].list) \subseteq O
        BY <1>12, <3>2
      <4> QED
        BY <2>1, <4>1, <4>2, UniqueKept
    <3> QED
      BY <1>12, <1>13, <3>1, <3>2
  <2>3. ASSUME NEW i \in DOMAIN callers', NEW j \in DOMAIN callers', i # j
        PROVE  Elements(callers'[i].list) \cap Elements(callers'[j].list) = {}
    <3>1. (i = last \/ i \in DOMAIN callers) /\ (j = last \/ j \in DOMAIN callers)
      BY <1>12, <1>13
    <3>2. CASE i \in DOMAIN callers /\ j \in DOMAIN callers
      BY <1>13, <2>3, <3>2 DEF MatcInv, CallersApart
    <3>3. CASE i = last /\ j \in DOMAIN callers
      BY <1>12, <1>13, <2>1, <3>3
    <3>4. CASE j = last /\ i \in DOMAIN callers
      BY <1>12, <1>13, <2>1, <3>4
    <3> QED
      BY <2>3, <3>1, <3>2, <3>3, <3>4
  <2> QED
    BY <1>8, <2>2, <2>3 DEF CallersApart
<1>17. RecentInv'
  <2>1. Base' = Base
    <3>1. CASE callers = <<>>
      <4>1. callers' # <<>> /\ callers'[1].list = env.list
        <5>1. last = 1
          BY <1>12, <3>1
        <5>2. 1 \in DOMAIN callers' /\ callers'[1].list = env.list
          BY <1>13, <5>1
        <5>3. callers' # <<>>
          BY <5>2
        <5> QED
          BY <5>2, <5>3
      <4> QED
        BY <3>1, <4>1 DEF Base
    <3>2. CASE callers # <<>>
      <4>1. callers' # <<>> /\ callers'[1] = callers[1]
        BY <1>12, <1>13, <3>2
      <4> QED
        BY <3>2, <4>1 DEF Base
    <3> QED
      BY <3>1, <3>2
  <2>2. Elements(Base) \subseteq Elements(env.list) \cup Others /\ Kept(env, d, Elements(Base))
    BY <1>7, BaseIs DEF Sound, Kept
  <2>3. ASSUME ~ touched'
        PROVE  RestIs(env, recent, Elements(Base)) /\ saved = IF Base = <<>> THEN Null ELSE Head(Base)
    BY <1>1, <2>3 DEF MatcInv, RecentInv
  <2>4. ASSUME ~ touched' PROVE RestIs(d, recent', Elements(Base))
    BY <1>2, <1>8, <2>2, <2>3, <2>4, RestKept
  <2> QED
    BY <1>1, <1>8, <2>1, <2>3, <2>4 DEF RecentInv
<1> QED
  BY <1>11, <1>15, <1>16, <1>17 DEF MatcInv

-----------------------------------------------------------------------------
(* A function ends. *)

\* The lists of the callers below the innermost.
Below == UNION {Elements(callers[i].list) : i \in 1 .. Len(callers) - 1}

LEMMA BelowIs ==
    ASSUME MatcInv, callers # <<>>
    PROVE  /\ Len(callers) \in DOMAIN callers
           /\ callers[Len(callers)].list \in Seq(Nodes) /\ callers[Len(callers)].begin \in Nat
           /\ Elements(callers[Len(callers)].list) \subseteq Others
           /\ Below = Others \ Elements(callers[Len(callers)].list)
<1>1. /\ Len(callers) \in Nat /\ DOMAIN callers = 1 .. Len(callers) /\ Len(callers) # 0
      /\ \A i \in DOMAIN callers :
            /\ callers[i].list \in Seq(Nodes) /\ callers[i].begin \in Nat
            /\ Elements(callers[i].list) \subseteq Others
  BY CallersType DEF MatcInv
<1> DEFINE last == Len(callers)
           L    == Elements(callers[last].list)
<1>2. last \in DOMAIN callers
  BY <1>1
<1>3. Below \subseteq Others \ L
  <2> SUFFICES ASSUME NEW i \in 1 .. Len(callers) - 1
               PROVE  Elements(callers[i].list) \subseteq Others \ L
    BY DEF Below
  <2>1. i \in DOMAIN callers /\ i # last
    <3>1. \A k \in Nat : \A j \in 1 .. k - 1 : j \in 1 .. k /\ j # k
      OBVIOUS
    <3> QED
      BY <1>1, <3>1, Zenon
  <2>2. Elements(callers[i].list) \cap L = {}
    BY <1>2, <2>1 DEF MatcInv, CallersApart
  <2> QED
    BY <1>1, <2>1, <2>2
<1>4. Others \ L \subseteq Below
  <2> SUFFICES ASSUME NEW n \in Others \ L PROVE n \in Below
    OBVIOUS
  <2>1. PICK i \in DOMAIN callers : n \in Elements(callers[i].list)
    BY DEF Others
  <2>2. i # last
    BY <2>1
  <2>3. i \in 1 .. Len(callers) - 1
    BY <1>1, <2>1, <2>2
  <2> QED
    BY <2>1, <2>3 DEF Below
<1> QED
  BY <1>1, <1>2, <1>3, <1>4

\* The exported variable is one of the caller's list.
LEMMA ExportSound ==
    ASSUME MatcInv, NEW list \in Seq(Nodes), Elements(list) \subseteq Others,
           UniqueIn(env, list), Exports => FreeNode(env)
    PROVE  /\ Sound(ExportTo(list), Owed, (Others \ Elements(list)) \cup Elements(env.list), env)
           /\ ~ Exports => ExportTo(list) = WithList(env, list)
<1> DEFINE O == (Others \ Elements(list)) \cup Elements(env.list)
<1>1. Sound(env, Owed, Others, env) /\ Owed \in [Matrices -> Nat]
  BY OwedIs DEF MatcInv
<1>2. CASE ~ Exports
  <2>1. ExportTo(list) = WithList(env, list)
    BY <1>2 DEF ExportTo, WithList
  <2>2. Sound(WithList(env, list), Owed, O, env)
    BY <1>1, SwitchSound, ZenonT(30)
  <2> QED
    BY <1>2, <2>1, <2>2
<1>3. CASE Exports
  <2> DEFINE m == Matrix(Export)
             y == Plus(Owed, m)
             h == Hold(env, m)
             w == WithList(h, list)
             g == Delete(w, Export)
  <2>1. Export \in Names /\ m \in Matrices /\ env.content[m] # Null
    BY <1>3, MatrixIs, FunctionNames DEF Exports
  <2>2. ExportTo(list) = AddByName(g, Export, m)
    BY <1>3 DEF ExportTo, WithList
  <2> HIDE DEF m
  <2>3. /\ Sound(h, y, Others, env) /\ y[m] > 0
        /\ h.list = env.list /\ h.this = env.this /\ h.name = env.name /\ h.content = env.content
    BY <1>1, <2>1, HoldSound
  <2>4. Minus(y, m) = Owed
    BY <1>1, <2>1, PlusMinus
  <2> HIDE DEF y, h
  <2>5. UniqueIn(h, list)
    BY <2>3 DEF UniqueIn
  <2>6. /\ Sound(w, y, O, h) /\ w.this = h.this /\ w.content = h.content
    BY <2>3, <2>5, SwitchSound
  <2> HIDE DEF w
  <2>7. Sound(w, y, O, env)
    BY <2>3, <2>6, KeptSame, KeptVia
  <2>8. FreeNode(w)
    BY <1>3, <2>3, <2>6 DEF FreeNode
  <2>9. Sound(g, y, O, env) /\ ~ Defined(g, Export) /\ Ended(w, g)
    BY <2>1, <2>7, DeleteSound
  <2> HIDE DEF g, O
  <2>10. FreeNode(g)
    BY <2>7, <2>8, <2>9, EndedFree DEF Sound
  <2>11. Sound(AddByName(g, Export, m), Minus(y, m), O, env)
    BY <2>1, <2>3, <2>9, <2>10, AddByNameSound
  <2> QED
    BY <1>3, <2>2, <2>4, <2>11 DEF O
<1> QED
  BY <1>2, <1>3

\* What fnc_exec leaves, with the list of the caller.
Left(out) ==
    LET local == [out EXCEPT !.list = env.list]
    IN  Free(IF Defined(env, Result) THEN Drop(local, Place(env, Result)) ELSE local)

Back(out) == [Left(out) EXCEPT !.list = out.list]

\* The result's matrix, when there is one, has a reference that no node holds.
LEMMA BackSound ==
    ASSUME MatcInv, NEW out, NEW P, P \subseteq Others,
           Sound(out, Owed, P \cup Elements(env.list), env)
    PROVE  /\ ~ Defined(env, Result) => Sound(Back(out), Owed, P, env)
           /\ Defined(env, Result) =>
                /\ Matrix(Result) \in Matrices
                /\ Sound(Back(out), Plus(Owed, Matrix(Result)), P, env)
           /\ Back(out).list = out.list /\ Kept(out, Back(out), Elements(out.list))
<1> DEFINE O     == P \cup Elements(env.list)
           Q     == P \cup Elements(out.list)
           local == WithList(out, env.list)
<1>1. Sound(env, Owed, Others, env) /\ Owed \in [Matrices -> Nat] /\ Listed(env, Others)
        /\ env.list \in Seq(Nodes)
  BY OwedIs DEF MatcInv, Sound, Env
<1>2. Sound(out, Owed, O, env) /\ Kept(env, out, O) /\ Listed(out, O) /\ out.list \in Seq(Nodes)
  BY DEF Sound, Env
<1>3. UniqueIn(out, env.list)
  BY <1>1, <1>2, UniqueKept DEF Listed
<1>4. /\ Sound(local, Owed, (O \ Elements(env.list)) \cup Elements(out.list), out)
      /\ local.list = env.list /\ local.name = out.name /\ local.this = out.this
  <2>1. Elements(env.list) \subseteq O
    OBVIOUS
  <2> HIDE DEF O
  <2> QED
    <3>1. Sound(out, Owed, O, env) /\ env.list \in Seq(Nodes)
      BY <1>1, <1>2, Zenon
    <3> QED
      BY <1>3, <2>1, <3>1, SwitchSound, ZenonT(30)
<1>5. P \cap Elements(env.list) = {}
  BY <1>1 DEF Listed
<1>6. Sound(local, Owed, Q, out)
  <2>1. (O \ Elements(env.list)) \cup Elements(out.list) = Q
    BY <1>5
  <2> QED
    BY <1>4, <2>1
<1>7. ASSUME NEW dr, NEW y, Sound(dr, y, Q, out), Left(out) = Free(dr)
      PROVE  /\ Sound(Back(out), y, P, env)
             /\ Back(out).list = out.list /\ Kept(out, Back(out), Elements(out.list))
  <2> DEFINE left == Left(out)
  <2>1. Sound(left, y, Q, out) /\ left.list = <<>>
    BY <1>7, FreeSound
  <2>2. Kept(out, left, Q) /\ UniqueIn(out, out.list)
    BY <1>2, <2>1 DEF Sound, Listed
  <2>3. UniqueIn(left, out.list)
    BY <1>2, <2>2, ElementsType DEF UniqueIn, Kept
  <2>4. Back(out) = WithList(left, out.list)
    BY DEF Back, WithList
  <2> HIDE DEF left
  <2>5. /\ Sound(WithList(left, out.list), y, (Q \ Elements(out.list)) \cup Elements(left.list), left)
        /\ WithList(left, out.list).list = out.list
        /\ WithList(left, out.list).name = left.name
        /\ WithList(left, out.list).this = left.this
    <3>1. Elements(out.list) \subseteq Q /\ Sound(left, y, Q, out) /\ out.list \in Seq(Nodes)
      BY <1>2, <2>1
    <3> HIDE DEF Q
    <3> QED
      BY <2>3, <3>1, SwitchSound, ZenonT(30)
  <2>6. Elements(left.list) = {}
    BY <2>1 DEF Elements
  <2>7. (Q \ Elements(out.list)) \cup Elements(left.list) = P
    BY <1>2, <2>6 DEF Listed
  <2>8. Kept(env, left, P)
    BY <1>2, <2>2 DEF Kept
  <2>9. Sound(Back(out), y, P, env)
    BY <2>4, <2>5, <2>7, <2>8, KeptVia
  <2>10. Kept(out, Back(out), Elements(out.list))
    BY <2>2, <2>4, <2>5 DEF Kept
  <2> QED
    BY <2>4, <2>5, <2>9, <2>10
<1>8. CASE ~ Defined(env, Result)
  <2>1. Left(out) = Free(local)
    BY <1>8 DEF Left, WithList
  <2> QED
    BY <1>6, <1>7, <1>8, <2>1
<1>9. CASE Defined(env, Result)
  <2> DEFINE p  == Place(env, Result)
             n  == Find(env, Result)
             dr == Drop(local, p)
             m  == Matrix(Result)
  <2>1. p \in 1 .. Len(env.list) /\ n = env.list[p] /\ n \in Elements(env.list)
    BY <1>1, <1>9, FindIs DEF Sound
  <2>2. m \in Matrices
    BY <1>9, MatrixIs, FunctionNames
  <2>3. Left(out) = Free(dr)
    BY <1>9 DEF Left, WithList
  <2>4. local.this[n] = m
    BY <1>2, <1>4, <2>1 DEF Kept, Matrix
  <2> HIDE DEF local, p, n, m
  <2>5. n = local.list[p] /\ p \in 1 .. Len(local.list)
    BY <1>4, <2>1
  <2>6. Sound(dr, Plus(Owed, local.this[n]), Q, out)
    BY <1>6, <2>5, DropSound
  <2>7. Sound(dr, Plus(Owed, m), Q, out)
    BY <2>4, <2>6
  <2> HIDE DEF dr, Q
  <2>8. /\ Sound(Back(out), Plus(Owed, m), P, env)
        /\ Back(out).list = out.list /\ Kept(out, Back(out), Elements(out.list))
    BY <1>7, <2>3, <2>7
  <2> QED
    BY <1>9, <2>2, <2>8 DEF m
<1> QED
  BY <1>8, <1>9

LEMMA ReturnSound ==
    ASSUME MatcInv, Return
    PROVE  MatcInv'
<1> DEFINE last == Len(callers)
           list == callers[last].list
           out  == ExportTo(list)
           v    == IF Defined(env, Result) THEN Matrix(Result) ELSE Null
           d    == Back(out)
<1>1. /\ Sound(env, Owed, Others, env) /\ lost \in [Matrices -> Nat]
      /\ Owed \in [Matrices -> Nat] /\ temps \in Seq(Values)
  BY OwedIs DEF MatcInv
<1>2. /\ callers # <<>> /\ Becomes(d) /\ callers' = SubSeq(callers, 1, last - 1)
      /\ temps' = Append(temps, v) /\ begin' = callers[last].begin
      /\ touched' = (touched \/ (last = 1 /\ Exports)) /\ saved' = saved
  BY DEF Return, Left, Back
<1>3. /\ last \in DOMAIN callers /\ list \in Seq(Nodes) /\ callers[last].begin \in Nat
      /\ Elements(list) \subseteq Others /\ Below = Others \ Elements(list)
  BY <1>2, BelowIs
<1>4. UniqueIn(env, list)
  BY <1>3 DEF MatcInv, CallersApart
<1>5. FreeNode(env)
  <2>1. Room(1, 0)
    BY DEF Return
  <2> QED
    BY <2>1, RoomIs
<1>6. /\ Sound(out, Owed, Below \cup Elements(env.list), env)
      /\ ~ Exports => out = WithList(env, list)
  BY <1>3, <1>4, <1>5, ExportSound
<1>7. Below \subseteq Others
  BY <1>3
<1> HIDE DEF out
<1>8. /\ ~ Defined(env, Result) => Sound(d, Owed, Below, env)
      /\ Defined(env, Result) =>
           /\ Matrix(Result) \in Matrices
           /\ Sound(d, Plus(Owed, Matrix(Result)), Below, env)
      /\ d.list = out.list /\ Kept(out, d, Elements(out.list))
  BY <1>6, <1>7, BackSound
<1> HIDE DEF d
<1>9. v \in Values /\ Sound(d, Added(Owed, v), Below, env)
  <2>1. CASE ~ Defined(env, Result)
    BY <1>8, <2>1 DEF Added, Values
  <2>2. CASE Defined(env, Result)
    BY <1>8, <2>2, NullIs DEF Added, Values
  <2> QED
    BY <2>1, <2>2
<1> HIDE DEF v
<1>10. /\ env' = d /\ lost' = lost /\ Sound(d, Owed', Below, d)
       /\ recent' = Allocated(d) \ (Allocated(env) \ recent)
       /\ recent' \subseteq Nodes \cup Matrices /\ temps' \in Seq(Values)
  <2>1. Owing(lost, temps') = Added(Owed, v) /\ temps' \in Seq(Values)
    <3>1. Owing(lost, Append(temps, v)) = Added(Owing(lost, temps), v)
      BY <1>1, <1>9, OwingAppended, Zenon
    <3> QED
      BY <1>1, <1>2, <1>9, <3>1 DEF Owed
  <2>2. Sound(d, Owing(lost, temps'), Below, env)
    BY <1>9, <2>1
  <2>3. Becomes(d) /\ lost \in [Matrices -> Nat] /\ temps' \in Seq(Values)
    BY <1>1, <1>2, <2>1
  <2> QED
    BY <2>2, <2>3, BecomesSound
<1>11. /\ last \in Nat /\ last # 0 /\ DOMAIN callers = 1 .. last
       /\ \A i \in DOMAIN callers : callers[i].list \in Seq(Nodes)
  BY <1>2, CallersType DEF MatcInv
<1>12. /\ callers' \in Seq(Frames)
       /\ DOMAIN callers' = 1 .. last - 1
       /\ \A i \in 1 .. last - 1 : callers'[i] = callers[i]
       /\ last = 1 => callers' = <<>>
  <2>1. callers \in Seq(Frames)
    BY DEF MatcInv, StateTypes
  <2>2. last \in 1 .. Len(callers) + 1
    BY <1>11
  <2>3. /\ callers' \in Seq(Frames) /\ Len(callers') = last - 1
        /\ \A i \in 1 .. last - 1 : callers'[i] = callers[i]
    BY <1>2, <2>1, <2>2, PartType, Zenon
  <2>4. DOMAIN callers' = 1 .. Len(callers')
    BY <2>3, ElementsType
  <2>5. last = 1 => callers' = <<>>
    BY <2>3
  <2> QED
    BY <2>3, <2>4, <2>5
<1>13. StateTypes'
  <2>1. touched' \in BOOLEAN /\ saved' \in Nodes \cup {Null}
    BY <1>2 DEF MatcInv, StateTypes
  <2> QED
    BY <1>1, <1>2, <1>3, <1>10, <1>12, <2>1 DEF StateTypes
<1>14. Others' = Below
  BY <1>12 DEF Others, Below
<1>15. Sound(env, Owed, Others, env)'
  BY <1>10, <1>14
<1>16. \A i \in 1 .. last - 1 : i \in DOMAIN callers /\ Elements(callers[i].list) \subseteq Below
  BY <1>11 DEF Below
<1>17. CallersApart'
  <2>1. Kept(env, d, Below)
    BY <1>9 DEF Sound
  <2>2. ASSUME NEW i \in 1 .. last - 1 PROVE UniqueIn(d, callers'[i].list)
    <3>1. UniqueIn(env, callers[i].list) /\ callers[i].list \in Seq(Nodes)
      BY <1>11, <1>16 DEF MatcInv, CallersApart
    <3> QED
      BY <1>12, <1>16, <2>1, <3>1, UniqueKept
  <2>3. ASSUME NEW i \in 1 .. last - 1, NEW j \in 1 .. last - 1, i # j
        PROVE  Elements(callers'[i].list) \cap Elements(callers'[j].list) = {}
    BY <1>12, <1>16, <2>3 DEF MatcInv, CallersApart
  <2> QED
    BY <1>10, <1>12, <2>2, <2>3 DEF CallersApart
<1>18. RecentInv'
  <2> SUFFICES ASSUME ~ touched'
               PROVE  /\ saved' = IF Base' = <<>> THEN Null ELSE Head(Base')
                      /\ RestIs(env', recent', Elements(Base'))
    BY DEF RecentInv
  <2>1. /\ RestIs(env, recent, Elements(Base))
        /\ saved = IF Base = <<>> THEN Null ELSE Head(Base)
    BY <1>2 DEF MatcInv, RecentInv
  <2>2. Base' = Base /\ Kept(env, d, Elements(Base))
    <3>1. CASE last = 1
      <4>1. ~ Exports /\ callers' = <<>>
        BY <1>2, <1>12, <3>1
      <4>2. out.list = list /\ out.name = env.name /\ out.this = env.this
        <5>1. env \in Env
          BY <1>1 DEF Sound
        <5> QED
          BY <1>6, <4>1, <5>1 DEF WithList, Env
      <4> QED
        BY <1>2, <1>8, <1>10, <3>1, <4>1, <4>2 DEF Base, Kept
    <3>2. CASE last # 1
      <4>1. 1 \in 1 .. last - 1
        BY <1>11, <3>2
      <4>2. 1 \in DOMAIN callers' /\ callers' # <<>>
        BY <1>12, <4>1
      <4>3. Base = callers[1].list /\ Base' = Base
        BY <1>2, <1>12, <4>1, <4>2 DEF Base
      <4>4. Elements(Base) \subseteq Below
        BY <1>16, <4>1, <4>3
      <4> QED
        BY <1>9, <4>3, <4>4 DEF Sound, Kept
    <3> QED
      BY <3>1, <3>2
  <2>3. RestIs(d, recent', Elements(Base))
    BY <1>1, <1>10, <2>1, <2>2, BaseIs, RestKept
  <2> QED
    BY <1>2, <1>10, <2>1, <2>2, <2>3
<1> QED
  BY <1>13, <1>15, <1>17, <1>18 DEF MatcInv

-----------------------------------------------------------------------------
(* An error. *)

\* error() puts the list back that the call began with.
LEMMA RestoredIs ==
    ASSUME MatcInv, ~ touched
    PROVE  Restored = Base
<1>1. Base \in Seq(Nodes) /\ UniqueIn(env, Base)
  BY BaseIs
<1>2. saved = IF Base = <<>> THEN Null ELSE Head(Base)
  BY DEF MatcInv, RecentInv
<1>3. Restored = IF saved = Null THEN <<>>
                 ELSE IF saved \in Elements(Base)
                 THEN SubSeq(Base, CHOOSE i \in DOMAIN Base : Base[i] = saved, Len(Base))
                 ELSE <<saved>>
  BY DEF Restored, Base
<1> DEFINE B == Base
<1> HIDE DEF B
<1>4. CASE Base = <<>>
  BY <1>2, <1>3, <1>4
<1>5. CASE Base # <<>>
  <2>1. B \in Seq(Nodes) /\ B # <<>>
    BY <1>1, <1>5 DEF B
  <2>2. DOMAIN B = 1 .. Len(B) /\ Len(B) \in Nat /\ Len(B) # 0 /\ Head(B) = B[1]
    BY <2>1
  <2>3. 1 \in DOMAIN B
    BY <2>2
  <2>4. B[1] \in Elements(B) /\ B[1] \in Nodes
    BY <2>1, <2>2, <2>3, ElementsType
  <2>5. saved = B[1] /\ saved # Null
    BY <1>2, <1>5, <2>2, <2>4, NullIs DEF B
  <2>6. \A i \in DOMAIN B : B[i] = saved => i = 1
    BY <1>1, <2>3, <2>5 DEF UniqueIn, B
  <2>7. (CHOOSE i \in DOMAIN B : B[i] = saved) = 1
    BY <2>3, <2>5, <2>6
  <2>8. Restored = SubSeq(B, 1, Len(B))
    BY <1>3, <2>4, <2>5, <2>7, Zenon DEF B
  <2>9. SubSeq(B, 1, Len(B)) = B
    BY <2>1
  <2> QED
    BY <2>8, <2>9 DEF B
<1> QED
  BY <1>4, <1>5

\* The memory of the call goes; its references of other matrices, and those of the
\* temporaries, are lost.
LEMMA ErrorSound ==
    ASSUME ~ LateErrors, MatcInv, Error
    PROVE  MatcInv'
<1> DEFINE e       == env'
           x       == lost'
           gone(m) == Cardinality(Sharers(env, m) \cap recent)
           B       == Elements(Base)
<1>1. Sound(env, Owed, Others, env) /\ env \in Env /\ lost \in [Matrices -> Nat]
        /\ Owed \in [Matrices -> Nat] /\ Listed(env, Others) /\ temps \in Seq(Values)
  BY OwedIs DEF MatcInv, Sound
<1>2. /\ ~ touched /\ callers' = <<>> /\ recent' = {} /\ touched' = FALSE
      /\ temps' = <<>> /\ begin' = 0
      /\ saved' = IF Restored = <<>> THEN Null ELSE Head(Restored)
  BY DEF Error
<1>3. Restored = Base
  BY <1>2, RestoredIs
<1>4. /\ Base \in Seq(Nodes) /\ UniqueIn(env, Base)
      /\ B \subseteq Elements(env.list) \cup Others
  BY BaseIs
<1>5. RestIs(env, recent, B)
  BY <1>2 DEF MatcInv, RecentInv
<1>6. ASSUME NEW n \in B PROVE n \in Nodes /\ env.this[n] # Null /\ n \notin recent
  <2>1. n \in Nodes /\ env.this[n] \in Matrices
    BY <1>1, <1>4, FoundUsed
  <2> QED
    BY <1>5, <2>1, NullIs DEF RestIs
<1> DEFINE name == [n \in Nodes |-> IF n \in recent THEN Null ELSE env.name[n]]
           this == [n \in Nodes |-> IF n \in recent THEN Null ELSE env.this[n]]
           refcnt == [m \in Matrices |-> IF m \in recent THEN 0 ELSE env.refcnt[m]]
           content == [m \in Matrices |-> IF m \in recent THEN Null ELSE env.content[m]]
<1>7. e = [list |-> Base, name |-> name, this |-> this, refcnt |-> refcnt, content |-> content]
  BY <1>3 DEF Error
<1>8. x = [m \in Matrices |-> IF m \in recent THEN 0
                              ELSE lost[m] + (Held(temps, m) + gone(m))]
  BY DEF Error
<1> HIDE DEF e, x, gone
<1>9. /\ name \in [Nodes -> Names \cup {Null}] /\ this \in [Nodes -> Matrices \cup {Null}]
      /\ content \in [Matrices -> Contents \cup {Null}]
  BY <1>1 DEF Env
<1>10. refcnt \in [Matrices -> Int]
  <2>1. \A m \in Matrices : env.refcnt[m] \in Int
    BY <1>1 DEF Env
  <2> QED
    BY <2>1
<1>11. /\ e \in Env /\ e.list = Base /\ e.name = name /\ e.this = this
       /\ e.refcnt = refcnt /\ e.content = content
  <2> HIDE DEF name, this, refcnt, content
  <2> QED
    BY <1>4, <1>7, <1>9, <1>10 DEF Env
<1>12. ASSUME NEW m \in Matrices
       PROVE  /\ gone(m) \in Nat /\ Shares(env, m) \in Nat
              /\ Cardinality(Sharers(env, m) \ recent) = Shares(env, m) - gone(m)
              /\ Shares(env, m) = 0 => gone(m) = 0
  <2>1. Sharers(env, m) \in SUBSET Nodes
    BY DEF Sharers
  <2>2. IsFiniteSet(Sharers(env, m))
    BY <2>1, FiniteMemory, FS_Subset
  <2>3. Sharers(env, m) \cap recent \in SUBSET Sharers(env, m)
    OBVIOUS
  <2>4. IsFiniteSet(Sharers(env, m) \cap recent) /\ gone(m) <= Shares(env, m)
    BY <2>2, <2>3, FS_Subset DEF Shares, gone
  <2>5. gone(m) \in Nat /\ Shares(env, m) \in Nat
    BY <2>2, <2>4, FS_CardinalityType DEF Shares, gone
  <2>6. Cardinality(Sharers(env, m) \ recent) = Shares(env, m) - gone(m)
    BY <2>2, FS_Difference DEF Shares, gone
  <2> QED
    BY <2>4, <2>5, <2>6
<1>13. ASSUME NEW m \in Matrices PROVE x[m] \in Nat /\ Balance(e, x, m)
  <2>1. Balance(env, Owed, m) /\ Owed[m] \in Nat /\ env.refcnt[m] \in Int
    BY <1>1 DEF Sound, Counted, Env
  <2>2. /\ e.refcnt[m] = IF m \in recent THEN 0 ELSE env.refcnt[m]
        /\ e.content[m] = IF m \in recent THEN Null ELSE env.content[m]
    BY <1>11
  <2>3. x[m] = IF m \in recent THEN 0 ELSE Owed[m] + gone(m)
    <3>1. Owed[m] = lost[m] + Held(temps, m)
      BY DEF Owed, Owing
    <3>2. lost[m] \in Nat /\ Held(temps, m) \in Nat /\ gone(m) \in Nat
      <4>1. Null \in Values
        BY DEF Values
      <4> QED
        BY <1>1, <1>12, <4>1, HeldAppended
    <3> QED
      BY <1>8, <3>1, <3>2
  <2>4. Sharers(e, m) = Sharers(env, m) \ recent
    BY <1>11, NullIs DEF Sharers
  <2>5. CASE m \in recent
    <3>1. Sharers(e, m) = {}
      <4> SUFFICES ASSUME NEW n \in Sharers(env, m) \ recent PROVE FALSE
        BY <2>4
      <4>1. n \in Nodes /\ env.this[n] = m
        BY DEF Sharers
      <4>2. n \in B
        BY <1>5, <4>1, NullIs DEF RestIs
      <4> QED
        BY <1>5, <2>5, <4>1, <4>2 DEF RestIs
    <3>2. Shares(e, m) = 0
      BY <3>1, SharesType
    <3> QED
      BY <2>2, <2>3, <2>5, <3>2 DEF Balance
  <2>6. CASE m \notin recent
    <3> DEFINE all  == Shares(env, m)
               lose == gone(m)
               owed == Owed[m]
    <3>1. Shares(e, m) = all - lose
      BY <1>12, <2>4 DEF Shares
    <3>2. lose \in Nat /\ all \in Nat /\ owed \in Nat /\ (all = 0 => lose = 0)
      BY <1>12, <2>1
    <3>3. e.refcnt[m] = env.refcnt[m] /\ e.content[m] = env.content[m] /\ x[m] = owed + lose
      BY <2>2, <2>3, <2>6
    <3>4. IF env.content[m] = Null THEN env.refcnt[m] = 0 /\ all = 0 /\ owed = 0
          ELSE env.refcnt[m] = all + owed /\ env.refcnt[m] > 0
      BY <2>1 DEF Balance
    <3> HIDE DEF all, lose, owed
    <3>5. x[m] \in Nat
      BY <3>2, <3>3
    <3>6. CASE env.content[m] = Null
      BY <2>1, <3>1, <3>2, <3>3, <3>4, <3>6 DEF Balance
    <3>7. CASE env.content[m] # Null
      <4>1. e.refcnt[m] = Shares(e, m) + x[m] /\ e.refcnt[m] > 0
        BY <2>1, <3>1, <3>2, <3>3, <3>4, <3>7
      <4> QED
        BY <3>3, <3>5, <3>7, <4>1 DEF Balance
    <3> QED
      BY <3>5, <3>6, <3>7
  <2> QED
    BY <2>5, <2>6
<1>14. x \in [Matrices -> Nat]
  BY <1>8, <1>13
<1>15. Listed(e, {})
  <2>1. \A n \in Nodes : e.this[n] # Null <=> n \in B
    BY <1>5, <1>6, <1>11 DEF RestIs
  <2>2. \A n \in Nodes : e.this[n] # Null => e.name[n] \in Names
    BY <1>1, <1>11 DEF Listed
  <2>3. UniqueIn(e, Base)
    <3>1. \A i \in DOMAIN Base : e.name[Base[i]] = env.name[Base[i]]
      BY <1>6, <1>11 DEF Elements
    <3> QED
      BY <1>4, <3>1 DEF UniqueIn
  <2> QED
    BY <1>11, <2>1, <2>2, <2>3 DEF Listed
<1>16. Others' = {}
  BY <1>2 DEF Others
<1>17. Sound(e, x, {}, e)
  BY <1>11, <1>13, <1>14, <1>15 DEF Sound, Counted, Kept
<1>18. Sound(env, Owed, Others, env)'
  <2>1. Owed' = Owing(x, <<>>)
    BY <1>2 DEF Owed, Owing, x
  <2>2. Owed' = x
    BY <1>14, <2>1, OwingNone
  <2> QED
    BY <1>16, <1>17, <2>2 DEF e
<1>19. StateTypes'
  <2>1. Base # <<>> => Head(Base) \in Nodes
    BY <1>4
  <2>2. saved' \in Nodes \cup {Null} /\ recent' \subseteq Nodes \cup Matrices
    BY <1>2, <1>3, <2>1
  <2>3. <<>> \in Seq(Values) /\ <<>> \in Seq(Frames) /\ lost' \in [Matrices -> Nat]
    BY <1>14 DEF x
  <2> QED
    BY <1>2, <2>2, <2>3 DEF StateTypes
<1>20. CallersApart'
  BY <1>2 DEF CallersApart
<1>21. RecentInv'
  <2>1. RestIs(e, {}, B)
    BY <1>15, <1>11 DEF RestIs, Listed
  <2>2. Base' = Base
    BY <1>2, <1>11 DEF Base, e
  <2> QED
    BY <1>2, <1>3, <2>1, <2>2 DEF RecentInv, e
<1> QED
  BY <1>18, <1>19, <1>20, <1>21 DEF MatcInv

-----------------------------------------------------------------------------
(* The theorems. *)

LEMMA InitSound ==
    ASSUME Init
    PROVE  MatcInv
<1>1. /\ env.list = <<>> /\ env.name = [n \in Nodes |-> Null]
      /\ env.this = [n \in Nodes |-> Null] /\ env.refcnt = [m \in Matrices |-> 0]
      /\ env.content = [m \in Matrices |-> Null] /\ env \in Env
  <2>1. env = [list |-> <<>>, name |-> [n \in Nodes |-> Null],
               this |-> [n \in Nodes |-> Null], refcnt |-> [m \in Matrices |-> 0],
               content |-> [m \in Matrices |-> Null]]
    BY DEF Init
  <2>2. <<>> \in Seq(Nodes)
    OBVIOUS
  <2> QED
    BY <2>1, <2>2 DEF Env
<1>2. callers = <<>> /\ recent = {} /\ saved = Null /\ touched = FALSE
        /\ lost = [m \in Matrices |-> 0] /\ temps = <<>> /\ begin = 0
  BY DEF Init
<1>3. Others = {} /\ Elements(env.list) = {}
  BY <1>1, <1>2 DEF Others, Elements
<1>4. Counted(env, lost) /\ Owed = lost
  <2>1. lost \in [Matrices -> Nat]
    BY <1>2
  <2>2. Owed = lost
    BY <1>2, <2>1, OwingNone DEF Owed
  <2> SUFFICES ASSUME NEW m \in Matrices PROVE Balance(env, lost, m)
    BY <2>2 DEF Counted
  <2>3. Sharers(env, m) = {}
    BY <1>1, NullIs DEF Sharers
  <2>4. Shares(env, m) = 0
    BY <2>3, SharesType
  <2> QED
    BY <1>1, <1>2, <2>4 DEF Balance
<1>5. Listed(env, Others)
  BY <1>1, <1>3 DEF Listed, UniqueIn
<1>6. Sound(env, Owed, Others, env)
  BY <1>1, <1>2, <1>3, <1>4, <1>5 DEF Sound, Kept
<1>7. StateTypes /\ CallersApart
  <2>1. StateTypes
    <3>1. <<>> \in Seq(Values) /\ <<>> \in Seq(Frames) /\ lost \in [Matrices -> Nat]
      BY <1>2
    <3> QED
      BY <1>2, <3>1 DEF StateTypes
  <2>2. CallersApart
    BY <1>2 DEF CallersApart
  <2> QED
    BY <2>1, <2>2
<1>8. RecentInv
  BY <1>1, <1>2, <1>3 DEF RecentInv, RestIs, Base
<1> QED
  BY <1>6, <1>7, <1>8 DEF MatcInv

LEMMA NextSound ==
    ASSUME ~ LateErrors, ~ IndexShared, MatcInv, Next
    PROVE  MatcInv'
<1>1. CASE NewCall
  BY <1>1, NewCallSound
<1>2. ASSUME NEW k \in 0 .. 2, NEW c \in Contents \cup {Null}, Compute(k, c) PROVE MatcInv'
  BY <1>2, ComputeSound
<1>3. ASSUME NEW r \in Names, Read(r) PROVE MatcInv'
  BY <1>3, ReadSound
<1>4. ASSUME NEW r \in Names, DeleteVariable(r) PROVE MatcInv'
  BY <1>4, DeleteVariableSound
<1>5. ASSUME NEW r \in Names, Assign(r) PROVE MatcInv'
  BY <1>5, AssignSound
<1>6. ASSUME NEW r \in Names, NEW c \in Contents, NEW masked \in BOOLEAN,
             AssignElements(r, c, masked)
      PROVE  MatcInv'
  BY <1>6, AssignElementsSound
<1>7. CASE Clear
  BY <1>7, ClearSound
<1>8. CASE BeginBlock \/ EndBlock
  BY <1>8, BlockSound
<1>9. ASSUME NEW k \in {0, 1}, Call(k) PROVE MatcInv'
  BY <1>9, CallSound
<1>10. CASE Return
  BY <1>10, ReturnSound
<1>11. CASE Error
  BY <1>11, ErrorSound
<1> QED
  BY <1>1, <1>2, <1>3, <1>4, <1>5, <1>6, <1>7, <1>8, <1>9, <1>10, <1>11 DEF Next

LEMMA StutterSound ==
    ASSUME MatcInv, UNCHANGED vars
    PROVE  MatcInv'
<1>1. /\ UNCHANGED <<env, temps, callers, recent, saved, touched, lost>>
      /\ begin' = begin /\ begin \in Nat
  BY OwedIs DEF vars
<1> QED
  BY <1>1, SameSound

\* The lists, the counts and what error() goes back to fit each other in every state:
\* of statements and functions in any order and depth, where no indexed assignment
\* meets a shared matrix and no error comes after the call has changed the list it
\* began with (eval.c, variable.c, funcs.c, error.c).
THEOREM MatcInvariant ==
    ASSUME ~ LateErrors, ~ IndexShared
    PROVE  Spec => []MatcInv
<1>1. Init => MatcInv
  BY InitSound
<1>2. MatcInv /\ [Next]_vars => MatcInv'
  BY NextSound, StutterSound
<1> QED
  BY <1>1, <1>2, PTL DEF Spec

\* Every part of the state keeps its type: no list refers to anything but a node.
THEOREM TypesAreKept ==
    ASSUME ~ LateErrors, ~ IndexShared
    PROVE  Spec => []TypeOK
<1>1. MatcInv => TypeOK
  BY DEF MatcInv, StateTypes, Sound, TypeOK, Values, Frames
<1> QED
  BY <1>1, MatcInvariant, PTL

\* The reference count of a matrix is the number of its variables, its temporaries and
\* its lost references: with assignments, calls, exports, results and errors in any
\* order it is never freed under one of them (--REFCNT, oper.c and variable.c).
THEOREM CountsAreRight ==
    ASSUME ~ LateErrors, ~ IndexShared
    PROVE  Spec => []RefCounts
<1>1. ASSUME MatcInv PROVE RefCounts
  <2> SUFFICES ASSUME NEW m \in Matrices
               PROVE  IF env.content[m] = Null
                      THEN /\ env.refcnt[m] = 0 /\ Sharers(env, m) = {}
                           /\ Held(temps, m) = 0
                      ELSE /\ env.refcnt[m] = Cardinality(Sharers(env, m))
                                               + Held(temps, m) + lost[m]
                           /\ env.refcnt[m] > 0
    BY DEF RefCounts
  <2>1. Balance(env, Owed, m)
    BY <1>1 DEF MatcInv, Sound, Counted
  <2>2. Shares(env, m) \in Nat /\ (Shares(env, m) = 0 <=> Sharers(env, m) = {})
    BY SharesType
  <2>3. Owed[m] = lost[m] + Held(temps, m)
    BY DEF Owed, Owing
  <2>4. lost[m] \in Nat /\ Held(temps, m) \in Nat
    <3>1. Null \in Values
      BY DEF Values
    <3> QED
      BY <1>1, <3>1, OwedIs, HeldAppended
  <2>5. CASE env.content[m] = Null
    BY <2>1, <2>2, <2>3, <2>4, <2>5 DEF Balance
  <2>6. CASE env.content[m] # Null
    BY <2>1, <2>2, <2>3, <2>4, <2>6 DEF Balance, Shares
  <2> QED
    BY <2>5, <2>6
<1> QED
  BY <1>1, MatcInvariant, PTL

\* The lists, also those of the callers and the one an error goes back to, are the
\* variables that are allocated, and their matrices are in use: after any error before
\* the call has changed its list, inside functions, blocks and expressions, also one
\* after the return of a function without export (error.c, matc.c).
THEOREM NothingDangles ==
    ASSUME ~ LateErrors, ~ IndexShared
    PROVE  Spec => []NoDangling
<1>1. ASSUME MatcInv PROVE NoDangling
  <2>1. Sound(env, Owed, Others, env) /\ Listed(env, Others)
    BY <1>1 DEF MatcInv, Sound
  <2>2. \A i \in DOMAIN callers : Elements(callers[i].list) \subseteq Others
    BY <1>1, CallersType DEF MatcInv
  <2>3. ASSUME NEW list \in Lists, NEW n \in Elements(list)
        PROVE  env.this[n] # Null /\ env.content[env.this[n]] # Null
    <3>1. n \in Elements(env.list) \cup Others
      BY <2>2, <2>3 DEF Lists
    <3>2. env.this[n] \in Matrices /\ env.content[env.this[n]] # Null
      BY <2>1, <3>1, FoundUsed
    <3> QED
      BY <3>2, NullIs
  <2>4. ASSUME NEW n \in Nodes, env.this[n] # Null
        PROVE  \E list \in Lists : n \in Elements(list)
    <3>1. n \in Elements(env.list) \cup Others
      BY <2>1, <2>4 DEF Listed
    <3>2. CASE n \in Elements(env.list)
      BY <3>2 DEF Lists
    <3>3. CASE n \in Others
      <4>1. PICK i \in DOMAIN callers : n \in Elements(callers[i].list)
        BY <3>3 DEF Others
      <4> QED
        BY <4>1 DEF Lists
    <3> QED
      BY <3>1, <3>2, <3>3
  <2> QED
    BY <2>3, <2>4 DEF NoDangling
<1> QED
  BY <1>1, MatcInvariant, PTL

\* A list has one variable of a name: lst_find finds the one last assigned.
THEOREM NamesAreUnique ==
    ASSUME ~ LateErrors, ~ IndexShared
    PROVE  Spec => []UniqueNames
<1>1. ASSUME MatcInv PROVE UniqueNames
  <2> SUFFICES ASSUME NEW list \in Lists PROVE UniqueIn(env, list)
    BY DEF UniqueNames, UniqueIn
  <2>1. CASE list = env.list
    BY <1>1, <2>1 DEF MatcInv, Sound, Listed
  <2>2. CASE list \in {callers[i].list : i \in DOMAIN callers}
    BY <1>1, <2>2 DEF MatcInv, CallersApart
  <2> QED
    BY <2>1, <2>2 DEF Lists
<1> QED
  BY <1>1, MatcInvariant, PTL
=============================================================================
