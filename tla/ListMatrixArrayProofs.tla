------------------------ MODULE ListMatrixArrayProofs ------------------------
(***************************************************************************)
(* Proofs about the assembly of a list matrix, for any number of threads,  *)
(* any elements and any way to colour them.                                *)
(***************************************************************************)
EXTENDS ListMatrixArray, SequenceTheorems, TLAPS

-----------------------------------------------------------------------------
(* Calls and entries. *)

\* The calls for an element have the rows and columns of its unknowns.
LEMMA CallsType ==
    ASSUME NEW e \in Element
    PROVE  /\ Calls(e) \in Seq(Task)
           /\ DOMAIN Calls(e) = DOMAIN Indexes[e]
           /\ \A i \in DOMAIN Calls(e) :
                Calls(e)[i].row \in Unknowns(e) /\ Calls(e)[i].columns = Indexes[e]
<1>1. Indexes[e] \in Seq(Row)
  BY IndexAssumption
<1>2. /\ Len(Indexes[e]) \in Nat
      /\ DOMAIN Indexes[e] = 1 .. Len(Indexes[e])
      /\ \A i \in DOMAIN Indexes[e] : Indexes[e][i] \in Row
  BY <1>1
<1>3. ASSUME NEW i \in DOMAIN Indexes[e]
      PROVE  [row |-> Indexes[e][i], columns |-> Indexes[e]] \in Task
  <2>1. Indexes[e] # <<>>
    BY <1>2, <1>3
  <2> QED
    BY <1>1, <1>2, <2>1 DEF Task
<1>4. Calls(e) \in Seq(Task)
  BY <1>2, <1>3 DEF Calls
<1> QED
  BY <1>2, <1>4 DEF Calls, Unknowns

\* So have the calls after the region, with one column each.
ConnectionCalls ==
    [i \in DOMAIN Connections |-> [row |-> Connections[i][1], columns |-> <<Connections[i][2]>>]]

LEMMA ConnectionCallsType ==
    /\ ConnectionCalls \in Seq(Task)
    /\ \A i \in DOMAIN ConnectionCalls : Len(ConnectionCalls[i].columns) = 1
<1>1. /\ Len(Connections) \in Nat
      /\ DOMAIN Connections = 1 .. Len(Connections)
      /\ \A i \in DOMAIN Connections : Connections[i][1] \in Row /\ Connections[i][2] \in Row
  BY IndexAssumption
<1>2. ASSUME NEW i \in DOMAIN Connections
      PROVE  [row |-> Connections[i][1], columns |-> <<Connections[i][2]>>] \in Task
  <2>1. <<Connections[i][2]>> \in Seq(Row) /\ <<Connections[i][2]>> # <<>>
    BY <1>1
  <2> QED
    BY <1>1, <2>1 DEF Task
<1> QED
  BY <1>1, <1>2 DEF ConnectionCalls

\* The call a thread is in.
LEMMA CallAtHand ==
    ASSUME TasksOK, NEW t \in Thread, tasks[t] # <<>>
    PROVE  /\ tasks[t] \in Seq(Task) /\ Head(tasks[t]) = tasks[t][1]
           /\ 1 \in DOMAIN tasks[t]
           /\ RowOf(t) \in Row
           /\ Columns(t) \in Seq(Row) /\ Len(Columns(t)) \in Nat \ {0}
           /\ \A i \in 1 .. Len(Columns(t)) : Columns(t)[i] \in Row
<1>1. tasks[t] \in Seq(Task)
  BY DEF TasksOK
<1>2. Head(tasks[t]) = tasks[t][1] /\ 1 \in DOMAIN tasks[t]
  BY <1>1
<1>3. tasks[t][1] \in Task
  BY <1>1, <1>2
<1>4. RowOf(t) \in Row /\ Columns(t) \in Seq(Row) /\ Columns(t) # <<>>
  BY <1>2, <1>3 DEF Task, RowOf, Columns
<1>5. Len(Columns(t)) \in Nat \ {0} /\ \A i \in 1 .. Len(Columns(t)) : Columns(t)[i] \in Row
  BY <1>4
<1> QED
  BY <1>1, <1>2, <1>4, <1>5

\* Heap h is heap with a new entry of thread t for column col between prev and next.
LinkedIn(h, t, prev, col, next) ==
    /\ DOMAIN h = DOMAIN heap \cup {NewEntry(t)}
    /\ DOMAIN h \subseteq Entry
    /\ h[NewEntry(t)] = [Index |-> col, Next |-> next]
    /\ \A e \in DOMAIN heap \ {NewEntry(t)} :
         /\ h[e].Index = heap[e].Index
         /\ h[e].Next = IF e = prev THEN NewEntry(t) ELSE heap[e].Next
    /\ \A e \in DOMAIN h : h[e] \in [Index : Row, Next : DOMAIN h \cup {NULL}]

Pointer == DOMAIN heap \cup {NULL}

\* An insertion keeps the entries well formed and changes no other entry than the one
\* that the new one is put behind.
LEMMA LinkedType ==
    ASSUME ListsOK, NEW t \in Thread, NEW col \in Row, NEW prev \in Pointer, NEW next \in Pointer
    PROVE  LinkedIn(Linked(t, prev, col, next), t, prev, col, next)
<1> DEFINE h == Linked(t, prev, col, next)
<1>1. NewEntry(t) \in Entry
  BY DEF ListsOK, NewEntry, Entry
<1>2. /\ DOMAIN h = DOMAIN heap \cup {NewEntry(t)}
      /\ h[NewEntry(t)] = [Index |-> col, Next |-> next]
      /\ \A e \in DOMAIN heap \ {NewEntry(t)} :
           h[e] = IF e = prev THEN [heap[e] EXCEPT !.Next = NewEntry(t)] ELSE heap[e]
  BY DEF Linked
<1> HIDE DEF h
<1>3. ASSUME NEW e \in DOMAIN heap \ {NewEntry(t)}
      PROVE  /\ h[e].Index = heap[e].Index
             /\ h[e].Next = IF e = prev THEN NewEntry(t) ELSE heap[e].Next
             /\ h[e] \in [Index : Row, Next : DOMAIN h \cup {NULL}]
  <2>1. heap[e] \in [Index : Row, Next : DOMAIN heap \cup {NULL}]
    BY DEF ListsOK
  <2> QED
    BY <1>2, <2>1
<1>4. h[NewEntry(t)] \in [Index : Row, Next : DOMAIN h \cup {NULL}]
  BY <1>2 DEF Pointer
<1>5. DOMAIN h \subseteq Entry
  BY <1>1, <1>2 DEF ListsOK
<1>6. \A e \in DOMAIN h : h[e] \in [Index : Row, Next : DOMAIN h \cup {NULL}]
  BY <1>2, <1>3, <1>4
<1> QED
  BY <1>2, <1>3, <1>5, <1>6 DEF h, LinkedIn

-----------------------------------------------------------------------------
(* Type correctness.  That no thread gives back a lock it does not hold    *)
(* needs that nobody holds one when there is no locking.                   *)

LocksFree == ~ Locking => \A r \in Row : lock[r] = 0

TypeInv == TypeOK /\ LocksFree

LEMMA TypeInvInit == Init => TypeInv
<1> SUFFICES ASSUME Init PROVE TypeInv
  OBVIOUS
<1>1. colours \in Seq(SUBSET Element) /\ colours # <<>>
  BY ColouringAssumption DEF Init
<1>2. 1 \in 1 .. Len(colours) /\ colours[1] \in SUBSET Element
  BY <1>1
<1>3. TasksOK
  BY <1>2 DEF Init, TasksOK
<1>4. ListsOK
  BY DEF Init, ListsOK
<1>5. LocksOK /\ LocksFree
  BY DEF Init, LocksOK, LocksFree
<1> QED
  BY <1>3, <1>4, <1>5 DEF TypeInv, TypeOK

\* A step that leaves locks, calls and places alone leaves who holds them alone.
LEMMA LocksKept ==
    ASSUME LocksOK, UNCHANGED lock,
           \A t \in Thread : pc[t] # "call" => pc'[t] # "call" /\ tasks'[t] = tasks[t]
    PROVE  LocksOK'
  BY DEF LocksOK, InRow, RowOf

LEMMA TakeElementType ==
    ASSUME TypeInv, NEW t \in Thread, TakeElement(t)
    PROVE  TypeInv'
<1>1. PICK e \in todo : todo' = todo \ {e} /\ tasks' = [tasks EXCEPT ![t] = Calls(e)]
  BY DEF TakeElement
<1>2. Calls(e) \in Seq(Task)
  BY <1>1, CallsType DEF TypeInv, TypeOK, TasksOK
<1>3. Idle(t) /\ UNCHANGED <<colours, phase, colour, pc, column, pEntry, cEntry, listvars, lock>>
  BY DEF TakeElement
<1>4. TasksOK'
  BY <1>1, <1>2, <1>3 DEF TypeInv, TypeOK, TasksOK, Idle
<1>5. ListsOK'
  BY <1>3 DEF TypeInv, TypeOK, ListsOK, listvars
<1>6. LocksOK'
  BY <1>1, <1>3, LocksKept DEF TypeInv, TypeOK, TasksOK, Idle
<1>7. LocksFree'
  BY <1>3 DEF TypeInv, LocksFree, Locking, NeedLocking
<1> QED
  BY <1>4, <1>5, <1>6, <1>7 DEF TypeInv, TypeOK

\* Nobody holds a lock when all threads have come to the end of the loop.
LEMMA NoLocksAtEnd ==
    ASSUME TypeInv, ColourDone
    PROVE  \A r \in Row : lock[r] = 0
<1>1. \A r \in Row : lock[r] # 0 => lock[r] \in Thread /\ pc[lock[r]] # "call"
  BY DEF TypeInv, TypeOK, LocksOK, InRow
<1> QED
  BY <1>1 DEF ColourDone, Idle

LEMMA NextColourType ==
    ASSUME TypeInv, NextColour
    PROVE  TypeInv'
<1>1. colours \in Seq(SUBSET Element)
  BY ColouringAssumption DEF TypeInv, TypeOK, TasksOK
<1>2. colour + 1 \in 1 .. Len(colours) /\ colours[colour + 1] \in SUBSET Element
  BY <1>1 DEF NextColour, TypeInv, TypeOK, TasksOK
<1>3. UNCHANGED <<colours, phase, threadvars, listvars, lock>>
  BY DEF NextColour
<1>4. TasksOK'
  BY <1>2, <1>3 DEF NextColour, TypeInv, TypeOK, TasksOK, threadvars
<1>5. ListsOK'
  BY <1>3 DEF TypeInv, TypeOK, ListsOK, listvars, threadvars
<1>6. LocksOK'
  BY <1>3, LocksKept DEF TypeInv, TypeOK, threadvars
<1>7. LocksFree'
  BY <1>3 DEF TypeInv, LocksFree, Locking, NeedLocking
<1> QED
  BY <1>4, <1>5, <1>6, <1>7 DEF TypeInv, TypeOK

LEMMA EndRegionType ==
    ASSUME TypeInv, EndRegion
    PROVE  TypeInv'
<1>1. /\ phase' = "after" /\ tasks' = [tasks EXCEPT ![1] = ConnectionCalls]
      /\ UNCHANGED <<colours, colour, todo, pc, column, pEntry, cEntry, listvars, lock>>
  BY DEF EndRegion, ConnectionCalls
<1>2. \A t \in Thread : Idle(t)
  BY DEF EndRegion, ColourDone
<1>3. TasksOK'
  BY <1>1, <1>2, ConnectionCallsType DEF TypeInv, TypeOK, TasksOK, Idle
<1>4. ListsOK'
  BY <1>1 DEF TypeInv, TypeOK, ListsOK, listvars
<1>5. LocksOK' /\ LocksFree'
  BY <1>1, NoLocksAtEnd DEF EndRegion, TypeInv, TypeOK, LocksOK, LocksFree
<1> QED
  BY <1>3, <1>4, <1>5 DEF TypeInv, TypeOK

LEMMA FinishType ==
    ASSUME TypeInv, Finish
    PROVE  TypeInv'
<1>1. phase = "after" /\ phase' = "done"
      /\ UNCHANGED <<colours, colour, todo, threadvars, listvars, lock>>
  BY DEF Finish
<1>2. TasksOK'
  BY <1>1 DEF TypeInv, TypeOK, TasksOK, threadvars
<1>3. ListsOK'
  BY <1>1 DEF TypeInv, TypeOK, ListsOK, listvars, threadvars
<1>4. LocksOK'
  BY <1>1, LocksKept DEF TypeInv, TypeOK, threadvars
<1>5. LocksFree'
  BY <1>1 DEF TypeInv, LocksFree, Locking
<1> QED
  BY <1>2, <1>3, <1>4, <1>5 DEF TypeInv, TypeOK

-----------------------------------------------------------------------------
(* The calls. *)

LEMMA LockRowType ==
    ASSUME TypeInv, NEW t \in Thread, LockRow(t)
    PROVE  TypeInv'
<1>1. /\ pc[t] = "call" /\ tasks[t] # <<>>
      /\ pc' = [pc EXCEPT ![t] = "first"]
      /\ UNCHANGED <<colours, phase, colour, todo, tasks, column, pEntry, cEntry, listvars>>
      /\ RowOf(t) \in Row
  BY CallAtHand DEF LockRow, TypeInv, TypeOK
<1>2. TasksOK'
  BY <1>1 DEF TypeInv, TypeOK, TasksOK
<1>3. ListsOK'
  BY <1>1 DEF TypeInv, TypeOK, ListsOK, listvars
<1>4. CASE Locking
  <2>1. lock' = [lock EXCEPT ![RowOf(t)] = t]
    BY <1>4 DEF LockRow
  <2>2. LocksOK'
    BY <1>1, <2>1 DEF TypeInv, TypeOK, TasksOK, LocksOK, InRow, RowOf
  <2>3. LocksFree'
    BY <1>1, <1>4 DEF LocksFree, Locking, NeedLocking
  <2> QED
    BY <1>2, <1>3, <2>2, <2>3 DEF TypeInv, TypeOK
<1>5. CASE ~ Locking
  <2>1. UNCHANGED lock
    BY <1>5 DEF LockRow
  <2>2. LocksOK'
    BY <1>1, <2>1, LocksKept DEF TypeInv, TypeOK, TasksOK
  <2>3. LocksFree'
    BY <1>1, <2>1 DEF TypeInv, LocksFree, Locking, NeedLocking
  <2> QED
    BY <1>2, <1>3, <2>2, <2>3 DEF TypeInv, TypeOK
<1> QED
  BY <1>4, <1>5

LEMMA UnlockRowType ==
    ASSUME TypeInv, NEW t \in Thread, UnlockRow(t)
    PROVE  TypeInv'
<1>1. /\ pc[t] = "search" /\ tasks[t] # <<>>
      /\ lock' = IF Locking THEN Released(t) ELSE lock
      /\ tasks' = [tasks EXCEPT ![t] = Tail(tasks[t])]
      /\ pc' = [pc EXCEPT ![t] = "call"]
      /\ column' = [column EXCEPT ![t] = 1]
      /\ pEntry' = [pEntry EXCEPT ![t] = NULL] /\ cEntry' = [cEntry EXCEPT ![t] = NULL]
      /\ UNCHANGED <<colours, phase, colour, todo, listvars>>
  BY DEF UnlockRow, TypeInv, TypeOK, TasksOK
<1>2. Tail(tasks[t]) \in Seq(Task) /\ RowOf(t) \in Row
  BY <1>1, CallAtHand, HeadTailProperties DEF TypeInv, TypeOK
<1>3. TasksOK'
  BY <1>1, <1>2 DEF TypeInv, TypeOK, TasksOK
<1>4. ListsOK'
  BY <1>1 DEF TypeInv, TypeOK, ListsOK, listvars
<1>5. LocksOK'
  <2>1. lock' \in [Row -> Thread \cup {0}]
    BY <1>1 DEF TypeInv, TypeOK, LocksOK, Released
  <2>2. ASSUME NEW r \in Row, lock'[r] # 0
        PROVE  lock'[r] # t /\ lock'[r] = lock[r]
    <3>1. CASE Locking
      <4>1. lock' = [lock EXCEPT ![RowOf(t)] = 0]
        BY <1>1, <3>1 DEF Released
      <4>2. r # RowOf(t) /\ lock'[r] = lock[r]
        BY <2>2, <4>1, <1>2 DEF TypeInv, TypeOK, LocksOK
      <4>3. lock[r] = t => RowOf(t) = r
        BY <2>2, <4>2 DEF TypeInv, TypeOK, LocksOK, InRow
      <4> QED
        BY <4>2, <4>3
    <3>2. CASE ~ Locking
      BY <1>1, <2>2, <3>2 DEF TypeInv, LocksFree
    <3> QED
      BY <3>1, <3>2
  <2>3. ASSUME NEW r \in Row, lock'[r] # 0
        PROVE  pc'[lock'[r]] # "call" /\ Head(tasks'[lock'[r]]).row = r
    <3>1. lock[r] \in Thread /\ lock[r] # t /\ lock'[r] = lock[r] /\ InRow(lock[r], r)
      BY <2>2, <2>3 DEF TypeInv, TypeOK, LocksOK
    <3> QED
      BY <1>1, <3>1 DEF InRow, RowOf, TypeInv, TypeOK, TasksOK
  <2> QED
    BY <2>1, <2>3 DEF LocksOK, InRow, RowOf
<1>6. LocksFree'
  BY <1>1 DEF TypeInv, LocksFree, Locking, NeedLocking
<1> QED
  BY <1>3, <1>4, <1>5, <1>6 DEF TypeInv, TypeOK

\* The steps within a call change neither the calls nor the locks.
InCall(t) ==
    /\ pc[t] # "call" /\ tasks[t] # <<>>
    /\ pc' \in [Thread -> {"call", "first", "search"}]
    /\ pc'[t] # "call" /\ \A s \in Thread \ {t} : pc'[s] = pc[s]
    /\ column' \in [Thread -> Nat \ {0}]
    /\ UNCHANGED <<colours, phase, colour, todo, tasks, lock>>

LEMMA InCallType ==
    ASSUME TypeInv, NEW t \in Thread, InCall(t), ListsOK'
    PROVE  TypeInv'
<1>1. TasksOK'
  BY DEF InCall, TypeInv, TypeOK, TasksOK
<1>2. LocksOK'
  <2>1. \A s \in Thread : pc[s] # "call" => pc'[s] # "call" /\ tasks'[s] = tasks[s]
    BY DEF InCall
  <2> QED
    BY <2>1, LocksKept DEF InCall, TypeInv, TypeOK
<1>3. LocksFree'
  BY DEF InCall, TypeInv, LocksFree, Locking, NeedLocking
<1> QED
  BY <1>1, <1>2, <1>3 DEF TypeInv, TypeOK

\* All moves and insertions are such steps.
LEMMA StepsInCall ==
    ASSUME TypeInv, NEW t \in Thread,
           NewHead(t) \/ StartSearch(t) \/ Advance(t) \/ Skip(t) \/ Insert(t)
    PROVE  InCall(t)
<1>1. pc[t] # "call" /\ tasks[t] # <<>>
  BY DEF NewHead, StartSearch, Advance, Skip, Insert, TypeInv, TypeOK, TasksOK
<1>2. UNCHANGED <<colours, phase, colour, todo, tasks, lock>>
  BY DEF NewHead, StartSearch, Advance, Skip, Insert
<1>3. pc' \in [Thread -> {"call", "first", "search"}]
      /\ pc'[t] # "call" /\ \A s \in Thread \ {t} : pc'[s] = pc[s]
  BY <1>1 DEF NewHead, StartSearch, Advance, Skip, Insert, TypeInv, TypeOK, TasksOK
<1>4. column' \in [Thread -> Nat \ {0}]
  BY DEF NewHead, StartSearch, Advance, Skip, Insert, TypeInv, TypeOK, TasksOK
<1> QED
  BY <1>1, <1>2, <1>3, <1>4 DEF InCall

\* What the entries near the place of a thread are.
LEMMA PlaceAtHand ==
    ASSUME ListsOK, TasksOK, NEW t \in Thread, pc[t] # "call"
    PROVE  /\ RowOf(t) \in Row
           /\ head[RowOf(t)] \in DOMAIN heap \cup {NULL}
           /\ pEntry[t] \in DOMAIN heap \cup {NULL} /\ cEntry[t] \in DOMAIN heap \cup {NULL}
           /\ \A e \in DOMAIN heap :
                heap[e].Index \in Row /\ heap[e].Next \in DOMAIN heap \cup {NULL}
           /\ Len(Columns(t)) \in Nat \ {0}
           /\ \A i \in 1 .. Len(Columns(t)) : Columns(t)[i] \in Row
           /\ column[t] \in Nat \ {0}
           /\ NewEntry(t) # NULL
<1>1. tasks[t] # <<>> /\ column[t] \in Nat \ {0}
  BY DEF TasksOK
<1>2. NewEntry(t) # NULL
  BY DEF NewEntry, NULL, ListsOK, Thread
<1>3. RowOf(t) \in Row
  BY <1>1, CallAtHand
<1> QED
  BY <1>1, <1>2, <1>3, CallAtHand DEF ListsOK

LEMMA NewHeadType ==
    ASSUME TypeInv, NEW t \in Thread, NewHead(t)
    PROVE  TypeInv'
<1> DEFINE r == RowOf(t)
           c == Columns(t)[1]
<1>1. r \in Row /\ c \in Row /\ head[r] \in DOMAIN heap \cup {NULL}
  BY PlaceAtHand DEF NewHead, TypeInv, TypeOK
<1>2. /\ heap' = Linked(t, NULL, c, head[r])
      /\ head' = [head EXCEPT ![r] = NewEntry(t)]
      /\ degree' = [degree EXCEPT ![r] = DegreeWithHead(r)]
      /\ cEntry' = [cEntry EXCEPT ![t] = head[r]]
      /\ pEntry' = [pEntry EXCEPT ![t] = NewEntry(t)]
      /\ used' = [used EXCEPT ![t] = used[t] + 1]
  BY DEF NewHead
<1> HIDE DEF r, c
<1>3. LinkedIn(heap', t, NULL, c, head[r])
  <2>1. ListsOK /\ NULL \in Pointer /\ head[r] \in Pointer
    BY <1>1 DEF TypeInv, TypeOK, Pointer
  <2>2. LinkedIn(Linked(t, NULL, c, head[r]), t, NULL, c, head[r])
    BY <1>1, <2>1, LinkedType, Zenon
  <2> QED
    BY <1>2, <2>2
<1>4. degree' \in [Row -> Nat]
  BY <1>1, <1>2 DEF TypeInv, TypeOK, ListsOK, DegreeWithHead
<1>5. head' \in [Row -> DOMAIN heap' \cup {NULL}]
  BY <1>1, <1>2, <1>3 DEF TypeInv, TypeOK, ListsOK, LinkedIn
<1>6. cEntry' \in [Thread -> DOMAIN heap' \cup {NULL}]
      /\ pEntry' \in [Thread -> DOMAIN heap' \cup {NULL}]
  BY <1>1, <1>2, <1>3 DEF TypeInv, TypeOK, ListsOK, LinkedIn
<1>7. used' \in [Thread -> Nat]
  BY <1>2 DEF TypeInv, TypeOK, ListsOK
<1>8. ListsOK'
  BY <1>3, <1>4, <1>5, <1>6, <1>7 DEF ListsOK, LinkedIn
<1> QED
  BY <1>8, StepsInCall, InCallType

LEMMA StartSearchType ==
    ASSUME TypeInv, NEW t \in Thread, StartSearch(t)
    PROVE  TypeInv'
<1>1. /\ head[RowOf(t)] \in DOMAIN heap \cup {NULL}
      /\ head[RowOf(t)] # NULL
  BY PlaceAtHand DEF StartSearch, BeforeHead, TypeInv, TypeOK
<1>2. heap[head[RowOf(t)]].Next \in DOMAIN heap \cup {NULL}
  BY <1>1 DEF TypeInv, TypeOK, ListsOK
<1>3. ListsOK'
  BY <1>1, <1>2 DEF StartSearch, TypeInv, TypeOK, ListsOK, listvars
<1> QED
  BY <1>3, StepsInCall, InCallType

LEMMA MoveType ==
    ASSUME TypeInv, NEW t \in Thread, Advance(t) \/ Skip(t)
    PROVE  TypeInv'
<1>1. cEntry[t] \in DOMAIN heap
  BY DEF Advance, Skip, Behind, Present, TypeInv, TypeOK, ListsOK
<1>2. NextEntry(t) \in DOMAIN heap \cup {NULL}
  BY <1>1 DEF TypeInv, TypeOK, ListsOK, NextEntry
<1>3. ListsOK'
  BY <1>1, <1>2 DEF Advance, Skip, TypeInv, TypeOK, ListsOK, listvars
<1> QED
  BY <1>3, StepsInCall, InCallType

LEMMA InsertType ==
    ASSUME TypeInv, NEW t \in Thread, Insert(t)
    PROVE  TypeInv'
<1> DEFINE r == RowOf(t)
           c == Columns(t)[column[t]]
<1>1. /\ r \in Row /\ c \in Row
      /\ pEntry[t] \in DOMAIN heap \cup {NULL} /\ cEntry[t] \in DOMAIN heap \cup {NULL}
  BY PlaceAtHand DEF Insert, ColumnsLeft, TypeInv, TypeOK
<1>2. /\ heap' = Linked(t, pEntry[t], c, cEntry[t])
      /\ degree' = [degree EXCEPT ![r] = degree[r] + 1]
      /\ pEntry' = [pEntry EXCEPT ![t] = NewEntry(t)]
      /\ used' = [used EXCEPT ![t] = used[t] + 1]
      /\ UNCHANGED <<cEntry, head>>
  BY DEF Insert
<1> HIDE DEF r, c
<1>3. LinkedIn(heap', t, pEntry[t], c, cEntry[t])
  <2>1. ListsOK /\ pEntry[t] \in Pointer /\ cEntry[t] \in Pointer
    BY <1>1 DEF TypeInv, TypeOK, Pointer
  <2>2. LinkedIn(Linked(t, pEntry[t], c, cEntry[t]), t, pEntry[t], c, cEntry[t])
    BY <1>1, <2>1, LinkedType, Zenon
  <2> QED
    BY <1>2, <2>2
<1>4. ListsOK'
  BY <1>1, <1>2, <1>3 DEF TypeInv, TypeOK, ListsOK, LinkedIn
<1> QED
  BY <1>4, StepsInCall, InCallType

LEMMA TypeInvStep == TypeInv /\ [Next]_vars => TypeInv'
<1> SUFFICES ASSUME TypeInv, [Next]_vars PROVE TypeInv'
  OBVIOUS
<1>1. ASSUME NEW t \in Thread, ThreadStep(t) PROVE TypeInv'
  BY <1>1, TakeElementType, LockRowType, NewHeadType, StartSearchType, MoveType,
     InsertType, UnlockRowType DEF ThreadStep
<1>2. CASE NextColour
  BY <1>2, NextColourType
<1>3. CASE EndRegion
  BY <1>3, EndRegionType
<1>4. CASE Finish
  BY <1>4, FinishType
<1>5. CASE UNCHANGED vars
  BY <1>5 DEF vars, threadvars, listvars, TypeInv, TypeOK, TasksOK, ListsOK, LocksOK, InRow,
     RowOf, LocksFree, Locking, NeedLocking
<1> QED
  BY <1>1, <1>2, <1>3, <1>4, <1>5 DEF Next, Terminated

LEMMA TypeInvariant == Spec => []TypeInv
<1> QED
  BY TypeInvInit, TypeInvStep, PTL DEF Spec

\* No thread follows a pointer that leads nowhere, writes outside the rows or gives back a
\* lock of another, whatever the others do.
THEOREM AssemblyTypeCorrect == Spec => []TypeOK
<1>1. TypeInv => TypeOK
  BY DEF TypeInv
<1> QED
  BY <1>1, TypeInvariant, PTL

-----------------------------------------------------------------------------
(* Threads keep apart.  Locks are only used without colours.  With colours *)
(* it is what the threads still have to do that keeps them apart, from one *)
(* another and from the elements that nobody has taken.                    *)

LocksHeld == \A t \in Thread : Locking /\ pc[t] # "call" => lock[RowOf(t)] = t

RowsToDo(t) == {tasks[t][i].row : i \in DOMAIN tasks[t]}

ColoursHeld ==
    phase = "region" /\ Len(colours) > 1 =>
        /\ todo \subseteq colours[colour]
        /\ \A s, t \in Thread : s # t => RowsToDo(s) \cap RowsToDo(t) = {}
        /\ \A t \in Thread : \A e \in todo : RowsToDo(t) \cap Unknowns(e) = {}

AloneAfter == phase # "region" => \A t \in Thread \ {1} : tasks[t] = <<>>

ApartInv == TypeInv /\ LocksHeld /\ ColoursHeld /\ AloneAfter

LEMMA ApartGivesExclusive == ApartInv => RowExclusive
<1> SUFFICES ASSUME ApartInv, NEW r \in Row, NEW s \in Thread, NEW t \in Thread,
                    InRow(s, r), InRow(t, r)
             PROVE  s = t
  BY DEF RowExclusive
<1>1. /\ pc[s] # "call" /\ RowOf(s) = r /\ pc[t] # "call" /\ RowOf(t) = r
      /\ tasks[s] # <<>> /\ tasks[t] # <<>>
  BY DEF InRow, ApartInv, TypeInv, TypeOK, TasksOK
<1>2. CASE Locking
  BY <1>1, <1>2 DEF ApartInv, LocksHeld
<1>3. CASE phase # "region"
  BY <1>1, <1>3 DEF ApartInv, AloneAfter
<1>4. CASE phase = "region" /\ Len(colours) > 1
  <2>1. r \in RowsToDo(s) /\ r \in RowsToDo(t)
    BY <1>1, CallAtHand DEF ApartInv, TypeInv, TypeOK, RowsToDo, RowOf
  <2> QED
    BY <1>4, <2>1 DEF ApartInv, ColoursHeld
<1>5. CASE phase = "region" /\ Len(colours) <= 1 /\ ~ Locking
  <2>1. colours \in Seq(SUBSET Element) /\ colours # <<>>
    BY ColouringAssumption DEF ApartInv, TypeInv, TypeOK, TasksOK
  <2>2. Len(colours) = 1
    <3>1. Len(colours) \in Nat \ {0}
      BY <2>1, EmptySeq
    <3>2. ASSUME NEW n \in Nat \ {0}, n <= 1 PROVE n = 1
      BY <3>2
    <3>3. Len(colours) <= 1
      BY <1>5
    <3> QED
      BY <3>1, <3>2, <3>3, Zenon
  <2>3. Threads = 1
    BY <1>5, <2>2, SizeAssumption DEF Locking, NeedLocking
  <2> QED
    BY <2>3 DEF Thread
<1>6. Len(colours) \in Nat
  BY ColouringAssumption DEF ApartInv, TypeInv, TypeOK, TasksOK
<1> QED
  BY <1>2, <1>3, <1>4, <1>5, <1>6

LEMMA ApartInit == Init => ApartInv
<1> SUFFICES ASSUME Init PROVE ApartInv
  OBVIOUS
<1>1. TypeInv
  BY TypeInvInit
<1>2. LocksHeld /\ AloneAfter
  BY DEF Init, LocksHeld, AloneAfter
<1>3. \A t \in Thread : RowsToDo(t) = {}
  BY DEF Init, RowsToDo
<1>4. ColoursHeld
  BY <1>3 DEF Init, ColoursHeld
<1> QED
  BY <1>1, <1>2, <1>4 DEF ApartInv

\* Steps that change nothing of what is to do.
LEMMA ToDoKept ==
    ASSUME ApartInv, UNCHANGED <<colours, phase, colour, todo, tasks>>
    PROVE  ColoursHeld' /\ AloneAfter'
<1>1. \A t \in Thread : RowsToDo(t)' = RowsToDo(t)
  BY DEF RowsToDo
<1>2. ColoursHeld'
  BY <1>1 DEF ApartInv, ColoursHeld
<1> QED
  BY <1>2 DEF ApartInv, AloneAfter

LEMMA ApartTakeElement ==
    ASSUME ColoursApart, ApartInv, NEW t \in Thread, TakeElement(t)
    PROVE  ApartInv'
<1>1. TypeInv'
  BY TakeElementType DEF ApartInv
<1>2. PICK e \in todo : todo' = todo \ {e} /\ tasks' = [tasks EXCEPT ![t] = Calls(e)]
  BY DEF TakeElement
<1>3. /\ phase = "region" /\ Idle(t) /\ e \in Element /\ tasks \in [Thread -> Seq(Task)]
      /\ UNCHANGED <<colours, phase, colour, pc, lock>>
  BY DEF TakeElement, ApartInv, TypeInv, TypeOK, TasksOK
<1>4. LocksHeld'
  BY <1>2, <1>3 DEF ApartInv, LocksHeld, Idle, RowOf, Locking, NeedLocking
<1>5. AloneAfter'
  BY <1>3 DEF AloneAfter
<1>6. ColoursHeld'
  <2> SUFFICES ASSUME Len(colours) > 1
               PROVE  /\ todo' \subseteq colours[colour]
                      /\ \A r, s \in Thread : r # s => RowsToDo(r)' \cap RowsToDo(s)' = {}
                      /\ \A s \in Thread : \A d \in todo' : RowsToDo(s)' \cap Unknowns(d) = {}
    BY <1>3 DEF ColoursHeld
  <2>1. /\ todo \subseteq colours[colour]
        /\ \A r, s \in Thread : r # s => RowsToDo(r) \cap RowsToDo(s) = {}
        /\ \A s \in Thread : \A d \in todo : RowsToDo(s) \cap Unknowns(d) = {}
    BY <1>3 DEF ApartInv, ColoursHeld
  <2>2. \A s \in Thread \ {t} : RowsToDo(s)' = RowsToDo(s)
    BY <1>2, <1>3 DEF RowsToDo
  <2>3. RowsToDo(t)' \subseteq Unknowns(e)
    BY <1>2, <1>3, CallsType DEF RowsToDo
  <2>4. \A d \in todo' : Unknowns(d) \cap Unknowns(e) = {}
    <3>1. colours \in Colourings /\ colour \in DOMAIN colours
      BY ColouringAssumption DEF ApartInv, TypeInv, TypeOK, TasksOK
    <3> QED
      BY <1>2, <2>1, <3>1 DEF ColoursApart
  <2> QED
    BY <1>2, <2>1, <2>2, <2>3, <2>4
<1> QED
  BY <1>1, <1>4, <1>5, <1>6 DEF ApartInv

LEMMA ApartRegion ==
    ASSUME ApartInv, NextColour \/ EndRegion \/ Finish
    PROVE  ApartInv'
<1>1. TypeInv'
  BY NextColourType, EndRegionType, FinishType DEF ApartInv
<1>2. CASE NextColour
  <2>1. /\ \A t \in Thread : Idle(t)
        /\ phase = "region" /\ colour' = colour + 1 /\ todo' = colours[colour + 1]
        /\ UNCHANGED <<colours, phase, tasks, pc, lock>>
    BY <1>2 DEF NextColour, ColourDone, threadvars
  <2>2. \A t \in Thread : RowsToDo(t)' = {}
    BY <2>1 DEF Idle, RowsToDo
  <2>3. ColoursHeld'
    BY <2>1, <2>2 DEF ColoursHeld
  <2>4. LocksHeld' /\ AloneAfter'
    BY <2>1 DEF LocksHeld, AloneAfter, Idle
  <2> QED
    BY <1>1, <2>3, <2>4 DEF ApartInv
<1>3. CASE EndRegion
  <2>1. /\ \A t \in Thread : Idle(t)
        /\ phase' = "after" /\ \A t \in Thread \ {1} : tasks'[t] = tasks[t]
    BY <1>3 DEF EndRegion, ColourDone, ApartInv, TypeInv, TypeOK, TasksOK
  <2> QED
    BY <1>1, <2>1 DEF ApartInv, LocksHeld, ColoursHeld, AloneAfter, Locking, Idle
<1>4. CASE Finish
  BY <1>1, <1>4 DEF Finish, ApartInv, LocksHeld, ColoursHeld, AloneAfter, Locking, threadvars
<1> QED
  BY <1>2, <1>3, <1>4

LEMMA ApartLockRow ==
    ASSUME ApartInv, NEW t \in Thread, LockRow(t)
    PROVE  ApartInv'
<1>1. TypeInv'
  BY LockRowType DEF ApartInv
<1>2. /\ pc' = [pc EXCEPT ![t] = "first"] /\ RowOf(t) \in Row
      /\ UNCHANGED <<colours, phase, colour, todo, tasks>>
  BY CallAtHand DEF LockRow, ApartInv, TypeInv, TypeOK
<1>3. LocksHeld'
  <2> SUFFICES ASSUME Locking, NEW s \in Thread, pc'[s] # "call"
               PROVE  lock'[RowOf(s)] = s
    BY <1>2 DEF LocksHeld, Locking, NeedLocking, RowOf
  <2>1. lock[RowOf(t)] = 0 /\ lock' = [lock EXCEPT ![RowOf(t)] = t]
    BY DEF LockRow
  <2>2. s # t => lock[RowOf(s)] = s
    BY <1>2 DEF ApartInv, LocksHeld, TypeInv, TypeOK, TasksOK
  <2>3. s # 0
    BY DEF Thread
  <2> QED
    BY <1>2, <2>1, <2>2, <2>3 DEF ApartInv, TypeInv, TypeOK, LocksOK
<1>4. ColoursHeld' /\ AloneAfter'
  BY <1>2, ToDoKept
<1> QED
  BY <1>1, <1>3, <1>4 DEF ApartInv

LEMMA ApartUnlockRow ==
    ASSUME ApartInv, NEW t \in Thread, UnlockRow(t)
    PROVE  ApartInv'
<1>1. TypeInv'
  BY UnlockRowType DEF ApartInv
<1>2. /\ pc[t] # "call" /\ tasks[t] # <<>> /\ tasks[t] \in Seq(Task)
      /\ lock' = IF Locking THEN Released(t) ELSE lock
      /\ tasks' = [tasks EXCEPT ![t] = Tail(tasks[t])]
      /\ pc' = [pc EXCEPT ![t] = "call"]
      /\ UNCHANGED <<colours, phase, colour, todo>>
  BY DEF UnlockRow, ApartInv, TypeInv, TypeOK, TasksOK
<1>3. LocksHeld'
  <2> SUFFICES ASSUME Locking, NEW s \in Thread \ {t}, pc[s] # "call"
               PROVE  lock'[RowOf(s)] = s
    BY <1>2 DEF LocksHeld, Locking, NeedLocking, RowOf, ApartInv, TypeInv, TypeOK, TasksOK
  <2>1. lock[RowOf(s)] = s /\ lock[RowOf(t)] = t
    BY <1>2 DEF ApartInv, LocksHeld
  <2> QED
    BY <1>2, <2>1 DEF Released, ApartInv, TypeInv, TypeOK, LocksOK
<1>4. \A s \in Thread : RowsToDo(s)' \subseteq RowsToDo(s)
  <2>1. RowsToDo(t)' \subseteq RowsToDo(t)
    <3>1. tasks'[t] = Tail(tasks[t])
      BY <1>2 DEF ApartInv, TypeInv, TypeOK, TasksOK
    <3>2. ASSUME NEW i \in DOMAIN Tail(tasks[t])
          PROVE  i + 1 \in DOMAIN tasks[t] /\ Tail(tasks[t])[i] = tasks[t][i + 1]
      BY <1>2, <3>2, HeadTailProperties
    <3> QED
      BY <3>1, <3>2 DEF RowsToDo
  <2>2. \A s \in Thread \ {t} : RowsToDo(s)' = RowsToDo(s)
    BY <1>2 DEF RowsToDo, ApartInv, TypeInv, TypeOK, TasksOK
  <2> QED
    BY <2>1, <2>2
<1>5. ColoursHeld'
  BY <1>2, <1>4 DEF ApartInv, ColoursHeld
<1>6. AloneAfter'
  BY <1>2 DEF ApartInv, AloneAfter, TypeInv, TypeOK, TasksOK
<1> QED
  BY <1>1, <1>3, <1>5, <1>6 DEF ApartInv

LEMMA ApartInCall ==
    ASSUME ApartInv, TypeInv', NEW t \in Thread, InCall(t)
    PROVE  ApartInv'
<1>1. LocksHeld'
  BY DEF ApartInv, LocksHeld, InCall, Locking, NeedLocking, RowOf
<1>2. ColoursHeld' /\ AloneAfter'
  BY ToDoKept DEF InCall
<1> QED
  BY <1>1, <1>2 DEF ApartInv

LEMMA ApartStep ==
    ASSUME ColoursApart
    PROVE  ApartInv /\ [Next]_vars => ApartInv'
<1> SUFFICES ASSUME ApartInv, [Next]_vars PROVE ApartInv'
  OBVIOUS
<1>1. TypeInv /\ TypeInv'
  BY TypeInvStep DEF ApartInv
<1>2. ASSUME NEW t \in Thread, ThreadStep(t) PROVE ApartInv'
  <2>1. CASE NewHead(t) \/ StartSearch(t) \/ Advance(t) \/ Skip(t) \/ Insert(t)
    BY <1>1, <2>1, StepsInCall, ApartInCall
  <2> QED
    BY <1>2, <2>1, ApartTakeElement, ApartLockRow, ApartUnlockRow DEF ThreadStep
<1>3. CASE NextColour \/ EndRegion \/ Finish
  BY <1>3, ApartRegion
<1>4. CASE UNCHANGED vars
  <2>1. UNCHANGED <<colours, phase, colour, todo, tasks, pc, lock>>
    BY <1>4 DEF vars, threadvars
  <2>2. LocksHeld'
    BY <2>1 DEF ApartInv, LocksHeld, Locking, NeedLocking, RowOf
  <2> QED
    BY <1>1, <2>1, <2>2, ToDoKept DEF ApartInv
<1> QED
  BY <1>2, <1>3, <1>4 DEF Next, Terminated

\* Two threads are never in the list of the same row, if no two elements of a colour have
\* an unknown in common.
THEOREM RowsAreExclusive ==
    ASSUME ColoursApart
    PROVE  Spec => []RowExclusive
<1>1. Spec => []ApartInv
  <2>1. Init => ApartInv
    BY ApartInit
  <2>2. ApartInv /\ [Next]_vars => ApartInv'
    BY ApartStep
  <2> QED
    BY <2>1, <2>2, PTL DEF Spec
<1> QED
  BY <1>1, ApartGivesExclusive, PTL

-----------------------------------------------------------------------------
(* Lists ascend.  That a thread still has the place it has found when it   *)
(* inserts there needs that no other writes the entry it will insert       *)
(* behind: entries belong to rows, and threads are in different rows.      *)

Rising(columns) == \A i, j \in DOMAIN columns : i < j => columns[i] < columns[j]

CallsRise == \A t \in Thread : \A i \in DOMAIN tasks[t] : Rising(tasks[t][i].columns)

\* The next entry of a pool is not in use.
PoolsFresh == \A e \in DOMAIN heap : e[2] <= used[e[1]]

\* A list and those who search it stay in one row.
OwnedBy(owner) ==
    /\ \A r \in Row : head[r] # NULL => owner[head[r]] = r
    /\ \A e \in DOMAIN heap : heap[e].Next # NULL => owner[heap[e].Next] = owner[e]
    /\ \A t \in Thread : pc[t] = "search" => owner[pEntry[t]] = RowOf(t)

EntriesOwned == \E owner \in [DOMAIN heap -> Row] : OwnedBy(owner)

\* The place of a thread is between two entries that follow each other, and behind
\* those that come before its column.
PlaceHeld(t) ==
    pc[t] = "search" =>
        /\ pEntry[t] \in DOMAIN heap
        /\ cEntry[t] = heap[pEntry[t]].Next
        /\ ColumnsLeft(t) => heap[pEntry[t]].Index < Columns(t)[column[t]]

AscendInv ==
    /\ CallsRise /\ PoolsFresh /\ EntriesOwned /\ ListsAscend
    /\ \A t \in Thread : PlaceHeld(t)

LEMMA AscendInit == Init => AscendInv
<1> SUFFICES ASSUME Init PROVE AscendInv
  OBVIOUS
<1>1. heap = [e \in {} |-> NULL] /\ DOMAIN heap = {}
  BY DEF Init
<1>2. CallsRise /\ \A t \in Thread : PlaceHeld(t)
  BY DEF Init, CallsRise, PlaceHeld
<1>3. PoolsFresh /\ ListsAscend
  BY <1>1 DEF PoolsFresh, ListsAscend
<1>4. EntriesOwned
  <2> DEFINE owner == [e \in {} |-> 1]
  <2>1. owner \in [DOMAIN heap -> Row]
    BY <1>1
  <2>2. OwnedBy(owner)
    BY <1>1 DEF Init, OwnedBy
  <2> QED
    BY <2>1, <2>2 DEF EntriesOwned
<1> QED
  BY <1>2, <1>3, <1>4 DEF AscendInv

\* The pointer that says there is no entry.
LEMMA NullIsNoEntry == ListsOK => NULL \notin DOMAIN heap
<1> SUFFICES ASSUME ListsOK PROVE NULL \notin Entry
  BY DEF ListsOK
<1> QED
  BY DEF NULL, Entry

\* The columns of the calls ascend if the unknowns of an element are all different.
LEMMA CallsKeepRising ==
    ASSUME Distinct, TypeInv, CallsRise, [Next]_vars
    PROVE  CallsRise'
<1>1. tasks \in [Thread -> Seq(Task)]
  BY DEF TypeInv, TypeOK, TasksOK
<1>2. ASSUME NEW t \in Thread, TakeElement(t) PROVE CallsRise'
  <2>1. PICK e \in Element : tasks' = [tasks EXCEPT ![t] = Calls(e)]
    BY <1>2 DEF TakeElement, TypeInv, TypeOK, TasksOK
  <2>2. \A i \in DOMAIN Calls(e) : Rising(Calls(e)[i].columns)
    BY CallsType DEF Rising, Distinct
  <2> QED
    BY <1>1, <2>1, <2>2 DEF CallsRise
<1>3. CASE EndRegion
  <2>1. tasks' = [tasks EXCEPT ![1] = ConnectionCalls]
    BY <1>3 DEF EndRegion, ConnectionCalls
  <2>2. \A i \in DOMAIN ConnectionCalls : Rising(ConnectionCalls[i].columns)
    <3> SUFFICES ASSUME NEW i \in DOMAIN ConnectionCalls
                 PROVE  Rising(ConnectionCalls[i].columns)
      OBVIOUS
    <3>1. ConnectionCalls[i].columns = <<Connections[i][2]>>
      BY DEF ConnectionCalls
    <3>2. DOMAIN <<Connections[i][2]>> = {1}
      OBVIOUS
    <3> QED
      BY <3>1, <3>2 DEF Rising
  <2> QED
    BY <1>1, <2>1, <2>2 DEF CallsRise
<1>4. ASSUME NEW t \in Thread, UnlockRow(t) PROVE CallsRise'
  <2>1. tasks' = [tasks EXCEPT ![t] = Tail(tasks[t])] /\ tasks[t] # <<>>
    BY <1>4 DEF UnlockRow, TypeInv, TypeOK, TasksOK
  <2>2. ASSUME NEW i \in DOMAIN Tail(tasks[t])
        PROVE  i + 1 \in DOMAIN tasks[t] /\ Tail(tasks[t])[i] = tasks[t][i + 1]
    BY <1>1, <2>1, <2>2, HeadTailProperties
  <2> QED
    BY <1>1, <2>1, <2>2 DEF CallsRise
<1>5. ASSUME UNCHANGED tasks PROVE CallsRise'
  BY <1>5 DEF CallsRise
<1>6. CASE NextColour \/ Finish \/ UNCHANGED vars
  BY <1>5, <1>6 DEF NextColour, Finish, vars, threadvars
<1>7. ASSUME NEW t \in Thread,
             LockRow(t) \/ NewHead(t) \/ StartSearch(t) \/ Advance(t) \/ Skip(t) \/ Insert(t)
      PROVE  CallsRise'
  BY <1>5, <1>7 DEF LockRow, NewHead, StartSearch, Advance, Skip, Insert
<1> QED
  BY <1>2, <1>3, <1>4, <1>6, <1>7 DEF Next, ThreadStep, Terminated

\* What happens outside the search leaves lists and places as they are.
OutsideSearch ==
    /\ UNCHANGED listvars
    /\ \A t \in Thread : pc'[t] = "search" =>
          /\ pc[t] = "search" /\ tasks'[t] = tasks[t] /\ column'[t] = column[t]
          /\ pEntry'[t] = pEntry[t] /\ cEntry'[t] = cEntry[t]

LEMMA OwnedOutside ==
    ASSUME OutsideSearch, NEW owner \in [DOMAIN heap -> Row], OwnedBy(owner)
    PROVE  OwnedBy(owner)'
<1>1. UNCHANGED <<head, heap>>
  BY DEF OutsideSearch, listvars
<1> QED
  BY <1>1 DEF OutsideSearch, OwnedBy, RowOf

LEMMA AscendOutside ==
    ASSUME AscendInv, CallsRise', OutsideSearch
    PROVE  AscendInv'
<1>1. UNCHANGED <<head, heap, used>>
  BY DEF OutsideSearch, listvars
<1>2. PoolsFresh' /\ ListsAscend'
  BY <1>1 DEF AscendInv, PoolsFresh, ListsAscend
<1>3. EntriesOwned'
  BY <1>1, OwnedOutside DEF AscendInv, EntriesOwned
<1>4. \A t \in Thread : PlaceHeld(t)'
  BY <1>1 DEF OutsideSearch, AscendInv, PlaceHeld, ColumnsLeft, Columns
<1> QED
  BY <1>2, <1>3, <1>4 DEF AscendInv

\* A thread moves on to the head of its row or to the next entry.
MovesOn(t) ==
    /\ pc[t] # "call"
    /\ UNCHANGED <<tasks, listvars>>
    /\ \A s \in Thread \ {t} : /\ pc'[s] = pc[s] /\ column'[s] = column[s]
                               /\ pEntry'[s] = pEntry[s] /\ cEntry'[s] = cEntry[s]
    /\ \/ pEntry'[t] = head[RowOf(t)]
       \/ pc[t] = "search" /\ pEntry'[t] = heap[pEntry[t]].Next
    /\ pEntry'[t] \in DOMAIN heap
    /\ cEntry'[t] = heap[pEntry'[t]].Next
    /\ column'[t] <= Len(Columns(t)) => heap[pEntry'[t]].Index < Columns(t)[column'[t]]

LEMMA OwnedMove ==
    ASSUME TypeInv, AscendInv, NEW t \in Thread, MovesOn(t),
           NEW owner \in [DOMAIN heap -> Row], OwnedBy(owner)
    PROVE  OwnedBy(owner)'
<1>1. /\ UNCHANGED <<head, heap, tasks>> /\ pEntry'[t] \in DOMAIN heap
      /\ \A s \in Thread \ {t} : pc'[s] = pc[s] /\ pEntry'[s] = pEntry[s]
  BY DEF MovesOn, listvars
<1>2. pEntry'[t] # NULL /\ RowOf(t) \in Row
  BY <1>1, NullIsNoEntry, CallAtHand DEF MovesOn, TypeInv, TypeOK, TasksOK
<1>3. owner[pEntry'[t]] = RowOf(t)
  <2>1. CASE pEntry'[t] = head[RowOf(t)]
    BY <1>2, <2>1 DEF OwnedBy
  <2>2. CASE pc[t] = "search" /\ pEntry'[t] = heap[pEntry[t]].Next
    BY <1>2, <2>2 DEF OwnedBy, AscendInv, PlaceHeld
  <2> QED
    BY <2>1, <2>2 DEF MovesOn
<1> QED
  BY <1>1, <1>3 DEF OwnedBy, RowOf

LEMMA AscendMove ==
    ASSUME TypeInv, AscendInv, CallsRise', NEW t \in Thread, MovesOn(t)
    PROVE  AscendInv'
<1>1. UNCHANGED <<head, heap, used, tasks>>
  BY DEF MovesOn, listvars
<1>2. PoolsFresh' /\ ListsAscend'
  BY <1>1 DEF AscendInv, PoolsFresh, ListsAscend
<1>3. EntriesOwned'
  BY <1>1, OwnedMove DEF AscendInv, EntriesOwned
<1>4. \A s \in Thread : PlaceHeld(s)'
  <2> SUFFICES ASSUME NEW s \in Thread PROVE PlaceHeld(s)'
    OBVIOUS
  <2>1. CASE s = t
    BY <1>1, <2>1 DEF MovesOn, PlaceHeld, ColumnsLeft, Columns
  <2>2. CASE s # t
    <3>1. PlaceHeld(s)
      BY DEF AscendInv
    <3> QED
      BY <1>1, <2>2, <3>1 DEF MovesOn, PlaceHeld, ColumnsLeft, Columns
  <2> QED
    BY <2>1, <2>2
<1> QED
  BY <1>2, <1>3, <1>4 DEF AscendInv

\* Where an entry may be put: in front of the row, or between the two entries of the
\* place of the thread.
Between(t, prev, next) ==
    \/ prev = NULL /\ next = head[RowOf(t)] /\ head' = [head EXCEPT ![RowOf(t)] = NewEntry(t)]
    \/ pc[t] = "search" /\ prev = pEntry[t] /\ next = cEntry[t] /\ head' = head

\* A thread puts a new entry for column col there, in the row it is in.
Puts(t, prev, col, next) ==
    /\ pc[t] # "call"
    /\ col \in Row /\ prev \in Pointer /\ next \in Pointer
    /\ LinkedIn(heap', t, prev, col, next)
    /\ Between(t, prev, next)
    /\ prev # NULL => heap[prev].Index < col
    /\ next # NULL => col < heap[next].Index
    /\ UNCHANGED tasks
    /\ used' = [used EXCEPT ![t] = used[t] + 1]
    /\ \A s \in Thread \ {t} : /\ pc'[s] = pc[s] /\ column'[s] = column[s]
                               /\ pEntry'[s] = pEntry[s] /\ cEntry'[s] = cEntry[s]
    /\ pEntry'[t] = NewEntry(t) /\ cEntry'[t] = next
    /\ column'[t] <= Len(Columns(t)) => col < Columns(t)[column'[t]]

\* It is no entry in use.
LEMMA PutIsNew ==
    ASSUME ApartInv, AscendInv, NEW t \in Thread
    PROVE  /\ NewEntry(t) = <<t, used[t] + 1>> /\ used[t] \in Nat
           /\ NewEntry(t) \notin DOMAIN heap /\ NewEntry(t) # NULL
<1>1. NewEntry(t) = <<t, used[t] + 1>> /\ used[t] \in Nat
  BY DEF NewEntry, ListsOK, ApartInv, TypeInv, TypeOK
<1>2. NewEntry(t)[1] = t /\ NewEntry(t)[2] = used[t] + 1
  BY <1>1
<1>3. NewEntry(t) \notin DOMAIN heap
  BY <1>1, <1>2 DEF AscendInv, PoolsFresh
<1>4. NewEntry(t) # NULL
  BY <1>1 DEF NULL, Thread
<1> QED
  BY <1>1, <1>3, <1>4

\* The entries a thread puts it between are of its row, and no other thread is at them.
LEMMA PutInRow ==
    ASSUME ApartInv, AscendInv, NEW t \in Thread,
           NEW prev, NEW col, NEW next, Puts(t, prev, col, next),
           NEW owner \in [DOMAIN heap -> Row], OwnedBy(owner)
    PROVE  /\ prev # NULL => owner[prev] = RowOf(t)
           /\ next # NULL => owner[next] = RowOf(t)
           /\ \A s \in Thread \ {t} : pc[s] = "search" =>
                pEntry[s] \in DOMAIN heap /\ pEntry[s] # prev /\ pEntry[s] # NewEntry(t)
<1>1. ListsOK /\ TasksOK /\ NULL \notin DOMAIN heap /\ RowOf(t) \in Row
  BY NullIsNoEntry, CallAtHand DEF ApartInv, TypeInv, TypeOK, TasksOK, Puts
<1>2. NewEntry(t) \notin DOMAIN heap
  BY PutIsNew
<1>3. prev # NULL => owner[prev] = RowOf(t)
  BY DEF Puts, Between, OwnedBy
<1>4. next # NULL => owner[next] = RowOf(t)
  <2>1. pc[t] = "search" => pEntry[t] \in DOMAIN heap /\ cEntry[t] = heap[pEntry[t]].Next
    BY DEF AscendInv, PlaceHeld
  <2> QED
    BY <1>1, <2>1 DEF Puts, Between, OwnedBy
<1>5. ASSUME NEW s \in Thread \ {t}, pc[s] = "search"
      PROVE  pEntry[s] \in DOMAIN heap /\ pEntry[s] # prev /\ pEntry[s] # NewEntry(t)
  <2>1. pEntry[s] \in DOMAIN heap /\ owner[pEntry[s]] = RowOf(s)
    BY <1>5 DEF AscendInv, PlaceHeld, OwnedBy
  <2>2. RowOf(s) # RowOf(t)
    <3>1. RowExclusive
      BY ApartGivesExclusive
    <3> QED
      BY <1>1, <1>5, <3>1 DEF RowExclusive, InRow, Puts
  <2> QED
    BY <1>1, <1>2, <1>3, <2>1, <2>2
<1> QED
  BY <1>3, <1>4, <1>5

\* It belongs to the row, the others belong where they did.
LEMMA OwnedPut ==
    ASSUME ApartInv, AscendInv, NEW t \in Thread,
           NEW prev, NEW col, NEW next, Puts(t, prev, col, next),
           NEW owner \in [DOMAIN heap -> Row], OwnedBy(owner),
           NEW owner1 \in [DOMAIN heap' -> Row],
           owner1[NewEntry(t)] = RowOf(t), \A e \in DOMAIN heap : owner1[e] = owner[e]
    PROVE  OwnedBy(owner1)'
<1> DEFINE r == RowOf(t)
           n == NewEntry(t)
<1>1. ListsOK /\ TasksOK /\ NULL \notin DOMAIN heap /\ r \in Row
  BY NullIsNoEntry, CallAtHand DEF ApartInv, TypeInv, TypeOK, TasksOK, Puts
<1>2. n \notin DOMAIN heap /\ n # NULL
  BY PutIsNew
<1>3. /\ DOMAIN heap' = DOMAIN heap \cup {n}
      /\ heap'[n].Next = next
      /\ \A e \in DOMAIN heap : heap'[e].Next = IF e = prev THEN n ELSE heap[e].Next
      /\ next \in DOMAIN heap \cup {NULL} /\ prev \in DOMAIN heap \cup {NULL}
  BY <1>2 DEF Puts, LinkedIn, Pointer
<1>4. /\ prev # NULL => owner[prev] = r
      /\ next # NULL => owner[next] = r
      /\ \A s \in Thread \ {t} : pc[s] = "search" =>
           pEntry[s] \in DOMAIN heap /\ pEntry[s] # prev /\ pEntry[s] # n
  BY PutInRow
<1>5. /\ pEntry'[t] = n /\ UNCHANGED tasks
      /\ \A s \in Thread \ {t} : pc'[s] = pc[s] /\ pEntry'[s] = pEntry[s]
      /\ Between(t, prev, next)
  BY DEF Puts
<1> HIDE DEF n, r
<1>6. owner1[n] = r /\ \A e \in DOMAIN heap : owner1[e] = owner[e]
  BY DEF n, r
<1>7. ASSUME NEW q \in Row, head'[q] # NULL PROVE owner1[head'[q]] = q
  <2>1. head[q] \in DOMAIN heap \cup {NULL}
    BY <1>1 DEF ListsOK
  <2>2. (head'[q] = n /\ q = r) \/ head'[q] = head[q]
    BY <1>1, <1>5 DEF Between, ListsOK, n, r
  <2> QED
    BY <1>6, <1>7, <2>1, <2>2 DEF OwnedBy
<1>8. ASSUME NEW e \in DOMAIN heap', heap'[e].Next # NULL
      PROVE  owner1[heap'[e].Next] = owner1[e]
  <2>1. CASE e = n
    BY <1>3, <1>4, <1>6, <1>8, <2>1
  <2>2. CASE e = prev /\ e \in DOMAIN heap
    BY <1>1, <1>3, <1>4, <1>6, <2>2
  <2>3. CASE e \in DOMAIN heap /\ e # prev
    <3>1. heap'[e].Next = heap[e].Next /\ heap[e].Next \in DOMAIN heap
      BY <1>1, <1>3, <1>8, <2>3 DEF ListsOK
    <3> QED
      BY <1>6, <1>8, <2>3, <3>1 DEF OwnedBy
  <2> QED
    BY <1>3, <2>1, <2>2, <2>3
<1>9. ASSUME NEW s \in Thread, pc'[s] = "search"
      PROVE  owner1[pEntry'[s]] = Head(tasks'[s]).row
  <2>1. CASE s = t
    BY <1>5, <1>6, <2>1 DEF r, RowOf
  <2>2. CASE s # t
    BY <1>4, <1>5, <1>6, <1>9, <2>2 DEF OwnedBy, RowOf
  <2> QED
    BY <2>1, <2>2
<1> QED
  BY <1>7, <1>8, <1>9 DEF OwnedBy, RowOf

LEMMA AscendInsert ==
    ASSUME ApartInv, AscendInv, CallsRise', NEW t \in Thread,
           NEW prev, NEW col, NEW next, Puts(t, prev, col, next)
    PROVE  AscendInv'
<1> DEFINE r == RowOf(t)
           n == NewEntry(t)
<1>1. ListsOK /\ TasksOK /\ NULL \notin DOMAIN heap /\ r \in Row
  BY NullIsNoEntry, CallAtHand DEF ApartInv, TypeInv, TypeOK, TasksOK, Puts
<1>2. n = <<t, used[t] + 1>> /\ used[t] \in Nat /\ n \notin DOMAIN heap /\ n # NULL
  BY PutIsNew
<1>3. /\ DOMAIN heap' = DOMAIN heap \cup {n}
      /\ heap'[n].Index = col /\ heap'[n].Next = next
      /\ \A e \in DOMAIN heap : /\ heap'[e].Index = heap[e].Index
                                /\ heap'[e].Next = IF e = prev THEN n ELSE heap[e].Next
      /\ next \in DOMAIN heap \cup {NULL} /\ prev \in DOMAIN heap \cup {NULL}
  BY <1>2 DEF LinkedIn, Puts, Pointer
<1>4. /\ prev # NULL => heap[prev].Index < col
      /\ next # NULL => col < heap[next].Index
      /\ UNCHANGED tasks
      /\ used' = [used EXCEPT ![t] = used[t] + 1]
      /\ \A s \in Thread \ {t} : /\ pc'[s] = pc[s] /\ column'[s] = column[s]
                                 /\ pEntry'[s] = pEntry[s] /\ cEntry'[s] = cEntry[s]
      /\ pEntry'[t] = n /\ cEntry'[t] = next
      /\ column'[t] <= Len(Columns(t)) => col < Columns(t)[column'[t]]
  BY DEF Puts
<1> HIDE DEF n, r
<1>5. PoolsFresh'
  <2> SUFFICES ASSUME NEW e \in DOMAIN heap' PROVE e[2] <= used'[e[1]]
    BY DEF PoolsFresh
  <2>1. CASE e = n
    BY <1>1, <1>2, <1>4, <2>1 DEF ListsOK
  <2>2. CASE e \in DOMAIN heap
    <3>1. e[2] <= used[e[1]] /\ e[1] \in Thread /\ e[2] \in Nat
      BY <1>1, <2>2 DEF AscendInv, PoolsFresh, ListsOK, Entry
    <3>2. used[e[1]] \in Nat /\ used'[e[1]] = IF e[1] = t THEN used[t] + 1 ELSE used[e[1]]
      BY <1>1, <1>4, <3>1 DEF ListsOK
    <3> QED
      BY <3>1, <3>2
  <2> QED
    BY <1>3, <2>1, <2>2
<1>6. ListsAscend'
  <2> SUFFICES ASSUME NEW e \in DOMAIN heap', heap'[e].Next # NULL
               PROVE  heap'[e].Index < heap'[heap'[e].Next].Index
    BY DEF ListsAscend
  <2>1. CASE e = n
    BY <1>3, <1>4, <2>1
  <2>2. CASE e = prev /\ e \in DOMAIN heap
    BY <1>1, <1>3, <1>4, <2>2
  <2>3. CASE e \in DOMAIN heap /\ e # prev
    <3>1. heap'[e].Next = heap[e].Next /\ heap[e].Next \in DOMAIN heap
      BY <1>1, <1>3, <2>3 DEF ListsOK
    <3> QED
      BY <1>3, <2>3, <3>1 DEF AscendInv, ListsAscend
  <2> QED
    BY <1>3, <2>1, <2>2, <2>3
<1>7. PICK owner \in [DOMAIN heap -> Row] : OwnedBy(owner)
  BY DEF AscendInv, EntriesOwned
<1>8. \A s \in Thread \ {t} : pc[s] = "search" =>
          pEntry[s] \in DOMAIN heap /\ pEntry[s] # prev /\ pEntry[s] # n
  BY <1>7, PutInRow DEF n
<1>9. EntriesOwned'
  <2>1. PICK owner1 \in [DOMAIN heap' -> Row] :
          owner1[n] = r /\ \A e \in DOMAIN heap : owner1[e] = owner[e]
    <3> DEFINE extended == [e \in DOMAIN heap' |-> IF e = n THEN r ELSE owner[e]]
    <3>1. extended \in [DOMAIN heap' -> Row]
      BY <1>1, <1>3, <1>7
    <3>2. extended[n] = r /\ \A e \in DOMAIN heap : extended[e] = owner[e]
      BY <1>2, <1>3
    <3> QED
      BY <3>1, <3>2
  <2>2. OwnedBy(owner1)'
    BY <1>7, <2>1, OwnedPut DEF n, r
  <2> QED
    BY <2>1, <2>2 DEF EntriesOwned
<1>10. ASSUME NEW s \in Thread PROVE PlaceHeld(s)'
  <2>1. CASE s = t
    BY <1>3, <1>4, <2>1 DEF PlaceHeld, ColumnsLeft, Columns, n
  <2>2. CASE s # t
    <3>1. PlaceHeld(s)
      BY DEF AscendInv
    <3> QED
      BY <1>3, <1>4, <1>8, <2>2, <3>1 DEF PlaceHeld, ColumnsLeft, Columns
  <2> QED
    BY <2>1, <2>2
<1> QED
  BY <1>5, <1>6, <1>9, <1>10 DEF AscendInv

\* What a step of a thread within a call leaves to the other threads.
LEMMA OthersKept ==
    ASSUME TypeInv, NEW t \in Thread,
           NewHead(t) \/ StartSearch(t) \/ Advance(t) \/ Skip(t) \/ Insert(t)
    PROVE  \A s \in Thread \ {t} : /\ pc'[s] = pc[s] /\ column'[s] = column[s]
                                   /\ pEntry'[s] = pEntry[s] /\ cEntry'[s] = cEntry[s]
  BY DEF TypeInv, TypeOK, TasksOK, ListsOK, NewHead, StartSearch, Advance, Skip, Insert

\* The columns of the call under way ascend.
LEMMA ColumnsAscend ==
    ASSUME TypeInv, CallsRise, NEW t \in Thread, pc[t] # "call"
    PROVE  \A i, j \in 1 .. Len(Columns(t)) : i < j => Columns(t)[i] < Columns(t)[j]
<1>1. Rising(Head(tasks[t]).columns) /\ Columns(t) \in Seq(Row)
  BY CallAtHand DEF TypeInv, TypeOK, TasksOK, CallsRise
<1> QED
  BY <1>1 DEF Rising, Columns

LEMMA StartSearchMoves ==
    ASSUME TypeInv, AscendInv, NEW t \in Thread, StartSearch(t)
    PROVE  MovesOn(t)
<1> DEFINE h == head[RowOf(t)]
           c == Columns(t)
<1>1. /\ pc[t] # "call" /\ UNCHANGED <<tasks, listvars>>
      /\ h \in DOMAIN heap /\ heap[h].Index <= c[1]
  <2>1. pc[t] # "call" /\ UNCHANGED <<tasks, listvars>> /\ h # NULL /\ ~ (heap[h].Index > c[1])
    BY DEF StartSearch, BeforeHead
  <2>2. h \in DOMAIN heap /\ heap[h].Index \in Nat /\ c[1] \in Nat
    BY <2>1, PlaceAtHand DEF TypeInv, TypeOK, Row
  <2> QED
    BY <2>1, <2>2
<1>2. /\ pEntry'[t] = h /\ cEntry'[t] = heap[h].Next
      /\ column'[t] = IF heap[h].Index = c[1] THEN 2 ELSE 1
  BY DEF StartSearch, TypeInv, TypeOK, TasksOK, ListsOK
<1>3. column'[t] <= Len(c) => heap[h].Index < c[column'[t]]
  <2>1. /\ heap[h].Index \in Nat /\ Len(c) \in Nat
        /\ \A i \in 1 .. Len(c) : c[i] \in Nat
    BY <1>1, PlaceAtHand DEF TypeInv, TypeOK, Row
  <2>2. 2 <= Len(c) => c[1] < c[2]
    BY <1>1, <2>1, ColumnsAscend DEF AscendInv
  <2> QED
    BY <1>1, <1>2, <2>1, <2>2
<1> QED
  BY <1>1, <1>2, <1>3, OthersKept DEF MovesOn

LEMMA SearchMoves ==
    ASSUME TypeInv, AscendInv, NEW t \in Thread, Advance(t) \/ Skip(t)
    PROVE  MovesOn(t)
<1> DEFINE e == cEntry[t]
           c == Columns(t)
<1>1. /\ pc[t] = "search" /\ UNCHANGED <<tasks, listvars>> /\ ColumnsLeft(t)
      /\ e \in DOMAIN heap
  BY PlaceAtHand DEF Advance, Skip, Behind, Present, TypeInv, TypeOK
<1>2. pEntry'[t] = e /\ cEntry'[t] = heap[e].Next /\ e = heap[pEntry[t]].Next
  BY <1>1 DEF Advance, Skip, NextEntry, TypeInv, TypeOK, ListsOK, AscendInv, PlaceHeld
<1>3. column'[t] <= Len(c) => heap[e].Index < c[column'[t]]
  <2>1. /\ heap[e].Index \in Nat /\ Len(c) \in Nat /\ column[t] \in 1 .. Len(c)
        /\ \A i \in 1 .. Len(c) : c[i] \in Nat
    BY <1>1, PlaceAtHand DEF TypeInv, TypeOK, Row, ColumnsLeft
  <2>2. CASE Advance(t)
    BY <1>1, <2>1, <2>2 DEF Advance, Behind, TypeInv, TypeOK, TasksOK
  <2>3. CASE Skip(t)
    <3>1. column'[t] = column[t] + 1 /\ heap[e].Index = c[column[t]]
      BY <2>3 DEF Skip, Present, TypeInv, TypeOK, TasksOK
    <3>2. column[t] + 1 <= Len(c) => c[column[t]] < c[column[t] + 1]
      BY <1>1, <2>1, ColumnsAscend DEF AscendInv
    <3> QED
      BY <3>1, <3>2
  <2> QED
    BY <2>2, <2>3
<1> QED
  BY <1>1, <1>2, <1>3, OthersKept DEF MovesOn

\* NewHead puts an entry before the row, Insert between the two of its place.
LEMMA NewHeadPuts ==
    ASSUME ApartInv, AscendInv, NEW t \in Thread, NewHead(t)
    PROVE  Puts(t, NULL, Columns(t)[1], head[RowOf(t)])
<1> DEFINE next == head[RowOf(t)]
           c    == Columns(t)
<1>1. ListsOK /\ TasksOK /\ TypeInv
  BY DEF ApartInv, TypeInv, TypeOK
<1>2. /\ pc[t] # "call" /\ UNCHANGED tasks
      /\ heap' = Linked(t, NULL, c[1], next)
      /\ head' = [head EXCEPT ![RowOf(t)] = NewEntry(t)]
      /\ used' = [used EXCEPT ![t] = used[t] + 1]
      /\ pEntry'[t] = NewEntry(t) /\ cEntry'[t] = next /\ column'[t] = 2
      /\ next # NULL => heap[next].Index > c[1]
  BY <1>1 DEF NewHead, BeforeHead, TasksOK, ListsOK
<1>3. /\ c[1] \in Row /\ NULL \in Pointer /\ next \in Pointer
      /\ 2 <= Len(c) => c[1] < c[2]
  BY <1>1, <1>2, PlaceAtHand, ColumnsAscend DEF Pointer, AscendInv
<1>4. next # NULL => c[1] < heap[next].Index
  BY <1>1, <1>2, <1>3, PlaceAtHand DEF Pointer, Row
<1>5. LinkedIn(heap', t, NULL, c[1], next)
  <2>1. LinkedIn(Linked(t, NULL, c[1], next), t, NULL, c[1], next)
    BY <1>1, <1>3, LinkedType, Zenon
  <2> QED
    BY <1>2, <2>1
<1>6. Between(t, NULL, next)
  BY <1>2 DEF Between
<1>7. column'[t] <= Len(c) => c[1] < c[column'[t]]
  BY <1>2, <1>3
<1>8. \A s \in Thread \ {t} : /\ pc'[s] = pc[s] /\ column'[s] = column[s]
                              /\ pEntry'[s] = pEntry[s] /\ cEntry'[s] = cEntry[s]
  BY <1>1, OthersKept
<1> HIDE DEF next, c
<1> QED
  BY <1>2, <1>3, <1>4, <1>5, <1>6, <1>7, <1>8 DEF c, next, Puts

LEMMA InsertPuts ==
    ASSUME ApartInv, AscendInv, NEW t \in Thread, Insert(t)
    PROVE  Puts(t, pEntry[t], Columns(t)[column[t]], cEntry[t])
<1> DEFINE prev == pEntry[t]
           next == cEntry[t]
           c    == Columns(t)
           k    == column[t]
<1>1. ListsOK /\ TasksOK /\ TypeInv
  BY DEF ApartInv, TypeInv, TypeOK
<1>2. /\ pc[t] = "search" /\ UNCHANGED <<tasks, head>>
      /\ heap' = Linked(t, prev, c[k], next)
      /\ used' = [used EXCEPT ![t] = used[t] + 1]
      /\ pEntry'[t] = NewEntry(t) /\ cEntry'[t] = next /\ column'[t] = k + 1
      /\ ColumnsLeft(t) /\ ~ Behind(t) /\ ~ Present(t)
  BY <1>1 DEF Insert, TasksOK, ListsOK
<1>3. /\ k \in 1 .. Len(c) /\ Len(c) \in Nat
      /\ \A i \in 1 .. Len(c) : c[i] \in Row /\ c[i] \in Nat
      /\ prev \in Pointer /\ next \in Pointer
      /\ \A e \in DOMAIN heap : heap[e].Index \in Nat
  BY <1>1, <1>2, PlaceAtHand DEF Pointer, Row, ColumnsLeft
<1>4. heap[prev].Index < c[k]
  BY <1>2 DEF AscendInv, PlaceHeld
<1>5. next # NULL => c[k] < heap[next].Index
  BY <1>2, <1>3 DEF Behind, Present, Pointer
<1>6. LinkedIn(heap', t, prev, c[k], next)
  <2>1. LinkedIn(Linked(t, prev, c[k], next), t, prev, c[k], next)
    <3>1. c[k] \in Row
      BY <1>3
    <3> QED
      BY <1>1, <1>3, <3>1, LinkedType, Zenon
  <2> QED
    BY <1>2, <2>1
<1>7. Between(t, prev, next)
  BY <1>2 DEF Between
<1>8. column'[t] <= Len(c) => c[k] < c[column'[t]]
  <2>1. k + 1 <= Len(c) => c[k] < c[k + 1]
    BY <1>1, <1>2, <1>3, ColumnsAscend DEF AscendInv
  <2> QED
    BY <1>2, <2>1
<1>9. \A s \in Thread \ {t} : /\ pc'[s] = pc[s] /\ column'[s] = column[s]
                              /\ pEntry'[s] = pEntry[s] /\ cEntry'[s] = cEntry[s]
  BY <1>1, OthersKept
<1>10. c[k] \in Row /\ pc[t] # "call"
  BY <1>2, <1>3
<1> HIDE DEF prev, next, c, k
<1> QED
  BY <1>2, <1>3, <1>4, <1>5, <1>6, <1>7, <1>8, <1>9, <1>10 DEF prev, next, c, k, Puts

\* What a step does to the lists.
LEMMA ListStep ==
    ASSUME ApartInv, AscendInv, [Next]_vars
    PROVE  \/ OutsideSearch
           \/ \E t \in Thread : (StartSearch(t) \/ Advance(t) \/ Skip(t)) /\ MovesOn(t)
           \/ \E t \in Thread : NewHead(t) /\ Puts(t, NULL, Columns(t)[1], head[RowOf(t)])
           \/ \E t \in Thread :
                Insert(t) /\ Puts(t, pEntry[t], Columns(t)[column[t]], cEntry[t])
<1>1. TypeInv
  BY DEF ApartInv
<1>2. ASSUME NEW t \in Thread, StartSearch(t) \/ Advance(t) \/ Skip(t) PROVE MovesOn(t)
  BY <1>1, <1>2, StartSearchMoves, SearchMoves
<1>3. ASSUME NEW t \in Thread, NewHead(t)
      PROVE  Puts(t, NULL, Columns(t)[1], head[RowOf(t)])
  BY <1>3, NewHeadPuts
<1>4. ASSUME NEW t \in Thread, Insert(t)
      PROVE  Puts(t, pEntry[t], Columns(t)[column[t]], cEntry[t])
  BY <1>4, InsertPuts
<1>5. ASSUME NEW t \in Thread, TakeElement(t) PROVE OutsideSearch
  BY <1>1, <1>5 DEF OutsideSearch, TakeElement, Idle, TypeInv, TypeOK, TasksOK
<1>6. ASSUME NEW t \in Thread, LockRow(t) \/ UnlockRow(t) PROVE OutsideSearch
  BY <1>1, <1>6 DEF OutsideSearch, LockRow, UnlockRow, TypeInv, TypeOK, TasksOK, ListsOK
<1>7. CASE NextColour \/ Finish \/ UNCHANGED vars
  BY <1>7 DEF OutsideSearch, NextColour, Finish, vars, threadvars
<1>8. CASE EndRegion
  BY <1>8 DEF OutsideSearch, EndRegion, ColourDone, Idle
<1> QED
  BY <1>2, <1>3, <1>4, <1>5, <1>6, <1>7, <1>8 DEF Next, ThreadStep, Terminated

LEMMA AscendStep ==
    ASSUME Distinct
    PROVE  ApartInv /\ AscendInv /\ [Next]_vars => AscendInv'
<1> SUFFICES ASSUME ApartInv, AscendInv, [Next]_vars PROVE AscendInv'
  OBVIOUS
<1>1. TypeInv /\ CallsRise'
  BY CallsKeepRising DEF ApartInv, AscendInv
<1>2. CASE OutsideSearch
  BY <1>1, <1>2, AscendOutside
<1>3. ASSUME NEW t \in Thread, MovesOn(t) PROVE AscendInv'
  BY <1>1, <1>3, AscendMove
<1>4. ASSUME NEW t \in Thread, NEW prev, NEW col, NEW next, Puts(t, prev, col, next)
      PROVE  AscendInv'
  BY <1>1, <1>4, AscendInsert
<1> QED
  BY <1>2, <1>3, <1>4, ListStep

\* The columns of a row grow along its list, whatever the threads do, if the unknowns of
\* an element are all different and no two elements of a colour have one in common.
THEOREM ListsStaySorted ==
    ASSUME ColoursApart, Distinct
    PROVE  Spec => []ListsAscend
<1>1. Init => ApartInv /\ AscendInv
  BY ApartInit, AscendInit
<1>2. ApartInv /\ AscendInv /\ [Next]_vars => ApartInv' /\ AscendInv'
  BY ApartStep, AscendStep
<1>3. AscendInv => ListsAscend
  BY DEF AscendInv
<1> QED
  BY <1>1, <1>2, <1>3, PTL DEF Spec
=============================================================================
