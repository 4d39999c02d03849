--------------------------- MODULE ListMatrixArray ---------------------------
(***************************************************************************)
(* The multithreaded assembly of the sparsity pattern of a matrix          *)
(* (fem/src/ListMatrixArray.F90, MakeListMatrixArray in ElementUtils.F90). *)
(*                                                                         *)
(* A row is a linked list of entries in ascending order of their columns.  *)
(* The threads of an OpenMP region take the elements of a mesh and merge   *)
(* the unknowns of each into the rows of all of them.  If the mesh is not  *)
(* coloured a lock per row keeps threads apart.  If it is, the elements of *)
(* one colour are done by all threads without locks, then those of the     *)
(* next.  After the region one thread adds connections one by one.         *)
(*                                                                         *)
(* A thread follows pointers into memory that others write, so a step is   *)
(* one move of its pointers or one insertion, and nothing in the model     *)
(* keeps two threads from the same row but locks and colours.              *)
(***************************************************************************)
EXTENDS Integers, Sequences, FiniteSets

CONSTANTS
    Threads,       \* nthr
    LocalNodes,    \* the number of rows
    Element,       \* the active elements
    Indexes,       \* Indexes[e]: the unknowns of element e, sorted
    Colourings,    \* the ways to colour: sequences of sets of elements
    Connections    \* the calls AddEntry(row, col) after the region, <<row, col>>

Thread == 1 .. Threads
Row == 1 .. LocalNodes

ASSUME SizeAssumption == Threads \in Nat \ {0} /\ LocalNodes \in Nat

\* InsertionSort has sorted the unknowns.  Some may be the same: unknowns of periodic
\* nodes are numbered alike ('Apply Conforming BCs').
ASSUME IndexAssumption ==
    /\ Indexes \in [Element -> Seq(Row)]
    /\ \A e \in Element : \A i, j \in DOMAIN Indexes[e] : i < j => Indexes[e][i] <= Indexes[e][j]
    /\ Connections \in Seq(Row \X Row)

\* Every element has one colour, which is the only one if the mesh is not coloured.
ASSUME ColouringAssumption ==
    \A c \in Colourings :
        /\ c \in Seq(SUBSET Element) /\ c # <<>>
        /\ \A e \in Element : \E i \in DOMAIN c : e \in c[i]
        /\ \A i, j \in DOMAIN c : i # j => c[i] \cap c[j] = {}

Unknowns(e) == {Indexes[e][i] : i \in DOMAIN Indexes[e]}

\* The unknowns of an element are all different.
Distinct ==
    \A e \in Element : \A i, j \in DOMAIN Indexes[e] : i < j => Indexes[e][i] < Indexes[e][j]

\* Of several colours, each has elements without an unknown in common.  That is what
\* GraphColour gives for nodes, and so for unknowns if each node has its own.
ColoursApart ==
    \A c \in Colourings : Len(c) > 1 =>
        \A i \in DOMAIN c : \A d, e \in c[i] : d # e => Unknowns(d) \cap Unknowns(e) = {}

VARIABLES
    colours,   \* the elements of each colour, bulk and boundary; never changes
    phase,     \* "region", "after" it, or "done"
    colour,    \* CurrentColour
    todo,      \* the elements of the colour that no thread has taken
    tasks,     \* tasks[t]: the calls that thread t has to make, the first is under way
    pc,        \* pc[t]: "call", in the call "first" and "search"
    column,    \* centry: the place of the next column of the task
    pEntry,    \* PEntryPtr and CEntryPtr of each thread: its place in the row is
    cEntry,    \* between these two entries
    head,      \* Rows(row) % Head
    degree,    \* Rows(row) % Degree
    heap,      \* the entries that are in use, each with Index and Next
    used,      \* used[t]: how many of them come from the pool of thread t
    lock       \* lock[row]: the thread that holds RowLocks(row), 0 for none

threadvars == <<tasks, pc, column, pEntry, cEntry>>
listvars == <<head, degree, heap, used>>
vars == <<colours, phase, colour, todo, threadvars, listvars, lock>>

-----------------------------------------------------------------------------
NULL == <<0, 0>>

\* An entry is known by its pool and its place there.
Entry == Thread \X (Nat \ {0})

\* A call of AddEntries(row, Indexes).  AddEntry(row, col) does the same as the call
\* with one column.
Task == [row : Row, columns : Seq(Row) \ {<<>>}]

\* The unknowns of an element are all added to the rows of all of them.
Calls(e) == [i \in DOMAIN Indexes[e] |-> [row |-> Indexes[e][i], columns |-> Indexes[e]]]

NeedLocking == Len(colours) = 1 /\ Threads > 1

\* The calls after the region do not ask for a lock.
Locking == NeedLocking /\ phase = "region"

Idle(t) == pc[t] = "call" /\ tasks[t] = <<>>

Init ==
    /\ colours \in Colourings
    /\ phase = "region"
    /\ colour = 1
    /\ todo = colours[1]
    /\ tasks = [t \in Thread |-> <<>>]
    /\ pc = [t \in Thread |-> "call"]
    /\ column = [t \in Thread |-> 1]
    /\ pEntry = [t \in Thread |-> NULL]
    /\ cEntry = [t \in Thread |-> NULL]
    /\ head = [r \in Row |-> NULL]
    /\ degree = [r \in Row |-> 0]
    /\ heap = [e \in {} |-> NULL]
    /\ used = [t \in Thread |-> 0]
    /\ lock = [r \in Row |-> 0]

-----------------------------------------------------------------------------
(* The loop over the elements. *)

\* A thread takes an element of the colour.  Any thread may take any: how the loop is
\* shared is not said in the code.
TakeElement(t) ==
    /\ phase = "region" /\ Idle(t)
    /\ \E e \in todo :
         /\ todo' = todo \ {e}
         /\ tasks' = [tasks EXCEPT ![t] = Calls(e)]
    /\ UNCHANGED <<colours, phase, colour, pc, column, pEntry, cEntry, listvars, lock>>

\* Slip: the threads do not wait for each other at the end of the loop.
SomeoneDone == phase = "region" /\ todo = {} /\ \E t \in Thread : Idle(t)

\* All threads have come to the end of the loop.
ColourDone == phase = "region" /\ todo = {} /\ \A t \in Thread : Idle(t)

NextColour ==
    /\ ColourDone
    /\ colour < Len(colours)
    /\ colour' = colour + 1
    /\ todo' = colours[colour + 1]
    /\ UNCHANGED <<colours, phase, threadvars, listvars, lock>>

\* The first thread goes on alone.
EndRegion ==
    /\ ColourDone
    /\ colour = Len(colours)
    /\ phase' = "after"
    /\ tasks' = [tasks EXCEPT ![1] =
           [i \in DOMAIN Connections |-> [row |-> Connections[i][1], columns |-> <<Connections[i][2]>>]]]
    /\ UNCHANGED <<colours, colour, todo, pc, column, pEntry, cEntry, listvars, lock>>

Finish ==
    /\ phase = "after" /\ Idle(1)
    /\ phase' = "done"
    /\ UNCHANGED <<colours, colour, todo, threadvars, listvars, lock>>

-----------------------------------------------------------------------------
(* AddEntries. *)

RowOf(t) == Head(tasks[t]).row
Columns(t) == Head(tasks[t]).columns

\* The entry that GetListEntry takes from the pool of the thread.
NewEntry(t) == <<t, used[t] + 1>>

\* It is put before entry next.  Entry prev, if there is one, is made to point to it.
Linked(t, prev, col, next) ==
    [e \in DOMAIN heap \cup {NewEntry(t)} |->
        IF e = NewEntry(t) THEN [Index |-> col, Next |-> next]
        ELSE IF e = prev THEN [heap[e] EXCEPT !.Next = NewEntry(t)]
        ELSE heap[e]]

LockRow(t) ==
    /\ pc[t] = "call" /\ tasks[t] # <<>>
    /\ IF Locking THEN lock[RowOf(t)] = 0 /\ lock' = [lock EXCEPT ![RowOf(t)] = t]
                  ELSE UNCHANGED lock
    /\ pc' = [pc EXCEPT ![t] = "first"]
    /\ UNCHANGED <<colours, phase, colour, todo, tasks, column, pEntry, cEntry, listvars>>

\* The first column comes before all that are in the row.
BeforeHead(t) ==
    LET h == head[RowOf(t)] IN h # NULL => heap[h].Index > Columns(t)[1]

\* Slip: a new head is always counted as the only one.
DegreeOne(r) == 1

DegreeWithHead(r) == IF head[r] = NULL THEN 1 ELSE degree[r] + 1

NewHead(t) ==
    /\ pc[t] = "first" /\ BeforeHead(t)
    /\ LET r == RowOf(t)
       IN  /\ heap' = Linked(t, NULL, Columns(t)[1], head[r])
           /\ head' = [head EXCEPT ![r] = NewEntry(t)]
           /\ degree' = [degree EXCEPT ![r] = DegreeWithHead(r)]
           /\ cEntry' = [cEntry EXCEPT ![t] = head[r]]
    /\ pEntry' = [pEntry EXCEPT ![t] = NewEntry(t)]
    /\ used' = [used EXCEPT ![t] = used[t] + 1]
    /\ column' = [column EXCEPT ![t] = 2]
    /\ pc' = [pc EXCEPT ![t] = "search"]
    /\ UNCHANGED <<colours, phase, colour, todo, tasks, lock>>

\* Otherwise the search begins behind the head, and with the second column if the head
\* is the entry of the first.
StartSearch(t) ==
    /\ pc[t] = "first" /\ ~ BeforeHead(t)
    /\ LET h == head[RowOf(t)]
       IN  /\ pEntry' = [pEntry EXCEPT ![t] = h]
           /\ cEntry' = [cEntry EXCEPT ![t] = heap[h].Next]
           /\ column' = [column EXCEPT ![t] = IF heap[h].Index = Columns(t)[1] THEN 2 ELSE 1]
    /\ pc' = [pc EXCEPT ![t] = "search"]
    /\ UNCHANGED <<colours, phase, colour, todo, tasks, listvars, lock>>

\* Slip: the end of the row is the end of the search.
ColumnsLeftInRow(t) == column[t] <= Len(Columns(t)) /\ cEntry[t] # NULL

ColumnsLeft(t) == column[t] <= Len(Columns(t))

\* Slip: an entry with the same column is passed over.
BehindOrAt(t) == cEntry[t] # NULL /\ heap[cEntry[t]].Index <= Columns(t)[column[t]]

\* The place for the column is further behind.
Behind(t) == cEntry[t] # NULL /\ heap[cEntry[t]].Index < Columns(t)[column[t]]

\* The column has an entry.
Present(t) == cEntry[t] # NULL /\ heap[cEntry[t]].Index = Columns(t)[column[t]]

\* Slip: the pointer is left where it is.
Waiting(t) == cEntry[t]

NextEntry(t) == heap[cEntry[t]].Next

Advance(t) ==
    /\ pc[t] = "search" /\ ColumnsLeft(t) /\ Behind(t)
    /\ pEntry' = [pEntry EXCEPT ![t] = cEntry[t]]
    /\ cEntry' = [cEntry EXCEPT ![t] = NextEntry(t)]
    /\ UNCHANGED <<colours, phase, colour, todo, tasks, pc, column, listvars, lock>>

\* No duplicates are added.
Skip(t) ==
    /\ pc[t] = "search" /\ ColumnsLeft(t) /\ ~ Behind(t) /\ Present(t)
    /\ pEntry' = [pEntry EXCEPT ![t] = cEntry[t]]
    /\ cEntry' = [cEntry EXCEPT ![t] = NextEntry(t)]
    /\ column' = [column EXCEPT ![t] = column[t] + 1]
    /\ UNCHANGED <<colours, phase, colour, todo, tasks, pc, listvars, lock>>

\* At the end of the row this is the loop over the rest of the columns.
Insert(t) ==
    /\ pc[t] = "search" /\ ColumnsLeft(t) /\ ~ Behind(t) /\ ~ Present(t)
    /\ heap' = Linked(t, pEntry[t], Columns(t)[column[t]], cEntry[t])
    /\ degree' = [degree EXCEPT ![RowOf(t)] = degree[RowOf(t)] + 1]
    /\ pEntry' = [pEntry EXCEPT ![t] = NewEntry(t)]
    /\ used' = [used EXCEPT ![t] = used[t] + 1]
    /\ column' = [column EXCEPT ![t] = column[t] + 1]
    /\ UNCHANGED <<colours, phase, colour, todo, tasks, pc, cEntry, head, lock>>

\* Slip: the way out at the end of the row forgets the lock.
ReleasedWithin(t) == IF cEntry[t] = NULL THEN lock ELSE [lock EXCEPT ![RowOf(t)] = 0]

Released(t) == [lock EXCEPT ![RowOf(t)] = 0]

UnlockRow(t) ==
    /\ pc[t] = "search" /\ ~ ColumnsLeft(t)
    /\ lock' = IF Locking THEN Released(t) ELSE lock
    /\ tasks' = [tasks EXCEPT ![t] = Tail(tasks[t])]
    /\ pc' = [pc EXCEPT ![t] = "call"]
    /\ column' = [column EXCEPT ![t] = 1]
    /\ pEntry' = [pEntry EXCEPT ![t] = NULL]
    /\ cEntry' = [cEntry EXCEPT ![t] = NULL]
    /\ UNCHANGED <<colours, phase, colour, todo, listvars>>

ThreadStep(t) ==
    \/ TakeElement(t) \/ LockRow(t) \/ NewHead(t) \/ StartSearch(t)
    \/ Advance(t) \/ Skip(t) \/ Insert(t) \/ UnlockRow(t)

Terminated == phase = "done" /\ UNCHANGED vars

Next ==
    \/ \E t \in Thread : ThreadStep(t)
    \/ NextColour \/ EndRegion \/ Finish
    \/ Terminated

Spec == Init /\ [][Next]_vars

\* Every thread runs on when it can, and a lock that is free is got by someone.
FairSpec ==
    /\ Spec
    /\ \A t \in Thread : WF_vars(ThreadStep(t))
    /\ WF_vars(NextColour) /\ WF_vars(EndRegion) /\ WF_vars(Finish)

-----------------------------------------------------------------------------
(* The lists of the rows. *)

\* Path(r)[n] is where n pointers lead from the head of row r.
Path(r) ==
    LET path[n \in 0 .. Cardinality(DOMAIN heap)] ==
            IF n = 0 THEN head[r]
            ELSE LET e == path[n - 1] IN IF e = NULL THEN NULL ELSE heap[e].Next
    IN  path

EntriesOf(r) ==
    LET path == Path(r)
    IN  {path[n] : n \in DOMAIN path} \ {NULL}

Pattern == UNION {{r} \X {heap[e].Index : e \in EntriesOf(r)} : r \in Row}

Required ==
    (UNION {Unknowns(e) \X Unknowns(e) : e \in Element})
        \cup {Connections[i] : i \in DOMAIN Connections}

-----------------------------------------------------------------------------
(* Properties. *)

InRow(t, r) == pc[t] # "call" /\ RowOf(t) = r

TasksOK ==
    /\ colours \in Colourings
    /\ phase \in {"region", "after", "done"}
    /\ colour \in 1 .. Len(colours)
    /\ todo \in SUBSET Element
    /\ tasks \in [Thread -> Seq(Task)]
    /\ pc \in [Thread -> {"call", "first", "search"}]
    /\ column \in [Thread -> Nat \ {0}]
    /\ \A t \in Thread : pc[t] # "call" => tasks[t] # <<>>

ListsOK ==
    /\ DOMAIN heap \subseteq Entry
    /\ \A e \in DOMAIN heap : heap[e] \in [Index : Row, Next : DOMAIN heap \cup {NULL}]
    /\ pEntry \in [Thread -> DOMAIN heap \cup {NULL}]
    /\ cEntry \in [Thread -> DOMAIN heap \cup {NULL}]
    /\ head \in [Row -> DOMAIN heap \cup {NULL}]
    /\ degree \in [Row -> Nat]
    /\ used \in [Thread -> Nat]

LocksOK ==
    /\ lock \in [Row -> Thread \cup {0}]
    /\ \A r \in Row : lock[r] # 0 => InRow(lock[r], r)

\* The types, and besides: a thread that is in a row has a call to make there, and who
\* holds a lock is in its row.
TypeOK == TasksOK /\ ListsOK /\ LocksOK

\* Two threads are never in the list of the same row, whether locks keep them apart or
\* colours do (NeedLocking in MakeListMatrixArray).
RowExclusive ==
    \A r \in Row : \A s, t \in Thread : InRow(s, r) /\ InRow(t, r) => s = t

\* Along a list the columns grow: it is sorted, it holds no column twice ("Do not add
\* duplicates", ListMatrixArray.F90) and it comes to an end.
ListsAscend ==
    \A e \in DOMAIN heap : heap[e].Next # NULL => heap[e].Index < heap[heap[e].Next].Index

\* When nobody is in a row its degree is the length of its list: the matrix is allocated
\* by the degrees and filled from the lists.
DegreeCounts ==
    \A r \in Row : (\A t \in Thread : ~ InRow(t, r)) => degree[r] = Cardinality(EntriesOf(r))

\* Entries are added one by one, none is ever lost, and in the end the lists hold what
\* the elements and the connections need.
PatternSpec ==
    INSTANCE SparsityPattern WITH pattern <- Pattern, complete <- phase = "done"
AssemblesPattern == PatternSpec!Spec

\* The assembly ends.
Termination == <>(phase = "done")
=============================================================================
